------------------------ MODULE RelayOutboundProofs -------------------------
(***************************************************************************)
(* What every method of the sending half preserves, for any number of      *)
(* requests, recipients and retained answers: types, one slot per open     *)
(* request, the retained list, and a timer for whatever is pending.        *)
(***************************************************************************)
EXTENDS RelayOutbound, SequenceTheorems, FiniteSetTheorems, TLAPS

-----------------------------------------------------------------------------
(* Lists: findIndex and splice *)

Elems(s) == {s[i] : i \in 1..Len(s)}
Distinct(s) == \A i, j \in 1..Len(s) : s[i] = s[j] => i = j

\* A non-empty set of naturals has a least member.
LEMMA LeastElement ==
  ASSUME NEW T \in SUBSET Nat, T # {}
  PROVE  \E x \in T : \A y \in T : x <= y
<1> DEFINE Below == {1..n : n \in T}
<1>1. Below \subseteq FiniteSubsetsOf(Nat)
  BY FS_Interval DEF FiniteSubsetsOf
<1>2. PICK B \in Below : \A A \in Below : <<A, B>> \notin StrictSubsetOrdering(Nat)
  <2>1. Below # {} OBVIOUS
  <2>2. IsWellFoundedOn(StrictSubsetOrdering(Nat), FiniteSubsetsOf(Nat))
    BY FS_StrictSubsetOrderingWellFounded
  <2> HIDE DEF Below
  <2> QED BY <1>1, <2>1, <2>2, WFMin
<1>3. PICK x \in T : B = 1..x
  OBVIOUS
<1>4. ASSUME NEW y \in T, y < x PROVE FALSE
  <2>1. 1..y \subseteq 1..x /\ x \in 1..x /\ x \notin 1..y
    BY <1>4
  <2>2. <<1..y, 1..x>> \in StrictSubsetOrdering(Nat)
    BY <2>1, <1>1, <1>3 DEF StrictSubsetOrdering
  <2> QED BY <2>2, <1>2, <1>3
<1> QED BY <1>4

\* findIndex finds the first position that fits, when there is one.
LEMMA FirstIndexFound ==
  ASSUME NEW S, NEW s \in Seq(S), NEW T, NEW k \in 1..Len(s), s[k] \in T
  PROVE  /\ FirstIndex(s, T) \in 1..Len(s)
         /\ s[FirstIndex(s, T)] \in T
         /\ \A j \in 1..(FirstIndex(s, T) - 1) : s[j] \notin T
<1> DEFINE Hits == {i \in 1..Len(s) : s[i] \in T}
<1>1. PICK i \in Hits : \A j \in Hits : i <= j
  <2>1. Hits \in SUBSET Nat /\ Hits # {} OBVIOUS
  <2> QED BY <2>1, LeastElement
<1>2. s[i] \in T /\ \A j \in 1..(i-1) : s[j] \notin T
  <2>1. \A j \in 1..(i-1) : j \in 1..Len(s) /\ ~(i <= j)
    BY LenProperties
  <2> QED BY <1>1, <2>1
<1> QED BY <1>2 DEF FirstIndex

\* splice(i, 1) drops one element and keeps the others in order.
LEMMA RemoveAtProperties ==
  ASSUME NEW S, NEW s \in Seq(S), NEW i \in 1..Len(s)
  PROVE  /\ RemoveAt(s, i) \in Seq(S)
         /\ Len(RemoveAt(s, i)) = Len(s) - 1
         /\ \A j \in 1..(Len(s) - 1) :
              RemoveAt(s, i)[j] = IF j < i THEN s[j] ELSE s[j + 1]
<1> DEFINE front == SubSeq(s, 1, i - 1)
           back == SubSeq(s, i + 1, Len(s))
<1>1. Len(s) \in Nat /\ i \in Nat /\ \A j \in 1..Len(s) : s[j] \in S
  BY LenProperties, ElementOfSeq
<1>2. /\ front \in Seq(S) /\ Len(front) = i - 1
      /\ \A j \in 1..(i - 1) : front[j] = s[j]
  <2>1. \A j \in 1..(i - 1) : s[j] \in S BY <1>1
  <2> QED BY <1>1, <2>1, SubSeqProperties
<1>3. /\ back \in Seq(S) /\ Len(back) = Len(s) - i
      /\ \A j \in 1..(Len(s) - i) : back[j] = s[i + j]
  <2>1. \A j \in (i + 1)..Len(s) : s[j] \in S BY <1>1
  <2>2. /\ back \in Seq(S)
        /\ Len(back) = IF i + 1 <= Len(s) THEN Len(s) - (i + 1) + 1 ELSE 0
        /\ \A j \in 1..(Len(s) - (i + 1) + 1) : back[j] = s[(i + 1) + j - 1]
    BY <1>1, <2>1, SubSeqProperties
  <2> HIDE DEF back
  <2> QED BY <1>1, <2>2
<1> HIDE DEF front, back
<1>4. /\ front \o back \in Seq(S)
      /\ Len(front \o back) = Len(front) + Len(back)
      /\ \A j \in 1..(Len(front) + Len(back)) :
           (front \o back)[j] = IF j <= Len(front) THEN front[j] ELSE back[j - Len(front)]
  BY <1>2, <1>3, ConcatProperties
<1>5. RemoveAt(s, i) = front \o back
  BY DEF RemoveAt, front, back
<1>6. \A j \in 1..(Len(s) - 1) :
        (front \o back)[j] = IF j < i THEN s[j] ELSE s[j + 1]
  <2> TAKE j \in 1..(Len(s) - 1)
  <2>1. CASE j < i
    <3>1. j \in 1..(i - 1) /\ j \in 1..(Len(front) + Len(back)) /\ j <= Len(front)
      BY <1>1, <1>2, <1>3, <2>1
    <3> QED BY <1>2, <1>4, <2>1, <3>1
  <2>2. CASE ~(j < i)
    <3>1. /\ j - Len(front) \in 1..(Len(s) - i) /\ i + (j - Len(front)) = j + 1
          /\ j \in 1..(Len(front) + Len(back)) /\ ~(j <= Len(front))
      BY <1>1, <1>2, <1>3, <2>2
    <3> QED BY <1>3, <1>4, <2>2, <3>1
  <2> QED BY <2>1, <2>2
<1>7. Len(front \o back) = Len(s) - 1
  BY <1>1, <1>2, <1>3, <1>4
<1> QED BY <1>4, <1>5, <1>6, <1>7

\* Of a list without repetitions, splice(i, 1) drops exactly the one element.
LEMMA RemoveAtElements ==
  ASSUME NEW S, NEW s \in Seq(S), NEW i \in 1..Len(s), Distinct(s)
  PROVE  /\ Distinct(RemoveAt(s, i))
         /\ Elems(RemoveAt(s, i)) = Elems(s) \ {s[i]}
<1> DEFINE t == RemoveAt(s, i)
<1>1. /\ Len(s) \in Nat /\ i \in Nat /\ Len(t) = Len(s) - 1
      /\ \A j \in 1..(Len(s) - 1) : t[j] = IF j < i THEN s[j] ELSE s[j + 1]
  BY RemoveAtProperties, LenProperties
<1> HIDE DEF t
<1>2. Distinct(t)
  BY <1>1 DEF Distinct
<1>3. Elems(t) \subseteq Elems(s) \ {s[i]}
  BY <1>1 DEF Elems, Distinct
<1>4. ASSUME NEW k \in 1..Len(s), k # i PROVE s[k] \in Elems(t)
  <2>1. CASE k < i
    <3>1. k \in 1..Len(t) /\ t[k] = s[k] BY <1>1, <2>1
    <3> QED BY <3>1 DEF Elems
  <2>2. CASE k > i
    <3>1. k - 1 \in 1..Len(t) /\ t[k - 1] = s[k] BY <1>1, <2>2
    <3> QED BY <3>1 DEF Elems
  <2> QED BY <1>1, <1>4, <2>1, <2>2
<1>5. Elems(s) \ {s[i]} \subseteq Elems(t)
  BY <1>4 DEF Elems
<1> QED BY <1>2, <1>3, <1>5 DEF t

\* Forgetting e: the list stays one, and loses exactly e.
LEMMA WithoutProperties ==
  ASSUME NEW S, NEW s \in Seq(S), NEW e, Distinct(s)
  PROVE  /\ Without(s, e) \in Seq(S)
         /\ Len(Without(s, e)) <= Len(s)
         /\ Distinct(Without(s, e))
         /\ Elems(Without(s, e)) = Elems(s) \ {e}
<1>0. Len(s) \in Nat BY LenProperties
<1>1. CASE \E i \in 1..Len(s) : s[i] = e
  <2>1. PICK k \in 1..Len(s) : s[k] \in {e} BY <1>1
  <2> DEFINE i == FirstIndex(s, {e})
  <2>2. i \in 1..Len(s) /\ s[i] = e
    <3>1. i \in 1..Len(s) /\ s[i] \in {e}
      <4> DEFINE T == {e}
      <4>1. s[k] \in T BY <2>1
      <4> HIDE DEF T
      <4>2. FirstIndex(s, T) \in 1..Len(s) /\ s[FirstIndex(s, T)] \in T
        BY <4>1, FirstIndexFound
      <4> QED BY <4>2 DEF T
    <3> QED BY <3>1
  <2>3. Without(s, e) = RemoveAt(s, i) BY <1>1 DEF Without
  <2> HIDE DEF i
  <2>4. RemoveAt(s, i) \in Seq(S) /\ Len(RemoveAt(s, i)) = Len(s) - 1
    BY <2>2, RemoveAtProperties
  <2>5. Distinct(RemoveAt(s, i)) /\ Elems(RemoveAt(s, i)) = Elems(s) \ {e}
    BY <2>2, RemoveAtElements
  <2> QED BY <1>0, <2>3, <2>4, <2>5
<1>2. CASE ~\E i \in 1..Len(s) : s[i] = e
  BY <1>0, <1>2 DEF Without, Elems
<1> QED BY <1>1, <1>2

\* Appending something new keeps a list free of repetitions.
LEMMA AppendElements ==
  ASSUME NEW S, NEW s \in Seq(S), NEW e \in S
  PROVE  /\ Append(s, e) \in Seq(S)
         /\ Len(Append(s, e)) = Len(s) + 1
         /\ Elems(Append(s, e)) = Elems(s) \cup {e}
         /\ Distinct(s) /\ e \notin Elems(s) => Distinct(Append(s, e))
<1> DEFINE t == Append(s, e)
<1>1. /\ Len(s) \in Nat /\ t \in Seq(S) /\ Len(t) = Len(s) + 1
      /\ \A j \in 1..Len(s) : t[j] = s[j]
      /\ t[Len(s) + 1] = e
  BY AppendProperties, LenProperties
<1> HIDE DEF t
<1>2. \A x : x \in Elems(t) <=> x \in Elems(s) \/ x = e
  BY <1>1 DEF Elems
<1>3. Distinct(s) /\ e \notin Elems(s) => Distinct(t)
  BY <1>1 DEF Distinct, Elems
<1> QED BY <1>1, <1>2, <1>3 DEF t

\* The head of a list without repetitions is not in its tail.
LEMMA TailElements ==
  ASSUME NEW S, NEW s \in Seq(S), s # <<>>, Distinct(s)
  PROVE  /\ Head(s) \in S /\ Tail(s) \in Seq(S)
         /\ Len(Tail(s)) = Len(s) - 1
         /\ Distinct(Tail(s))
         /\ Head(s) \in Elems(s)
         /\ Elems(Tail(s)) = Elems(s) \ {Head(s)}
<1> DEFINE t == Tail(s)
<1>1. /\ Len(s) \in Nat \ {0} /\ t \in Seq(S) /\ Len(t) = Len(s) - 1
      /\ Head(s) \in S /\ Head(s) = s[1]
      /\ \A j \in 1..Len(t) : t[j] = s[j + 1]
  BY HeadTailProperties, LenProperties, EmptySeq
<1> HIDE DEF t
<1>2. Distinct(t)
  BY <1>1 DEF Distinct
<1>3. \A x \in Elems(t) : x \in Elems(s) /\ x # Head(s)
  BY <1>1 DEF Elems, Distinct
<1>4. ASSUME NEW k \in 1..Len(s), s[k] # Head(s) PROVE s[k] \in Elems(t)
  <2>1. k - 1 \in 1..Len(t) /\ t[k - 1] = s[k] BY <1>1, <1>4
  <2> QED BY <2>1 DEF Elems
<1>5. Head(s) \in Elems(s)
  BY <1>1 DEF Elems
<1>6. \A x \in Elems(s) : x # Head(s) => x \in Elems(t)
  BY <1>4 DEF Elems
<1> QED BY <1>1, <1>2, <1>3, <1>5, <1>6 DEF t

-----------------------------------------------------------------------------
(* The methods of the sending half *)

OutboundInv ==
  OutboundTypeOK /\ SlotsMatchPending /\ RetainedExactly /\ EveryPendingTimed

LEMMA OutboundInit_Inv ==
  ASSUME OutboundInit PROVE OutboundInv
<1>1. Len(completed) = 0 /\ completed \in Seq(Reqs) /\ MaxRetained \in Nat
  BY EmptySeq, OutboundConstants DEF OutboundInit
<1>2. OutboundTypeOK /\ SlotsMatchPending /\ EveryPendingTimed
  BY <1>1, OutboundConstants
  DEF OutboundInit, OutboundTypeOK, SlotsMatchPending, EveryPendingTimed
<1>3. RetainedExactly
  BY <1>1 DEF OutboundInit, RetainedExactly, RetainedReplies
<1> QED BY <1>2, <1>3 DEF OutboundInv

\* markReplyRead, armReclaimAt and reclaim touch only the reading marks.
LEMMA ReadingMarks_Inv ==
  ASSUME OutboundInv,
         UNCHANGED <<pend, outbound, flight, expiry, completed>>,
         observed' \subseteq Reqs,
         reader' \in [Reqs -> Calls \cup {None}],
         listeners' \in [Reqs -> SUBSET (Calls \cup {None})]
  PROVE  OutboundInv'
<1>1. OutboundTypeOK'
  BY DEF OutboundInv, OutboundTypeOK
<1>2. SlotsMatchPending' /\ EveryPendingTimed'
  BY DEF OutboundInv, SlotsMatchPending, EveryPendingTimed
<1>3. RetainedExactly'
  BY DEF OutboundInv, RetainedExactly, RetainedReplies
<1> QED BY <1>1, <1>2, <1>3 DEF OutboundInv

LEMMA Reading_Inv ==
  ASSUME OutboundInv, NEW c \in Calls, NEW r \in Reqs,
         ReadReply(c, r) \/ ReadReplyAborted(r) \/ ReclaimReply(c, r)
  PROVE  OutboundInv'
<1>0. OutboundTypeOK BY DEF OutboundInv
<1>1. CASE ReadReply(c, r)
  BY <1>0, <1>1, ReadingMarks_Inv DEF ReadReply, OutboundTypeOK
<1>2. CASE ReadReplyAborted(r)
  BY <1>0, <1>2, ReadingMarks_Inv DEF ReadReplyAborted, OutboundTypeOK
<1>3. CASE ReclaimReply(c, r)
  BY <1>0, <1>3, ReadingMarks_Inv DEF ReclaimReply, OutboundTypeOK
<1> QED BY <1>1, <1>2, <1>3

\* Requests forgotten together leave slots, timers and the retained list.
LEMMA ForgetRecords_Inv ==
  ASSUME OutboundInv, NEW R \in SUBSET Reqs, ForgetRecords(R),
         flight' \subseteq Reqs, flight \ R \subseteq flight',
         completed' \in Seq(Reqs), Distinct(completed'),
         Len(completed') <= Len(completed),
         Elems(completed') = Elems(completed) \ R
  PROVE  OutboundInv'
<1> USE OutboundConstants DEF OutboundInv
<1>1. OutboundTypeOK'
  BY DEF OutboundTypeOK, ForgetRecords, SlotsWithout
<1>2. SlotsMatchPending'
  BY DEF OutboundTypeOK, SlotsMatchPending, ForgetRecords, SlotsWithout
<1>3. EveryPendingTimed'
  BY DEF OutboundTypeOK, EveryPendingTimed, ForgetRecords
<1>4. Elems(completed') = {q \in Reqs : pend'[q] = "done"}
  BY DEF OutboundTypeOK, RetainedExactly, RetainedReplies, ForgetRecords, Elems
<1>5. Len(completed') <= MaxRetained
  BY LenProperties DEF OutboundTypeOK, RetainedExactly
<1>6. RetainedExactly'
  BY <1>4, <1>5 DEF RetainedExactly, RetainedReplies, Elems, Distinct
<1> QED BY <1>1, <1>2, <1>3, <1>6

LEMMA ForgetPending_Inv ==
  ASSUME OutboundInv, NEW r \in Reqs, ForgetPending(r),
         flight' = flight \/ flight' = flight \ {r}
  PROVE  OutboundInv'
<1>1. completed \in Seq(Reqs) /\ flight \subseteq Reqs /\ Distinct(completed)
  BY DEF OutboundInv, OutboundTypeOK, RetainedExactly, Distinct
<1>2. ForgetRecords({r}) /\ completed' = Without(completed, r)
  BY DEF ForgetPending
<1>3. /\ completed' \in Seq(Reqs) /\ Distinct(completed')
      /\ Len(completed') <= Len(completed)
      /\ Elems(completed') = Elems(completed) \ {r}
  BY <1>1, <1>2, WithoutProperties
<1> QED BY <1>1, <1>2, <1>3, ForgetRecords_Inv

\* cancel by target or of everything needs no look at the retained list.
LEMMA ForgetOpen_Inv ==
  ASSUME OutboundInv, NEW R \in SUBSET {r \in Reqs : pend[r] = "open"},
         ForgetRecords(R), UNCHANGED <<completed, flight>>
  PROVE  OutboundInv'
<1>1. /\ completed \in Seq(Reqs) /\ flight \subseteq Reqs /\ Distinct(completed)
      /\ Len(completed) \in Nat
  BY LenProperties DEF OutboundInv, OutboundTypeOK, RetainedExactly, Distinct
<1>2. Elems(completed) = Elems(completed) \ R
  BY DEF OutboundInv, RetainedExactly, RetainedReplies, Elems
<1>3. /\ Distinct(completed') /\ Elems(completed') = Elems(completed)
      /\ R \in SUBSET Reqs
  BY <1>1
<1> QED BY <1>1, <1>2, <1>3, ForgetRecords_Inv

LEMMA OpenRequest_Inv ==
  ASSUME OutboundInv, NEW r \in Reqs, NEW hops, pend[r] = "none", OpenRequest(r, hops)
  PROVE  OutboundInv'
<1> USE OutboundConstants DEF OutboundInv
<1>1. OutboundTypeOK'
  BY DEF OutboundTypeOK, OpenRequest
<1>2. SlotsMatchPending'
  BY DEF OutboundTypeOK, SlotsMatchPending, OpenRequest
<1>3. EveryPendingTimed'
  BY DEF OutboundTypeOK, EveryPendingTimed, OpenRequest
<1>4. RetainedExactly'
  BY DEF OutboundTypeOK, RetainedExactly, RetainedReplies, OpenRequest
<1> QED BY <1>1, <1>2, <1>3, <1>4

LEMMA SettleAcked_Inv ==
  ASSUME OutboundInv, NEW r \in Reqs, SettleAcked(r)
  PROVE  OutboundInv'
<1>1. CASE pend[r] = "none"
  BY <1>1, ForgetPending_Inv DEF SettleAcked
<1>2. CASE pend[r] # "none"
  <2> USE <1>2 DEF OutboundInv
  <2>1. OutboundTypeOK'
    BY DEF OutboundTypeOK, SettleAcked
  <2>2. SlotsMatchPending' /\ EveryPendingTimed'
    BY DEF OutboundTypeOK, SlotsMatchPending, EveryPendingTimed, SettleAcked
  <2>3. RetainedExactly'
    BY DEF RetainedExactly, RetainedReplies, SettleAcked
  <2> QED BY <2>1, <2>2, <2>3
<1> QED BY <1>1, <1>2

\* Eviction removes one entry of the list, and what it removes is forgotten.
LEMMA Eviction ==
  ASSUME OutboundInv, NEW r \in Reqs, pend[r] = "open", KeepReply(r)
  PROVE  /\ completed' \in Seq(Reqs) /\ Distinct(completed')
         /\ Len(completed') <= MaxRetained
         /\ Elems(completed') = (Elems(completed) \cup {r}) \ Evicted(r)
         /\ Evicted(r) \subseteq Reqs
<1> DEFINE s == Appended(r)
           i == EvictIndex(s)
<1>1. /\ completed \in Seq(Reqs) /\ Distinct(completed)
      /\ Len(completed) \in Nat /\ Len(completed) <= MaxRetained
      /\ r \notin Elems(completed)
  BY LenProperties
  DEF OutboundInv, OutboundTypeOK, RetainedExactly, RetainedReplies, Distinct, Elems
<1>2. /\ s \in Seq(Reqs) /\ Len(s) = Len(completed) + 1 /\ Distinct(s)
      /\ Elems(s) = Elems(completed) \cup {r}
  BY <1>1, AppendElements DEF Appended
<1>3. completed' = IF Overflows THEN RemoveAt(s, i) ELSE s
  BY DEF KeepReply
<1>4. Evicted(r) = IF Overflows THEN {s[i]} ELSE {}
  BY DEF Evicted
<1>5. MaxRetained \in Nat BY OutboundConstants
<1> HIDE DEF s
<1>6. i \in 1..Len(s)
  <2>1. CASE \E j \in 1..Len(s) : s[j] \in observed
    <3>1. FirstIndex(s, observed) \in 1..Len(s)
      BY <1>2, <2>1, FirstIndexFound
    <3> QED BY <2>1, <3>1 DEF EvictIndex
  <2>2. CASE ~\E j \in 1..Len(s) : s[j] \in observed
    BY <1>1, <1>2, <2>2 DEF EvictIndex
  <2> QED BY <2>1, <2>2
<1> HIDE DEF i
<1>7. CASE Overflows
  <2>1. /\ RemoveAt(s, i) \in Seq(Reqs) /\ Len(RemoveAt(s, i)) = Len(s) - 1
        /\ Distinct(RemoveAt(s, i))
        /\ Elems(RemoveAt(s, i)) = Elems(s) \ {s[i]}
    BY <1>2, <1>6, RemoveAtProperties, RemoveAtElements
  <2>2. s[i] \in Reqs BY <1>2, <1>6, ElementOfSeq
  <2> QED BY <1>1, <1>2, <1>3, <1>4, <1>5, <1>7, <2>1, <2>2
<1>8. CASE ~Overflows
  BY <1>1, <1>2, <1>3, <1>4, <1>5, <1>8 DEF Overflows
<1> QED BY <1>7, <1>8

LEMMA KeepReply_Inv ==
  ASSUME OutboundInv, NEW r \in Reqs, pend[r] = "open", KeepReply(r)
  PROVE  OutboundInv'
<1>1. /\ completed' \in Seq(Reqs) /\ Distinct(completed')
      /\ Len(completed') <= MaxRetained
      /\ Elems(completed') = (Elems(completed) \cup {r}) \ Evicted(r)
      /\ Evicted(r) \subseteq Reqs
  BY Eviction
<1> DEFINE X == Evicted(r)
<1>2. /\ pend' = [q \in Reqs |-> IF q \in X THEN "none"
                                 ELSE IF q = r THEN "done" ELSE pend[q]]
      /\ expiry' = (expiry \cup {r}) \ X
      /\ observed' = observed \ X
      /\ reader' = [q \in Reqs |-> IF q \in X THEN None ELSE reader[q]]
      /\ listeners' = [q \in Reqs |-> IF q \in X THEN {} ELSE listeners[q]]
      /\ outbound' = [p \in Peers |-> IF outbound[p] \in {r} \cup X THEN None ELSE outbound[p]]
      /\ flight' = flight
  BY DEF KeepReply, Rearmed, SlotsWithout
<1> HIDE DEF X
<1> USE OutboundConstants DEF OutboundInv
<1>3. OutboundTypeOK'
  <2>1. /\ pend' \in [Reqs -> {"none", "open", "done"}]
        /\ outbound' \in [Peers -> Reqs \cup {None}]
    BY <1>2 DEF OutboundTypeOK
  <2>2. /\ reader' \in [Reqs -> Calls \cup {None}]
        /\ listeners' \in [Reqs -> SUBSET (Calls \cup {None})]
    BY <1>2 DEF OutboundTypeOK
  <2>3. flight' \subseteq Reqs /\ expiry' \subseteq Reqs /\ observed' \subseteq Reqs
    BY <1>2 DEF OutboundTypeOK
  <2> QED BY <1>1, <2>1, <2>2, <2>3 DEF OutboundTypeOK
<1>4. SlotsMatchPending'
  BY <1>2 DEF OutboundTypeOK, SlotsMatchPending
<1>5. EveryPendingTimed'
  BY <1>2 DEF OutboundTypeOK, EveryPendingTimed
<1>6. Elems(completed') = {q \in Reqs : pend'[q] = "done"}
  <2>1. Elems(completed) = {q \in Reqs : pend[q] = "done"}
    BY DEF RetainedExactly, RetainedReplies, Elems
  <2>2. Elems(completed') = (Elems(completed) \cup {r}) \ X
    BY <1>1 DEF X
  <2>3. \A q \in Reqs : pend'[q] = "done" <=> q \notin X /\ (q = r \/ pend[q] = "done")
    BY <1>2
  <2> QED BY <2>1, <2>2, <2>3
<1>7. RetainedExactly'
  BY <1>1, <1>6 DEF RetainedExactly, RetainedReplies, Elems, Distinct
<1> QED BY <1>3, <1>4, <1>5, <1>7
=============================================================================
