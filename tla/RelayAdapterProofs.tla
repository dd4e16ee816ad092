------------------------- MODULE RelayAdapterProofs -------------------------
(***************************************************************************)
(* Proofs about RelayAdapter, for any number of messages, requests and     *)
(* calls: types, every accepted request stays reachable, no await sleeps   *)
(* through work, and the sending half keeps what RelayOutboundProofs says  *)
(* of its methods.                                                         *)
(***************************************************************************)
EXTENDS RelayAdapter, RelayOutboundProofs

CallTypeOK ==
  /\ pc \in [Calls -> CallStates]
  /\ arg \in [Calls -> Msgs \cup Reqs \cup {None}]
  /\ aborted \subseteq Calls
  /\ waiter \in Calls \cup {None}

HistoryTypeOK == seenRequest \subseteq Msgs /\ seenReply \subseteq Reqs

\* What a call's state says of the id it carries.
ArgsFit ==
  \A c \in Calls :
    /\ pc[c] \in {"idle", "parked"} => arg[c] = None
    /\ pc[c] = "woken" => arg[c] \in Msgs \cup {None}
    /\ pc[c] \in {"handed", "replying"} => arg[c] \in Msgs
    /\ pc[c] \in {"keyed", "settled", "read"} => arg[c] \in Reqs

InBareAwait(c) == pc[c] \in {"parked", "woken"}

\* What the latch awaitingInbound and the field inboundWaiter are for: one
\* bare await at a time, registered while parked, and nothing active while
\* it is parked or a request is on its way to it.
OneBareAwait ==
  /\ \A c, d \in Calls : InBareAwait(c) /\ InBareAwait(d) => c = d
  /\ waiter # None => InBareAwait(waiter) /\ arg[waiter] = None
  /\ \A c \in Calls : pc[c] = "parked" => waiter = c /\ active = None
  /\ \A c \in Calls : pc[c] = "woken" /\ arg[c] # None => active = None

MailInv ==
  InboundTypeOK /\ CallTypeOK /\ ArgsFit /\ OneBareAwait /\ EveryRequestReachable

Inv == MailInv /\ OutboundInv /\ NoSleepThrough /\ HistoryTypeOK

-----------------------------------------------------------------------------
(* Calls move, the mailbox stays *)

LEMMA Constants_Apart ==
  /\ None \notin Msgs /\ None \notin Calls /\ None \notin Reqs /\ None \notin Peers
  /\ \A x \in Msgs : x \notin Reqs /\ x \notin Calls
  /\ \A x \in Reqs : x \notin Calls
BY InboundConstants, OutboundConstants, AdapterConstants

LEMMA CallsMove_Inv ==
  ASSUME MailInv, UNCHANGED <<inbound, queue, delivering, active>>,
         InboundTypeOK', CallTypeOK', ArgsFit', OneBareAwait', InTransit' = InTransit
  PROVE  MailInv'
<1>1. \A c, d \in Calls : pc'[c] = "woken" /\ pc'[d] = "woken" => c = d
  BY DEF OneBareAwait, InBareAwait
<1>2. EveryRequestReachable'
  BY <1>1 DEF MailInv, EveryRequestReachable, QueuedMsgs
<1> QED BY <1>2 DEF MailInv

\* A call that is in no bare await goes where its id fits, and is in none.
LEMMA Move_Inv ==
  ASSUME MailInv, UNCHANGED <<inbound, queue, delivering, active, waiter>>,
         InboundTypeOK', aborted' \subseteq Calls,
         NEW c \in Calls, ~InBareAwait(c), NEW s \in CallStates, NEW id, Goto(c, s, id),
         \/ s = "idle" /\ id = None
         \/ s \in {"handed", "replying"} /\ id \in Msgs
         \/ s \in {"keyed", "settled", "read"} /\ id \in Reqs
  PROVE  MailInv'
<1> USE Constants_Apart DEF MailInv
<1>1. CallTypeOK'
  BY DEF CallTypeOK, Goto
<1>2. ArgsFit'
  BY DEF CallTypeOK, ArgsFit, Goto
<1>3. OneBareAwait'
  BY DEF CallTypeOK, OneBareAwait, InBareAwait, Goto
<1>4. InTransit' = InTransit
  BY DEF CallTypeOK, InBareAwait, InTransit, Goto
<1> QED BY <1>1, <1>2, <1>3, <1>4, CallsMove_Inv

\* Settled awaits, and a bare await woken without a request.
LEMMA Resolve_Inv ==
  ASSUME MailInv, UNCHANGED <<inbound, queue, delivering, active, arg, aborted>>,
         InboundTypeOK', NEW R \in SUBSET Reqs, NEW wake \in BOOLEAN, Resolve(R, wake)
  PROVE  MailInv' /\ (wake => \A c \in Calls : pc'[c] # "parked")
<1> USE Constants_Apart DEF MailInv
<1>1. \A c \in Calls :
        pc'[c] = IF pc[c] = "keyed" /\ arg[c] \in R THEN "settled"
                 ELSE IF wake /\ c = waiter /\ pc[c] = "parked" THEN "woken" ELSE pc[c]
  BY DEF Resolve, KeyedOn
<1>2. CallTypeOK'
  BY DEF CallTypeOK, Resolve, CallStates
<1>3. ArgsFit'
  BY <1>1 DEF CallTypeOK, ArgsFit
<1>4. OneBareAwait'
  BY <1>1 DEF CallTypeOK, OneBareAwait, InBareAwait, Resolve
<1>5. InTransit' = InTransit
  BY <1>1 DEF CallTypeOK, InTransit, ArgsFit
<1>6. wake => \A c \in Calls : pc'[c] # "parked"
  BY <1>1 DEF OneBareAwait
<1> QED BY <1>2, <1>3, <1>4, <1>5, <1>6, CallsMove_Inv

LEMMA ReturnReclaimed_Inv ==
  ASSUME MailInv, UNCHANGED <<inbound, queue, delivering, active>>,
         InboundTypeOK', NEW c \in Calls, ~InBareAwait(c), NEW wake \in BOOLEAN,
         ReturnReclaimed(c, wake)
  PROVE  MailInv' /\ (wake => \A d \in Calls : pc'[d] # "parked")
<1> USE Constants_Apart DEF MailInv
<1>1. \A d \in Calls :
        /\ pc'[d] = IF d = c THEN "idle"
                    ELSE IF wake /\ d = waiter /\ pc[d] = "parked" THEN "woken" ELSE pc[d]
        /\ arg'[d] = IF d = c THEN None ELSE arg[d]
  BY DEF ReturnReclaimed, CallTypeOK
<1>2. CallTypeOK'
  BY DEF CallTypeOK, ReturnReclaimed, CallStates
<1>3. ArgsFit'
  BY <1>1 DEF CallTypeOK, ArgsFit
<1>4. OneBareAwait'
  BY <1>1 DEF CallTypeOK, OneBareAwait, InBareAwait, ReturnReclaimed
<1>5. InTransit' = InTransit
  BY <1>1 DEF CallTypeOK, InTransit, ArgsFit, InBareAwait
<1>6. wake => \A d \in Calls : pc'[d] # "parked"
  BY <1>1 DEF OneBareAwait
<1> QED BY <1>2, <1>3, <1>4, <1>5, <1>6, CallsMove_Inv

\* The wait of a parked call ends without a request.
LEMMA WokenByHand_Inv ==
  ASSUME MailInv, UNCHANGED <<inbound, queue, delivering, active, waiter>>,
         InboundTypeOK', aborted' \subseteq Calls,
         NEW c \in Calls, pc[c] = "parked", Goto(c, "woken", None)
  PROVE  MailInv'
<1> USE Constants_Apart DEF MailInv
<1>1. CallTypeOK'
  BY DEF CallTypeOK, Goto, CallStates
<1>2. ArgsFit'
  BY DEF CallTypeOK, ArgsFit, Goto
<1>3. OneBareAwait'
  BY DEF CallTypeOK, OneBareAwait, InBareAwait, Goto
<1>4. InTransit' = InTransit
  BY DEF CallTypeOK, InTransit, Goto
<1> QED BY <1>1, <1>2, <1>3, <1>4, CallsMove_Inv

\* A bare await that was given nothing ends, or ends with an answer.
LEMMA LeaveBareAwait_Inv ==
  ASSUME MailInv, UNCHANGED <<inbound, queue, delivering, active>>,
         InboundTypeOK', aborted' \subseteq Calls,
         NEW c \in Calls, pc[c] = "woken", arg[c] = None, ClearWaiter(c),
         Goto(c, "idle", None) \/ \E id \in Reqs : Goto(c, "read", id)
  PROVE  MailInv'
<1> USE Constants_Apart DEF MailInv
<1>1. CallTypeOK'
  BY DEF CallTypeOK, CallStates, Goto, ClearWaiter
<1>2. ArgsFit'
  BY DEF CallTypeOK, ArgsFit, Goto
<1>3. OneBareAwait'
  BY DEF CallTypeOK, OneBareAwait, InBareAwait, Goto, ClearWaiter
<1>4. InTransit' = InTransit
  BY DEF CallTypeOK, InTransit, Goto
<1> QED BY <1>1, <1>2, <1>3, <1>4, CallsMove_Inv

\* A bare await parks, for the first time or again.
LEMMA Park_Inv ==
  ASSUME MailInv, UNCHANGED <<inbound, queue, delivering, active, aborted>>,
         InboundTypeOK', active = None,
         NEW c \in Calls, arg[c] = None,
         \A d \in Calls : InBareAwait(d) => d = c,
         Goto(c, "parked", None), waiter' = c
  PROVE  MailInv'
<1> USE Constants_Apart DEF MailInv
<1>1. CallTypeOK'
  BY DEF CallTypeOK, Goto, CallStates
<1>2. ArgsFit'
  BY DEF CallTypeOK, ArgsFit, Goto
<1>3. OneBareAwait'
  BY DEF CallTypeOK, OneBareAwait, InBareAwait, Goto
<1>4. InTransit' = InTransit
  BY DEF CallTypeOK, InTransit, Goto
<1> QED BY <1>1, <1>2, <1>3, <1>4, CallsMove_Inv

-----------------------------------------------------------------------------
(* Requests move *)

\* EveryRequestReachable, given what is on its way to an await.
ReachableWith(T) ==
  /\ inbound = Elems(queue) \cup ({active} \ {None}) \cup T
  /\ delivering = ({active} \ {None}) \cup T
  /\ Elems(queue) \cap delivering = {}
  /\ active \notin T
  /\ Distinct(queue)

LEMMA Reachable_Split ==
  ASSUME EveryRequestReachable PROVE ReachableWith(InTransit)
BY DEF EveryRequestReachable, ReachableWith, QueuedMsgs, Elems, Distinct

LEMMA Reachable_Join ==
  ASSUME NEW T, ReachableWith(T)', InTransit' = T,
         \A c, d \in Calls : pc'[c] = "woken" /\ pc'[d] = "woken" => c = d
  PROVE  EveryRequestReachable'
BY DEF EveryRequestReachable, ReachableWith, QueuedMsgs, Elems, Distinct

LEMMA WakeUpdate_Type ==
  ASSUME queue' \in Seq(Msgs), WakeUpdate PROVE wakeCount' \in Nat
<1>1. Len(queue') \in Nat BY LenProperties
<1>2. wakeCount' = Len(queue') + (IF unseen' /\ active' # None THEN 1 ELSE 0)
  BY DEF WakeUpdate, Undelivered
<1> QED BY <1>1, <1>2

\* The self-heal of awaitInbound never finds anything: no accepted request
\* is stranded.
LEMMA HealsNothing ==
  ASSUME MailInv PROVE HealedQueue = queue
<1>1. queue = <<>> => Stranded = {}
  BY DEF MailInv, EveryRequestReachable, QueuedMsgs, Stranded
<1> QED BY <1>1 DEF HealedQueue

\* Request m, which nothing else is in the way of, is handed to call c.
LEMMA Hand_Inv ==
  ASSUME MailInv, NEW c \in Calls, NEW m \in inbound, NEW fired \in BOOLEAN,
         Hand(c, m, fired),
         \A d \in Calls : InBareAwait(d) => d = c,
         active \in {None, m}, InTransit \subseteq {m},
         queue' \in Seq(Msgs), Distinct(queue'), Elems(queue') = Elems(queue) \ {m},
         waiter' = None
  PROVE  /\ MailInv'
         /\ \A d \in Calls : pc'[d] # "parked"
<1> USE Constants_Apart DEF MailInv
<1>1. m \in Msgs /\ m # None
  BY DEF InboundTypeOK
<1>2. /\ delivering' = delivering \cup {m} /\ active' = m /\ inbound' = inbound
      /\ unseen' \in BOOLEAN /\ hand' = c /\ WakeUpdate
  BY DEF Hand, HandInbound
<1>3. InboundTypeOK'
  BY <1>1, <1>2, WakeUpdate_Type DEF InboundTypeOK
<1>4. \E s \in {"idle", "handed"}, id \in {None, m} :
        /\ Goto(c, s, id) /\ aborted' \subseteq aborted
        /\ s = "idle" <=> id = None
  BY <1>1 DEF Hand, Return
<1>5. PICK s \in {"idle", "handed"}, id \in {None, m} :
        /\ Goto(c, s, id) /\ aborted' \subseteq aborted
        /\ s = "idle" <=> id = None
  BY <1>4
<1>6. CallTypeOK'
  BY <1>1, <1>5 DEF CallTypeOK, Goto, CallStates
<1>7. ArgsFit'
  BY <1>1, <1>5 DEF CallTypeOK, ArgsFit, Goto
<1>8. \A d \in Calls : pc'[d] \notin {"parked", "woken"}
  BY <1>5 DEF CallTypeOK, InBareAwait, Goto
<1>9. OneBareAwait'
  BY <1>8 DEF OneBareAwait, InBareAwait
<1>10. InTransit' = {}
  BY <1>8 DEF InTransit
<1>11. ReachableWith(InTransit)
  BY Reachable_Split
<1>12. ReachableWith({})'
  BY <1>1, <1>2, <1>11 DEF ReachableWith
<1>13. EveryRequestReachable'
  BY <1>8, <1>10, <1>12, Reachable_Join
<1> QED BY <1>3, <1>6, <1>7, <1>8, <1>9, <1>13

\* A request that is not on its way to an await is forgotten.
LEMMA ForgetInbound_Facts ==
  ASSUME MailInv, NEW m \in Msgs, m \notin InTransit, ForgetInbound(m),
         NEW T, T = InTransit
  PROVE  /\ InboundTypeOK' /\ ReachableWith(T)'
         /\ active' \in {active, None}
         /\ queue = <<>> => queue' = <<>>
<1> USE Constants_Apart DEF MailInv
<1>1. ReachableWith(T) /\ queue \in Seq(Msgs)
  BY Reachable_Split DEF InboundTypeOK
<1>2. /\ queue' \in Seq(Msgs) /\ Distinct(queue') /\ Elems(queue') = Elems(queue) \ {m}
  <2>1. queue' = Without(queue, m) BY DEF ForgetInbound
  <2>2. Distinct(queue) BY <1>1 DEF ReachableWith
  <2> QED BY <1>1, <2>1, <2>2, WithoutProperties
<1>3. /\ inbound' = inbound \ {m} /\ delivering' = delivering \ {m} /\ hand' = hand
      /\ active' = IF active = m THEN None ELSE active
      /\ unseen' \in BOOLEAN
      /\ WakeUpdate \/ wakeCount' = wakeCount
  BY DEF ForgetInbound, InboundTypeOK
<1>4. InboundTypeOK'
  BY <1>2, <1>3, WakeUpdate_Type DEF InboundTypeOK
<1>5. ReachableWith(T)'
  <2> DEFINE A == {active} \ {None}
             B == {active'} \ {None}
  <2>1. B = A \ {m}
    BY <1>3
  <2>2. T \ {m} = T
    BY DEF MailInv
  <2>3. /\ inbound = Elems(queue) \cup A \cup T /\ delivering = A \cup T
        /\ Elems(queue) \cap delivering = {} /\ active \notin T
    BY <1>1 DEF ReachableWith
  <2>4. active' \notin T
    BY <1>3, <2>3 DEF InTransit
  <2> HIDE DEF A, B
  <2>5. /\ inbound' = Elems(queue') \cup B \cup T /\ delivering' = B \cup T
        /\ Elems(queue') \cap delivering' = {}
    BY <1>2, <1>3, <2>1, <2>2, <2>3
  <2> QED BY <1>2, <2>4, <2>5 DEF ReachableWith, B
<1>6. queue = <<>> => queue' = <<>>
  <2>1. SUFFICES ASSUME queue = <<>> PROVE queue' = <<>> OBVIOUS
  <2>2. Len(queue) = 0 BY <2>1
  <2> QED BY <2>1, <2>2 DEF ForgetInbound, Without
<1> QED BY <1>3, <1>4, <1>5, <1>6

-----------------------------------------------------------------------------
(* Nobody sleeps through work *)

LEMMA NoSleep_Kept ==
  ASSUME MailInv', NoSleepThrough, queue = <<>> => queue' = <<>>,
         \A c \in Calls : pc'[c] = "parked" => pc[c] = "parked",
         UnreadReplies' \subseteq UnreadReplies
  PROVE  NoSleepThrough'
BY DEF MailInv, OneBareAwait, NoSleepThrough

\* Forgotten requests have no unread answers.
LEMMA Unread_Forgotten ==
  ASSUME OutboundInv, NEW R \in SUBSET Reqs, ForgetRecords(R),
         Elems(completed') \subseteq Elems(completed)
  PROVE  UnreadReplies' \subseteq UnreadReplies
<1>1. RetainedReplies' \subseteq RetainedReplies
  BY DEF RetainedReplies, Elems
<1>2. ASSUME NEW q \in UnreadReplies' PROVE q \in UnreadReplies
  <2>1. q \in RetainedReplies /\ q \notin observed' /\ pend'[q] = "done"
    BY <1>1, <1>2 DEF UnreadReplies
  <2>2. q \in Reqs
    BY <2>1 DEF OutboundInv, OutboundTypeOK, RetainedReplies
  <2>3. q \notin R /\ pend[q] = "done" /\ q \notin observed
    BY <2>1, <2>2 DEF OutboundInv, OutboundTypeOK, ForgetRecords
  <2> QED BY <2>1, <2>3 DEF UnreadReplies
<1> QED BY <1>2

LEMMA Unread_ForgetPending ==
  ASSUME OutboundInv, NEW r \in Reqs, ForgetPending(r)
  PROVE  UnreadReplies' \subseteq UnreadReplies
<1>1. completed \in Seq(Reqs) /\ Distinct(completed)
  BY DEF OutboundInv, OutboundTypeOK, RetainedExactly, Distinct
<1>2. Elems(completed') = Elems(completed) \ {r}
  BY <1>1, WithoutProperties DEF ForgetPending
<1> QED BY <1>2, Unread_Forgotten DEF ForgetPending

LEMMA OldestUnread_Type ==
  ASSUME OutboundInv, UnreadReplies # {}
  PROVE  OldestUnread \in Reqs /\ OldestUnread \in UnreadReplies
<1>1. completed \in Seq(Reqs)
  BY DEF OutboundInv, OutboundTypeOK
<1>2. PICK k \in 1..Len(completed) : completed[k] \in UnreadReplies
  BY DEF UnreadReplies, RetainedReplies
<1>3. /\ FirstIndex(completed, UnreadReplies) \in 1..Len(completed)
      /\ completed[FirstIndex(completed, UnreadReplies)] \in UnreadReplies
  BY <1>1, <1>2, FirstIndexFound
<1> QED BY <1>1, <1>3, ElementOfSeq DEF OldestUnread

LEMMA OutboundStays ==
  ASSUME OutboundInv, UNCHANGED outboundVars
  PROVE  OutboundInv' /\ UnreadReplies' = UnreadReplies
<1>1. OutboundInv'
  BY ReadingMarks_Inv DEF outboundVars, OutboundInv, OutboundTypeOK
<1>2. UnreadReplies' = UnreadReplies
  BY DEF outboundVars, UnreadReplies, RetainedReplies
<1> QED BY <1>1, <1>2

LEMMA MailStays ==
  ASSUME MailInv, UNCHANGED inboundVars, UNCHANGED <<pc, arg, waiter>>, aborted' \subseteq Calls
  PROVE  MailInv'
<1> USE DEF MailInv, inboundVars
<1>1. InboundTypeOK' BY DEF InboundTypeOK
<1>2. CallTypeOK' BY DEF CallTypeOK
<1>3. ArgsFit' BY DEF ArgsFit
<1>4. OneBareAwait' BY DEF OneBareAwait, InBareAwait
<1>5. InTransit' = InTransit BY DEF InTransit
<1> QED BY <1>1, <1>2, <1>3, <1>4, <1>5, CallsMove_Inv

LEMMA InboundTypeStays ==
  ASSUME InboundTypeOK, UNCHANGED inboundVars
  PROVE  InboundTypeOK' /\ UNCHANGED <<inbound, queue, delivering, active>>
BY DEF InboundTypeOK, inboundVars

\* While every resolved promise has been continued, nothing is on its way.
LEMMA SettledFacts ==
  ASSUME Settled
  PROVE  InTransit = {} /\ \A c \in Calls : pc[c] # "woken"
BY DEF Settled, InTransit

-----------------------------------------------------------------------------
(* Socket handlers and timers *)

LEMMA ReceivePrompt_Inv ==
  ASSUME Inv, NEW m \in Msgs, NEW registered \in SUBSET Registrable,
         ReceivePrompt(m, registered)
  PROVE  Inv'
<1> USE Constants_Apart
<1>0. MailInv /\ OutboundInv /\ NoSleepThrough /\ HistoryTypeOK
  BY DEF Inv
<1>1. /\ InTransit = {} /\ \A c \in Calls : pc[c] # "woken"
      /\ m \notin inbound /\ inbound' = inbound \cup {m}
      /\ active' = active /\ unseen' = unseen /\ hand' = hand /\ WakeUpdate
      /\ aborted' = aborted
  BY SettledFacts DEF ReceivePrompt, Accepts
<1>2. OutboundInv' /\ HistoryTypeOK'
  BY <1>0, OutboundStays DEF ReceivePrompt, history, HistoryTypeOK
<1>3. ReachableWith({}) /\ queue \in Seq(Msgs)
  BY <1>0, <1>1, Reachable_Split DEF MailInv, InboundTypeOK
<1>4. CASE waiter = None
  <2>1. queue' = Append(queue, m) /\ delivering' = delivering /\ UNCHANGED <<pc, arg, waiter>>
    BY <1>4 DEF ReceivePrompt, WakeWaiter
  <2>2. /\ queue' \in Seq(Msgs) /\ Elems(queue') = Elems(queue) \cup {m}
        /\ Distinct(queue')
    <3>1. m \notin Elems(queue) /\ Distinct(queue) BY <1>1, <1>3 DEF ReachableWith
    <3> QED BY <1>3, <2>1, <3>1, AppendElements
  <2>3. InboundTypeOK'
    BY <1>0, <1>1, <2>1, <2>2, WakeUpdate_Type DEF MailInv, InboundTypeOK
  <2>4. ReachableWith({})'
    BY <1>1, <1>3, <2>1, <2>2 DEF ReachableWith
  <2>5. CallTypeOK' /\ ArgsFit' /\ OneBareAwait' /\ InTransit' = {}
    BY <1>0, <1>1, <2>1 DEF MailInv, CallTypeOK, ArgsFit, OneBareAwait, InBareAwait, InTransit
  <2>6. EveryRequestReachable'
    BY <1>1, <2>1, <2>4, <2>5, Reachable_Join
  <2>7. NoSleepThrough'
    BY <1>0, <1>4, <2>1 DEF MailInv, OneBareAwait, NoSleepThrough
  <2> QED BY <1>2, <2>3, <2>5, <2>6, <2>7 DEF Inv, MailInv
<1>5. CASE waiter # None
  <2>1. waiter \in Calls /\ pc[waiter] = "parked" /\ arg[waiter] = None /\ active = None
    BY <1>0, <1>1, <1>5 DEF MailInv, CallTypeOK, OneBareAwait, InBareAwait
  <2>2. /\ queue' = queue /\ delivering' = delivering \cup {m}
        /\ Goto(waiter, "woken", m) /\ waiter' = None
    BY <1>5, <2>1 DEF ReceivePrompt, WakeWaiter
  <2>3. InboundTypeOK'
    BY <1>0, <1>1, <2>2, WakeUpdate_Type DEF MailInv, InboundTypeOK
  <2>4. CallTypeOK'
    BY <1>0, <1>1, <2>1, <2>2 DEF MailInv, CallTypeOK, Goto, CallStates
  <2>5. ArgsFit'
    BY <1>0, <2>1, <2>2 DEF MailInv, CallTypeOK, ArgsFit, Goto
  <2>6. OneBareAwait'
    BY <1>0, <1>1, <2>1, <2>2 DEF MailInv, CallTypeOK, OneBareAwait, InBareAwait, Goto
  <2>7. InTransit' = {m}
    BY <1>0, <1>1, <2>1, <2>2 DEF MailInv, CallTypeOK, InTransit, Goto
  <2>8. ReachableWith({m})'
    BY <1>1, <1>3, <2>1, <2>2 DEF ReachableWith
  <2>9. EveryRequestReachable'
    BY <2>6, <2>7, <2>8, Reachable_Join DEF OneBareAwait, InBareAwait
  <2>10. NoSleepThrough'
    BY <2>6, <2>2 DEF OneBareAwait, NoSleepThrough
  <2> QED BY <1>2, <2>3, <2>4, <2>5, <2>6, <2>9, <2>10 DEF Inv, MailInv
<1> QED BY <1>4, <1>5

LEMMA ReceiveResponse_Inv ==
  ASSUME Inv, NEW r \in Reqs, ReceiveResponse(r)
  PROVE  Inv'
<1>0. MailInv /\ OutboundInv /\ HistoryTypeOK
  BY DEF Inv
<1>1. OutboundInv'
  BY <1>0, KeepReply_Inv DEF ReceiveResponse
<1>2. MailInv' /\ \A c \in Calls : pc'[c] # "parked"
  <2>1. Resolve({r}, TRUE) /\ UNCHANGED inboundVars /\ UNCHANGED <<arg, aborted>>
    BY DEF ReceiveResponse
  <2>2. InboundTypeOK' /\ UNCHANGED <<inbound, queue, delivering, active>>
    BY <1>0, <2>1, InboundTypeStays DEF MailInv
  <2> QED BY <1>0, <2>1, <2>2, Resolve_Inv
<1>3. NoSleepThrough' /\ HistoryTypeOK'
  BY <1>0, <1>2 DEF NoSleepThrough, HistoryTypeOK, ReceiveResponse
<1> QED BY <1>1, <1>2, <1>3 DEF Inv

\* The end of a delivery and of the retention window touch no call.
LEMMA OutboundEvent_Inv ==
  ASSUME Inv, NEW r \in Reqs, Acked(r) \/ SendFailed(r) \/ Expire(r)
  PROVE  Inv'
<1>0. MailInv /\ OutboundInv /\ NoSleepThrough /\ HistoryTypeOK
  BY DEF Inv
<1>1. UNCHANGED inboundVars /\ UNCHANGED callVars /\ HistoryTypeOK'
  BY <1>0 DEF Acked, SendFailed, Expire, HistoryTypeOK, history
<1>2. MailInv' /\ UNCHANGED <<queue, pc>>
  BY <1>0, <1>1, MailStays DEF callVars, inboundVars, MailInv, CallTypeOK
<1>3. OutboundInv' /\ UnreadReplies' \subseteq UnreadReplies
  <2>1. CASE Acked(r)
    <3>1. OutboundInv' BY <1>0, <2>1, SettleAcked_Inv DEF Acked
    <3>2. UnreadReplies' \subseteq UnreadReplies
      BY <1>0, <2>1, Unread_ForgetPending DEF Acked, SettleAcked, UnreadReplies, RetainedReplies
    <3> QED BY <3>1, <3>2
  <2>2. CASE SendFailed(r)
    BY <1>0, <2>2, ForgetPending_Inv, Unread_ForgetPending DEF SendFailed
  <2>3. CASE Expire(r)
    BY <1>0, <2>3, ForgetPending_Inv, Unread_ForgetPending DEF Expire
  <2> QED BY <2>1, <2>2, <2>3
<1>4. NoSleepThrough'
  BY <1>0, <1>2, <1>3, NoSleep_Kept
<1> QED BY <1>1, <1>2, <1>3, <1>4 DEF Inv

LEMMA Timeout_Inv ==
  ASSUME Inv, NEW c \in Calls, Timeout(c)
  PROVE  Inv'
<1>0. MailInv /\ OutboundInv /\ NoSleepThrough /\ HistoryTypeOK
  BY DEF Inv
<1>1. OutboundInv' /\ UnreadReplies' = UnreadReplies /\ HistoryTypeOK'
  BY <1>0, OutboundStays DEF Timeout, HistoryTypeOK, history
<1>2. InboundTypeOK' /\ UNCHANGED <<inbound, queue, delivering, active, waiter>>
  BY <1>0, InboundTypeStays DEF Timeout, MailInv
<1>3. MailInv' /\ \A d \in Calls : pc'[d] = "parked" => pc[d] = "parked"
  <2>1. CASE pc[c] = "parked"
    <3>1. Goto(c, "woken", None) /\ aborted' \subseteq Calls
      BY <1>0, <2>1 DEF Timeout, MailInv, CallTypeOK
    <3>2. \A d \in Calls : pc'[d] = "parked" => pc[d] = "parked"
      BY <1>0, <3>1 DEF Goto, MailInv, CallTypeOK
    <3> QED BY <1>0, <1>2, <2>1, <3>1, <3>2, WokenByHand_Inv
  <2>2. CASE pc[c] = "keyed"
    <3>1. Goto(c, "idle", None) /\ aborted' \subseteq Calls
      BY <1>0, <2>2 DEF Timeout, Return, MailInv, CallTypeOK
    <3>2. \A d \in Calls : pc'[d] = "parked" => pc[d] = "parked"
      BY <1>0, <3>1 DEF Goto, MailInv, CallTypeOK
    <3> QED BY <1>0, <1>2, <2>2, <3>1, <3>2, Move_Inv DEF InBareAwait, CallStates
  <2> QED BY <2>1, <2>2 DEF Timeout
<1>4. NoSleepThrough'
  BY <1>0, <1>1, <1>2, <1>3, NoSleep_Kept
<1> QED BY <1>1, <1>3, <1>4 DEF Inv

-----------------------------------------------------------------------------
(* relay_await without a msg_id *)

\* A call is given an answer and leaves the await it was in, if any.
LEMMA GiveReply_Inv ==
  ASSUME Inv, NEW c \in Calls, NEW r \in Reqs, GiveReply(c, r),
         UNCHANGED <<inbound, queue, delivering, active>>, InboundTypeOK', UNCHANGED history,
         \/ ~InBareAwait(c) /\ UNCHANGED waiter
         \/ pc[c] = "woken" /\ arg[c] = None /\ ClearWaiter(c)
  PROVE  Inv'
<1>0. MailInv /\ OutboundInv /\ NoSleepThrough /\ HistoryTypeOK
  BY DEF Inv
<1>1. /\ ReadReply(c, r) /\ Goto(c, "read", r) /\ aborted' \subseteq Calls
      /\ "read" \in CallStates
  BY <1>0 DEF GiveReply, MailInv, CallTypeOK, CallStates
<1>2. OutboundInv' /\ UnreadReplies' \subseteq UnreadReplies /\ HistoryTypeOK'
  BY <1>0, <1>1, Reading_Inv
  DEF ReadReply, UnreadReplies, RetainedReplies, HistoryTypeOK, history
<1>3. MailInv'
  BY <1>0, <1>1, Move_Inv, LeaveBareAwait_Inv
<1>4. \A d \in Calls : pc'[d] = "parked" => pc[d] = "parked"
  BY <1>0, <1>1 DEF Goto, MailInv, CallTypeOK
<1>5. NoSleepThrough'
  BY <1>0, <1>2, <1>3, <1>4, NoSleep_Kept
<1> QED BY <1>2, <1>3, <1>5 DEF Inv

\* A bare await ends with nothing: cancelled, or past its deadline.
LEMMA EmptyHanded_Inv ==
  ASSUME Inv, NEW c \in Calls, pc[c] = "woken", arg[c] = None,
         Return(c), ClearWaiter(c),
         UNCHANGED <<inbound, queue, delivering, active>>, InboundTypeOK',
         UNCHANGED outboundVars, UNCHANGED history
  PROVE  Inv'
<1>0. MailInv /\ OutboundInv /\ NoSleepThrough /\ HistoryTypeOK
  BY DEF Inv
<1>1. Goto(c, "idle", None) /\ aborted' \subseteq Calls /\ "idle" \in CallStates
  BY <1>0 DEF Return, MailInv, CallTypeOK, CallStates
<1>2. MailInv'
  BY <1>0, <1>1, LeaveBareAwait_Inv
<1>3. OutboundInv' /\ UnreadReplies' = UnreadReplies /\ HistoryTypeOK'
  BY <1>0, OutboundStays DEF HistoryTypeOK, history
<1>4. \A d \in Calls : pc'[d] = "parked" => pc[d] = "parked"
  BY <1>0, <1>1 DEF Goto, MailInv, CallTypeOK
<1>5. NoSleepThrough'
  BY <1>0, <1>2, <1>3, <1>4, NoSleep_Kept
<1> QED BY <1>2, <1>3, <1>5 DEF Inv

\* A bare await that found nothing to deliver parks.
LEMMA Parked_Inv ==
  ASSUME Inv, NEW c \in Calls, arg[c] = None,
         \A d \in Calls : InBareAwait(d) => d = c,
         active = None, queue = <<>>, UnreadReplies = {},
         Goto(c, "parked", None), waiter' = c,
         UNCHANGED <<inbound, queue, delivering, active, aborted>>, InboundTypeOK',
         UNCHANGED outboundVars, UNCHANGED history
  PROVE  Inv'
<1>0. MailInv /\ OutboundInv /\ HistoryTypeOK
  BY DEF Inv
<1>1. OutboundInv' /\ UnreadReplies' = {} /\ HistoryTypeOK'
  BY <1>0, OutboundStays DEF HistoryTypeOK, history
<1>2. MailInv'
  BY <1>0, Park_Inv
<1>3. NoSleepThrough'
  BY <1>1, <1>2 DEF MailInv, OneBareAwait, NoSleepThrough
<1> QED BY <1>1, <1>2, <1>3 DEF Inv

\* A request is handed over.
LEMMA Handed_Inv ==
  ASSUME Inv, NEW c \in Calls, NEW m \in inbound, NEW fired \in BOOLEAN,
         Hand(c, m, fired),
         \A d \in Calls : InBareAwait(d) => d = c,
         active \in {None, m}, InTransit \subseteq {m},
         \/ UNCHANGED queue /\ m \notin Elems(queue)
         \/ queue # <<>> /\ m = Head(queue) /\ queue' = Tail(queue),
         waiter' = None, UNCHANGED outboundVars, UNCHANGED history
  PROVE  Inv'
<1>0. MailInv /\ OutboundInv /\ HistoryTypeOK
  BY DEF Inv
<1>1. OutboundInv' /\ HistoryTypeOK'
  BY <1>0, OutboundStays DEF HistoryTypeOK, history
<1>2. queue \in Seq(Msgs) /\ Distinct(queue)
  BY <1>0, Reachable_Split DEF MailInv, InboundTypeOK, ReachableWith
<1>3. queue' \in Seq(Msgs) /\ Distinct(queue') /\ Elems(queue') = Elems(queue) \ {m}
  <2>1. CASE UNCHANGED queue /\ m \notin Elems(queue)
    BY <1>2, <2>1
  <2>2. CASE queue # <<>> /\ m = Head(queue) /\ queue' = Tail(queue)
    BY <1>2, <2>2, TailElements
  <2> QED BY <2>1, <2>2
<1>4. MailInv' /\ \A d \in Calls : pc'[d] # "parked"
  BY <1>0, <1>3, Hand_Inv
<1>5. NoSleepThrough'
  BY <1>4 DEF NoSleepThrough
<1> QED BY <1>1, <1>4, <1>5 DEF Inv

\* Where the request an await is handed can come from.
LEMMA Sources ==
  ASSUME Inv
  PROVE  /\ active # None => active \in inbound /\ active \notin Elems(queue)
         /\ queue # <<>> => Head(queue) \in inbound
         /\ InTransit \subseteq inbound
         /\ InTransit \cap Elems(queue) = {}
<1>1. ReachableWith(InTransit) /\ queue \in Seq(Msgs) /\ Distinct(queue)
  BY Reachable_Split DEF Inv, MailInv, InboundTypeOK, ReachableWith
<1>2. queue # <<>> => Head(queue) \in Elems(queue)
  BY <1>1, TailElements
<1> QED BY <1>1, <1>2 DEF ReachableWith

LEMMA AwaitInbound_Inv ==
  ASSUME Inv, NEW c \in Calls, NEW fired \in BOOLEAN, AwaitInbound(c, fired)
  PROVE  Inv'
<1> USE Constants_Apart
<1>0. MailInv /\ OutboundInv /\ NoSleepThrough /\ HistoryTypeOK /\ queue \in Seq(Msgs)
  BY DEF Inv, MailInv, InboundTypeOK
<1>1. /\ HealedQueue = queue /\ pc[c] = "idle" /\ arg[c] = None
      /\ \A d \in Calls : ~InBareAwait(d)
      /\ InTransit = {} /\ waiter = None /\ UNCHANGED history
  BY <1>0, HealsNothing
  DEF AwaitInbound, AwaitingInbound, InBareAwait, InTransit, MailInv, CallTypeOK,
      ArgsFit, OneBareAwait
<1>2. CASE active # None /\ UNCHANGED queue /\ Hand(c, active, fired)
           /\ UNCHANGED <<outboundVars, waiter>>
  BY <1>1, <1>2, Sources, Handed_Inv
<1>3. CASE /\ active = None /\ fired /\ queue' = HealedQueue
           /\ UNCHANGED <<inbound, delivering, active, unseen, hand, outboundVars, callVars>>
           /\ WakeUpdate
  <2>1. InboundTypeOK' /\ UNCHANGED <<inbound, queue, delivering, active>>
    BY <1>0, <1>1, <1>3, WakeUpdate_Type DEF MailInv, InboundTypeOK
  <2>2. CallTypeOK' /\ ArgsFit' /\ OneBareAwait' /\ InTransit' = InTransit
    BY <1>0, <1>3
    DEF MailInv, CallTypeOK, ArgsFit, OneBareAwait, InBareAwait, InTransit, callVars
  <2>3. MailInv'
    BY <1>0, <2>1, <2>2, CallsMove_Inv
  <2>4. OutboundInv' /\ UnreadReplies' = UnreadReplies /\ HistoryTypeOK'
    BY <1>0, <1>1, <1>3, OutboundStays DEF HistoryTypeOK, history
  <2>5. NoSleepThrough'
    BY <1>0, <1>3, <2>1, <2>3, <2>4, NoSleep_Kept DEF callVars
  <2> QED BY <2>3, <2>4, <2>5 DEF Inv
<1>4. CASE /\ active = None /\ ~fired /\ HealedQueue # <<>>
           /\ queue' = Tail(HealedQueue) /\ Hand(c, Head(HealedQueue), FALSE)
           /\ UNCHANGED <<outboundVars, waiter>>
  BY <1>1, <1>4, Sources, Handed_Inv
<1>5. CASE /\ active = None /\ ~fired /\ HealedQueue = <<>> /\ queue' = HealedQueue
           /\ UNCHANGED <<inbound, delivering, active, unseen, hand>> /\ WakeUpdate
           /\ IF UnreadReplies # {}
                THEN GiveReply(c, OldestUnread) /\ UNCHANGED waiter
                ELSE Goto(c, "parked", None) /\ waiter' = c /\ UNCHANGED <<aborted, outboundVars>>
  <2>1. InboundTypeOK' /\ UNCHANGED <<inbound, queue, delivering, active>>
    BY <1>0, <1>1, <1>5, WakeUpdate_Type DEF MailInv, InboundTypeOK
  <2>2. CASE UnreadReplies # {}
    BY <1>0, <1>1, <1>5, <2>1, <2>2, OldestUnread_Type, GiveReply_Inv
  <2>3. CASE UnreadReplies = {}
    BY <1>1, <1>5, <2>1, <2>3, Parked_Inv
  <2> QED BY <2>2, <2>3
<1> QED BY <1>2, <1>3, <1>4, <1>5 DEF AwaitInbound

LEMMA Resume_Inv ==
  ASSUME Inv, NEW c \in Calls, Resume(c)
  PROVE  Inv'
<1> USE Constants_Apart
<1>0. MailInv /\ OutboundInv /\ NoSleepThrough /\ HistoryTypeOK /\ queue \in Seq(Msgs)
  BY DEF Inv, MailInv, InboundTypeOK
<1>1. /\ pc[c] = "woken" /\ \A d \in Calls : InBareAwait(d) => d = c
      /\ waiter \in {None, c} /\ UNCHANGED history
  BY <1>0 DEF Resume, MailInv, CallTypeOK, OneBareAwait, InBareAwait
<1>2. CASE arg[c] # None
  <2>1. InTransit = {arg[c]}
    BY <1>1, <1>2 DEF InTransit, InBareAwait
  <2>2. /\ active = None /\ UNCHANGED queue /\ Hand(c, arg[c], c \in aborted)
        /\ ClearWaiter(c) /\ UNCHANGED outboundVars
    <3>1. active = None BY <1>0, <1>1, <1>2 DEF MailInv, OneBareAwait
    <3> QED BY <1>2, <3>1 DEF Resume
  <2>3. arg[c] \in inbound /\ arg[c] \notin Elems(queue) /\ waiter' = None
    BY <1>1, <2>1, <2>2, Sources DEF ClearWaiter
  <2>4. Hand(c, arg[c], TRUE) \/ Hand(c, arg[c], FALSE)
    BY <2>2 DEF Hand, HandInbound
  <2> QED BY <1>1, <2>1, <2>2, <2>3, <2>4, Handed_Inv
<1>3. CASE arg[c] = None
  <2>0. InTransit = {} BY <1>1, <1>3 DEF InTransit, InBareAwait
  <2>1. ASSUME ClearWaiter(c) PROVE waiter' = None
    BY <1>1, <2>1 DEF ClearWaiter
  <2>2. CASE /\ c \in aborted /\ Return(c) /\ ClearWaiter(c)
             /\ UNCHANGED <<inboundVars, outboundVars>>
    BY <1>0, <1>1, <1>3, <2>2, InboundTypeStays, EmptyHanded_Inv DEF MailInv
  <2>3. CASE /\ active # None /\ UNCHANGED queue /\ Hand(c, active, FALSE)
             /\ ClearWaiter(c) /\ UNCHANGED outboundVars
    BY <1>1, <2>0, <2>1, <2>3, Sources, Handed_Inv
  <2>4. CASE /\ active = None /\ queue # <<>> /\ queue' = Tail(queue)
             /\ Hand(c, Head(queue), FALSE) /\ ClearWaiter(c) /\ UNCHANGED outboundVars
    BY <1>1, <2>0, <2>1, <2>4, Sources, Handed_Inv
  <2>5. CASE /\ active = None /\ queue = <<>>
             /\ UNCHANGED <<inbound, queue, delivering, active, unseen, hand>> /\ WakeUpdate
             /\ IF UnreadReplies # {}
                  THEN GiveReply(c, OldestUnread) /\ ClearWaiter(c)
                  ELSE /\ \/ Goto(c, "parked", None) /\ waiter' = c /\ UNCHANGED aborted
                          \/ Return(c) /\ ClearWaiter(c)
                       /\ UNCHANGED outboundVars
    <3>1. InboundTypeOK'
      BY <1>0, <2>5, WakeUpdate_Type DEF MailInv, InboundTypeOK
    <3>2. CASE UnreadReplies # {}
      BY <1>0, <1>1, <1>3, <2>5, <3>1, <3>2, OldestUnread_Type, GiveReply_Inv
    <3>3. CASE UnreadReplies = {} /\ Goto(c, "parked", None) /\ waiter' = c /\ UNCHANGED aborted
      BY <1>1, <1>3, <2>5, <3>1, <3>3, Parked_Inv
    <3>4. CASE UnreadReplies = {} /\ Return(c) /\ ClearWaiter(c)
      BY <1>1, <1>3, <2>5, <3>1, <3>4, EmptyHanded_Inv
    <3> QED BY <2>5, <3>2, <3>3, <3>4
  <2> QED BY <1>3, <2>2, <2>3, <2>4, <2>5 DEF Resume
<1> QED BY <1>2, <1>3

-----------------------------------------------------------------------------
(* relay_await with a msg_id, relay_poll *)

\* A call ends with its answer un-read again, or with an answer long gone.
LEMMA Reclaimed_Inv ==
  ASSUME Inv, NEW c \in Calls, NEW r \in Reqs, ~InBareAwait(c),
         NEW wake \in BOOLEAN, ReturnReclaimed(c, wake),
         ReadReplyAborted(r) \/ ReclaimReply(c, r),
         ~wake => observed \subseteq observed',
         UNCHANGED inboundVars, UNCHANGED history
  PROVE  Inv'
<1>0. MailInv /\ OutboundInv /\ NoSleepThrough /\ HistoryTypeOK
  BY DEF Inv
<1>1. OutboundInv' /\ HistoryTypeOK'
  BY <1>0, Reading_Inv DEF HistoryTypeOK, history
<1>2. MailInv' /\ (wake => \A d \in Calls : pc'[d] # "parked")
  <2>1. InboundTypeOK' /\ UNCHANGED <<inbound, queue, delivering, active>>
    BY <1>0, InboundTypeStays DEF MailInv
  <2> QED BY <1>0, <2>1, ReturnReclaimed_Inv
<1>3. CASE wake
  BY <1>1, <1>2, <1>3 DEF Inv, NoSleepThrough
<1>4. CASE ~wake
  <2>1. UnreadReplies' \subseteq UnreadReplies
    BY <1>4 DEF ReadReplyAborted, ReclaimReply, UnreadReplies, RetainedReplies
  <2>2. \A d \in Calls : pc'[d] = "parked" => pc[d] = "parked"
    BY <1>0, <1>4 DEF ReturnReclaimed, MailInv, CallTypeOK
  <2>3. NoSleepThrough'
    BY <1>0, <1>2, <2>1, <2>2, NoSleep_Kept DEF inboundVars
  <2> QED BY <1>1, <1>2, <2>3 DEF Inv
<1> QED BY <1>3, <1>4

LEMMA ReadAnswer_Inv ==
  ASSUME Inv, NEW c \in Calls, NEW r \in Reqs, NEW fired \in BOOLEAN, ReadAnswer(c, r, fired)
  PROVE  Inv'
<1>1. ~InBareAwait(c) /\ UNCHANGED inboundVars /\ UNCHANGED history
  BY DEF ReadAnswer, InBareAwait
<1>2. CASE fired
  BY <1>1, <1>2, Reclaimed_Inv DEF ReadAnswer
<1>3. CASE ~fired
  BY <1>1, <1>3, InboundTypeStays, GiveReply_Inv DEF ReadAnswer, Inv, MailInv
<1> QED BY <1>2, <1>3

\* A call moves on its own between states outside the bare await.
LEMMA MoveAlone_Inv ==
  ASSUME Inv, NEW c \in Calls, ~InBareAwait(c), NEW s \in CallStates, NEW id, Goto(c, s, id),
         \/ s = "idle" /\ id = None
         \/ s \in {"handed", "replying"} /\ id \in Msgs
         \/ s \in {"keyed", "settled", "read"} /\ id \in Reqs,
         aborted' \subseteq aborted,
         UNCHANGED <<inbound, queue, delivering, active, waiter>>, InboundTypeOK',
         OutboundInv', UnreadReplies' = UnreadReplies, HistoryTypeOK'
  PROVE  Inv'
<1>0. MailInv /\ NoSleepThrough /\ aborted' \subseteq Calls
  BY DEF Inv, MailInv, CallTypeOK
<1>1. MailInv'
  BY <1>0, Move_Inv
<1>2. \A d \in Calls : pc'[d] = "parked" => pc[d] = "parked"
  BY <1>0 DEF Goto, MailInv, CallTypeOK
<1>3. NoSleepThrough'
  BY <1>0, <1>1, <1>2, NoSleep_Kept
<1> QED BY <1>1, <1>3 DEF Inv

LEMMA ReturnAlone_Inv ==
  ASSUME Inv, NEW c \in Calls, ~InBareAwait(c), Return(c),
         UNCHANGED <<inbound, queue, delivering, active, waiter>>, InboundTypeOK',
         OutboundInv', UnreadReplies' = UnreadReplies, HistoryTypeOK'
  PROVE  Inv'
<1>1. Goto(c, "idle", None) /\ aborted' \subseteq aborted /\ "idle" \in CallStates
  BY DEF Return, CallStates
<1> QED BY <1>1, MoveAlone_Inv

\* The mailbox and the sending half do not move.
LEMMA CallStep ==
  ASSUME Inv, UNCHANGED inboundVars, UNCHANGED outboundVars, UNCHANGED history
  PROVE  /\ UNCHANGED <<inbound, queue, delivering, active>> /\ InboundTypeOK'
         /\ OutboundInv' /\ UnreadReplies' = UnreadReplies /\ HistoryTypeOK'
BY InboundTypeStays, OutboundStays DEF Inv, MailInv, HistoryTypeOK, history

LEMMA AwaitReply_Inv ==
  ASSUME Inv, NEW c \in Calls, NEW r \in Reqs, AwaitReply(c, r)
  PROVE  Inv'
<1>1. ~InBareAwait(c) /\ Goto(c, "keyed", r) /\ aborted' \subseteq aborted
      /\ UNCHANGED waiter /\ "keyed" \in CallStates
  BY DEF AwaitReply, InBareAwait, CallStates
<1> QED BY <1>1, CallStep, MoveAlone_Inv DEF AwaitReply

LEMMA ResumeKeyed_Inv ==
  ASSUME Inv, NEW c \in Calls, ResumeKeyed(c)
  PROVE  Inv'
<1>1. /\ ~InBareAwait(c) /\ arg[c] \in Reqs
      /\ UNCHANGED inboundVars /\ UNCHANGED history
  BY DEF ResumeKeyed, InBareAwait, Inv, MailInv, ArgsFit
<1>2. CASE c \notin aborted
  BY <1>1, <1>2, InboundTypeStays, GiveReply_Inv DEF ResumeKeyed, Inv, MailInv
<1>3. CASE c \in aborted
  <2>1. ReadReplyAborted(arg[c]) /\ ReturnReclaimed(c, pend[arg[c]] = "done")
    BY <1>3 DEF ResumeKeyed
  <2>2. CASE pend[arg[c]] = "done"
    <3>1. ReturnReclaimed(c, TRUE)
      BY <2>1, <2>2 DEF ReturnReclaimed
    <3> QED BY <1>1, <2>1, <3>1, Reclaimed_Inv
  <2>3. CASE pend[arg[c]] # "done"
    <3>1. ReturnReclaimed(c, FALSE)
      BY <2>1, <2>3 DEF ReturnReclaimed
    <3>2. observed \subseteq observed'
      BY <2>1, <2>3 DEF ReadReplyAborted
    <3> QED BY <1>1, <2>1, <3>1, <3>2, Reclaimed_Inv
  <2> QED BY <2>2, <2>3
<1> QED BY <1>2, <1>3

-----------------------------------------------------------------------------
(* The end of a call *)

LEMMA Publish_Inv ==
  ASSUME Inv, NEW c \in Calls, Publish(c)
  PROVE  Inv'
<1>0. MailInv /\ OutboundInv /\ HistoryTypeOK
  BY DEF Inv
<1>1. /\ ~InBareAwait(c) /\ Return(c)
      /\ UNCHANGED <<inbound, queue, delivering, active, waiter>> /\ InboundTypeOK'
  BY <1>0, InboundTypeStays DEF Publish, InBareAwait, MailInv
<1>2. HistoryTypeOK'
  BY <1>0 DEF Publish, HistoryTypeOK, MailInv, ArgsFit
<1>3. OutboundInv'
  BY <1>0, ReadingMarks_Inv DEF Publish, OutboundInv, OutboundTypeOK
<1>4. UnreadReplies' = UnreadReplies
  BY DEF Publish, UnreadReplies, RetainedReplies
<1> QED BY <1>1, <1>2, <1>3, <1>4, ReturnAlone_Inv

LEMMA Abort_Inv ==
  ASSUME Inv, NEW c \in Calls, Abort(c)
  PROVE  Inv'
<1>0. MailInv /\ OutboundInv /\ NoSleepThrough /\ UNCHANGED history
  BY DEF Inv, Abort
<1>1. CASE /\ pc[c] = "parked" /\ Goto(c, "woken", None)
           /\ aborted' = aborted \cup {c}
           /\ UNCHANGED <<inboundVars, outboundVars, waiter>>
  <2>1. aborted' \subseteq Calls
    BY <1>0, <1>1 DEF MailInv, CallTypeOK
  <2>2. MailInv'
    BY <1>0, <1>1, <2>1, CallStep, WokenByHand_Inv
  <2>3. \A d \in Calls : pc'[d] = "parked" => pc[d] = "parked"
    BY <1>0, <1>1 DEF Goto, MailInv, CallTypeOK
  <2>4. NoSleepThrough'
    BY <1>0, <1>1, <2>2, <2>3, CallStep, NoSleep_Kept
  <2> QED BY <1>0, <1>1, <2>2, <2>4, CallStep DEF Inv
<1>2. CASE /\ pc[c] \in {"woken", "settled"} /\ aborted' = aborted \cup {c}
           /\ UNCHANGED <<inboundVars, outboundVars, pc, arg, waiter>>
  <2>1. MailInv'
    BY <1>0, <1>2, MailStays DEF MailInv, CallTypeOK
  <2>2. NoSleepThrough'
    BY <1>0, <1>2, <2>1, CallStep, NoSleep_Kept
  <2> QED BY <1>0, <1>2, <2>1, <2>2, CallStep DEF Inv
<1>3. CASE pc[c] = "keyed" /\ Return(c) /\ UNCHANGED <<inboundVars, outboundVars, waiter>>
  BY <1>0, <1>3, CallStep, ReturnAlone_Inv DEF InBareAwait
<1>4. CASE /\ pc[c] = "handed" /\ ReclaimInbound(arg[c], c) /\ Return(c)
           /\ UNCHANGED <<outboundVars, waiter>>
  <2>1. UNCHANGED <<inbound, queue, delivering, active, hand>>
    BY <1>4 DEF ReclaimInbound
  <2>2. InboundTypeOK'
    BY <1>0, <1>4, WakeUpdate_Type DEF ReclaimInbound, MailInv, InboundTypeOK
  <2>3. OutboundInv' /\ UnreadReplies' = UnreadReplies /\ HistoryTypeOK'
    BY <1>0, <1>4, OutboundStays DEF Inv, HistoryTypeOK, history
  <2> QED BY <1>4, <2>1, <2>2, <2>3, ReturnAlone_Inv DEF InBareAwait
<1>5. CASE /\ pc[c] = "read" /\ ReclaimReply(c, arg[c])
           /\ ReturnReclaimed(c, ReclaimActs(c, arg[c])) /\ UNCHANGED inboundVars
  <2>1. ~InBareAwait(c) /\ arg[c] \in Reqs
    BY <1>0, <1>5 DEF InBareAwait, MailInv, ArgsFit
  <2>2. CASE ReclaimActs(c, arg[c])
    <3>1. ReturnReclaimed(c, TRUE) BY <1>5, <2>2 DEF ReturnReclaimed
    <3> QED BY <1>0, <1>5, <2>1, <3>1, Reclaimed_Inv
  <2>3. CASE ~ReclaimActs(c, arg[c])
    <3>1. ReturnReclaimed(c, FALSE) BY <1>5, <2>3 DEF ReturnReclaimed
    <3>2. observed \subseteq observed' BY <1>5, <2>3 DEF ReclaimReply
    <3> QED BY <1>0, <1>5, <2>1, <3>1, <3>2, Reclaimed_Inv
  <2> QED BY <2>2, <2>3
<1> QED BY <1>1, <1>2, <1>3, <1>4, <1>5 DEF Abort

-----------------------------------------------------------------------------
(* relay_dispatch, relay_cancel *)

LEMMA Dispatch_Inv ==
  ASSUME Inv, NEW r \in Reqs, Dispatch(r)
  PROVE  Inv'
<1>0. MailInv /\ OutboundInv /\ NoSleepThrough /\ HistoryTypeOK
  BY DEF Inv
<1>1. /\ \E hops : OpenRequest(r, hops)
      /\ pend[r] = "none" /\ UNCHANGED inboundVars /\ UNCHANGED callVars /\ UNCHANGED history
  BY DEF Dispatch, Forgotten
<1>2. OutboundInv'
  BY <1>0, <1>1, OpenRequest_Inv
<1>3. UnreadReplies' \subseteq UnreadReplies
  BY <1>0, <1>1
  DEF OpenRequest, UnreadReplies, RetainedReplies, OutboundInv, OutboundTypeOK
<1>4. MailInv'
  BY <1>0, <1>1, MailStays DEF callVars, MailInv, CallTypeOK
<1>5. NoSleepThrough' /\ HistoryTypeOK'
  BY <1>0, <1>1, <1>3, <1>4, NoSleep_Kept DEF callVars, inboundVars, HistoryTypeOK, history
<1> QED BY <1>2, <1>4, <1>5 DEF Inv

\* Requests are dropped and the awaits keyed on them settled.
LEMMA Dropped_Inv ==
  ASSUME Inv, NEW R \in SUBSET Reqs, Resolve(R, FALSE),
         UNCHANGED inboundVars, UNCHANGED <<arg, aborted>>,
         OutboundInv', UnreadReplies' \subseteq UnreadReplies, HistoryTypeOK'
  PROVE  Inv'
<1>0. MailInv /\ NoSleepThrough
  BY DEF Inv
<1>1. InboundTypeOK' /\ UNCHANGED <<inbound, queue, delivering, active>>
  BY <1>0, InboundTypeStays DEF MailInv
<1>2. MailInv'
  BY <1>0, <1>1, Resolve_Inv
<1>3. \A d \in Calls : pc'[d] = "parked" => pc[d] = "parked"
  BY DEF Resolve
<1>4. NoSleepThrough'
  BY <1>0, <1>1, <1>2, <1>3, NoSleep_Kept
<1> QED BY <1>2, <1>4 DEF Inv

LEMMA CancelOne_Inv ==
  ASSUME Inv, NEW r \in Reqs, CancelOne(r)
  PROVE  Inv'
<1>0. OutboundInv /\ HistoryTypeOK
  BY DEF Inv
<1>1. OutboundInv' /\ UnreadReplies' \subseteq UnreadReplies /\ HistoryTypeOK'
  BY <1>0, ForgetPending_Inv, Unread_ForgetPending DEF CancelOne, HistoryTypeOK
<1>2. Resolve({r}, FALSE) /\ UNCHANGED inboundVars /\ UNCHANGED <<arg, aborted>>
  BY DEF CancelOne
<1> QED BY <1>1, <1>2, Dropped_Inv

LEMMA CancelOpen_Inv ==
  ASSUME Inv, NEW R \in SUBSET OpenRequests, CancelOpen(R)
  PROVE  Inv'
<1>0. OutboundInv /\ HistoryTypeOK /\ R \in SUBSET Reqs
  BY DEF Inv, OpenRequests
<1>1. OutboundInv'
  BY <1>0, ForgetOpen_Inv DEF CancelOpen, OpenRequests
<1>2. UnreadReplies' \subseteq UnreadReplies /\ HistoryTypeOK'
  BY <1>0, Unread_Forgotten DEF CancelOpen, Elems, HistoryTypeOK, history
<1>3. Resolve(R, FALSE) /\ UNCHANGED inboundVars /\ UNCHANGED <<arg, aborted>>
  BY DEF CancelOpen
<1> QED BY <1>0, <1>1, <1>2, <1>3, Dropped_Inv

LEMMA Cancel_Inv ==
  ASSUME Inv, Cancel PROVE Inv'
<1>1. CASE \E r \in Reqs : CancelOne(r)
  BY <1>1, CancelOne_Inv
<1>2. CASE \E p \in Peers : CancelOpen({r \in OpenRequests : Target[r] = p})
  BY <1>2, CancelOpen_Inv
<1>3. CASE CancelOpen(OpenRequests)
  BY <1>3, CancelOpen_Inv
<1> QED BY <1>1, <1>2, <1>3 DEF Cancel

-----------------------------------------------------------------------------
(* relay_reply *)

LEMMA Respond_Inv ==
  ASSUME Inv, NEW c \in Calls, NEW m \in Msgs, Respond(c, m)
  PROVE  Inv'
<1>1. ~InBareAwait(c) /\ Goto(c, "replying", m) /\ aborted' \subseteq aborted
      /\ UNCHANGED waiter /\ "replying" \in CallStates
  BY DEF Respond, InBareAwait, CallStates
<1> QED BY <1>1, CallStep, MoveAlone_Inv DEF Respond

LEMMA Responded_Inv ==
  ASSUME Inv, NEW c \in Calls, Responded(c)
  PROVE  Inv'
<1> USE Constants_Apart
<1>0. MailInv /\ OutboundInv /\ NoSleepThrough /\ HistoryTypeOK
  BY DEF Inv
<1>1. /\ pc[c] = "replying" /\ arg[c] \in Msgs /\ InTransit = {}
      /\ \A d \in Calls : pc[d] # "woken"
      /\ ForgetInbound(arg[c]) /\ Return(c) /\ waiter' = waiter
  BY <1>0, SettledFacts DEF Responded, MailInv, ArgsFit
<1>2. /\ InboundTypeOK' /\ ReachableWith({})' /\ active' \in {active, None}
      /\ queue = <<>> => queue' = <<>>
  BY <1>0, <1>1, ForgetInbound_Facts
<1>3. /\ CallTypeOK' /\ ArgsFit'
      /\ \A d \in Calls : pc'[d] = IF d = c THEN "idle" ELSE pc[d]
  BY <1>0, <1>1 DEF Return, Goto, MailInv, CallTypeOK, ArgsFit, CallStates
<1>4. OneBareAwait'
  BY <1>0, <1>1, <1>2, <1>3
  DEF MailInv, CallTypeOK, OneBareAwait, InBareAwait, Return, Goto
<1>5. InTransit' = {} /\ \A d \in Calls : pc'[d] # "woken"
  BY <1>1, <1>3 DEF InTransit
<1>6. EveryRequestReachable'
  BY <1>2, <1>5, Reachable_Join
<1>7. MailInv'
  BY <1>2, <1>3, <1>4, <1>6 DEF MailInv
<1>8. OutboundInv' /\ UnreadReplies' = UnreadReplies /\ HistoryTypeOK'
  BY <1>0, OutboundStays DEF Responded, HistoryTypeOK
<1>9. NoSleepThrough'
  BY <1>0, <1>2, <1>3, <1>7, <1>8, NoSleep_Kept
<1> QED BY <1>7, <1>8, <1>9 DEF Inv

LEMMA RespondFailed_Inv ==
  ASSUME Inv, NEW c \in Calls, RespondFailed(c)
  PROVE  Inv'
BY CallStep, ReturnAlone_Inv DEF RespondFailed, InBareAwait

LEMMA Abandon_Inv ==
  ASSUME Inv, NEW m \in Msgs, Abandon(m)
  PROVE  Inv'
<1>0. MailInv /\ OutboundInv /\ NoSleepThrough /\ HistoryTypeOK
  BY DEF Inv
<1>1. ForgetInbound(m) /\ m \notin InTransit /\ UNCHANGED callVars
  BY DEF Abandon, Answerable
<1>2. /\ InboundTypeOK' /\ active' \in {active, None}
      /\ queue = <<>> => queue' = <<>>
  BY <1>0, <1>1, ForgetInbound_Facts
<1>3. CallTypeOK' /\ ArgsFit' /\ OneBareAwait' /\ InTransit' = InTransit
  BY <1>0, <1>1, <1>2
  DEF callVars, MailInv, CallTypeOK, ArgsFit, OneBareAwait, InBareAwait, InTransit
<1>4. EveryRequestReachable'
  <2>1. ASSUME NEW U, U = InTransit PROVE EveryRequestReachable'
    <3>1. ReachableWith(U)'
      BY <1>0, <1>1, <2>1, ForgetInbound_Facts
    <3>2. \A c, d \in Calls : pc'[c] = "woken" /\ pc'[d] = "woken" => c = d
      BY <1>3 DEF OneBareAwait, InBareAwait
    <3> QED BY <1>3, <2>1, <3>1, <3>2, Reachable_Join
  <2> QED BY <2>1
<1>5. MailInv'
  BY <1>2, <1>3, <1>4 DEF MailInv
<1>6. OutboundInv' /\ UnreadReplies' = UnreadReplies /\ HistoryTypeOK'
  BY <1>0, OutboundStays DEF Abandon, HistoryTypeOK
<1>7. NoSleepThrough'
  BY <1>0, <1>1, <1>2, <1>5, <1>6, NoSleep_Kept DEF callVars
<1> QED BY <1>5, <1>6, <1>7 DEF Inv

-----------------------------------------------------------------------------
(* The specification *)

LEMMA Init_Inv ==
  ASSUME Init PROVE Inv
<1> USE Constants_Apart
<1>1. OutboundInv
  BY OutboundInit_Inv DEF Init
<1>2. queue = <<>> /\ queue \in Seq(Msgs) /\ Len(queue) = 0
  BY EmptySeq DEF Init, InboundInit
<1>3. InboundTypeOK /\ CallTypeOK /\ HistoryTypeOK
  BY <1>2 DEF Init, InboundInit, InboundTypeOK, CallTypeOK, CallStates, HistoryTypeOK
<1>4. \A c \in Calls : pc[c] = "idle" /\ arg[c] = None
  BY DEF Init
<1>5. ArgsFit /\ OneBareAwait /\ NoSleepThrough /\ InTransit = {}
  BY <1>4 DEF Init, ArgsFit, OneBareAwait, InBareAwait, NoSleepThrough, InTransit
<1>6. EveryRequestReachable
  BY <1>2, <1>4, <1>5 DEF Init, InboundInit, EveryRequestReachable, QueuedMsgs
<1> QED BY <1>1, <1>3, <1>5, <1>6 DEF Inv, MailInv

LEMMA Stutter_Inv ==
  ASSUME Inv, UNCHANGED vars PROVE Inv'
<1>1. UNCHANGED inboundVars /\ UNCHANGED outboundVars /\ UNCHANGED history /\ UNCHANGED callVars
  BY DEF vars
<1>2. MailInv'
  BY <1>1, MailStays DEF Inv, MailInv, CallTypeOK, callVars
<1>3. NoSleepThrough'
  BY <1>1, <1>2, CallStep, NoSleep_Kept DEF Inv, inboundVars, callVars
<1> QED BY <1>1, <1>2, <1>3, CallStep DEF Inv

LEMMA Next_Inv ==
  ASSUME Inv, Next PROVE Inv'
<1>1. CASE \E m \in Msgs, registered \in SUBSET Registrable : ReceivePrompt(m, registered)
  BY <1>1, ReceivePrompt_Inv
<1>2. ASSUME NEW r \in Reqs,
             \/ ReceiveResponse(r) \/ Acked(r) \/ SendFailed(r) \/ Expire(r) \/ Dispatch(r)
      PROVE  Inv'
  BY <1>2, ReceiveResponse_Inv, OutboundEvent_Inv, Dispatch_Inv
<1>3. CASE Cancel
  BY <1>3, Cancel_Inv
<1>4. ASSUME NEW c \in Calls, \E fired \in BOOLEAN : AwaitInbound(c, fired)
      PROVE  Inv'
  BY <1>4, AwaitInbound_Inv
<1>5. ASSUME NEW c \in Calls,
             \/ Timeout(c) \/ Resume(c) \/ ResumeKeyed(c) \/ Publish(c) \/ Abort(c)
             \/ Responded(c) \/ RespondFailed(c)
      PROVE  Inv'
  BY <1>5, Timeout_Inv, Resume_Inv, ResumeKeyed_Inv, Publish_Inv, Abort_Inv,
     Responded_Inv, RespondFailed_Inv
<1>6. ASSUME NEW c \in Calls, NEW r \in Reqs,
             (\E fired \in BOOLEAN : ReadAnswer(c, r, fired)) \/ AwaitReply(c, r)
      PROVE  Inv'
  BY <1>6, ReadAnswer_Inv, AwaitReply_Inv
<1>7. CASE \E c \in Calls, m \in Msgs : Respond(c, m)
  BY <1>7, Respond_Inv
<1>8. CASE \E m \in Msgs : Abandon(m)
  BY <1>8, Abandon_Inv
<1> QED BY <1>1, <1>2, <1>3, <1>4, <1>5, <1>6, <1>7, <1>8 DEF Next

\* The inductive invariant holds throughout.
THEOREM Invariant == Spec => []Inv
<1>1. Init => Inv
  BY Init_Inv
<1>2. Inv /\ [Next]_vars => Inv'
  BY Next_Inv, Stutter_Inv
<1> QED BY <1>1, <1>2, PTL DEF Spec

\* Types: every id is where an id of its kind may be (all the handlers).
THEOREM TypeCorrect == Spec => []TypeOK
<1>1. Inv => TypeOK
  BY DEF Inv, MailInv, OutboundInv, CallTypeOK, HistoryTypeOK, TypeOK
<1> QED BY <1>1, Invariant, PTL

\* No accepted request is invisible or in two places, whatever the socket, the
\* timers, the tool calls and the cancellations do (receivePrompt, awaitInbound,
\* handInbound, forgetInbound).
THEOREM RequestsReachable == Spec => []EveryRequestReachable
<1>1. Inv => EveryRequestReachable
  BY DEF Inv, MailInv
<1> QED BY <1>1, Invariant, PTL

\* No await sleeps while there is something for it (awaitInbound, and whoever
\* must wake it).
THEOREM AwaitsAwake == Spec => []NoSleepThrough
<1>1. Inv => NoSleepThrough
  BY DEF Inv
<1> QED BY <1>1, Invariant, PTL

\* A recipient's slot is held by exactly its open request (send,
\* receiveResponse, forgetPending, cancel).
THEOREM SlotsCorrect == Spec => []SlotsMatchPending
<1>1. Inv => SlotsMatchPending
  BY DEF Inv, OutboundInv
<1> QED BY <1>1, Invariant, PTL

\* The retained list holds the answered requests, each once, within its bound
\* (receiveResponse, forgetPending).
THEOREM RetainedCorrect == Spec => []RetainedExactly
<1>1. Inv => RetainedExactly
  BY DEF Inv, OutboundInv
<1> QED BY <1>1, Invariant, PTL

\* Nothing pending is without a delivery or a timer that ends it, and no timer
\* outlives what it expires (send, armExpiry, forgetPending).
THEOREM PendingTimed == Spec => []EveryPendingTimed
<1>1. Inv => EveryPendingTimed
  BY DEF Inv, OutboundInv
<1> QED BY <1>1, Invariant, PTL
=============================================================================
