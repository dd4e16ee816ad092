------------------------ MODULE RelayDeliveryProofs ------------------------
(***************************************************************************)
(* What a delivery and its answer promise each other, for any number of    *)
(* sessions and requests, whatever times out, crashes or goes astray.      *)
(***************************************************************************)
EXTENDS RelayDelivery, TLAPS

\* A prompt its recipient has not taken has no answer anywhere.
Unanswered(r) ==
  /\ r \notin inbound
  /\ conn[Response(r)] = "none" /\ Response(r) \notin stray

Course(r) ==
  /\ Prompt(r) \in stray => conn[Prompt(r)] = "none"
  /\ Prompt(r) \in stray \/ conn[Prompt(r)] \notin {"none", "ack"} => Unanswered(r)
  /\ conn[Response(r)] \in {"ack", "nack"} => pend[r] # "open"
  /\ pend[r] = "open" /\ conn[Prompt(r)] \in {"none", "ack"} => r \in inbound \cup lost \cup deserted
  /\ pend[r] = "done" => conn[Prompt(r)] = "none"

IInv == TypeOK /\ \A r \in Reqs : Course(r)

-----------------------------------------------------------------------------
LEMMA Envelopes ==
  /\ \A r \in Reqs : Prompt(r) \in Lines /\ Response(r) \in Lines
  /\ \A r, q \in Reqs : /\ Prompt(r) # Response(q)
                        /\ Prompt(r) = Prompt(q) => r = q
                        /\ Response(r) = Response(q) => r = q
  /\ \A l \in Lines : \E r \in Reqs : l = Prompt(r) \/ l = Response(r)
  /\ \A r \in Reqs : /\ Dialer(Prompt(r)) = From[r] /\ Acceptor(Prompt(r)) = To[r]
                     /\ Dialer(Response(r)) = To[r] /\ Acceptor(Response(r)) = From[r]
BY DEF Lines, Prompt, Response, Dialer, Acceptor

\* Nothing is said of r by a step that concerns other requests alone.
LEMMA Others ==
  ASSUME NEW r \in Reqs, Course(r),
         pend'[r] = pend[r], r \in inbound' <=> r \in inbound,
         conn'[Prompt(r)] = conn[Prompt(r)], conn'[Response(r)] = conn[Response(r)],
         \A l \in {Prompt(r), Response(r)} : l \in stray' => l \in stray,
         r \in lost => r \in lost', r \in deserted => r \in deserted'
  PROVE  Course(r)'
BY DEF Course, Unanswered, Prompt, Response

\* sendEnvelope, seen from the connection of one envelope.
LEMMA Settled ==
  ASSUME TypeOK, NEW l \in Lines, NEW outcome, Settles(l, outcome)
  PROVE  /\ conn' \in [Lines -> ConnStates] /\ stray' \subseteq Lines
         /\ conn'[l] = "none" /\ \A k \in Lines \ {l} : conn'[k] = conn[k]
         /\ \A k \in Lines : k \in stray' => k \in stray \/ (k = l /\ conn[l] = "line")
BY DEF TypeOK, Settles, Set, ConnStates

LEMMA Read ==
  ASSUME TypeOK, NEW l \in Lines, NEW live \in BOOLEAN, NEW reply \in {"ack", "nack", "cut"},
         Reads(l, live, reply)
  PROVE  /\ conn' \in [Lines -> ConnStates] /\ stray' \subseteq Lines /\ stray' \subseteq stray
         /\ Acceptor(l) \in running
         /\ \A k \in Lines \ {l} : conn'[k] = conn[k]
         /\ \/ conn[l] = "line" /\ conn'[l] = reply
            \/ l \in stray /\ l \notin stray' /\ conn'[l] = conn[l]
BY DEF TypeOK, Reads, Set, ConnStates

LEMMA Closed ==
  ASSUME TypeOK, NEW L \in SUBSET Lines, NEW D \in SUBSET Lines, Closes(L, D)
  PROVE  /\ conn' \in [Lines -> ConnStates] /\ stray' \subseteq Lines
         /\ \A l \in Lines : conn'[l] = IF l \in D THEN "none"
                                        ELSE IF l \in L /\ conn[l] = "line" THEN "cut" ELSE conn[l]
         /\ \A l \in Lines : l \in stray' => l \in stray \/ (l \in D /\ conn[l] = "line")
BY DEF TypeOK, Closes, ConnStates

-----------------------------------------------------------------------------
(* One lemma per action *)

LEMMA Send_Inv ==
  ASSUME IInv, NEW r \in Reqs, Send(r) PROVE IInv'
<1> USE Envelopes DEF IInv
<1>1. TypeOK'
  BY DEF TypeOK, Send, Dial, Set, ConnStates
<1>2. Course(r)'
  BY DEF TypeOK, Send, Dial, Set, Course, Unanswered
<1>3. ASSUME NEW q \in Reqs, q # r PROVE Course(q)'
  BY <1>3, Others DEF TypeOK, Send, Dial, Set
<1> QED BY <1>1, <1>2, <1>3

LEMMA Connect_Inv ==
  ASSUME IInv, NEW l \in Lines, Connect(l) PROVE IInv'
<1> USE Envelopes DEF IInv
<1>1. TypeOK'
  BY DEF TypeOK, Connect, Set, ConnStates
<1>2. conn[l] = "dial" /\ conn'[l] = "line" /\ \A k \in Lines \ {l} : conn'[k] = conn[k]
  BY DEF TypeOK, Connect, Set
<1>3. ASSUME NEW q \in Reqs PROVE Course(q)'
  <2>1. CASE l = Prompt(q)
    BY <1>2, <2>1 DEF Connect, Course, Unanswered, Prompt, Response
  <2>2. CASE l = Response(q)
    BY <1>2, <2>2 DEF Connect, Course, Unanswered, Prompt, Response
  <2>3. CASE l # Prompt(q) /\ l # Response(q)
    BY <1>2, <2>3, Others DEF Connect
  <2> QED BY <2>1, <2>2, <2>3
<1> QED BY <1>1, <1>3

LEMMA Unread_Inv ==
  ASSUME IInv, NEW l \in Lines, NEW live \in BOOLEAN, Unread(l, live) PROVE IInv'
<1> USE Envelopes DEF IInv
<1>1. /\ conn' \in [Lines -> ConnStates] /\ stray' \subseteq Lines /\ stray' \subseteq stray
      /\ \A k \in Lines \ {l} : conn'[k] = conn[k]
      /\ conn'[l] = conn[l] \/ (conn[l] = "line" /\ conn'[l] = "cut")
  BY Read DEF Unread
<1>2. TypeOK'
  BY <1>1 DEF TypeOK, Unread
<1>3. ASSUME NEW q \in Reqs PROVE Course(q)'
  <2>1. CASE conn'[Prompt(q)] = conn[Prompt(q)] /\ conn'[Response(q)] = conn[Response(q)]
    BY <1>1, <2>1, Others DEF Unread
  <2>2. CASE l = Prompt(q) /\ conn[l] = "line" /\ conn'[l] = "cut"
    BY <1>1, <2>2 DEF Unread, Course, Unanswered, Prompt, Response
  <2>3. CASE l = Response(q) /\ conn[l] = "line" /\ conn'[l] = "cut"
    BY <1>1, <2>3 DEF Unread, Course, Unanswered, Prompt, Response
  <2> QED BY <1>1, <2>1, <2>2, <2>3
<1> QED BY <1>2, <1>3

LEMMA Delivered_Inv ==
  ASSUME IInv, NEW r \in Reqs, Delivered(r) PROVE IInv'
<1> USE Envelopes DEF IInv
<1>1. PICK outcome \in {"unreachable", "acked", "nacked", "failed"} :
        /\ Settles(Prompt(r), outcome)
        /\ IF outcome = "acked" THEN UNCHANGED pend ELSE ForgetPending(r)
  BY DEF Delivered
<1>2. /\ conn' \in [Lines -> ConnStates] /\ stray' \subseteq Lines
      /\ conn'[Prompt(r)] = "none" /\ \A k \in Lines \ {Prompt(r)} : conn'[k] = conn[k]
      /\ \A k \in Lines : k \in stray' => k \in stray \/ (k = Prompt(r) /\ conn[k] = "line")
  BY <1>1, Settled
<1>3. TypeOK'
  BY <1>1, <1>2 DEF TypeOK, Delivered, ForgetPending
<1>4. Course(r)'
  <2>1. CASE outcome = "acked"
    <3>1. conn[Prompt(r)] = "ack" /\ stray' = stray
      BY <1>1, <2>1 DEF Settles
    <3> QED BY <1>1, <1>2, <2>1, <3>1 DEF Delivered, Course, Unanswered
  <2>2. CASE outcome # "acked"
    <3>1. pend'[r] = "none"
      BY <1>1, <2>2 DEF TypeOK, ForgetPending
    <3> QED BY <1>2, <3>1 DEF Delivered, Course, Unanswered
  <2> QED BY <2>1, <2>2
<1>5. ASSUME NEW q \in Reqs, q # r PROVE Course(q)'
  <2>1. pend'[q] = pend[q]
    BY <1>1, <1>5 DEF TypeOK, ForgetPending
  <2> QED BY <1>2, <1>5, <2>1, Others DEF Delivered
<1> QED BY <1>3, <1>4, <1>5

LEMMA Forget_Inv ==
  ASSUME IInv, NEW r \in Reqs, Forget(r) PROVE IInv'
<1> USE Envelopes DEF IInv
<1>1. pend' \in [Reqs -> {"none", "open", "done"}] /\ pend'[r] = "none"
      /\ \A q \in Reqs \ {r} : pend'[q] = pend[q]
  BY DEF TypeOK, Forget, ForgetPending
<1>2. TypeOK'
  BY <1>1 DEF TypeOK, Forget
<1>3. Course(r)'
  BY <1>1 DEF Forget, Course, Unanswered, Prompt, Response
<1>4. ASSUME NEW q \in Reqs, q # r PROVE Course(q)'
  BY <1>1, <1>4, Others DEF Forget
<1> QED BY <1>2, <1>3, <1>4

LEMMA ReceiveResponse_Inv ==
  ASSUME IInv, NEW r \in Reqs, NEW live \in BOOLEAN, ReceiveResponse(r, live) PROVE IInv'
<1> USE Envelopes DEF IInv
<1> DEFINE l == Response(r)
<1>1. Reads(l, live, Verdict(r)) /\ Verdict(r) \in {"ack", "nack", "cut"}
  BY DEF ReceiveResponse, Verdict
<1>2. /\ conn' \in [Lines -> ConnStates] /\ stray' \subseteq Lines /\ stray' \subseteq stray
      /\ From[r] \in running
      /\ \A k \in Lines \ {l} : conn'[k] = conn[k]
      /\ (conn[l] = "line" /\ conn'[l] = Verdict(r)) \/ (l \in stray /\ conn'[l] = conn[l])
  BY <1>1, Read
<1>3. pend' = IF pend[r] = "open" THEN [pend EXCEPT ![r] = "done"] ELSE pend
  BY DEF ReceiveResponse
<1>4. TypeOK'
  BY <1>2, <1>3 DEF TypeOK, ReceiveResponse
<1>5. Course(r)'
  <2>1. conn[Prompt(r)] = "none"
    BY <1>2 DEF ReceiveResponse, Course, Unanswered
  <2>2. pend'[r] # "open"
    BY <1>3 DEF TypeOK
  <2> QED BY <1>2, <2>1, <2>2 DEF ReceiveResponse, Course, Unanswered, Prompt, Response
<1>6. ASSUME NEW q \in Reqs, q # r PROVE Course(q)'
  <2>1. pend'[q] = pend[q]
    BY <1>3, <1>6 DEF TypeOK
  <2> QED BY <1>2, <1>6, <2>1, Others DEF ReceiveResponse
<1> QED BY <1>4, <1>5, <1>6

LEMMA ReceivePrompt_Inv ==
  ASSUME IInv, NEW r \in Reqs, NEW live \in BOOLEAN, ReceivePrompt(r, live) PROVE IInv'
<1> USE Envelopes DEF IInv
<1> DEFINE l == Prompt(r)
<1>1. \/ Reads(l, live, "ack") /\ inbound' = inbound \cup {r}
      \/ Reads(l, live, "nack") /\ inbound' = inbound
  BY DEF ReceivePrompt, Accept, Refuse
<1>2. /\ conn' \in [Lines -> ConnStates] /\ stray' \subseteq Lines /\ stray' \subseteq stray
      /\ To[r] \in running
      /\ \A k \in Lines \ {l} : conn'[k] = conn[k]
  BY <1>1, Read
<1>3. TypeOK'
  BY <1>1, <1>2 DEF TypeOK, ReceivePrompt
<1>4. Course(r)'
  <2>1. CASE conn[l] = "line" /\ conn'[l] = "ack" /\ inbound' = inbound \cup {r}
    BY <1>2, <2>1 DEF ReceivePrompt, Course, Unanswered, Prompt, Response
  <2>2. CASE conn[l] = "line" /\ conn'[l] = "nack" /\ inbound' = inbound
    BY <1>2, <2>2 DEF ReceivePrompt, Course, Unanswered, Prompt, Response
  <2>3. CASE l \in stray /\ l \notin stray' /\ conn'[l] = conn[l]
    BY <1>1, <1>2, <2>3 DEF ReceivePrompt, Course, Unanswered, Prompt, Response
  <2> QED BY <1>1, <2>1, <2>2, <2>3, Read
<1>5. ASSUME NEW q \in Reqs, q # r PROVE Course(q)'
  BY <1>1, <1>2, <1>5, Others DEF ReceivePrompt
<1> QED BY <1>3, <1>4, <1>5

LEMMA Respond_Inv ==
  ASSUME IInv, NEW r \in Reqs, Respond(r) PROVE IInv'
<1> USE Envelopes DEF IInv
<1>1. conn' \in [Lines -> ConnStates] /\ conn[Response(r)] = "none"
      /\ conn'[Response(r)] = "dial" /\ \A k \in Lines \ {Response(r)} : conn'[k] = conn[k]
  BY DEF TypeOK, Respond, Dial, Set, ConnStates
<1>2. TypeOK'
  BY <1>1 DEF TypeOK, Respond
<1>3. Course(r)'
  BY <1>1 DEF Respond, Course, Unanswered, Prompt, Response
<1>4. ASSUME NEW q \in Reqs, q # r PROVE Course(q)'
  BY <1>1, <1>4, Others DEF Respond
<1> QED BY <1>2, <1>3, <1>4

LEMMA Responded_Inv ==
  ASSUME IInv, NEW r \in Reqs, Responded(r) PROVE IInv'
<1> USE Envelopes DEF IInv
<1> DEFINE l == Response(r)
<1>1. PICK outcome \in {"unreachable", "acked", "nacked", "failed"} :
        /\ Settles(l, outcome)
        /\ inbound' = IF Final(outcome) THEN inbound \ {r} ELSE inbound
        /\ deserted' = IF outcome = "unreachable" THEN deserted \cup ({r} \cap inbound) ELSE deserted
  BY DEF Responded
<1>2. /\ conn' \in [Lines -> ConnStates] /\ stray' \subseteq Lines
      /\ conn'[l] = "none" /\ \A k \in Lines \ {l} : conn'[k] = conn[k]
      /\ \A k \in Lines : k \in stray' => k \in stray \/ (k = l /\ conn[l] = "line")
  BY <1>1, Settled
<1>3. UNCHANGED <<pend, running, bound, lost>>
  BY DEF Responded
<1>4. TypeOK'
  BY <1>1, <1>2, <1>3 DEF TypeOK
<1>5. Course(r)'
  <2>1. conn[l] # "none"
    BY <1>1 DEF Settles
  <2>2. conn[Prompt(r)] \in {"none", "ack"} /\ Prompt(r) \notin stray
    BY <2>1 DEF Course, Unanswered
  <2>3. ASSUME pend[r] = "open" PROVE r \in inbound' \cup lost \cup deserted'
    <3>1. outcome \notin {"acked", "nacked"}
      BY <1>1, <2>3 DEF Settles, Course
    <3> QED BY <1>1, <2>2, <2>3, <3>1 DEF Course, Final
  <2> QED BY <1>2, <1>3, <2>2, <2>3 DEF Course, Unanswered, Prompt, Response
<1>6. ASSUME NEW q \in Reqs, q # r PROVE Course(q)'
  <2>1. q \in inbound' <=> q \in inbound
    BY <1>1, <1>6
  <2>2. q \in deserted => q \in deserted'
    BY <1>1
  <2> QED BY <1>2, <1>3, <1>6, <2>1, <2>2, Others
<1> QED BY <1>4, <1>5, <1>6

LEMMA Abandon_Inv ==
  ASSUME IInv, NEW r \in Reqs, Abandon(r) PROVE IInv'
<1> USE Envelopes DEF IInv
<1>1. TypeOK'
  BY DEF TypeOK, Abandon
<1>2. Course(r)'
  BY DEF Abandon, Course, Unanswered, Prompt, Response
<1>3. ASSUME NEW q \in Reqs, q # r PROVE Course(q)'
  BY <1>3, Others DEF Abandon
<1> QED BY <1>1, <1>2, <1>3

\* An endpoint that goes cuts prompts that were not taken, and answers.
LEMMA Unbind_Inv ==
  ASSUME IInv, NEW n \in Nodes, Unbind(n) PROVE IInv'
<1> USE Envelopes DEF IInv
<1>1. PICK L \in SUBSET LinesTo(n) : Closes(L, {})
  BY DEF Unbind
<1>2. L \subseteq Lines
  BY DEF LinesTo
<1>3. /\ conn' \in [Lines -> ConnStates] /\ stray' \subseteq Lines
      /\ \A l \in Lines : conn'[l] = conn[l] \/ (conn[l] = "line" /\ conn'[l] = "cut")
      /\ \A l \in Lines : l \in stray' => l \in stray
  <2>1. PICK D \in SUBSET Lines : D = {} /\ Closes(L, D)
    BY <1>1
  <2>2. \A l \in Lines : l \notin D
    BY <2>1
  <2>3. /\ conn' \in [Lines -> ConnStates] /\ stray' \subseteq Lines
        /\ \A l \in Lines : conn'[l] = IF l \in D THEN "none"
                                       ELSE IF l \in L /\ conn[l] = "line" THEN "cut" ELSE conn[l]
        /\ \A l \in Lines : l \in stray' => l \in stray \/ (l \in D /\ conn[l] = "line")
    BY <1>2, <2>1, Closed
  <2> QED BY <2>2, <2>3
<1>4. TypeOK'
  BY <1>3 DEF TypeOK, Unbind
<1>5. ASSUME NEW q \in Reqs PROVE Course(q)'
  BY <1>3 DEF Unbind, Course, Unanswered, Prompt, Response
<1> QED BY <1>4, <1>5

LEMMA Bind_Inv ==
  ASSUME IInv, NEW n \in Nodes, Bind(n) PROVE IInv'
<1> USE Envelopes DEF IInv
<1>1. TypeOK'
  BY DEF TypeOK, Bind
<1>2. ASSUME NEW q \in Reqs PROVE Course(q)'
  BY Others DEF Bind
<1> QED BY <1>1, <1>2

LEMMA Crash_Inv ==
  ASSUME IInv, NEW n \in Nodes, Crash(n) PROVE IInv'
<1> USE Envelopes DEF IInv
<1>1. Closes(LinesTo(n), LinesOf(n)) /\ LinesTo(n) \subseteq Lines /\ LinesOf(n) \subseteq Lines
  BY DEF Crash, LinesTo, LinesOf
<1>2. /\ conn' \in [Lines -> ConnStates] /\ stray' \subseteq Lines
      /\ \A l \in Lines : conn'[l] = IF Dialer(l) = n THEN "none"
                                     ELSE IF Acceptor(l) = n /\ conn[l] = "line" THEN "cut"
                                     ELSE conn[l]
      /\ \A l \in Lines : l \in stray' => l \in stray \/ (Dialer(l) = n /\ conn[l] = "line")
  <2>1. \A l \in Lines : /\ l \in LinesTo(n) <=> Acceptor(l) = n
                         /\ l \in LinesOf(n) <=> Dialer(l) = n
    BY DEF LinesTo, LinesOf
  <2> QED BY <1>1, <2>1, Closed
<1>3. TypeOK'
  BY <1>2 DEF TypeOK, Crash
<1>4. ASSUME NEW q \in Reqs PROVE Course(q)'
  <2>1. CASE From[q] = n
    <3>1. pend'[q] = "none" /\ conn'[Prompt(q)] = "none"
      BY <1>2, <2>1 DEF Crash
    <3>2. Prompt(q) \in stray' => Unanswered(q)'
      <4>1. SUFFICES ASSUME Prompt(q) \in stray' PROVE Unanswered(q)' OBVIOUS
      <4>2. Unanswered(q)
        BY <1>2, <4>1 DEF Course
      <4>3. conn'[Response(q)] = "none" /\ Response(q) \notin stray' /\ q \notin inbound'
        BY <1>2, <4>2 DEF Crash, Unanswered
      <4> QED BY <4>3 DEF Unanswered
    <3>3. conn'[Response(q)] \in {"ack", "nack"} => pend'[q] # "open"
      BY <3>1
    <3> QED BY <3>1, <3>2, <3>3 DEF Course
  <2>2. CASE From[q] # n /\ To[q] = n
    <3>1. pend'[q] = pend[q] /\ conn'[Response(q)] = "none"
          /\ conn'[Prompt(q)] = IF conn[Prompt(q)] = "line" THEN "cut" ELSE conn[Prompt(q)]
      BY <1>2, <2>2 DEF Crash
    <3>2. q \notin inbound' /\ (q \in inbound \cup lost => q \in lost') /\ deserted' = deserted
      BY <2>2 DEF Crash
    <3>3. Prompt(q) \in stray' => Prompt(q) \in stray
      BY <1>2, <2>2
    <3>4. Response(q) \in stray' => Response(q) \in stray \/ conn[Response(q)] = "line"
      BY <1>2
    <3> QED BY <3>1, <3>2, <3>3, <3>4 DEF Course, Unanswered, Prompt, Response
  <2>3. CASE From[q] # n /\ To[q] # n
    <3>1. conn'[Prompt(q)] = conn[Prompt(q)] /\ conn'[Response(q)] = conn[Response(q)]
      BY <1>2, <2>3
    <3> QED BY <1>2, <2>3, <3>1, Others DEF Crash
  <2> QED BY <2>1, <2>2, <2>3
<1> QED BY <1>3, <1>4

-----------------------------------------------------------------------------
\* The inductive invariant holds throughout.
THEOREM DeliveryInvariant == Spec => []IInv
<1>1. Init => IInv
  BY Envelopes DEF Init, IInv, TypeOK, Course, Unanswered, ConnStates
<1>2. IInv /\ [Next]_vars => IInv'
  <2> SUFFICES ASSUME IInv, [Next]_vars PROVE IInv' OBVIOUS
  <2>1. ASSUME NEW r \in Reqs,
               \/ Send(r) \/ Delivered(r) \/ Forget(r) \/ Respond(r) \/ Responded(r) \/ Abandon(r)
               \/ \E live \in BOOLEAN : ReceivePrompt(r, live) \/ ReceiveResponse(r, live)
        PROVE  IInv'
    BY <2>1, Send_Inv, Delivered_Inv, Forget_Inv, Respond_Inv, Responded_Inv, Abandon_Inv,
       ReceivePrompt_Inv, ReceiveResponse_Inv
  <2>2. ASSUME NEW l \in Lines, Connect(l) \/ \E live \in BOOLEAN : Unread(l, live) PROVE IInv'
    BY <2>2, Connect_Inv, Unread_Inv
  <2>3. ASSUME NEW n \in Nodes, Unbind(n) \/ Bind(n) \/ Crash(n) PROVE IInv'
    BY <2>3, Unbind_Inv, Bind_Inv, Crash_Inv
  <2>4. CASE UNCHANGED vars
    BY <2>4 DEF vars, IInv, TypeOK, Course, Unanswered
  <2> QED BY <2>1, <2>2, <2>3, <2>4 DEF Next
<1> QED BY <1>1, <1>2, PTL DEF Spec

\* Types, and only running processes hold requests.
THEOREM TypeCorrect == Spec => []TypeOK
<1>1. IInv => TypeOK
  BY DEF IInv
<1> QED BY <1>1, DeliveryInvariant, PTL

\* No late failure of a send drops an answer (send, receivePrompt,
\* receiveResponse).
THEOREM AnswersOutliveDelivery == Spec => []AnswerAfterAck
<1>1. IInv => AnswerAfterAck
  BY DEF IInv, Course, AnswerAfterAck
<1> QED BY <1>1, DeliveryInvariant, PTL

\* A delivered, open request is held by its recipient through failed answers,
\* unless that crashed, abandoned it or found its sender unreachable (respond).
THEOREM DeliveredStaysHeld == Spec => []DeliveredIsHeld
<1>1. IInv => DeliveredIsHeld
  BY DEF IInv, Course, DeliveredIsHeld
<1> QED BY <1>1, DeliveryInvariant, PTL

-----------------------------------------------------------------------------
(* Every step of the code is a step of the Exchange, for each request *)

Moves(r) ==
  \/ Promise!Ask(r) \/ Promise!Take(r) \/ Promise!Confirm(r) \/ Promise!Reply(r) \/ Promise!Answer(r)
  \/ Promise!Drop(r) \/ Promise!Settle(r) \/ Promise!GiveUp(r) \/ Promise!Miss(r)

\* The Exchange sees the state of r as follows.
LEMMA Seen ==
  ASSUME NEW r \in Reqs
  PROVE  /\ [q \in Reqs |-> AskOf(q)][r] = AskOf(r)
         /\ \A s : Promise!Becomes(r, s) <=> AskOf(r)' = s
         /\ r \in {q \in Reqs : OnItsWay(Prompt(q))} <=> OnItsWay(Prompt(r))
         /\ r \in {q \in Reqs : OnItsWay(Response(q))} <=> OnItsWay(Response(r))
         /\ r \in {q \in Reqs : OnItsWay(Prompt(q))}' <=> OnItsWay(Prompt(r))'
         /\ r \in {q \in Reqs : OnItsWay(Response(q))}' <=> OnItsWay(Response(r))'
BY DEF Promise!Becomes

\* What is on its way may be lost; nothing else becomes of r.
LEMMA Missed ==
  ASSUME NEW r \in Reqs,
         AskOf(r)' = AskOf(r), r \in inbound' <=> r \in inbound,
         r \in (lost \cup deserted)' <=> r \in lost \cup deserted,
         \A l \in {Prompt(r), Response(r)} : OnItsWay(l)' => OnItsWay(l)
  PROVE  Moves(r)
<1> OnItsWay(Prompt(r))' => OnItsWay(Prompt(r))
  BY DEF Prompt
<1> OnItsWay(Response(r))' => OnItsWay(Response(r))
  BY DEF Response
<1> QED BY Seen DEF Moves, Promise!Miss, Promise!Same, Promise!MayFade

\* A step that concerns other requests alone.
LEMMA Elsewhere ==
  ASSUME NEW r \in Reqs,
         pend'[r] = pend[r], r \in inbound' <=> r \in inbound,
         conn'[Prompt(r)] = conn[Prompt(r)], conn'[Response(r)] = conn[Response(r)],
         \A l \in {Prompt(r), Response(r)} : l \in stray' => l \in stray,
         r \in lost' <=> r \in lost, r \in deserted' <=> r \in deserted
  PROVE  Moves(r)
BY Missed DEF AskOf, OnItsWay, Prompt, Response

LEMMA Send_Moves ==
  ASSUME IInv, NEW r \in Reqs, Send(r), NEW q \in Reqs PROVE Moves(q)
<1> USE Envelopes DEF IInv
<1>1. CASE q = r
  <2>1. /\ AskOf(r) = "none" /\ r \notin inbound /\ r \notin inbound'
        /\ ~OnItsWay(Prompt(r)) /\ ~OnItsWay(Response(r)) /\ ~OnItsWay(Response(r))'
    BY DEF TypeOK, Send, Dial, Set, Course, Unanswered, AskOf, OnItsWay
  <2>2. AskOf(r)' = "sending" /\ OnItsWay(Prompt(r))' /\ r \notin (lost \cup deserted)'
    BY DEF TypeOK, Send, Dial, Set, AskOf, OnItsWay
  <2> QED BY <1>1, <2>1, <2>2, Seen DEF Moves, Promise!Ask, Promise!Same
<1>2. CASE q # r
  BY <1>2, Elsewhere DEF TypeOK, Send, Dial, Set
<1> QED BY <1>1, <1>2

LEMMA Connect_Moves ==
  ASSUME IInv, NEW l \in Lines, Connect(l), NEW q \in Reqs PROVE Moves(q)
<1> USE Envelopes DEF IInv
<1>1. conn[l] = "dial" /\ conn'[l] = "line" /\ \A k \in Lines \ {l} : conn'[k] = conn[k]
  BY DEF TypeOK, Connect, Set
<1>2. \A k \in Lines : OnItsWay(k)' => OnItsWay(k)
  BY <1>1 DEF Connect, OnItsWay
<1>3. AskOf(q)' = AskOf(q)
  BY <1>1 DEF Connect, AskOf
<1> QED BY <1>2, <1>3, Missed DEF Connect

LEMMA Unread_Moves ==
  ASSUME IInv, NEW l \in Lines, NEW live \in BOOLEAN, Unread(l, live), NEW q \in Reqs
  PROVE  Moves(q)
<1> USE Envelopes DEF IInv
<1>1. /\ stray' \subseteq stray /\ \A k \in Lines \ {l} : conn'[k] = conn[k]
      /\ conn'[l] = conn[l] \/ (conn[l] = "line" /\ conn'[l] = "cut")
  BY Read DEF Unread
<1>2. \A k \in Lines : OnItsWay(k)' => OnItsWay(k)
  BY <1>1 DEF OnItsWay
<1>3. AskOf(q)' = AskOf(q)
  BY <1>1 DEF Unread, AskOf
<1> QED BY <1>2, <1>3, Missed DEF Unread

\* An acknowledgement confirms, any other end of a delivery drops the request.
LEMMA Delivered_Moves ==
  ASSUME IInv, NEW r \in Reqs, Delivered(r), NEW q \in Reqs PROVE Moves(q)
<1> USE Envelopes DEF IInv
<1>1. PICK outcome \in {"unreachable", "acked", "nacked", "failed"} :
        /\ Settles(Prompt(r), outcome)
        /\ IF outcome = "acked" THEN UNCHANGED pend ELSE ForgetPending(r)
  BY DEF Delivered
<1>2. /\ conn'[Prompt(r)] = "none" /\ \A k \in Lines \ {Prompt(r)} : conn'[k] = conn[k]
      /\ \A k \in Lines : k \in stray' => k \in stray \/ (k = Prompt(r) /\ conn[k] = "line")
  BY <1>1, Settled
<1>3. /\ \A k \in Lines : OnItsWay(k)' => OnItsWay(k)
      /\ UNCHANGED <<inbound, lost, deserted>>
  BY <1>2 DEF OnItsWay, Delivered
<1>4. CASE q = r /\ outcome = "acked"
  <2>1. conn[Prompt(r)] = "ack" /\ stray' = stray /\ pend' = pend
    BY <1>1, <1>4 DEF Settles
  <2>2. pend[r] \in {"none", "open"}
    BY <2>1 DEF TypeOK, Course
  <2>3. CASE pend[r] = "none"
    <3>1. AskOf(r)' = AskOf(r)
      BY <2>1, <2>3 DEF AskOf
    <3> QED BY <1>3, <1>4, <3>1, Missed
  <2>4. CASE pend[r] = "open"
    <3>1. AskOf(r) = "sending" /\ AskOf(r)' = "open" /\ r \in inbound \cup (lost \cup deserted)
      BY <1>2, <2>1, <2>4 DEF AskOf, Course
    <3>2. OnItsWay(Prompt(r))' <=> OnItsWay(Prompt(r))
      BY <1>2, <2>1 DEF OnItsWay
    <3>3. OnItsWay(Response(r))' <=> OnItsWay(Response(r))
      BY <1>2, <2>1 DEF OnItsWay
    <3> QED BY <1>3, <1>4, <3>1, <3>2, <3>3, Seen DEF Moves, Promise!Confirm, Promise!Same
  <2> QED BY <2>2, <2>3, <2>4
<1>5. CASE q = r /\ outcome # "acked"
  <2>1. AskOf(r)' = "none"
    BY <1>1, <1>5 DEF TypeOK, ForgetPending, AskOf
  <2>2. CASE AskOf(r) = "none"
    BY <1>3, <1>5, <2>1, <2>2, Missed
  <2>3. CASE AskOf(r) # "none"
    BY <1>3, <1>5, <2>1, <2>3, Seen DEF Moves, Promise!Drop, Promise!Same, Promise!MayFade
  <2> QED BY <2>2, <2>3
<1>6. CASE q # r
  <2>1. pend'[q] = pend[q]
    BY <1>1, <1>6 DEF TypeOK, ForgetPending
  <2>2. AskOf(q)' = AskOf(q)
    BY <1>2, <1>6, <2>1 DEF AskOf
  <2> QED BY <1>3, <2>2, Missed
<1> QED BY <1>4, <1>5, <1>6

LEMMA Forget_Moves ==
  ASSUME IInv, NEW r \in Reqs, Forget(r), NEW q \in Reqs PROVE Moves(q)
<1> USE Envelopes DEF IInv
<1>1. /\ pend[r] # "none" /\ pend'[r] = "none" /\ \A p \in Reqs \ {r} : pend'[p] = pend[p]
      /\ \A k \in Lines : OnItsWay(k)' <=> OnItsWay(k)
  BY DEF TypeOK, Forget, ForgetPending, OnItsWay
<1>2. CASE q = r
  <2>1. AskOf(r) # "none" /\ AskOf(r)' = "none"
    BY <1>1 DEF AskOf
  <2> QED BY <1>1, <1>2, <2>1, Seen DEF Forget, Moves, Promise!Drop, Promise!Same, Promise!MayFade
<1>3. CASE q # r
  BY <1>1, <1>3, Elsewhere DEF Forget
<1> QED BY <1>2, <1>3

LEMMA ReceiveResponse_Moves ==
  ASSUME IInv, NEW r \in Reqs, NEW live \in BOOLEAN, ReceiveResponse(r, live), NEW q \in Reqs
  PROVE  Moves(q)
<1> USE Envelopes DEF IInv
<1> DEFINE l == Response(r)
<1>1. Reads(l, live, Verdict(r)) /\ Verdict(r) \in {"ack", "nack", "cut"}
  BY DEF ReceiveResponse, Verdict
<1>2. /\ stray' \subseteq stray /\ \A k \in Lines \ {l} : conn'[k] = conn[k]
      /\ (conn[l] = "line" /\ conn'[l] = Verdict(r)) \/ (l \in stray /\ conn'[l] = conn[l])
  BY <1>1, Read
<1>3. /\ pend' = IF pend[r] = "open" THEN [pend EXCEPT ![r] = "done"] ELSE pend
      /\ UNCHANGED <<inbound, lost, deserted>>
  BY DEF ReceiveResponse
<1>4. /\ OnItsWay(l) /\ \A k \in Lines : OnItsWay(k)' => OnItsWay(k)
      /\ OnItsWay(Prompt(r))' <=> OnItsWay(Prompt(r))
  <2>1. OnItsWay(l) /\ \A k \in Lines : OnItsWay(k)' => OnItsWay(k)
    BY <1>2 DEF OnItsWay, Verdict
  <2>2. Prompt(r) \in stray' <=> Prompt(r) \in stray
    BY <1>1 DEF Reads
  <2> QED BY <1>2, <2>1, <2>2 DEF OnItsWay
<1>5. CASE q = r /\ pend[r] = "open"
  <2>1. conn[Prompt(r)] = "none"
    BY <1>2 DEF ReceiveResponse, Course, Unanswered
  <2>2. AskOf(r) = "open" /\ AskOf(r)' = "done"
    BY <1>3, <1>5, <2>1 DEF TypeOK, AskOf
  <2> QED BY <1>3, <1>4, <1>5, <2>2, Seen DEF Moves, Promise!Answer, Promise!Same, Promise!MayFade
<1>6. CASE q # r \/ pend[r] # "open"
  <2>1. pend'[q] = pend[q]
    BY <1>3, <1>6 DEF TypeOK
  <2>2. AskOf(q)' = AskOf(q)
    BY <1>2, <2>1 DEF AskOf
  <2> QED BY <1>3, <1>4, <2>2, Missed
<1> QED BY <1>5, <1>6

LEMMA ReceivePrompt_Moves ==
  ASSUME IInv, NEW r \in Reqs, NEW live \in BOOLEAN, ReceivePrompt(r, live), NEW q \in Reqs
  PROVE  Moves(q)
<1> USE Envelopes DEF IInv
<1> DEFINE l == Prompt(r)
<1>1. PICK reply \in {"ack", "nack"} :
        /\ Reads(l, live, reply)
        /\ inbound' = IF reply = "ack" THEN inbound \cup {r} ELSE inbound
  BY DEF ReceivePrompt, Accept, Refuse
<1>2. /\ stray' \subseteq stray /\ \A k \in Lines \ {l} : conn'[k] = conn[k]
      /\ (conn[l] = "line" /\ conn'[l] = reply) \/ (l \in stray /\ conn'[l] = conn[l])
  BY <1>1, Read
<1>3. \A k \in Lines : OnItsWay(k)' => OnItsWay(k)
  BY <1>2 DEF OnItsWay
<1>4. \A p \in Reqs : AskOf(p)' = AskOf(p)
  <2>1. ASSUME NEW p \in Reqs PROVE conn'[Prompt(p)] = conn[Prompt(p)] \/ (p = r /\ conn[l] = "line" /\ conn'[l] = reply)
    BY <1>2
  <2> QED BY <2>1 DEF ReceivePrompt, AskOf
<1>5. CASE q = r /\ reply = "ack"
  <2>1. r \notin inbound /\ OnItsWay(l) /\ ~OnItsWay(l)'
    <3>1. CASE conn[l] = "line" /\ conn'[l] = reply
      BY <1>2, <1>5, <3>1 DEF Course, Unanswered, OnItsWay
    <3>2. CASE l \in stray /\ conn'[l] = conn[l]
      BY <1>1, <1>2, <3>2 DEF Reads, Course, Unanswered, OnItsWay
    <3> QED BY <1>2, <3>1, <3>2
  <2>2. OnItsWay(Response(r))' <=> OnItsWay(Response(r))
    BY <1>1, <1>2 DEF Reads, OnItsWay
  <2> QED BY <1>1, <1>4, <1>5, <2>1, <2>2, Seen DEF ReceivePrompt, Moves, Promise!Take, Promise!Same
<1>6. CASE q # r \/ reply = "nack"
  BY <1>1, <1>3, <1>4, <1>6, Missed DEF ReceivePrompt
<1> QED BY <1>5, <1>6

LEMMA Respond_Moves ==
  ASSUME IInv, NEW r \in Reqs, Respond(r), NEW q \in Reqs PROVE Moves(q)
<1> USE Envelopes DEF IInv
<1>1. /\ r \in inbound /\ conn'[Response(r)] = "dial"
      /\ \A k \in Lines \ {Response(r)} : conn'[k] = conn[k]
  BY DEF TypeOK, Respond, Dial, Set
<1>2. AskOf(q)' = AskOf(q)
  BY <1>1 DEF Respond, AskOf
<1>3. CASE q = r
  <2>1. OnItsWay(Response(r))' /\ (OnItsWay(Prompt(r))' <=> OnItsWay(Prompt(r)))
    BY <1>1 DEF Respond, OnItsWay
  <2> QED BY <1>1, <1>2, <1>3, <2>1, Seen DEF Respond, Moves, Promise!Reply, Promise!Same
<1>4. CASE q # r
  BY <1>1, <1>4, Elsewhere DEF Respond
<1> QED BY <1>3, <1>4

\* An answered or unknown request is settled, one without a sender is given up.
LEMMA Responded_Moves ==
  ASSUME IInv, NEW r \in Reqs, Responded(r), NEW q \in Reqs PROVE Moves(q)
<1> USE Envelopes DEF IInv
<1> DEFINE l == Response(r)
<1>1. PICK outcome \in {"unreachable", "acked", "nacked", "failed"} :
        /\ Settles(l, outcome)
        /\ inbound' = IF Final(outcome) THEN inbound \ {r} ELSE inbound
        /\ deserted' = IF outcome = "unreachable" THEN deserted \cup ({r} \cap inbound) ELSE deserted
  BY DEF Responded
<1>2. /\ conn'[l] = "none" /\ \A k \in Lines \ {l} : conn'[k] = conn[k]
      /\ \A k \in Lines : k \in stray' => k \in stray \/ (k = l /\ conn[l] = "line")
  BY <1>1, Settled
<1>3. UNCHANGED <<pend, lost>> /\ \A k \in Lines : OnItsWay(k)' => OnItsWay(k)
  BY <1>2 DEF Responded, OnItsWay
<1>4. AskOf(q)' = AskOf(q)
  BY <1>2, <1>3 DEF AskOf
<1>5. CASE q = r /\ r \in inbound /\ Final(outcome)
  <2>1. r \notin inbound' /\ (OnItsWay(Prompt(r))' <=> OnItsWay(Prompt(r)))
    BY <1>1, <1>2, <1>5 DEF Settles, OnItsWay
  <2>2. CASE outcome = "unreachable"
    BY <1>1, <1>3, <1>4, <1>5, <2>1, <2>2, Seen DEF Moves, Promise!GiveUp, Promise!Same, Promise!MayFade
  <2>3. CASE outcome \in {"acked", "nacked"}
    <3>1. AskOf(r) \notin {"sending", "open"}
      BY <1>1, <2>3 DEF TypeOK, Settles, Course, AskOf
    <3>2. deserted' = deserted
      BY <1>1, <2>3
    <3> QED BY <1>3, <1>4, <1>5, <2>1, <3>1, <3>2, Seen
            DEF Moves, Promise!Settle, Promise!Same, Promise!MayFade
  <2> QED BY <1>5, <2>2, <2>3 DEF Final
<1>6. CASE q # r \/ r \notin inbound \/ ~Final(outcome)
  <2>1. /\ q \in inbound' <=> q \in inbound
        /\ q \in deserted' <=> q \in deserted
    BY <1>1, <1>6 DEF Final
  <2> QED BY <1>3, <1>4, <2>1, Missed
<1> QED BY <1>5, <1>6

LEMMA Abandon_Moves ==
  ASSUME IInv, NEW r \in Reqs, Abandon(r), NEW q \in Reqs PROVE Moves(q)
<1> USE Envelopes DEF IInv
<1>1. AskOf(q)' = AskOf(q) /\ \A k \in Lines : OnItsWay(k)' <=> OnItsWay(k)
  BY DEF Abandon, AskOf, OnItsWay
<1>2. CASE q = r
  BY <1>1, <1>2, Seen DEF Abandon, Moves, Promise!GiveUp, Promise!Same, Promise!MayFade
<1>3. CASE q # r
  BY <1>1, <1>3, Missed DEF Abandon
<1> QED BY <1>2, <1>3

LEMMA Unbind_Moves ==
  ASSUME IInv, NEW n \in Nodes, Unbind(n), NEW q \in Reqs PROVE Moves(q)
<1> USE Envelopes DEF IInv
<1>1. PICK L \in SUBSET LinesTo(n) : Closes(L, {})
  BY DEF Unbind
<1>2. /\ \A l \in Lines : conn'[l] = conn[l] \/ (conn[l] = "line" /\ conn'[l] = "cut")
      /\ stray' \subseteq stray
  BY <1>1 DEF Closes
<1>3. \A k \in Lines : OnItsWay(k)' => OnItsWay(k)
  BY <1>2 DEF OnItsWay
<1>4. AskOf(q)' = AskOf(q)
  BY <1>2 DEF Unbind, AskOf
<1> QED BY <1>3, <1>4, Missed DEF Unbind

LEMMA Bind_Moves ==
  ASSUME IInv, NEW n \in Nodes, Bind(n), NEW q \in Reqs PROVE Moves(q)
BY Elsewhere DEF Bind

\* The requests of a crashed sender are dropped, those it held are given up.
LEMMA Crash_Moves ==
  ASSUME IInv, NEW n \in Nodes, Crash(n), NEW q \in Reqs PROVE Moves(q)
<1> USE Envelopes, DeliveryConstants DEF IInv
<1>1. /\ \A l \in Lines : conn'[l] = IF Dialer(l) = n THEN "none"
                                     ELSE IF Acceptor(l) = n /\ conn[l] = "line" THEN "cut"
                                     ELSE conn[l]
      /\ \A l \in Lines : l \in stray' => l \in stray \/ (Dialer(l) = n /\ conn[l] = "line")
  BY DEF Crash, Closes, LinesTo, LinesOf
<1>2. \A k \in Lines : OnItsWay(k)' => OnItsWay(k)
  BY <1>1 DEF OnItsWay
<1>3. deserted' = deserted /\ pend'[q] = IF From[q] = n THEN "none" ELSE pend[q]
  BY DEF Crash
<1>4. CASE From[q] = n
  <2>1. AskOf(q)' = "none" /\ (q \in inbound' <=> q \in inbound) /\ (q \in lost' <=> q \in lost)
    BY <1>3, <1>4 DEF Crash, AskOf
  <2>2. CASE AskOf(q) = "none"
    BY <1>2, <1>3, <2>1, <2>2, Missed
  <2>3. CASE AskOf(q) # "none"
    BY <1>2, <1>3, <2>1, <2>3, Seen DEF Moves, Promise!Drop, Promise!Same, Promise!MayFade
  <2> QED BY <2>2, <2>3
<1>5. CASE From[q] # n
  <2>1. AskOf(q)' = AskOf(q)
    BY <1>1, <1>3, <1>5 DEF AskOf
  <2>2. CASE To[q] = n /\ q \in inbound
    <3>1. q \notin inbound' /\ q \in lost'
      BY <2>2 DEF Crash
    <3>2. OnItsWay(Prompt(q))' <=> OnItsWay(Prompt(q))
      BY <1>1, <1>5, <2>2 DEF Course, Unanswered, OnItsWay
    <3> QED BY <1>2, <2>1, <2>2, <3>1, <3>2, Seen DEF Moves, Promise!GiveUp, Promise!Same, Promise!MayFade
  <2>3. CASE ~(To[q] = n /\ q \in inbound)
    <3>1. (q \in inbound' <=> q \in inbound) /\ (q \in lost' <=> q \in lost)
      BY <2>3 DEF Crash
    <3> QED BY <1>2, <1>3, <2>1, <3>1, Missed
  <2> QED BY <2>2, <2>3
<1> QED BY <1>4, <1>5

\* Between adapters, every request keeps the promises of the Exchange: taken once,
\* confirmed only if taken, answered only then, and held while its sender waits
\* (send, receivePrompt, respond, receiveResponse).
THEOREM ExchangeImplemented == Spec => ImplementsExchange
<1>1. Init => Promise!Init
  BY Envelopes DEF Init, Promise!Init, AskOf, OnItsWay
<1>2. IInv /\ [Next]_vars => [Promise!Next]_(Promise!vars)
  <2> SUFFICES ASSUME IInv, [Next]_vars PROVE [Promise!Next]_(Promise!vars)
    OBVIOUS
  <2>1. ASSUME UNCHANGED vars PROVE UNCHANGED Promise!vars
    BY <2>1 DEF vars, Promise!vars, AskOf, OnItsWay
  <2>2. ASSUME Next, NEW q \in Reqs PROVE Moves(q)
    <3>1. ASSUME NEW r \in Reqs,
                 \/ Send(r) \/ Delivered(r) \/ Forget(r) \/ Respond(r) \/ Responded(r) \/ Abandon(r)
                 \/ \E live \in BOOLEAN : ReceivePrompt(r, live) \/ ReceiveResponse(r, live)
          PROVE  Moves(q)
      BY <3>1, Send_Moves, Delivered_Moves, Forget_Moves, Respond_Moves, Responded_Moves,
         Abandon_Moves, ReceivePrompt_Moves, ReceiveResponse_Moves
    <3>2. ASSUME NEW l \in Lines, Connect(l) \/ \E live \in BOOLEAN : Unread(l, live) PROVE Moves(q)
      BY <3>2, Connect_Moves, Unread_Moves
    <3>3. ASSUME NEW n \in Nodes, Unbind(n) \/ Bind(n) \/ Crash(n) PROVE Moves(q)
      BY <3>3, Unbind_Moves, Bind_Moves, Crash_Moves
    <3> QED BY <2>2, <3>1, <3>2, <3>3 DEF Next
  <2>3. ASSUME Next PROVE Promise!Next
    BY <2>2, <2>3 DEF Promise!Next, Moves
  <2> QED BY <2>1, <2>3
<1> QED BY <1>1, <1>2, DeliveryInvariant, PTL DEF Spec, ImplementsExchange, Promise!Spec
=============================================================================
