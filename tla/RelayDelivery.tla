--------------------------- MODULE RelayDelivery ---------------------------
(***************************************************************************)
(* Requests between adapters, at both ends and on the wire: the delivery   *)
(* of a prompt (send and receivePrompt of src/src/relayAdapter.ts) and of  *)
(* its answer (respond and receiveResponse), each an envelope on a         *)
(* connection of its own that brings back one line (sendEnvelope, and      *)
(* connect and readLine of src/src/relayTransport.ts).  A timer may end    *)
(* the wait of either end at any point, endpoints come and go, and         *)
(* processes crash and start again.                                        *)
(***************************************************************************)
CONSTANTS
  Reqs,        \* msg_ids (recycled once nobody mentions them)
  Nodes,       \* sessions
  From, To     \* From[r], To[r]: the sender and the recipient of request r

ASSUME DeliveryConstants ==
  /\ From \in [Reqs -> Nodes] /\ To \in [Reqs -> Nodes]
  /\ \A r \in Reqs : From[r] # To[r]

VARIABLES
  pend,        \* pending of the sender: no entry, an open request, an answered one
  inbound,     \* requests the recipient has accepted and not forgotten
  conn,        \* conn[l]: the connection of envelope l (see ConnStates)
  stray,       \* envelopes not read yet, on connections their sender gave up
  running,     \* sessions with a live process
  bound,       \* sessions whose endpoint is there
  lost,        \* history: requests a crash or abandonInbound took from the recipient
  deserted     \* history: requests forgotten because their sender was unreachable

vars == <<pend, inbound, conn, stray, running, bound, lost, deserted>>

Prompt(r) == <<"prompt", r>>
Response(r) == <<"response", r>>
Lines == {"prompt", "response"} \X Reqs
Dialer(l) == IF l[1] = "prompt" THEN From[l[2]] ELSE To[l[2]]
Acceptor(l) == IF l[1] = "prompt" THEN To[l[2]] ELSE From[l[2]]

\*   dial  connecting                         ack, nack  answered, not read yet
\*   line  the envelope is written, not read  cut        closed by the other end
ConnStates == {"none", "dial", "line", "ack", "nack", "cut"}

TypeOK ==
  /\ pend \in [Reqs -> {"none", "open", "done"}]
  /\ inbound \subseteq Reqs
  /\ conn \in [Lines -> ConnStates] /\ stray \subseteq Lines
  /\ bound \subseteq running /\ running \subseteq Nodes
  /\ lost \subseteq Reqs /\ deserted \subseteq Reqs
  /\ \A r \in Reqs : /\ pend[r] # "none" => From[r] \in running
                     /\ r \in inbound => To[r] \in running

Init ==
  /\ pend = [r \in Reqs |-> "none"]
  /\ inbound = {} /\ stray = {} /\ lost = {} /\ deserted = {}
  /\ conn = [l \in Lines |-> "none"]
  /\ running = {} /\ bound = {}

-----------------------------------------------------------------------------
(* sendEnvelope, connect, readLine *)

Set(l, state) == conn' = [conn EXCEPT ![l] = state]
Dial(l) == conn[l] = "none" /\ Set(l, "dial")

Connect(l) ==
  /\ conn[l] = "dial" /\ Acceptor(l) \in bound
  /\ Set(l, "line")
  /\ UNCHANGED <<pend, inbound, stray, running, bound, lost, deserted>>

\* sendEnvelope settles: with the line that came back, or because the endpoint
\* is absent or did not answer the dial in time, or otherwise (an error of the
\* process's own, a closed connection, the deadline of the read).  An envelope
\* already written may be read after its sender has given it up.
Settles(l, outcome) ==
  /\ \/ outcome = "unreachable" /\ conn[l] = "dial"
     \/ outcome = "acked" /\ conn[l] = "ack"
     \/ outcome = "nacked" /\ conn[l] = "nack"
     \/ outcome = "failed" /\ conn[l] # "none"
  /\ Set(l, "none")
  /\ stray' = IF conn[l] = "line" THEN stray \cup {l} ELSE stray

\* The acceptor reads envelope l and answers it; live: its sender still waits.
Reads(l, live, reply) ==
  /\ Acceptor(l) \in running
  /\ IF live
       THEN conn[l] = "line" /\ Set(l, reply) /\ UNCHANGED stray
       ELSE l \in stray /\ stray' = stray \ {l} /\ UNCHANGED conn

\* The acceptor's own deadline passes before it reads envelope l.
Unread(l, live) ==
  /\ Reads(l, live, "cut")
  /\ UNCHANGED <<pend, inbound, running, bound, lost, deserted>>

-----------------------------------------------------------------------------
(* The sender *)

ForgetPending(r) == pend' = [pend EXCEPT ![r] = "none"]

\* send: one open request per recipient.
Send(r) ==
  /\ From[r] \in running
  /\ pend[r] = "none" /\ r \notin inbound
  /\ conn[Response(r)] = "none" /\ {Prompt(r), Response(r)} \cap stray = {}
  /\ \A q \in Reqs : pend[q] = "open" => <<From[q], To[q]>> # <<From[r], To[r]>>
  /\ Dial(Prompt(r))
  /\ pend' = [pend EXCEPT ![r] = "open"]
  /\ lost' = lost \ {r} /\ deserted' = deserted \ {r}
  /\ UNCHANGED <<inbound, stray, running, bound>>

\* Fault: a prompt whose answer is late is sent once more.
Delivered_Retried(r) ==
  /\ \/ \E outcome \in {"unreachable", "acked", "nacked"} :
          /\ Settles(Prompt(r), outcome)
          /\ IF outcome = "acked" THEN UNCHANGED pend ELSE ForgetPending(r)
     \/ /\ conn[Prompt(r)] = "line" /\ Set(Prompt(r), "dial")
        /\ stray' = stray \cup {Prompt(r)} /\ UNCHANGED pend
  /\ UNCHANGED <<inbound, running, bound, lost, deserted>>

\* The delivery of r ends; any end but an ack forgets the request.
Delivered(r) ==
  /\ \E outcome \in {"unreachable", "acked", "nacked", "failed"} :
       /\ Settles(Prompt(r), outcome)
       /\ IF outcome = "acked" THEN UNCHANGED pend ELSE ForgetPending(r)
  /\ UNCHANGED <<inbound, running, bound, lost, deserted>>

\* Cancel, expiry and eviction.
Forget(r) ==
  /\ pend[r] # "none"
  /\ ForgetPending(r)
  /\ UNCHANGED <<inbound, conn, stray, running, bound, lost, deserted>>

Verdict(r) == IF pend[r] = "none" THEN "nack" ELSE "ack"

\* receiveResponse.  The recipient acknowledged the prompt before anyone could
\* answer it; that line was there before the connection of the answer, and is
\* read before it.
ReceiveResponse(r, live) ==
  /\ conn[Prompt(r)] # "ack"
  /\ Reads(Response(r), live, Verdict(r))
  /\ pend' = IF pend[r] = "open" THEN [pend EXCEPT ![r] = "done"] ELSE pend
  /\ UNCHANGED <<inbound, running, bound, lost, deserted>>

-----------------------------------------------------------------------------
(* The recipient *)

\* Fault: a prompt is acknowledged when it is answered.
Accept_Unacked(r, live) ==
  /\ Prompt(r) \notin stray /\ conn[Prompt(r)] = "line" /\ To[r] \in running
  /\ inbound' = inbound \cup {r}
  /\ UNCHANGED <<conn, stray>>

\* receivePrompt: accepted and acknowledged in one go.
Accept(r, live) ==
  /\ Reads(Prompt(r), live, "ack")
  /\ inbound' = inbound \cup {r}

Refuse(r, live) == Reads(Prompt(r), live, "nack") /\ UNCHANGED inbound

ReceivePrompt(r, live) ==
  /\ Accept(r, live) \/ Refuse(r, live)
  /\ UNCHANGED <<pend, running, bound, lost, deserted>>

Respond(r) ==
  /\ r \in inbound
  /\ Dial(Response(r))
  /\ UNCHANGED <<pend, inbound, stray, running, bound, lost, deserted>>

\* Fault: an answer that the sender will never take is kept for another try.
Final_Reached(outcome) == outcome \in {"acked", "unreachable"}

\* Fault: whatever ends the delivery of an answer ends the request.
Final_Always(outcome) == TRUE

\* The request is over: answered, refused as unknown, or without a sender.
Final(outcome) == outcome \in {"acked", "nacked", "unreachable"}

Responded(r) ==
  /\ \E outcome \in {"unreachable", "acked", "nacked", "failed"} :
       /\ Settles(Response(r), outcome)
       /\ inbound' = IF Final(outcome) THEN inbound \ {r} ELSE inbound
       /\ deserted' = IF outcome = "unreachable" THEN deserted \cup ({r} \cap inbound) ELSE deserted
  /\ UNCHANGED <<pend, running, bound, lost>>

Abandon(r) ==
  /\ r \in inbound
  /\ inbound' = inbound \ {r}
  /\ lost' = lost \cup {r}
  /\ UNCHANGED <<pend, conn, stray, running, bound, deserted>>

-----------------------------------------------------------------------------
(* Processes and endpoints *)

LinesTo(n) == {l \in Lines : Acceptor(l) = n}
LinesOf(n) == {l \in Lines : Dialer(l) = n}

\* The connections in L are closed by the end that accepted them, those in D
\* by the end that dialed.  What was written before stays readable.
Closes(L, D) ==
  /\ conn' = [l \in Lines |-> IF l \in D THEN "none"
                              ELSE IF l \in L /\ conn[l] = "line" THEN "cut" ELSE conn[l]]
  /\ stray' = (stray \ L) \cup {l \in D : conn[l] = "line"}

\* The endpoint goes; the rebind that follows closes what has been accepted.
Unbind(n) ==
  /\ n \in bound
  /\ bound' = bound \ {n}
  /\ \E L \in SUBSET LinesTo(n) : Closes(L, {})
  /\ UNCHANGED <<pend, inbound, running, lost, deserted>>

Bind(n) ==
  /\ n \in Nodes \ bound
  /\ bound' = bound \cup {n} /\ running' = running \cup {n}
  /\ UNCHANGED <<pend, inbound, conn, stray, lost, deserted>>

Crash(n) ==
  /\ n \in running
  /\ running' = running \ {n} /\ bound' = bound \ {n}
  /\ Closes(LinesTo(n), LinesOf(n))
  /\ pend' = [r \in Reqs |-> IF From[r] = n THEN "none" ELSE pend[r]]
  /\ inbound' = {r \in inbound : To[r] # n}
  /\ lost' = lost \cup (inbound \ inbound')
  /\ UNCHANGED deserted

-----------------------------------------------------------------------------
Next ==
  \/ \E r \in Reqs : \/ Send(r) \/ Delivered(r) \/ Forget(r)
                     \/ \E live \in BOOLEAN : ReceivePrompt(r, live) \/ ReceiveResponse(r, live)
                     \/ Respond(r) \/ Responded(r) \/ Abandon(r)
  \/ \E l \in Lines : Connect(l) \/ \E live \in BOOLEAN : Unread(l, live)
  \/ \E n \in Nodes : Unbind(n) \/ Bind(n) \/ Crash(n)

Spec == Init /\ [][Next]_vars

-----------------------------------------------------------------------------
(* Safety *)

\* An answer finds the delivery of its request settled: no late failure of a
\* send forgets a request, and an answer with it, that its recipient has
\* answered (the catch handler of send, receivePrompt).
AnswerAfterAck ==
  \A r \in Reqs : pend[r] = "done" => conn[Prompt(r)] = "none"

\* A request that was delivered and is still open is held by its recipient,
\* whatever attempts to answer it failed half-way, unless that recipient
\* crashed, abandoned it, or took its sender for gone.
DeliveredIsHeld ==
  \A r \in Reqs :
    pend[r] = "open" /\ conn[Prompt(r)] = "none" => r \in inbound \cup lost \cup deserted

-----------------------------------------------------------------------------
(* What is promised, whatever becomes of the connections *)

AskOf(r) == IF pend[r] = "open" /\ conn[Prompt(r)] # "none" THEN "sending" ELSE pend[r]
OnItsWay(l) == conn[l] \in {"dial", "line"} \/ l \in stray

Promise ==
  INSTANCE Exchange WITH
    ask <- [r \in Reqs |-> AskOf(r)],
    held <- inbound,
    questions <- {r \in Reqs : OnItsWay(Prompt(r))},
    answers <- {r \in Reqs : OnItsWay(Response(r))},
    excused <- lost \cup deserted

\* A request is taken at most once and confirmed only if it was, answered only
\* after that, and kept for as long as its sender waits for it, whatever is given
\* up, read late, cut or crashes (send, receivePrompt, respond, receiveResponse).
ImplementsExchange == Promise!Spec

-----------------------------------------------------------------------------
(* Liveness *)

\* Every envelope's deadlines end its sender's wait.  An agent goes on answering
\* what it holds, and of its attempts not every one comes too late on the way
\* to the sender or back.
Ended(r) == Responded(r) /\ r \notin inbound'

Fairness(r) ==
  /\ WF_vars(Delivered(r)) /\ WF_vars(Responded(r))
  /\ SF_vars(Respond(r))
  /\ SF_vars(Connect(Response(r))) /\ SF_vars(ReceiveResponse(r, TRUE))
  /\ SF_vars(Ended(r) /\ conn[Response(r)] # "dial")
  /\ SF_vars(Ended(r) /\ From[r] \notin bound)

\* Every accepted request leaves its recipient in the end, also one whose
\* sender gave up the delivery, or crashed, before it was accepted.
EveryRequestEnds ==
  \A r \in Reqs : Fairness(r) => (r \in inbound ~> r \notin inbound)
=============================================================================
