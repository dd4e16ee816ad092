---------------------------- MODULE RelayAdapter ----------------------------
(***************************************************************************)
(* One RelayAdapter (src/src/relayAdapter.ts) with the tool calls of its   *)
(* relay server (src/src/relayServer.ts): inbound prompts, outbound        *)
(* requests and their answers, and the bare relay_await that carries both. *)
(*                                                                         *)
(* The process is one event loop.  A socket line, an expired timer or the  *)
(* end of a delivery starts only when every promise continuation it could  *)
(* overtake has run (Settled); tool calls and abort signals may come       *)
(* between a promise's resolution and its continuation.  An operation that *)
(* awaits nothing is one step.                                             *)
(***************************************************************************)
EXTENDS RelayOutbound

CONSTANTS
  AnswerQueued   \* whether the host answers or abandons requests it was never handed

ASSUME AdapterConstants == AnswerQueued \in BOOLEAN /\ Calls \cap (Msgs \cup Reqs) = {}

VARIABLES
  pc,            \* where each tool call is (see CallStates)
  arg,           \* the msg_id a call waits for, was given or is answering
  aborted,       \* calls whose abort signal has fired
  waiter,        \* inboundWaiter: the call parked in a bare await, or None
  seenRequest,   \* history: accepted requests whose hand-off reached the agent
  seenReply      \* history: retained answers that reached the agent

callVars == <<pc, arg, aborted, waiter>>
history == <<seenRequest, seenReply>>
vars == <<inboundVars, outboundVars, callVars, history>>

\*   parked    a bare await, in withTimeout        woken     its wait is over
\*   keyed     an await by msg_id, in withTimeout  settled   its request is settled
\*   handed    returned a request, not yet published to the client
\*   read      returned an answer, not yet published to the client
\*   replying  relay_reply, its envelope on the way
CallStates == {"idle", "parked", "woken", "keyed", "settled", "handed", "read", "replying"}

TypeOK ==
  /\ InboundTypeOK
  /\ OutboundTypeOK
  /\ pc \in [Calls -> CallStates]
  /\ arg \in [Calls -> Msgs \cup Reqs \cup {None}]
  /\ aborted \subseteq Calls
  /\ waiter \in Calls \cup {None}
  /\ seenRequest \subseteq Msgs
  /\ seenReply \subseteq Reqs

Init ==
  /\ InboundInit
  /\ OutboundInit
  /\ pc = [c \in Calls |-> "idle"]
  /\ arg = [c \in Calls |-> None]
  /\ aborted = {} /\ waiter = None
  /\ seenRequest = {} /\ seenReply = {}

-----------------------------------------------------------------------------
(* Tool calls *)

\* Fault: the latch looks at the parked waiter instead of the whole method.
AwaitingInbound_WaiterOnly == waiter # None

\* The latch awaitingInbound: a bare await is in flight.
AwaitingInbound == \E c \in Calls : pc[c] \in {"parked", "woken"}

\* No resolved promise has a continuation to run.
Settled == \A c \in Calls : pc[c] \notin {"woken", "settled"}

\* Requests resolved into a waiter whose continuation has not handed them yet.
InTransit == {arg[c] : c \in {d \in Calls : pc[d] = "woken" /\ arg[d] # None}}

KeyedOn(R) == {c \in Calls : pc[c] = "keyed" /\ arg[c] \in R}

Goto(c, state, id) ==
  /\ pc' = [pc EXCEPT ![c] = state]
  /\ arg' = [arg EXCEPT ![c] = id]

\* The call ends; its signal is dropped with it.
Return(c) == Goto(c, "idle", None) /\ aborted' = aborted \ {c}

\* Fault: the waiter is forgotten without being called.
WakeWaiter_Forgotten(v) == waiter' = None /\ UNCHANGED <<pc, arg>>

\* Call inboundWaiter with v; a wait that has already ended ignores it.
WakeWaiter(v) ==
  /\ IF waiter # None /\ pc[waiter] = "parked"
       THEN Goto(waiter, "woken", v) ELSE UNCHANGED <<pc, arg>>
  /\ waiter' = None

\* Fault: an answer does not wake the bare await.
Resolve_KeyedOnly(R, wake) ==
  /\ pc' = [c \in Calls |-> IF c \in KeyedOn(R) THEN "settled" ELSE pc[c]]
  /\ UNCHANGED waiter

\* Resolve the awaits keyed on the requests of R, and with wake also the bare
\* await, which finds no request and looks at the answers.
Resolve(R, wake) ==
  /\ pc' = [c \in Calls |-> IF c \in KeyedOn(R) THEN "settled"
                            ELSE IF wake /\ c = waiter /\ pc[c] = "parked" THEN "woken"
                            ELSE pc[c]]
  /\ waiter' = IF wake THEN None ELSE waiter

\* A call ends with its answer un-read again; that wakes the bare await.
ReturnReclaimed(c, wake) ==
  /\ pc' = [d \in Calls |-> IF d = c THEN "idle"
                            ELSE IF wake /\ d = waiter /\ pc[d] = "parked" THEN "woken"
                            ELSE pc[d]]
  /\ arg' = [arg EXCEPT ![c] = None]
  /\ aborted' = aborted \ {c}
  /\ waiter' = IF wake THEN None ELSE waiter

\* The continuation of a bare await drops its own waiter.
ClearWaiter(c) == waiter' = IF waiter = c THEN None ELSE waiter

\* A call is given request m: published later, or suppressed at once by
\* classifySeen when its signal has fired.
Hand(c, m, fired) ==
  /\ HandInbound(m, c, fired)
  /\ WakeUpdate
  /\ IF fired THEN Return(c) ELSE Goto(c, "handed", m) /\ UNCHANGED aborted

\* A bare or keyed call is given the answer to r under a live signal.
GiveReply(c, r) ==
  /\ ReadReply(c, r)
  /\ Goto(c, "read", r)
  /\ UNCHANGED aborted

-----------------------------------------------------------------------------
(* Socket handlers and timers *)

\* receivePrompt: a waiting await is given the prompt, otherwise it is queued.
ReceivePrompt(m, registered) ==
  /\ Settled
  /\ \A c \in Calls : arg[c] # m
  /\ Accepts(m, registered)
  /\ inbound' = inbound \cup {m}
  /\ IF waiter # None
       THEN delivering' = delivering \cup {m} /\ UNCHANGED queue
       ELSE queue' = Append(queue, m) /\ UNCHANGED delivering
  /\ WakeWaiter(m)
  /\ UNCHANGED <<active, unseen, hand>>
  /\ WakeUpdate
  /\ UNCHANGED <<outboundVars, aborted, history>>

\* receiveResponse for an open request: the answer is kept, the awaits keyed
\* on it are settled, and a bare await is woken to look at the answers.
ReceiveResponse(r) ==
  /\ Settled
  /\ pend[r] = "open"
  /\ KeepReply(r)
  /\ Resolve({r}, TRUE)
  /\ seenReply' = seenReply \ Evicted(r)
  /\ UNCHANGED <<inboundVars, arg, aborted, seenRequest>>

\* The recipient's ack of r arrives.
Acked(r) ==
  /\ Settled
  /\ r \in flight
  /\ SettleAcked(r)
  /\ UNCHANGED <<inboundVars, callVars, history>>

\* The delivery of r fails: unreachable, refused, timed out or too large.
SendFailed(r) ==
  /\ r \in flight
  /\ flight' = flight \ {r}
  /\ ForgetPending(r)
  /\ seenReply' = seenReply \ {r}
  /\ UNCHANGED <<inboundVars, callVars, seenRequest>>

\* The expiry timer of r fires.
Expire(r) ==
  /\ Settled
  /\ r \in expiry
  /\ ForgetPending(r)
  /\ seenReply' = seenReply \ {r}
  /\ UNCHANGED <<inboundVars, flight, callVars, seenRequest>>

\* The timer of withTimeout fires under a bare or a keyed await.
Timeout(c) ==
  /\ Settled
  /\ \/ /\ pc[c] = "parked"
        /\ Goto(c, "woken", None)
        /\ UNCHANGED aborted
     \/ pc[c] = "keyed" /\ Return(c)
  /\ UNCHANGED <<inboundVars, outboundVars, waiter, history>>

-----------------------------------------------------------------------------
(* relay_await without a msg_id *)

\* awaitInbound up to its first wait.  fired: the signal has fired already.
AwaitInbound(c, fired) ==
  /\ pc[c] = "idle"
  /\ ~AwaitingInbound
  /\ \/ /\ active # None
        /\ UNCHANGED queue
        /\ Hand(c, active, fired)
        /\ UNCHANGED <<outboundVars, waiter>>
     \/ /\ active = None /\ fired
        /\ queue' = HealedQueue
        /\ UNCHANGED <<inbound, delivering, active, unseen, hand, outboundVars, callVars>>
        /\ WakeUpdate
     \/ /\ active = None /\ ~fired /\ HealedQueue # <<>>
        /\ queue' = Tail(HealedQueue)
        /\ Hand(c, Head(HealedQueue), FALSE)
        /\ UNCHANGED <<outboundVars, waiter>>
     \/ /\ active = None /\ ~fired /\ HealedQueue = <<>>
        /\ queue' = HealedQueue
        /\ UNCHANGED <<inbound, delivering, active, unseen, hand>>
        /\ WakeUpdate
        /\ IF UnreadReplies # {}
             THEN GiveReply(c, OldestUnread) /\ UNCHANGED waiter
             ELSE /\ Goto(c, "parked", None) /\ waiter' = c
                  /\ UNCHANGED <<aborted, outboundVars>>
  /\ UNCHANGED history

\* The continuation of awaitInbound's wait: the request it was resolved with,
\* an aborted wait, the active request, the queue, an unread answer, and
\* otherwise another wait or, past the deadline, the timeout.
Resume(c) ==
  /\ pc[c] = "woken"
  /\ \/ /\ arg[c] # None
        /\ UNCHANGED queue
        /\ Hand(c, arg[c], c \in aborted)
        /\ ClearWaiter(c)
        /\ UNCHANGED outboundVars
     \/ /\ arg[c] = None /\ c \in aborted
        /\ Return(c)
        /\ ClearWaiter(c)
        /\ UNCHANGED <<inboundVars, outboundVars>>
     \/ /\ arg[c] = None /\ c \notin aborted /\ active # None
        /\ UNCHANGED queue
        /\ Hand(c, active, FALSE)
        /\ ClearWaiter(c)
        /\ UNCHANGED outboundVars
     \/ /\ arg[c] = None /\ c \notin aborted /\ active = None /\ queue # <<>>
        /\ queue' = Tail(queue)
        /\ Hand(c, Head(queue), FALSE)
        /\ ClearWaiter(c)
        /\ UNCHANGED outboundVars
     \/ /\ arg[c] = None /\ c \notin aborted /\ active = None /\ queue = <<>>
        /\ UNCHANGED <<inbound, queue, delivering, active, unseen, hand>>
        /\ WakeUpdate
        /\ IF UnreadReplies # {}
             THEN /\ GiveReply(c, OldestUnread)
                  /\ ClearWaiter(c)
             ELSE /\ \/ Goto(c, "parked", None) /\ waiter' = c /\ UNCHANGED aborted
                     \/ Return(c) /\ ClearWaiter(c)
                  /\ UNCHANGED outboundVars
  /\ UNCHANGED history

-----------------------------------------------------------------------------
(* relay_await with a msg_id, relay_poll *)

\* get, and awaitReply of an answered request.  fired: the signal has fired.
ReadAnswer(c, r, fired) ==
  /\ pc[c] = "idle"
  /\ pend[r] = "done"
  /\ IF fired
       THEN ReadReplyAborted(r) /\ ReturnReclaimed(c, TRUE)
       ELSE GiveReply(c, r) /\ UNCHANGED waiter
  /\ UNCHANGED <<inboundVars, history>>

\* awaitReply of an open request.
AwaitReply(c, r) ==
  /\ pc[c] = "idle"
  /\ pend[r] = "open"
  /\ Goto(c, "keyed", r)
  /\ UNCHANGED <<inboundVars, outboundVars, aborted, waiter, history>>

\* The continuation of awaitReply once its request is settled, by an answer
\* or by a cancellation: the result is read without another look at pending.
ResumeKeyed(c) ==
  /\ pc[c] = "settled"
  /\ IF c \notin aborted
       THEN GiveReply(c, arg[c]) /\ UNCHANGED waiter
       ELSE /\ ReadReplyAborted(arg[c])
            /\ ReturnReclaimed(c, pend[arg[c]] = "done")
  /\ UNCHANGED <<inboundVars, history>>

-----------------------------------------------------------------------------
(* The end of a call: publication or cancellation *)

\* The result reaches the client; the listeners on its signal are now dead.
Publish(c) ==
  /\ \/ /\ pc[c] = "handed"
        /\ seenRequest' = seenRequest \cup ({arg[c]} \cap inbound)
        /\ UNCHANGED <<listeners, seenReply>>
     \/ /\ pc[c] = "read"
        /\ seenReply' = seenReply \cup {r \in {arg[c]} : pend[r] = "done"}
        /\ listeners' = [listeners EXCEPT ![arg[c]] =
                           IF c \in @ THEN (@ \ {c}) \cup {None} ELSE @]
        /\ UNCHANGED seenRequest
  /\ Return(c)
  /\ UNCHANGED <<inboundVars, pend, outbound, flight, expiry, completed, observed, reader, waiter>>

\* The client cancels call c and will discard its result.
Abort(c) ==
  /\ c \notin aborted
  /\ \/ /\ pc[c] = "parked"
        /\ Goto(c, "woken", None)
        /\ aborted' = aborted \cup {c}
        /\ UNCHANGED <<inboundVars, outboundVars, waiter>>
     \/ /\ pc[c] \in {"woken", "settled"}
        /\ aborted' = aborted \cup {c}
        /\ UNCHANGED <<inboundVars, outboundVars, pc, arg, waiter>>
     \/ /\ pc[c] = "keyed"
        /\ Return(c)
        /\ UNCHANGED <<inboundVars, outboundVars, waiter>>
     \/ /\ pc[c] = "handed"
        /\ ReclaimInbound(arg[c], c)
        /\ Return(c)
        /\ UNCHANGED <<outboundVars, waiter>>
     \/ /\ pc[c] = "read"
        /\ ReclaimReply(c, arg[c])
        /\ ReturnReclaimed(c, ReclaimActs(c, arg[c]))
        /\ UNCHANGED inboundVars
  /\ UNCHANGED history

-----------------------------------------------------------------------------
(* relay_dispatch, relay_cancel *)

\* send: the request carries one hop more than the one the agent works on.
Dispatch(r) ==
  /\ Forgotten(r)
  /\ \A c \in Calls : arg[c] # r
  /\ OpenRequest(r, IF active = None THEN 0 ELSE Hops[active] + 1)
  /\ UNCHANGED <<inboundVars, callVars, history>>

\* cancel by msg_id: also an answered request is dropped.
CancelOne(r) ==
  /\ pend[r] # "none"
  /\ Resolve({r}, FALSE)
  /\ ForgetPending(r)
  /\ seenReply' = seenReply \ {r}
  /\ UNCHANGED <<inboundVars, flight, arg, aborted, seenRequest>>

\* cancel by target, or of everything: only open requests, which are never
\* in the retained list.
CancelOpen(R) ==
  /\ R # {}
  /\ Resolve(R, FALSE)
  /\ ForgetRecords(R)
  /\ UNCHANGED <<inboundVars, completed, flight, arg, aborted, history>>

OpenRequests == {r \in Reqs : pend[r] = "open"}

Cancel ==
  \/ \E r \in Reqs : CancelOne(r)
  \/ \E p \in Peers : CancelOpen({r \in OpenRequests : Target[r] = p})
  \/ CancelOpen(OpenRequests)

-----------------------------------------------------------------------------
(* relay_reply *)

\* The requests a host answers or abandons.  One in transit is not among them:
\* it arrived in this turn of the event loop, and no host knows its id yet.
Answerable(m) ==
  /\ m \in inbound \ InTransit
  /\ m \in seenRequest \/ AnswerQueued

\* respond, up to the delivery of the envelope.
Respond(c, m) ==
  /\ pc[c] = "idle"
  /\ Answerable(m)
  /\ Goto(c, "replying", m)
  /\ UNCHANGED <<inboundVars, outboundVars, aborted, waiter, history>>

\* The sender took the answer, is gone, or will never take it.
Responded(c) ==
  /\ pc[c] = "replying" /\ Settled
  /\ ForgetInbound(arg[c])
  /\ Return(c)
  /\ seenRequest' = seenRequest \ {arg[c]}
  /\ UNCHANGED <<outboundVars, waiter, seenReply>>

\* A transient failure keeps the request.
RespondFailed(c) ==
  /\ pc[c] = "replying" /\ Settled
  /\ Return(c)
  /\ UNCHANGED <<inboundVars, outboundVars, waiter, history>>

\* abandonInbound.
Abandon(m) ==
  /\ Answerable(m)
  /\ ForgetInbound(m)
  /\ seenRequest' = seenRequest \ {m}
  /\ UNCHANGED <<outboundVars, callVars, seenReply>>

-----------------------------------------------------------------------------
Next ==
  \/ \E m \in Msgs, registered \in SUBSET Registrable : ReceivePrompt(m, registered)
  \/ \E r \in Reqs : \/ ReceiveResponse(r) \/ Acked(r) \/ SendFailed(r)
                     \/ Expire(r) \/ Dispatch(r)
  \/ Cancel
  \/ \E c \in Calls : \/ \E fired \in BOOLEAN : AwaitInbound(c, fired)
                      \/ Timeout(c) \/ Resume(c) \/ ResumeKeyed(c)
                      \/ Publish(c) \/ Abort(c)
                      \/ Responded(c) \/ RespondFailed(c)
  \/ \E c \in Calls, r \in Reqs : \/ \E fired \in BOOLEAN : ReadAnswer(c, r, fired)
                                  \/ AwaitReply(c, r)
  \/ \E c \in Calls, m \in Msgs : Respond(c, m)
  \/ \E m \in Msgs : Abandon(m)

Spec == Init /\ [][Next]_vars

-----------------------------------------------------------------------------
(* Safety *)

\* No accepted request is invisible and none is in two places: each waits
\* once in the queue, is the active one, or is on its way to the one bare
\* await that was resolved with it (receivePrompt, awaitInbound, handInbound,
\* forgetInbound).
EveryRequestReachable ==
  /\ inbound = QueuedMsgs \cup ({active} \ {None}) \cup InTransit
  /\ delivering = ({active} \ {None}) \cup InTransit
  /\ QueuedMsgs \cap delivering = {}
  /\ active \notin InTransit
  /\ \A i, j \in 1..Len(queue) : queue[i] = queue[j] => i = j
  /\ \A c, d \in Calls : pc[c] = "woken" /\ pc[d] = "woken" => c = d

\* An await parks only when there is nothing for it, and everything that
\* could be for it wakes it: while one is parked it is the registered waiter,
\* no request is queued or active and no retained answer is unread.
NoSleepThrough ==
  \A c \in Calls : pc[c] = "parked" =>
    /\ waiter = c
    /\ queue = <<>> /\ active = None
    /\ UnreadReplies = {}

\* The wake layer's count is the count of undelivered requests, when the host
\* answers only what it was handed: forgetInbound does not report another drain.
WakeCountFresh == ~AnswerQueued => wakeCount = Undelivered

\* A retained answer that counts as read has reached the agent, or the latest
\* call to read it is still to publish it and will un-read it when cancelled,
\* whichever other calls read it or were cancelled meanwhile.
NoLostReply ==
  \A r \in observed : pend[r] = "done" /\ r \notin seenReply =>
    /\ reader[r] # None
    /\ pc[reader[r]] = "read" /\ arg[reader[r]] = r
    /\ reader[r] \in listeners[r]

\* An active request that is not counted as undelivered has reached the agent,
\* or its latest hand-off is still to be published (reclaimInbound, classifySeen).
NoLostHandoff ==
  active # None /\ ~unseen /\ active \notin seenRequest =>
    hand # None /\ pc[hand] = "handed" /\ arg[hand] = active

\* One sender cannot fill the queue, nor can one that makes up session ids,
\* however peers register and deregister between its prompts.
HeldFrom(S) == {m \in inbound : Sender[m] \in S}
SendersBounded ==
  /\ \A s \in Sessions : Cardinality(HeldFrom({s})) <= SenderQuota
  /\ Cardinality(HeldFrom(Sessions \ Registrable)) <= SenderQuota
  /\ Cardinality(inbound) <= InboundLimit

\* A request that left the pending table left nothing behind: no read mark and
\* no reclaim closure (what the comment above the reclaimListeners map asks).
NothingOutlivesPending ==
  \A r \in Reqs : pend[r] = "none" /\ r \notin flight =>
    r \notin observed /\ listeners[r] = {}

\* The mailbox: the requests in the order in which they come to the front, and
\* what is on its way to an agent.
AtFront == IF active # None THEN {active} ELSE InTransit
MailOf(S) == IF S = {} THEN queue ELSE <<CHOOSE m \in S : TRUE>> \o queue
Given == [c \in Calls |-> IF pc[c] = "handed" THEN arg[c] ELSE None]
Box == INSTANCE Mailbox WITH mail <- MailOf(AtFront), given <- Given, seen <- seenRequest,
         OutOfTurn <- AnswerQueued

\* Requests are handed out and finished one at a time, in the order of their
\* acceptance, however hand-offs are reclaimed and given again (awaitInbound,
\* handInbound, reclaimInbound, forgetInbound).
ImplementsMailbox == Box!Spec

\* The answers: what counts as read, what is on its way to an agent, and through
\* which call it was read last.
Answers == {r \in Reqs : pend[r] = "done"}
Carried == [c \in Calls |-> IF pc[c] = "read" /\ arg[c] \in Answers THEN arg[c] ELSE None]
Reads(c, r) == pc[c] = "read" /\ arg[c] = r /\ c \in listeners[r]
Latest ==
  [r \in Reqs |-> IF r \in Answers /\ reader[r] # None /\ Reads(reader[r], r)
                    THEN reader[r] ELSE None]
Shelf == INSTANCE Retention WITH answers <- completed, read <- observed \cap Answers,
           carried <- Carried, latest <- Latest, told <- seenReply

\* Answers are given oldest first, stay read only as long as the latest call they
\* were given to is not cancelled, and the read ones make room first, however
\* calls by id, bare awaits, evictions, cancels and expiries interleave
\* (takeCompletedReply, markReplyRead, armReclaimAt, receiveResponse).
ImplementsRetention == Shelf!Spec

-----------------------------------------------------------------------------
(* Liveness *)

\* What Node's event loop gives every run: a resolved promise's continuation
\* runs, and a timer that is due or a socket that is readable gets its turn,
\* however often other callbacks come first.  The delivery of an envelope
\* ends by its connect and ack deadlines.
EventLoop ==
  /\ \A c \in Calls : /\ WF_vars(Resume(c)) /\ WF_vars(ResumeKeyed(c))
                      /\ SF_vars(Timeout(c))
  /\ \A r \in Reqs : SF_vars(Acked(r) \/ SendFailed(r))

\* The expiry timers, an hour long, fire too.
ExpiryTimers == \A r \in Reqs : SF_vars(Expire(r))

\* What the protocol asks of an agent: stay in the await loop and answer what
\* it is given; and of its client, not to cancel for ever every call that
\* carries the same message.
AgentLoop ==
  /\ SF_vars(\E c \in Calls : AwaitInbound(c, FALSE))
  /\ \A id \in Msgs \cup Reqs : SF_vars(\E c \in Calls : arg[c] = id /\ Publish(c))
  /\ SF_vars(\E c \in Calls : Responded(c))
  /\ \A m \in Msgs : SF_vars(\E c \in Calls : Respond(c, m))

\* No fairness for Expire: what holds here holds within the retention window.
AgentLoopSpec == Spec /\ EventLoop /\ AgentLoop

\* A slot is never lost for good: an open request is answered, refused,
\* cancelled or, as its timer fires, expired, even when its recipient dies
\* after the ack.
SlotFreed ==
  ExpiryTimers => \A r \in Reqs : pend[r] = "open" ~> pend[r] # "open"

\* An accepted request reaches an agent that stays in its loop, whatever
\* awaits are cancelled, time out or race on the way.
RequestSeen == \A m \in Msgs : m \in inbound ~> (m \in seenRequest \/ m \notin inbound)

\* An answer reaches an agent that stays in its loop, when it is not dropped
\* by expiry, eviction or a cancel first.
ReplySeen == \A r \in Reqs : pend[r] = "done" ~> (r \in seenReply \/ pend[r] # "done")

\* The same, where in the long run no requests come in.
ReplySeenInQuiet == <>[](inbound = {}) => ReplySeen
=============================================================================
