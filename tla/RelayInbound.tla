---------------------------- MODULE RelayInbound ----------------------------
(***************************************************************************)
(* The receiving half of one RelayAdapter (src/src/relayAdapter.ts): the   *)
(* requests a peer has accepted, the queue they wait in, the one request   *)
(* the agent is working on, and the count of undelivered work that the     *)
(* wake layer is told.  The operators below are the adapter's private      *)
(* methods; module RelayAdapter calls them from the socket handler and     *)
(* from the tool calls.                                                    *)
(***************************************************************************)
EXTENDS Naturals, Sequences, FiniteSets, SequencesExt

CONSTANTS
  Msgs,          \* msg_ids of inbound prompts (recycled once forgotten)
  Calls,         \* concurrent tool calls, each with an abort signal of its own
  Sessions,      \* sender_session values
  Registrable,   \* the sessions of real peers; the others are fabricated ids
  Sender,        \* Sender[m]: the sender_session of prompt m
  Hops,          \* Hops[m]: the hop count prompt m carries
  MaxHops,       \* maxHops
  InboundLimit,  \* config.inboundLimit, or maxInbound
  SenderQuota,   \* senderQuota
  None           \* undefined

ASSUME InboundConstants ==
  /\ Registrable \subseteq Sessions
  /\ Sender \in [Msgs -> Sessions]
  /\ Hops \in [Msgs -> Nat]
  /\ MaxHops \in Nat
  /\ InboundLimit \in Nat \ {0}
  /\ SenderQuota \in Nat \ {0}
  /\ None \notin Msgs \cup Calls \cup Sessions

VARIABLES
  inbound,     \* accepted prompts that are not answered, abandoned or refused
  queue,       \* the accepted prompts waiting for an await, oldest first
  delivering,  \* prompts handed, or on the way, to an await
  active,      \* activeInbound: the request the agent holds, or None
  unseen,      \* activeUnseen: the hand-off of active raced a cancellation
  hand,        \* the call that holds the latest hand-off generation (handSeq)
  wakeCount    \* the count last passed to WakeTracker.update

inboundVars == <<inbound, queue, delivering, active, unseen, hand, wakeCount>>

InboundTypeOK ==
  /\ inbound \subseteq Msgs
  /\ queue \in Seq(Msgs)
  /\ delivering \subseteq Msgs
  /\ active \in Msgs \cup {None}
  /\ unseen \in BOOLEAN
  /\ hand \in Calls \cup {None}
  /\ wakeCount \in Nat

InboundInit ==
  /\ inbound = {} /\ queue = <<>> /\ delivering = {}
  /\ active = None /\ unseen = FALSE /\ hand = None /\ wakeCount = 0

-----------------------------------------------------------------------------
\* The first position of s that holds a member of T (s has one).
FirstIndex(s, T) ==
  CHOOSE i \in 1..Len(s) : s[i] \in T /\ \A j \in 1..(i-1) : s[j] \notin T

\* Fault: what is forgotten stays in its list.
Without_Kept(s, e) == s

\* s without the first occurrence of e: findIndex and splice(index, 1).
Without(s, e) ==
  IF \E i \in 1..Len(s) : s[i] = e THEN RemoveAt(s, FirstIndex(s, {e})) ELSE s

QueuedMsgs == {queue[i] : i \in 1..Len(queue)}

\* undeliveredCount: what waits in the queue, and the held request when its
\* hand-off is known to have been missed.
Undelivered == Len(queue) + (IF unseen /\ active # None THEN 1 ELSE 0)

\* The wake layer is told the count the handler leaves behind.
WakeUpdate == wakeCount' = Undelivered'

\* Fault: every session id has a quota of its own, registered or not.
SenderQuotaReached_PerSession(s, registered) ==
  Cardinality({h \in inbound : Sender[h] = s}) >= SenderQuota

\* senderQuotaReached: sessions outside the registry share one bucket, and
\* both the newcomer and what is held are sorted by the registry of now.
QuotaKey(s, registered) == IF s \in registered THEN s ELSE None

SenderQuotaReached(s, registered) ==
  Cardinality({h \in inbound : QuotaKey(Sender[h], registered) = QuotaKey(s, registered)})
     >= SenderQuota

\* The checks receivePrompt makes before it accepts a prompt; any that fails
\* is answered with a nack and changes nothing.
Accepts(m, registered) ==
  /\ Hops[m] < MaxHops
  /\ m \notin inbound
  /\ Cardinality(inbound) < InboundLimit
  /\ ~SenderQuotaReached(Sender[m], registered)

\* Fault: a hand-off whose signal has fired counts as seen.
HandInbound_AbortIgnored(m, c, fired) ==
  /\ delivering' = delivering \cup {m}
  /\ active' = IF m \in inbound THEN m ELSE None
  /\ unseen' = FALSE
  /\ hand' = c
  /\ UNCHANGED inbound

\* handInbound: m becomes the active request and call c holds the latest
\* hand-off generation.  fired: the abort signal of c had already fired, so
\* classifySeen reclaims the hand-off at once.
HandInbound(m, c, fired) ==
  /\ delivering' = delivering \cup {m}
  /\ active' = IF m \in inbound THEN m ELSE None
  /\ unseen' = (fired /\ m \in inbound)
  /\ hand' = c
  /\ UNCHANGED inbound

\* Fault: a reclaimed request goes back to the end of the queue.
ReclaimInbound_Requeued(m, c) ==
  /\ UNCHANGED <<inbound, unseen, hand>>
  /\ IF active = m /\ hand = c
       THEN /\ active' = None /\ delivering' = delivering \ {m}
            /\ queue' = Append(queue, m) /\ WakeUpdate
       ELSE UNCHANGED <<active, delivering, queue, wakeCount>>

\* Fault: the wake layer does not hear of a reclaimed request.
ReclaimInbound_NoWakeUpdate(m, c) ==
  /\ UNCHANGED <<inbound, queue, delivering, active, hand, wakeCount>>
  /\ unseen' = IF active = m /\ hand = c THEN TRUE ELSE unseen

\* reclaimInbound: only the latest hand-off of the request still held counts.
ReclaimInbound(m, c) ==
  /\ UNCHANGED <<inbound, queue, delivering, active, hand>>
  /\ IF active = m /\ hand = c
       THEN unseen' = TRUE /\ WakeUpdate
       ELSE UNCHANGED <<unseen, wakeCount>>

\* forgetInbound: the request is answered, abandoned or refused for good.
ForgetInbound(m) ==
  /\ inbound' = inbound \ {m}
  /\ delivering' = delivering \ {m}
  /\ queue' = Without(queue, m)
  /\ IF active = m
       THEN active' = None /\ unseen' = FALSE /\ WakeUpdate
       ELSE UNCHANGED <<active, unseen, wakeCount>>
  /\ UNCHANGED hand

\* The self-heal of awaitInbound: prompts that are neither queued nor in
\* delivery are queued again when the queue is empty.
Stranded == inbound \ delivering
HealedQueue == IF queue = <<>> /\ Stranded # {} THEN SetToSeq(Stranded) ELSE queue
=============================================================================
