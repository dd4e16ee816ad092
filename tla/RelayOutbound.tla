---------------------------- MODULE RelayOutbound ---------------------------
(***************************************************************************)
(* The sending half of one RelayAdapter (src/src/relayAdapter.ts): one     *)
(* outbound slot per recipient, the requests waiting for an answer, the    *)
(* answers retained until they are read, and the bookkeeping that decides  *)
(* whether an answer has been read.                                        *)
(***************************************************************************)
EXTENDS RelayInbound

CONSTANTS
  Reqs,         \* msg_ids of outbound requests (recycled once forgotten)
  Peers,        \* recipients
  Target,       \* Target[r]: the recipient of request r
  MaxRetained   \* maxRetainedResults

ASSUME OutboundConstants ==
  /\ Target \in [Reqs -> Peers]
  /\ MaxRetained \in Nat \ {0}
  /\ Reqs \cap Msgs = {}
  /\ None \notin Reqs \cup Peers

VARIABLES
  pend,       \* pending: no entry, an open request, or an answered one
  outbound,   \* outbound[p]: the request that holds the slot of recipient p
  flight,     \* requests whose delivery promise has not settled
  expiry,     \* requests with an armed expiry timer
  completed,  \* answered requests, oldest first
  observed,   \* answers some caller has read
  reader,     \* reader[r]: the call whose read of r is the latest (replyReads)
  listeners   \* listeners[r]: the calls whose reclaim of r is registered

outboundVars ==
  <<pend, outbound, flight, expiry, completed, observed, reader, listeners>>

OutboundTypeOK ==
  /\ pend \in [Reqs -> {"none", "open", "done"}]
  /\ outbound \in [Peers -> Reqs \cup {None}]
  /\ flight \subseteq Reqs
  /\ expiry \subseteq Reqs
  /\ completed \in Seq(Reqs)
  /\ observed \subseteq Reqs
  /\ reader \in [Reqs -> Calls \cup {None}]
  /\ listeners \in [Reqs -> SUBSET (Calls \cup {None})]

OutboundInit ==
  /\ pend = [r \in Reqs |-> "none"]
  /\ outbound = [p \in Peers |-> None]
  /\ flight = {} /\ expiry = {} /\ completed = <<>> /\ observed = {}
  /\ reader = [r \in Reqs |-> None]
  /\ listeners = [r \in Reqs |-> {}]

-----------------------------------------------------------------------------
RetainedReplies == {completed[i] : i \in 1..Len(completed)}

\* Nothing in the adapter mentions r any more (msg_ids are random, so a
\* recycled one stands for a new one).
Forgotten(r) ==
  pend[r] = "none" /\ r \notin flight \cup expiry \cup observed /\ listeners[r] = {}

\* takeCompletedReply: the oldest retained answer nobody has read.
UnreadReplies == {r \in RetainedReplies : r \notin observed /\ pend[r] = "done"}
OldestUnread == completed[FirstIndex(completed, UnreadReplies)]

\* markReplyRead and armReclaimAt under a signal that has not fired.
ReadReply(c, r) ==
  /\ observed' = observed \cup {r}
  /\ reader' = [reader EXCEPT ![r] = c]
  /\ listeners' = [listeners EXCEPT ![r] = @ \cup {c}]
  /\ UNCHANGED <<pend, outbound, flight, expiry, completed>>

\* Fault: a read under a fired signal is not reclaimed.
ReadReplyAborted_Kept(r) ==
  /\ observed' = observed \cup {r}
  /\ reader' = [reader EXCEPT ![r] = None]
  /\ UNCHANGED <<pend, outbound, flight, expiry, completed, listeners>>

\* The same under a signal that has fired: the read supersedes the earlier
\* ones and is reclaimed at once, if the answer is still there to reclaim.
ReadReplyAborted(r) ==
  /\ observed' = IF pend[r] = "done" THEN observed \ {r} ELSE observed \cup {r}
  /\ reader' = [reader EXCEPT ![r] = None]
  /\ UNCHANGED <<pend, outbound, flight, expiry, completed, listeners>>

\* Fault: a read that was superseded is reclaimed too.
ReclaimActs_AnyRead(c, r) == c \in listeners[r] /\ pend[r] = "done"

\* The reclaim closure of armReclaimAt acts only for the latest read of an
\* answer that is still retained.
ReclaimActs(c, r) == c \in listeners[r] /\ reader[r] = c /\ pend[r] = "done"

\* Fault: a cancelled read leaves its answer marked as read.
ReclaimReply_StaysRead(c, r) ==
  /\ listeners' = [listeners EXCEPT ![r] = @ \ {c}]
  /\ UNCHANGED <<pend, outbound, flight, expiry, completed, observed, reader>>

ReclaimReply(c, r) ==
  /\ observed' = IF ReclaimActs(c, r) THEN observed \ {r} ELSE observed
  /\ reader' = IF ReclaimActs(c, r) THEN [reader EXCEPT ![r] = None] ELSE reader
  /\ listeners' = [listeners EXCEPT ![r] = @ \ {c}]
  /\ UNCHANGED <<pend, outbound, flight, expiry, completed>>

\* Fault: the slot of a forgotten request stays taken.
SlotsWithout_Kept(R) == outbound

\* The slots once the requests of R have left them.
SlotsWithout(R) == [p \in Peers |-> IF outbound[p] \in R THEN None ELSE outbound[p]]

\* forgetPending of every request of R, except for the retained list.
ForgetRecords(R) ==
  /\ pend' = [r \in Reqs |-> IF r \in R THEN "none" ELSE pend[r]]
  /\ outbound' = SlotsWithout(R)
  /\ expiry' = expiry \ R
  /\ observed' = observed \ R
  /\ reader' = [r \in Reqs |-> IF r \in R THEN None ELSE reader[r]]
  /\ listeners' = [r \in Reqs |-> IF r \in R THEN {} ELSE listeners[r]]

\* forgetPending(r): the one place a request is dropped from.
ForgetPending(r) == ForgetRecords({r}) /\ completed' = Without(completed, r)

\* Fault: the slot records the recipient instead of the msg_id.
OpenRequest_PeerInSlot(r, hops) ==
  /\ hops < MaxHops
  /\ outbound[Target[r]] = None
  /\ pend' = [pend EXCEPT ![r] = "open"]
  /\ outbound' = [outbound EXCEPT ![Target[r]] = Target[r]]
  /\ flight' = flight \cup {r}
  /\ UNCHANGED <<expiry, completed, observed, reader, listeners>>

\* send, up to its first await: the slot is taken and the envelope is on its
\* way.  Fails at once when the slot is held or the hop limit is reached.
OpenRequest(r, hops) ==
  /\ hops < MaxHops
  /\ outbound[Target[r]] = None
  /\ pend' = [pend EXCEPT ![r] = "open"]
  /\ outbound' = [outbound EXCEPT ![Target[r]] = r]
  /\ flight' = flight \cup {r}
  /\ UNCHANGED <<expiry, completed, observed, reader, listeners>>

\* Fault: an acknowledged request does not start to age.
SettleAcked_NoExpiry(r) ==
  /\ flight' = flight \ {r}
  /\ IF pend[r] = "none"
       THEN ForgetPending(r)
       ELSE UNCHANGED <<expiry, pend, outbound, completed, observed, reader, listeners>>

\* The recipient acknowledged r: an open request starts to age, one that was
\* cancelled meanwhile is cleaned up by the catch handler of send.
SettleAcked(r) ==
  /\ flight' = flight \ {r}
  /\ IF pend[r] = "none"
       THEN ForgetPending(r)
       ELSE /\ expiry' = IF pend[r] = "open" THEN expiry \cup {r} ELSE expiry
            /\ UNCHANGED <<pend, outbound, completed, observed, reader, listeners>>

\* What eviction drops when an answer to r is appended: nothing up to
\* maxRetainedResults, then the oldest answer already read, else the oldest.
\* (The while loop runs at most once, since the list was within its bound.)
Appended(r) == Append(completed, r)

\* Fault: one answer too many is retained.
Overflows_OffByOne == Len(completed) > MaxRetained

Overflows == Len(completed) + 1 > MaxRetained
EvictIndex(s) ==
  IF \E i \in 1..Len(s) : s[i] \in observed THEN FirstIndex(s, observed) ELSE 1
Evicted(r) == IF Overflows THEN {Appended(r)[EvictIndex(Appended(r))]} ELSE {}

\* Fault: the timer is cleared when the answer comes and not armed anew.
Rearmed_ClearedOnly(r) == expiry \ {r}

\* The armed timers once the timer of r is cleared and armed anew.
Rearmed(r) == expiry \cup {r}

\* receiveResponse for an open request: the answer is kept, its expiry timer
\* is armed anew, the list is trimmed and the slot is freed.
KeepReply(r) ==
  /\ pend' = [q \in Reqs |-> IF q \in Evicted(r) THEN "none"
                             ELSE IF q = r THEN "done" ELSE pend[q]]
  /\ completed' = IF Overflows THEN RemoveAt(Appended(r), EvictIndex(Appended(r)))
                  ELSE Appended(r)
  /\ expiry' = Rearmed(r) \ Evicted(r)
  /\ observed' = observed \ Evicted(r)
  /\ reader' = [q \in Reqs |-> IF q \in Evicted(r) THEN None ELSE reader[q]]
  /\ listeners' = [q \in Reqs |-> IF q \in Evicted(r) THEN {} ELSE listeners[q]]
  /\ outbound' = SlotsWithout({r} \cup Evicted(r))
  /\ UNCHANGED flight

-----------------------------------------------------------------------------
(* What the sending half promises, whatever the tool calls do *)

\* A recipient's slot is held by exactly its open request: no slot outlives
\* its request and no two open requests share a recipient (send,
\* receiveResponse, forgetPending, cancel).
SlotsMatchPending ==
  \A p \in Peers, r \in Reqs :
    outbound[p] = r <=> pend[r] = "open" /\ Target[r] = p

\* The retained list holds the answered requests, each once, within its bound.
RetainedExactly ==
  /\ RetainedReplies = {r \in Reqs : pend[r] = "done"}
  /\ \A i, j \in 1..Len(completed) : completed[i] = completed[j] => i = j
  /\ Len(completed) <= MaxRetained

\* Nothing is kept for ever: a request is still being delivered or has an
\* expiry timer, an answer has one even when it overtook the ack of its
\* request, and no timer outlives what it expires.
EveryPendingTimed ==
  \A r \in Reqs :
    /\ pend[r] = "open" => r \in flight \cup expiry
    /\ pend[r] = "done" => r \in expiry
    /\ r \in expiry => pend[r] # "none"
=============================================================================
