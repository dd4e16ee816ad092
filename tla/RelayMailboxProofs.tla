------------------------- MODULE RelayMailboxProofs -------------------------
(***************************************************************************)
(* What the mailbox promises its agent, its senders, its wake layer and    *)
(* its host, for any number of messages, requests, senders and calls: what *)
(* a call was given is not lost when the call is, no sender exceeds its    *)
(* share, the count of undelivered requests never goes stale, and requests *)
(* are handed out and finished one at a time, in the order of their        *)
(* acceptance (module Mailbox).  The proofs use the inductive invariant of *)
(* RelayAdapterProofs.                                                     *)
(***************************************************************************)
EXTENDS RelayAdapterProofs

-----------------------------------------------------------------------------
(* A hand-off is not lost *)

Delivered == {"handed", "read", "replying"}

Ends(c) == Publish(c) \/ Abort(c) \/ Responded(c) \/ RespondFailed(c)

\* A call that has a result, or is answering, stays as it is until it ends.
LEMMA ResultsKept ==
  ASSUME Inv, [Next]_vars, NEW c \in Calls, pc[c] \in Delivered
  PROVE  (pc'[c] = pc[c] /\ arg'[c] = arg[c]) \/ Ends(c)
<1> DEFINE Kept == pc'[c] = pc[c] /\ arg'[c] = arg[c]
<1> USE Constants_Apart DEF Delivered
<1>0. pc \in [Calls -> CallStates] /\ arg \in [Calls -> Msgs \cup Reqs \cup {None}]
  BY DEF Inv, MailInv, CallTypeOK
<1>1. ASSUME UNCHANGED vars PROVE Kept
  BY <1>1 DEF vars, callVars
<1>2. ASSUME NEW m \in Msgs, NEW registered \in SUBSET Registrable,
             ReceivePrompt(m, registered)
      PROVE  Kept
  BY <1>0, <1>2 DEF ReceivePrompt, WakeWaiter, Goto
<1>3. ASSUME NEW r \in Reqs, ReceiveResponse(r) PROVE Kept
  BY <1>0, <1>3 DEF ReceiveResponse, Resolve, KeyedOn
<1>4. ASSUME NEW r \in Reqs, Acked(r) \/ SendFailed(r) \/ Expire(r) \/ Dispatch(r) PROVE Kept
  BY <1>4 DEF Acked, SendFailed, Expire, Dispatch, callVars
<1>5. ASSUME Cancel PROVE Kept
  BY <1>0, <1>5 DEF Cancel, CancelOne, CancelOpen, Resolve, KeyedOn
<1>6. ASSUME NEW d \in Calls, NEW fired \in BOOLEAN, AwaitInbound(d, fired) PROVE Kept
  <2>1. pc[d] = "idle" /\ d # c BY <1>6 DEF AwaitInbound
  <2>2. UNCHANGED callVars \/ \E s, id : Goto(d, s, id)
    BY <1>6 DEF AwaitInbound, Hand, Return, GiveReply
  <2> QED BY <1>0, <2>1, <2>2 DEF Goto, callVars
<1>7. ASSUME NEW d \in Calls, Resume(d) PROVE Kept
  <2>1. pc[d] = "woken" /\ d # c BY <1>7 DEF Resume
  <2>2. \E s, id : Goto(d, s, id)
    BY <1>7 DEF Resume, Hand, Return, GiveReply
  <2> QED BY <1>0, <2>1, <2>2 DEF Goto
<1>8. ASSUME NEW d \in Calls, Timeout(d) PROVE Kept
  BY <1>0, <1>8 DEF Timeout, Goto, Return
<1>9. ASSUME NEW d \in Calls, ResumeKeyed(d) PROVE Kept
  BY <1>0, <1>9 DEF ResumeKeyed, GiveReply, Goto, ReturnReclaimed
<1>10. ASSUME NEW d \in Calls, Ends(d), d # c PROVE Kept
  BY <1>0, <1>10
  DEF Ends, Publish, Abort, Responded, RespondFailed, Return, Goto, ReturnReclaimed
<1>11. ASSUME NEW d \in Calls, NEW r \in Reqs, NEW fired \in BOOLEAN, ReadAnswer(d, r, fired)
       PROVE  Kept
  BY <1>0, <1>11 DEF ReadAnswer, GiveReply, Goto, ReturnReclaimed
<1>12. ASSUME NEW d \in Calls, NEW r \in Reqs, AwaitReply(d, r) PROVE Kept
  BY <1>0, <1>12 DEF AwaitReply, Goto
<1>13. ASSUME NEW d \in Calls, NEW m \in Msgs, Respond(d, m) PROVE Kept
  BY <1>0, <1>13 DEF Respond, Goto
<1>14. ASSUME NEW m \in Msgs, Abandon(m) PROVE Kept
  BY <1>14 DEF Abandon, callVars
<1> SUFFICES Kept \/ Ends(c)
  OBVIOUS
<1> HIDE DEF Kept
<1>15. ASSUME NEW d \in Calls,
              \/ Publish(d) \/ Abort(d) \/ Responded(d) \/ RespondFailed(d)
       PROVE  Kept \/ Ends(c)
  BY <1>10, <1>15 DEF Ends
<1>16. CASE \E m \in Msgs, registered \in SUBSET Registrable : ReceivePrompt(m, registered)
  BY <1>2, <1>16
<1>17. ASSUME NEW r \in Reqs,
              \/ ReceiveResponse(r) \/ Acked(r) \/ SendFailed(r) \/ Expire(r) \/ Dispatch(r)
       PROVE  Kept
  BY <1>3, <1>4, <1>17
<1>18. ASSUME NEW d \in Calls, \E fired \in BOOLEAN : AwaitInbound(d, fired)
       PROVE  Kept
  BY <1>6, <1>18
<1>19. ASSUME NEW d \in Calls, Timeout(d) \/ Resume(d) \/ ResumeKeyed(d)
       PROVE  Kept
  BY <1>7, <1>8, <1>9, <1>19
<1>20. ASSUME NEW d \in Calls, NEW r \in Reqs,
              (\E fired \in BOOLEAN : ReadAnswer(d, r, fired)) \/ AwaitReply(d, r)
       PROVE  Kept
  BY <1>11, <1>12, <1>20
<1>21. CASE \E d \in Calls, m \in Msgs : Respond(d, m)
  BY <1>13, <1>21
<1>22. CASE \E m \in Msgs : Abandon(m)
  BY <1>14, <1>22
<1>23. CASE Next
  BY <1>23, <1>5, <1>15, <1>16, <1>17, <1>18, <1>19, <1>20, <1>21, <1>22 DEF Next
<1> QED BY <1>1, <1>23

\* What the two halves of a bare await can do: hand over a request that nothing
\* else is in the way of, or leave the mailbox alone.
HandsOver(c) ==
  \E m \in inbound, fired \in BOOLEAN :
    /\ Hand(c, m, fired) /\ active \in {None, m}
    /\ queue' = queue \/ (queue # <<>> /\ queue' = Tail(queue))
    /\ UNCHANGED outboundVars

HandsNothing(c) ==
  /\ UNCHANGED <<inbound, queue, delivering, active, unseen, hand>>
  /\ WakeUpdate \/ wakeCount' = wakeCount
  /\ \/ /\ UNCHANGED outboundVars
        /\ UNCHANGED callVars \/ \E s \in {"idle", "parked"} : \E id : Goto(c, s, id)
     \/ UnreadReplies # {} /\ GiveReply(c, OldestUnread)

LEMMA BareAwaitSteps ==
  ASSUME Inv, NEW c \in Calls, (\E fired \in BOOLEAN : AwaitInbound(c, fired)) \/ Resume(c)
  PROVE  (HandsOver(c) \/ HandsNothing(c)) /\ UNCHANGED history
<1> USE Constants_Apart
<1>1. /\ HealedQueue = queue
      /\ active # None => active \in inbound
      /\ queue # <<>> => Head(queue) \in inbound
      /\ InTransit \subseteq inbound
  BY Sources, HealsNothing DEF Inv
<1>2. ASSUME NEW fired \in BOOLEAN, AwaitInbound(c, fired)
      PROVE  (HandsOver(c) \/ HandsNothing(c)) /\ UNCHANGED history
  <2>1. CASE active # None
    BY <1>1, <1>2, <2>1 DEF AwaitInbound, HandsOver
  <2>2. CASE active = None /\ fired
    BY <1>1, <1>2, <2>2 DEF AwaitInbound, HandsNothing, callVars
  <2>3. CASE active = None /\ ~fired /\ queue # <<>>
    BY <1>1, <1>2, <2>3 DEF AwaitInbound, HandsOver
  <2>4. CASE active = None /\ ~fired /\ queue = <<>>
    BY <1>1, <1>2, <2>4 DEF AwaitInbound, HandsNothing, GiveReply, outboundVars
  <2> QED BY <2>1, <2>2, <2>3, <2>4
<1>3. CASE Resume(c)
  <2>1. CASE arg[c] # None
    <3>1. active = None /\ arg[c] \in inbound
      BY <1>1, <1>3, <2>1 DEF Resume, Inv, MailInv, OneBareAwait, InTransit
    <3>2. Hand(c, arg[c], c \in aborted) /\ UNCHANGED queue /\ UNCHANGED outboundVars
      BY <1>3, <2>1 DEF Resume
    <3>3. Hand(c, arg[c], TRUE) \/ Hand(c, arg[c], FALSE)
      BY <3>2 DEF Hand, HandInbound
    <3> QED BY <1>3, <3>1, <3>2, <3>3 DEF HandsOver, Resume
  <2>2. CASE arg[c] = None /\ c \in aborted
    BY <1>3, <2>2 DEF Resume, Return, HandsNothing, inboundVars
  <2>3. CASE arg[c] = None /\ c \notin aborted /\ active # None
    BY <1>1, <1>3, <2>3 DEF Resume, HandsOver
  <2>4. CASE arg[c] = None /\ c \notin aborted /\ active = None /\ queue # <<>>
    BY <1>1, <1>3, <2>4 DEF Resume, HandsOver
  <2>5. CASE arg[c] = None /\ c \notin aborted /\ active = None /\ queue = <<>>
    BY <1>3, <2>5 DEF Resume, Return, GiveReply, HandsNothing
  <2> QED BY <2>1, <2>2, <2>3, <2>4, <2>5
<1> QED BY <1>2, <1>3

-----------------------------------------------------------------------------
(* A hand-off is not lost *)

\* The handlers that leave the active request and its marks alone.
HandoffStays ==
  /\ UNCHANGED <<active, unseen, hand>>
  /\ active \in seenRequest => active \in seenRequest'

LEMMA HandoffStays_Kept ==
  ASSUME Inv, [Next]_vars, NoLostHandoff, HandoffStays
  PROVE  NoLostHandoff'
<1> SUFFICES ASSUME active # None, ~unseen, active \notin seenRequest'
             PROVE  hand # None /\ pc'[hand] = "handed" /\ arg'[hand] = active
  BY DEF NoLostHandoff, HandoffStays
<1>1. hand # None /\ pc[hand] = "handed" /\ arg[hand] = active
  BY DEF NoLostHandoff, HandoffStays
<1>2. hand \in Calls /\ active \in inbound
  BY <1>1, Sources DEF Inv, MailInv, InboundTypeOK
<1>3. CASE pc'[hand] = pc[hand] /\ arg'[hand] = arg[hand]
  BY <1>1, <1>3
<1>4. CASE Publish(hand)
  BY <1>1, <1>2, <1>4 DEF Publish
<1>5. CASE Abort(hand)
  BY <1>1, <1>5 DEF Abort, ReclaimInbound, HandoffStays
<1>6. CASE Responded(hand) \/ RespondFailed(hand)
  BY <1>1, <1>6 DEF Responded, RespondFailed
<1> QED BY <1>1, <1>2, <1>3, <1>4, <1>5, <1>6, ResultsKept DEF Delivered, Ends

LEMMA Hand_Handoff ==
  ASSUME Inv, NEW c \in Calls, HandsOver(c) PROVE NoLostHandoff'
<1>1. PICK m \in inbound, fired \in BOOLEAN : Hand(c, m, fired)
  BY DEF HandsOver
<1>2. CASE fired
  BY <1>1, <1>2 DEF Hand, HandInbound, NoLostHandoff
<1>3. CASE ~fired
  <2>1. Goto(c, "handed", m) /\ hand' = c /\ active' = m
    BY <1>1, <1>3 DEF Hand, HandInbound
  <2> QED BY <2>1, Constants_Apart DEF Goto, NoLostHandoff, Inv, MailInv, CallTypeOK
<1> QED BY <1>2, <1>3

\* answering and abandoning forget the hand-off with the request
LEMMA Forget_Handoff ==
  ASSUME Inv, [Next]_vars, NoLostHandoff, NEW m \in Msgs, ForgetInbound(m),
         seenRequest' = seenRequest \ {m}
  PROVE  NoLostHandoff'
<1>1. CASE active = m
  BY <1>1 DEF ForgetInbound, NoLostHandoff
<1>2. CASE active # m
  BY <1>2, HandoffStays_Kept DEF ForgetInbound, HandoffStays
<1> QED BY <1>1, <1>2

LEMMA NoLostHandoff_Step ==
  ASSUME Inv, [Next]_vars, NoLostHandoff PROVE NoLostHandoff'
<1>1. ASSUME UNCHANGED inboundVars, UNCHANGED seenRequest PROVE NoLostHandoff'
  BY <1>1, HandoffStays_Kept DEF HandoffStays, inboundVars
<1>2. ASSUME NEW m \in Msgs, NEW registered \in SUBSET Registrable,
             ReceivePrompt(m, registered)
      PROVE  NoLostHandoff'
  BY <1>2, HandoffStays_Kept DEF ReceivePrompt, HandoffStays, history
<1>3. ASSUME NEW r \in Reqs,
             \/ ReceiveResponse(r) \/ Acked(r) \/ SendFailed(r) \/ Expire(r) \/ Dispatch(r)
      PROVE  NoLostHandoff'
  BY <1>1, <1>3 DEF ReceiveResponse, Acked, SendFailed, Expire, Dispatch, history
<1>4. ASSUME Cancel PROVE NoLostHandoff'
  BY <1>1, <1>4 DEF Cancel, CancelOne, CancelOpen, history
<1>5. ASSUME NEW c \in Calls, (\E fired \in BOOLEAN : AwaitInbound(c, fired)) \/ Resume(c)
      PROVE  NoLostHandoff'
  BY <1>5, BareAwaitSteps, Hand_Handoff, HandoffStays_Kept
  DEF HandsNothing, HandoffStays, history
<1>6. ASSUME NEW c \in Calls, Timeout(c) \/ ResumeKeyed(c) \/ RespondFailed(c)
      PROVE  NoLostHandoff'
  BY <1>1, <1>6 DEF Timeout, ResumeKeyed, RespondFailed, history
<1>7. ASSUME NEW c \in Calls, Publish(c) PROVE NoLostHandoff'
  BY <1>7, HandoffStays_Kept DEF Publish, HandoffStays, inboundVars
<1>8. ASSUME NEW c \in Calls, Abort(c) PROVE NoLostHandoff'
  <2>1. CASE pc[c] = "handed"
    <3>1. ReclaimInbound(arg[c], c) /\ UNCHANGED history
      BY <1>8, <2>1 DEF Abort
    <3>2. CASE active = arg[c] /\ hand = c
      BY <3>1, <3>2 DEF ReclaimInbound, NoLostHandoff
    <3>3. CASE ~(active = arg[c] /\ hand = c)
      BY <3>1, <3>3, HandoffStays_Kept DEF ReclaimInbound, HandoffStays, history
    <3> QED BY <3>2, <3>3
  <2>2. CASE pc[c] # "handed"
    BY <1>1, <1>8, <2>2 DEF Abort, history
  <2> QED BY <2>1, <2>2
<1>9. ASSUME NEW c \in Calls, Responded(c) PROVE NoLostHandoff'
  BY <1>9, Forget_Handoff DEF Responded, Inv, MailInv, ArgsFit
<1>10. ASSUME NEW c \in Calls, NEW r \in Reqs,
              (\E fired \in BOOLEAN : ReadAnswer(c, r, fired)) \/ AwaitReply(c, r)
       PROVE  NoLostHandoff'
  BY <1>1, <1>10 DEF ReadAnswer, AwaitReply, history
<1>11. ASSUME NEW c \in Calls, NEW m \in Msgs, Respond(c, m) PROVE NoLostHandoff'
  BY <1>1, <1>11 DEF Respond, history
<1>12. ASSUME NEW m \in Msgs, Abandon(m) PROVE NoLostHandoff'
  BY <1>12, Forget_Handoff DEF Abandon
<1>13. ASSUME UNCHANGED vars PROVE NoLostHandoff'
  BY <1>1, <1>13 DEF vars, history
<1>14. CASE Next
  BY <1>14, <1>2, <1>3, <1>4, <1>5, <1>6, <1>7, <1>8, <1>9, <1>10, <1>11, <1>12 DEF Next
<1> QED BY <1>13, <1>14

\* An active request that is not counted as undelivered has reached the agent,
\* or its latest hand-off is still to be published, and a cancellation will
\* reclaim it (handInbound, reclaimInbound, classifySeen).
THEOREM HandoffsKept == Spec => []NoLostHandoff
<1>1. Init => NoLostHandoff
  BY DEF Init, InboundInit, NoLostHandoff
<1>2. Inv /\ NoLostHandoff /\ [Next]_vars => NoLostHandoff'
  BY NoLostHandoff_Step
<1> QED BY <1>1, <1>2, Invariant, PTL DEF Spec

-----------------------------------------------------------------------------
(* A read answer is not lost *)

\* An open request has not been read, and a call holds the outcome of a request
\* only once that is no longer open.
Outcome == {"settled", "read"}

OpenUnread == \A r \in Reqs : pend[r] = "open" => r \notin observed
SettledFirst == \A c \in Calls : pc[c] \in Outcome => pend[arg[c]] # "open"

ReplyInv == OpenUnread /\ SettledFirst /\ NoLostReply

\* Somebody will un-read r when cancelled.
Guarded(r) ==
  /\ reader[r] # None
  /\ pc[reader[r]] = "read" /\ arg[reader[r]] = r
  /\ reader[r] \in listeners[r]

\* A step that leaves the reading of r alone, but for calls that end.
ReadingStays(r) ==
  /\ r \in observed /\ pend[r] = "done" /\ r \notin seenReply
  /\ reader'[r] = reader[r]
  /\ reader[r] \in listeners[r] => reader[r] \in listeners'[r] \/ Ends(reader[r])

LEMMA ReadingStays_Guarded ==
  ASSUME Inv, [Next]_vars, NoLostReply, NEW r \in Reqs, ReadingStays(r),
         r \in observed', pend'[r] = "done", r \notin seenReply'
  PROVE  Guarded(r)'
<1> DEFINE c == reader[r]
<1>1. c # None /\ pc[c] = "read" /\ arg[c] = r /\ c \in listeners[r]
  BY DEF NoLostReply, ReadingStays
<1>2. c \in Calls
  BY <1>1 DEF Inv, OutboundInv, OutboundTypeOK
<1>3. ~Publish(c)
  BY <1>1 DEF Publish, ReadingStays
<1>4. ~Abort(c)
  BY <1>1 DEF Abort, ReclaimReply, ReclaimActs, ReadingStays, Inv, OutboundInv, OutboundTypeOK
<1>5. ~Responded(c) /\ ~RespondFailed(c)
  BY <1>1 DEF Responded, RespondFailed
<1>6. ~Ends(c)
  BY <1>3, <1>4, <1>5 DEF Ends
<1>7. pc'[c] = pc[c] /\ arg'[c] = arg[c]
  BY <1>1, <1>2, <1>6, ResultsKept DEF Delivered
<1> QED BY <1>1, <1>6, <1>7 DEF ReadingStays, Guarded

LEMMA NoLostReply_Join ==
  ASSUME Inv, [Next]_vars, NoLostReply,
         \A r \in Reqs : r \in observed' /\ pend'[r] = "done" /\ r \notin seenReply' =>
           ReadingStays(r) \/ Guarded(r)',
         observed' \subseteq Reqs
  PROVE  NoLostReply'
<1> SUFFICES ASSUME NEW r \in observed', pend'[r] = "done", r \notin seenReply'
             PROVE  Guarded(r)'
  BY DEF NoLostReply, Guarded
<1> QED BY ReadingStays_Guarded

\* The sending half and its history stay.
LEMMA AllReadingStays ==
  ASSUME Inv, [Next]_vars, ReplyInv,
         UNCHANGED <<pend, observed, reader, listeners, seenReply>>
  PROVE  NoLostReply'
<1>1. \A r \in Reqs : r \in observed' /\ pend'[r] = "done" /\ r \notin seenReply' =>
        ReadingStays(r)
  BY DEF ReadingStays
<1>2. observed' \subseteq Reqs
  BY DEF Inv, OutboundInv, OutboundTypeOK
<1> QED BY <1>1, <1>2, NoLostReply_Join DEF ReplyInv

LEMMA GiveReply_Reply ==
  ASSUME Inv, [Next]_vars, ReplyInv, NEW c \in Calls, NEW q \in Reqs, GiveReply(c, q),
         UNCHANGED seenReply
  PROVE  NoLostReply'
<1> USE Constants_Apart
<1>1. OutboundTypeOK /\ CallTypeOK
  BY DEF Inv, OutboundInv, MailInv
<1>2. Guarded(q)'
  BY <1>1 DEF GiveReply, ReadReply, Goto, Guarded, OutboundTypeOK, CallTypeOK
<1>3. \A r \in Reqs : r # q /\ r \in observed' /\ pend'[r] = "done" /\ r \notin seenReply' =>
        ReadingStays(r)
  BY <1>1 DEF GiveReply, ReadReply, ReadingStays, OutboundTypeOK
<1>4. observed' \subseteq Reqs
  BY <1>1 DEF GiveReply, ReadReply, OutboundTypeOK
<1> QED BY <1>2, <1>3, <1>4, NoLostReply_Join DEF ReplyInv

LEMMA Aborted_Reply ==
  ASSUME Inv, [Next]_vars, ReplyInv, NEW q \in Reqs, ReadReplyAborted(q), UNCHANGED seenReply
  PROVE  NoLostReply'
<1>1. OutboundTypeOK
  BY DEF Inv, OutboundInv
<1>2. \A r \in Reqs : r \in observed' /\ pend'[r] = "done" /\ r \notin seenReply' =>
        ReadingStays(r)
  BY <1>1 DEF ReadReplyAborted, ReadingStays, OutboundTypeOK
<1>3. observed' \subseteq Reqs
  BY <1>1 DEF ReadReplyAborted, OutboundTypeOK
<1> QED BY <1>2, <1>3, NoLostReply_Join DEF ReplyInv

LEMMA Forget_Reply ==
  ASSUME Inv, [Next]_vars, ReplyInv, NEW R \in SUBSET Reqs, ForgetRecords(R),
         seenReply \ R \subseteq seenReply'
  PROVE  NoLostReply'
<1>1. OutboundTypeOK
  BY DEF Inv, OutboundInv
<1>2. \A r \in Reqs : r \in observed' /\ pend'[r] = "done" /\ r \notin seenReply' =>
        ReadingStays(r)
  BY <1>1 DEF ForgetRecords, ReadingStays, OutboundTypeOK
<1>3. observed' \subseteq Reqs
  BY <1>1 DEF ForgetRecords, OutboundTypeOK
<1> QED BY <1>2, <1>3, NoLostReply_Join DEF ReplyInv

LEMMA ReceiveResponse_Reply ==
  ASSUME Inv, [Next]_vars, ReplyInv, NEW q \in Reqs, ReceiveResponse(q)
  PROVE  NoLostReply'
<1> DEFINE X == Evicted(q)
<1>1. /\ pend[q] = "open"
      /\ pend' = [r \in Reqs |-> IF r \in X THEN "none"
                                 ELSE IF r = q THEN "done" ELSE pend[r]]
      /\ observed' = observed \ X
      /\ reader' = [r \in Reqs |-> IF r \in X THEN None ELSE reader[r]]
      /\ listeners' = [r \in Reqs |-> IF r \in X THEN {} ELSE listeners[r]]
      /\ seenReply' = seenReply \ X
  BY DEF ReceiveResponse, KeepReply
<1> HIDE DEF X
<1>2. OutboundTypeOK /\ q \notin observed
  BY <1>1 DEF Inv, OutboundInv, ReplyInv, OpenUnread
<1>3. \A r \in Reqs : r \in observed' /\ pend'[r] = "done" /\ r \notin seenReply' =>
        ReadingStays(r)
  BY <1>1, <1>2 DEF ReadingStays, OutboundTypeOK
<1>4. observed' \subseteq Reqs
  BY <1>1, <1>2 DEF OutboundTypeOK
<1> QED BY <1>3, <1>4, NoLostReply_Join DEF ReplyInv

\* A cancelled or published call leaves every other reading alone.
LEMMA EndOfRead_Reply ==
  ASSUME Inv, [Next]_vars, ReplyInv, NEW c \in Calls, Publish(c) \/ Abort(c), pc[c] = "read"
  PROVE  NoLostReply'
<1>1. OutboundTypeOK /\ arg[c] \in Reqs
  BY DEF Inv, OutboundInv, MailInv, ArgsFit
<1>2. CASE Publish(c)
  <2>1. /\ UNCHANGED <<pend, observed, reader>> /\ seenReply \subseteq seenReply'
        /\ listeners' = [listeners EXCEPT ![arg[c]] =
                           IF c \in @ THEN (@ \ {c}) \cup {None} ELSE @]
    BY <1>2 DEF Publish
  <2>2. \A r \in Reqs : r \in observed' /\ pend'[r] = "done" /\ r \notin seenReply' =>
          ReadingStays(r)
    BY <1>1, <1>2, <2>1 DEF ReadingStays, OutboundTypeOK, Ends
  <2>3. observed' \subseteq Reqs BY <1>1, <2>1 DEF OutboundTypeOK
  <2> QED BY <2>2, <2>3, NoLostReply_Join DEF ReplyInv
<1>3. CASE Abort(c)
  <2>1. ReclaimReply(c, arg[c]) /\ UNCHANGED seenReply
    BY <1>3 DEF Abort, history
  <2>2. \A r \in Reqs : r \in observed' /\ pend'[r] = "done" /\ r \notin seenReply' =>
          ReadingStays(r)
    BY <1>1, <1>3, <2>1 DEF ReclaimReply, ReadingStays, OutboundTypeOK, Ends
  <2>3. observed' \subseteq Reqs BY <1>1, <2>1 DEF ReclaimReply, OutboundTypeOK
  <2> QED BY <2>2, <2>3, NoLostReply_Join DEF ReplyInv
<1> QED BY <1>2, <1>3

-----------------------------------------------------------------------------
(* Open requests stay unread, settled awaits stay answered *)

MarksStay ==
  /\ \A r \in Reqs : pend'[r] = "open" => pend[r] = "open"
  /\ \A r \in Reqs : pend'[r] = "open" /\ r \in observed' => r \in observed
  /\ \A c \in Calls : pc'[c] \in Outcome =>
       pend'[arg'[c]] # "open" \/ (pc[c] \in Outcome /\ arg'[c] = arg[c])

LEMMA MarksStay_Kept ==
  ASSUME Inv, ReplyInv, MarksStay PROVE OpenUnread' /\ SettledFirst'
<1>1. \A c \in Calls : pc[c] \in Outcome => arg[c] \in Reqs
  BY DEF Inv, MailInv, ArgsFit, Outcome
<1> QED BY <1>1 DEF ReplyInv, OpenUnread, SettledFirst, MarksStay

\* No call comes by an outcome.
NoneSettled == \A c \in Calls : pc'[c] \in Outcome => pc[c] \in Outcome /\ arg'[c] = arg[c]

LEMMA Marks_Unchanged ==
  ASSUME NoneSettled, UNCHANGED <<pend, observed>> PROVE MarksStay
BY DEF NoneSettled, MarksStay

LEMMA GiveReply_Marks ==
  ASSUME Inv, NEW c \in Calls, NEW q \in Reqs, GiveReply(c, q), pend[q] # "open"
  PROVE  MarksStay
BY DEF MarksStay, Outcome, GiveReply, ReadReply, Goto, Inv, MailInv, CallTypeOK

LEMMA Aborted_Marks ==
  ASSUME Inv, NEW c \in Calls, NEW q \in Reqs, NEW wake, ReadReplyAborted(q),
         ReturnReclaimed(c, wake), pend[q] # "open"
  PROVE  MarksStay
BY DEF MarksStay, Outcome, ReadReplyAborted, ReturnReclaimed, Inv, MailInv, CallTypeOK

LEMMA Forget_Marks ==
  ASSUME Inv, NEW R \in SUBSET Reqs, ForgetRecords(R), NoneSettled \/ Resolve(R, FALSE),
         UNCHANGED arg
  PROVE  MarksStay
<1>1. /\ \A r \in Reqs : pend'[r] = IF r \in R THEN "none" ELSE pend[r]
      /\ observed' \subseteq observed
  BY DEF ForgetRecords
<1>2. CASE NoneSettled
  BY <1>1, <1>2 DEF MarksStay, NoneSettled
<1>3. CASE Resolve(R, FALSE)
  BY <1>1, <1>3 DEF MarksStay, Outcome, Resolve, KeyedOn
<1> QED BY <1>2, <1>3

LEMMA ReceiveResponse_Marks ==
  ASSUME Inv, NEW q \in Reqs, ReceiveResponse(q)
  PROVE  MarksStay
<1>1. /\ \A r \in Reqs : pend'[r] = IF r \in Evicted(q) THEN "none"
                                    ELSE IF r = q THEN "done" ELSE pend[r]
      /\ observed' \subseteq observed
  BY DEF ReceiveResponse, KeepReply
<1> QED BY <1>1 DEF MarksStay, Outcome, ReceiveResponse, Resolve, KeyedOn

LEMMA Dispatch_Reply ==
  ASSUME Inv, [Next]_vars, ReplyInv, NEW q \in Reqs, Dispatch(q)
  PROVE  ReplyInv'
<1>1. /\ q \notin observed /\ \A c \in Calls : arg[c] # q
      /\ pend' = [pend EXCEPT ![q] = "open"] /\ pend[q] = "none"
      /\ UNCHANGED <<observed, reader, listeners, seenReply, pc, arg>>
  BY DEF Dispatch, Forgotten, OpenRequest, callVars, history
<1>2. OutboundTypeOK /\ ArgsFit
  BY DEF Inv, OutboundInv, MailInv
<1>3. OpenUnread' /\ SettledFirst'
  BY <1>1, <1>2 DEF ReplyInv, OpenUnread, SettledFirst, Outcome, OutboundTypeOK, ArgsFit
<1>4. \A r \in Reqs : r \in observed' /\ pend'[r] = "done" /\ r \notin seenReply' =>
        ReadingStays(r)
  BY <1>1, <1>2 DEF ReadingStays, OutboundTypeOK
<1>5. NoLostReply'
  BY <1>1, <1>2, <1>4, NoLostReply_Join DEF ReplyInv, OutboundTypeOK
<1> QED BY <1>3, <1>5 DEF ReplyInv

LEMMA ReplyInv_Join ==
  ASSUME Inv, ReplyInv, NoLostReply', MarksStay PROVE ReplyInv'
BY MarksStay_Kept DEF ReplyInv

\* Steps that leave the sending half and its history alone.
LEMMA Aside_Reply ==
  ASSUME Inv, [Next]_vars, ReplyInv, NoneSettled, UNCHANGED outboundVars, UNCHANGED seenReply
  PROVE  ReplyInv'
BY AllReadingStays, Marks_Unchanged, ReplyInv_Join DEF outboundVars

\* A bare await that is not given an answer comes by no outcome.
LEMMA BareAwait_Calls ==
  ASSUME Inv, NEW c \in Calls, HandsOver(c) \/ HandsNothing(c)
  PROVE  \/ NoneSettled /\ UNCHANGED outboundVars
         \/ UnreadReplies # {} /\ GiveReply(c, OldestUnread)
<1>0. pc \in [Calls -> CallStates] /\ arg \in [Calls -> Msgs \cup Reqs \cup {None}]
  BY DEF Inv, MailInv, CallTypeOK
<1>1. ASSUME UNCHANGED callVars \/ \E s \in {"idle", "handed", "parked"} : \E id : Goto(c, s, id)
      PROVE  NoneSettled
  BY <1>0, <1>1 DEF Goto, callVars, NoneSettled, Outcome
<1> QED BY <1>1 DEF HandsOver, HandsNothing, Hand, Return

LEMMA ReplyInv_Step ==
  ASSUME Inv, [Next]_vars, ReplyInv PROVE ReplyInv'
<1> USE Constants_Apart
<1>0. pc \in [Calls -> CallStates] /\ arg \in [Calls -> Msgs \cup Reqs \cup {None}]
  BY DEF Inv, MailInv, CallTypeOK
<1>1. ASSUME NEW m \in Msgs, NEW registered \in SUBSET Registrable,
             ReceivePrompt(m, registered)
      PROVE  ReplyInv'
  <2>1. NoneSettled
    BY <1>0, <1>1 DEF ReceivePrompt, WakeWaiter, Goto, NoneSettled, Outcome
  <2> QED BY <1>1, <2>1, Aside_Reply DEF ReceivePrompt, history
<1>2. ASSUME NEW r \in Reqs, ReceiveResponse(r) PROVE ReplyInv'
  BY <1>2, ReceiveResponse_Reply, ReceiveResponse_Marks, ReplyInv_Join
<1>3. ASSUME NEW r \in Reqs, Acked(r) \/ SendFailed(r) \/ Expire(r) PROVE ReplyInv'
  <2>1. NoneSettled /\ UNCHANGED arg
    BY <1>3 DEF Acked, SendFailed, Expire, callVars, NoneSettled
  <2>2. CASE ForgetPending(r) /\ seenReply \ {r} \subseteq seenReply'
    BY <2>1, <2>2, Forget_Reply, Forget_Marks, ReplyInv_Join DEF ForgetPending
  <2>3. CASE UNCHANGED <<pend, observed, reader, listeners, seenReply>>
    BY <2>1, <2>3, AllReadingStays, Marks_Unchanged, ReplyInv_Join
  <2> QED
    BY <1>3, <2>2, <2>3 DEF Acked, SettleAcked, SendFailed, Expire, history
<1>4. ASSUME NEW r \in Reqs, Dispatch(r) PROVE ReplyInv'
  BY <1>4, Dispatch_Reply
<1>5. ASSUME Cancel PROVE ReplyInv'
  <2>1. ASSUME NEW r \in Reqs, CancelOne(r) PROVE ReplyInv'
    <3>1. ForgetRecords({r}) /\ Resolve({r}, FALSE) /\ UNCHANGED arg
          /\ seenReply \ {r} \subseteq seenReply'
      BY <2>1 DEF CancelOne, ForgetPending
    <3> QED BY <3>1, Forget_Reply, Forget_Marks, ReplyInv_Join
  <2>2. ASSUME NEW R \in SUBSET OpenRequests, CancelOpen(R) PROVE ReplyInv'
    <3>1. ForgetRecords(R) /\ Resolve(R, FALSE) /\ UNCHANGED arg /\ R \in SUBSET Reqs
          /\ seenReply \ R \subseteq seenReply'
      BY <2>2 DEF CancelOpen, OpenRequests, history
    <3> QED BY <3>1, Forget_Reply, Forget_Marks, ReplyInv_Join
  <2>3. CASE \E p \in Peers : CancelOpen({r \in OpenRequests : Target[r] = p})
    BY <2>2, <2>3
  <2> QED BY <1>5, <2>1, <2>2, <2>3 DEF Cancel
<1>6. ASSUME NEW c \in Calls, (\E fired \in BOOLEAN : AwaitInbound(c, fired)) \/ Resume(c)
      PROVE  ReplyInv'
  <2>1. UNCHANGED seenReply /\ (HandsOver(c) \/ HandsNothing(c))
    BY <1>6, BareAwaitSteps DEF history
  <2>2. CASE NoneSettled /\ UNCHANGED outboundVars
    BY <2>1, <2>2, Aside_Reply
  <2>3. CASE UnreadReplies # {} /\ GiveReply(c, OldestUnread)
    <3>1. OldestUnread \in Reqs /\ pend[OldestUnread] = "done"
      BY <2>3, OldestUnread_Type DEF Inv, UnreadReplies
    <3> QED BY <2>1, <2>3, <3>1, GiveReply_Reply, GiveReply_Marks, ReplyInv_Join
  <2> QED BY <2>1, <2>2, <2>3, BareAwait_Calls
<1>7. ASSUME NEW c \in Calls, Timeout(c) PROVE ReplyInv'
  <2>1. NoneSettled
    BY <1>0, <1>7 DEF Timeout, Return, Goto, NoneSettled, Outcome
  <2> QED BY <1>7, <2>1, Aside_Reply DEF Timeout, history
<1>8. ASSUME NEW c \in Calls, ResumeKeyed(c) PROVE ReplyInv'
  <2>1. arg[c] \in Reqs /\ pend[arg[c]] # "open" /\ UNCHANGED seenReply
    BY <1>8 DEF ResumeKeyed, Inv, MailInv, ArgsFit, ReplyInv, SettledFirst, Outcome, history
  <2>2. CASE GiveReply(c, arg[c])
    BY <2>1, <2>2, GiveReply_Reply, GiveReply_Marks, ReplyInv_Join
  <2>3. CASE ReadReplyAborted(arg[c]) /\ ReturnReclaimed(c, pend[arg[c]] = "done")
    BY <2>1, <2>3, Aborted_Reply, Aborted_Marks, ReplyInv_Join
  <2> QED BY <1>8, <2>2, <2>3 DEF ResumeKeyed
<1>9. ASSUME NEW c \in Calls, Publish(c) \/ Abort(c) PROVE ReplyInv'
  <2>1. NoneSettled
    BY <1>0, <1>9 DEF Publish, Abort, Return, ReturnReclaimed, Goto, NoneSettled, Outcome
  <2>2. CASE pc[c] = "read"
    <3>1. NoLostReply'
      BY <1>9, <2>2, EndOfRead_Reply
    <3>2. UNCHANGED pend /\ observed' \subseteq observed
      BY <1>9, <2>2 DEF Publish, Abort, ReclaimReply
    <3>3. MarksStay
      BY <2>1, <3>2 DEF NoneSettled, MarksStay
    <3> QED BY <3>1, <3>3, ReplyInv_Join
  <2>3. CASE pc[c] # "read"
    <3>1. UNCHANGED outboundVars /\ UNCHANGED seenReply
      BY <1>9, <2>3 DEF Publish, Abort, outboundVars, history
    <3> QED BY <2>1, <3>1, Aside_Reply
  <2> QED BY <2>2, <2>3
<1>10. ASSUME NEW c \in Calls, Responded(c) \/ RespondFailed(c) PROVE ReplyInv'
  <2>1. NoneSettled
    BY <1>0, <1>10 DEF Responded, RespondFailed, Return, Goto, NoneSettled, Outcome
  <2> QED BY <1>10, <2>1, Aside_Reply DEF Responded, RespondFailed, history
<1>11. ASSUME NEW c \in Calls, NEW r \in Reqs, NEW fired \in BOOLEAN, ReadAnswer(c, r, fired)
       PROVE  ReplyInv'
  <2>1. pend[r] # "open" /\ UNCHANGED seenReply
    BY <1>11 DEF ReadAnswer, history
  <2>2. CASE GiveReply(c, r)
    BY <2>1, <2>2, GiveReply_Reply, GiveReply_Marks, ReplyInv_Join
  <2>3. CASE ReadReplyAborted(r) /\ ReturnReclaimed(c, TRUE)
    BY <2>1, <2>3, Aborted_Reply, Aborted_Marks, ReplyInv_Join
  <2> QED BY <1>11, <2>2, <2>3 DEF ReadAnswer
<1>12. ASSUME NEW c \in Calls, NEW r \in Reqs, AwaitReply(c, r) PROVE ReplyInv'
  <2>1. NoneSettled
    BY <1>0, <1>12 DEF AwaitReply, Goto, NoneSettled, Outcome
  <2> QED BY <1>12, <2>1, Aside_Reply DEF AwaitReply, history
<1>13. ASSUME NEW c \in Calls, NEW m \in Msgs, Respond(c, m) PROVE ReplyInv'
  <2>1. NoneSettled
    BY <1>0, <1>13 DEF Respond, Goto, NoneSettled, Outcome
  <2> QED BY <1>13, <2>1, Aside_Reply DEF Respond, history
<1>14. ASSUME NEW m \in Msgs, Abandon(m) PROVE ReplyInv'
  BY <1>14, Aside_Reply DEF Abandon, callVars, NoneSettled
<1>15. ASSUME UNCHANGED vars PROVE ReplyInv'
  BY <1>15, Aside_Reply DEF vars, history, callVars, NoneSettled
<1>16. CASE Next
  BY <1>16, <1>1, <1>2, <1>3, <1>4, <1>5, <1>6, <1>7, <1>8, <1>9, <1>10, <1>11, <1>12,
     <1>13, <1>14 DEF Next
<1> QED BY <1>15, <1>16

\* A retained answer that counts as read has reached the agent, or the latest
\* call to read it will un-read it when cancelled (markReplyRead, armReclaimAt).
THEOREM RepliesKept == Spec => []NoLostReply
<1>1. Init => ReplyInv
  BY DEF Init, OutboundInit, ReplyInv, OpenUnread, SettledFirst, Outcome, NoLostReply
<1>2. Inv /\ ReplyInv /\ [Next]_vars => ReplyInv'
  BY ReplyInv_Step
<1>3. ReplyInv => NoLostReply
  BY DEF ReplyInv
<1> QED BY <1>1, <1>2, <1>3, Invariant, PTL DEF Spec

-----------------------------------------------------------------------------
(* The adapter implements the retention of answers *)

\* What has reached the agent is still retained.
ToldRetained == seenReply \subseteq Answers

ShelfInv == ReplyInv /\ ToldRetained

Carries(c, r) == pc[c] = "read" /\ arg[c] = r

\* The calls carry the same answers of R as before.
CarriesStay(R) == \A c \in Calls, r \in R : Carries(c, r)' = Carries(c, r)

LEMMA AnswersAre ==
  ASSUME Inv
  PROVE  /\ Answers = Elems(completed) /\ Answers = Shelf!Retained
         /\ completed \in Seq(Reqs) /\ Distinct(completed) /\ Len(completed) \in Nat
         /\ Len(completed) <= MaxRetained /\ MaxRetained \in Nat
BY LenProperties, OutboundConstants
DEF Inv, OutboundInv, OutboundTypeOK, RetainedExactly, RetainedReplies, Answers, Elems, Distinct,
    Shelf!Retained

\* A step that takes the answers of X away and leaves the reading of the others
\* alone; those of N are new.
LEMMA ShelfClears ==
  ASSUME Inv, Inv', NEW X \in SUBSET Reqs, NEW N \in SUBSET Reqs,
         N \cap Answers = {}, Answers' = (Answers \cup N) \ X,
         \A r \in Answers \ X : r \in observed' <=> r \in observed,
         \A r \in Answers \ X : reader'[r] = reader[r] /\ listeners'[r] = listeners[r],
         CarriesStay(Answers'),
         \A r \in N \ X : r \notin observed' /\ \A c \in Calls : ~Carries(c, r)
  PROVE  /\ (observed \cap Answers)' = (observed \cap Answers) \ X
         /\ Carried' = [c \in Calls |-> IF Carried[c] \in X THEN None ELSE Carried[c]]
         /\ Latest' = [r \in Reqs |-> IF r \in X THEN None ELSE Latest[r]]
<1> USE Constants_Apart
<1>1. Answers \subseteq Reqs /\ Answers' \subseteq Reqs
  BY DEF Answers
<1>2. reader \in [Reqs -> Calls \cup {None}] /\ reader' \in [Reqs -> Calls \cup {None}]
  BY DEF Inv, OutboundInv, OutboundTypeOK
<1>3. (observed \cap Answers)' = (observed \cap Answers) \ X
  OBVIOUS
<1>4. ASSUME NEW c \in Calls
      PROVE  Carried'[c] = IF Carried[c] \in X THEN None ELSE Carried[c]
  <2>1. \A r \in Answers' : (pc'[c] = "read" /\ arg'[c] = r) <=> (pc[c] = "read" /\ arg[c] = r)
    BY DEF CarriesStay, Carries
  <2>2. \A r \in N \ X : ~(pc[c] = "read" /\ arg[c] = r)
    BY DEF Carries
  <2> QED BY <1>1, <2>1, <2>2 DEF Carried
<1>5. ASSUME NEW r \in Reqs
      PROVE  Latest'[r] = IF r \in X THEN None ELSE Latest[r]
  <2>1. r \in Answers' => \A c \in Calls : Carries(c, r)' = Carries(c, r)
    BY DEF CarriesStay
  <2>2. CASE r \in Answers \ X
    <3>1. reader'[r] = reader[r] /\ listeners'[r] = listeners[r] /\ r \in Answers'
      BY <2>2
    <3>2. \A c \in Calls : Reads(c, r)' <=> Reads(c, r)
      BY <2>1, <3>1 DEF Reads, Carries
    <3> QED BY <1>2, <2>2, <3>1, <3>2 DEF Latest
  <2>3. CASE r \in N \ X
    <3>1. r \notin Answers /\ \A c \in Calls : ~Reads(c, r)'
      BY <2>1, <2>3 DEF Reads, Carries
    <3> QED BY <1>2, <2>3, <3>1 DEF Latest
  <2>4. CASE r \notin Answers'
    BY <1>2, <2>4 DEF Latest
  <2> QED BY <2>2, <2>3, <2>4
<1>6. Carried' = [c \in Calls |-> IF Carried[c] \in X THEN None ELSE Carried[c]]
  BY <1>4 DEF Carried
<1>7. Latest' = [r \in Reqs |-> IF r \in X THEN None ELSE Latest[r]]
  BY <1>5 DEF Latest
<1> QED BY <1>3, <1>6, <1>7

\* A step that leaves the answers and their reading alone.
LEMMA ShelfStays ==
  ASSUME Inv, Inv', UNCHANGED <<completed, seenReply>>,
         \A r \in Answers : r \in observed' <=> r \in observed,
         \A r \in Answers : reader'[r] = reader[r] /\ listeners'[r] = listeners[r],
         CarriesStay(Answers)
  PROVE  UNCHANGED Shelf!vars
<1>1. Answers' = Answers
  <2>1. (Answers = Elems(completed))'
    BY AnswersAre, PTL
  <2> QED BY <2>1, AnswersAre DEF Elems
<1>2. /\ (observed \cap Answers)' = (observed \cap Answers) \ {}
      /\ Carried' = [c \in Calls |-> IF Carried[c] \in {} THEN None ELSE Carried[c]]
      /\ Latest' = [r \in Reqs |-> IF r \in {} THEN None ELSE Latest[r]]
  <2> DEFINE E == {}
  <2>1. /\ E \in SUBSET Reqs /\ E \cap Answers = {} /\ Answers' = (Answers \cup E) \ E
        /\ \A r \in Answers \ E : r \in observed' <=> r \in observed
        /\ \A r \in Answers \ E : reader'[r] = reader[r] /\ listeners'[r] = listeners[r]
        /\ CarriesStay(Answers')
        /\ \A r \in E \ E : r \notin observed' /\ \A c \in Calls : ~Carries(c, r)
    BY <1>1 DEF CarriesStay
  <2> HIDE DEF E
  <2>2. /\ (observed \cap Answers)' = (observed \cap Answers) \ E
        /\ Carried' = [c \in Calls |-> IF Carried[c] \in E THEN None ELSE Carried[c]]
        /\ Latest' = [r \in Reqs |-> IF r \in E THEN None ELSE Latest[r]]
    BY <2>1, ShelfClears
  <2> QED BY <2>2 DEF E
<1>3. Carried' = Carried
  BY <1>2 DEF Carried
<1>4. Latest' = Latest
  BY <1>2 DEF Latest
<1> QED BY <1>2, <1>3, <1>4 DEF Shelf!vars

\* Steps of calls that carry no answer, and of the mailbox.
LEMMA AsideOfShelf ==
  ASSUME Inv, Inv', UNCHANGED <<pend, completed, observed, reader, listeners, seenReply>>,
         CarriesStay(Answers)
  PROVE  UNCHANGED Shelf!vars
BY ShelfStays

\* What forgetPending drops was the i-th answer, or no answer at all.
LEMMA Forget_Shelf ==
  ASSUME Inv, Inv', ShelfInv, NEW r \in Reqs, ForgetPending(r), seenReply' = seenReply \ {r},
         CarriesStay(Reqs)
  PROVE  [Shelf!Next]_(Shelf!vars)
<1>1. /\ Answers = Elems(completed) /\ Distinct(completed) /\ completed \in Seq(Reqs)
      /\ Len(completed) \in Nat
  BY AnswersAre
<1>2. /\ \A q \in Reqs : pend'[q] = IF q = r THEN "none" ELSE pend[q]
      /\ completed' = Without(completed, r) /\ observed' = observed \ {r}
      /\ \A q \in Reqs : q # r => reader'[q] = reader[q] /\ listeners'[q] = listeners[q]
  BY DEF ForgetPending, ForgetRecords
<1>3. Answers' = Answers \ {r} /\ Answers' \subseteq Reqs /\ Answers \subseteq Reqs
  BY <1>2 DEF Answers
<1>4. CASE r \notin Answers
  <2>1. completed' = completed
    BY <1>1, <1>2, <1>4 DEF Without, Elems
  <2>2. r \notin seenReply
    BY <1>4 DEF ShelfInv, ToldRetained
  <2>3. /\ \A q \in Answers : q \in observed' <=> q \in observed
        /\ \A q \in Answers : reader'[q] = reader[q] /\ listeners'[q] = listeners[q]
    BY <1>2, <1>3, <1>4
  <2>4. CarriesStay(Answers)
    BY <1>3 DEF CarriesStay
  <2>5. UNCHANGED <<completed, seenReply>>
    BY <2>1, <2>2
  <2> QED BY <2>3, <2>4, <2>5, ShelfStays
<1>5. CASE r \in Answers
  <2> DEFINE X == {r}
             i == FirstIndex(completed, X)
  <2>1. PICK k \in 1..Len(completed) : completed[k] \in X
    BY <1>1, <1>5 DEF Elems
  <2>2. i \in 1..Len(completed) /\ completed[i] = r
    <3> HIDE DEF X
    <3>1. i \in 1..Len(completed) /\ completed[i] \in X
      BY <1>1, <2>1, FirstIndexFound
    <3> QED BY <3>1 DEF X
  <2>3. completed' = RemoveAt(completed, i)
    BY <1>2, <2>2 DEF Without
  <2> HIDE DEF i
  <2>4. /\ X \in SUBSET Reqs /\ {} \in SUBSET Reqs
        /\ {} \cap Answers = {} /\ Answers' = (Answers \cup {}) \ X
        /\ \A q \in Answers \ X : q \in observed' <=> q \in observed
        /\ \A q \in Answers \ X : reader'[q] = reader[q] /\ listeners'[q] = listeners[q]
        /\ CarriesStay(Answers')
        /\ \A q \in {} \ X : q \notin observed' /\ \A c \in Calls : ~Carries(c, q)
    BY <1>2, <1>3 DEF CarriesStay
  <2> HIDE DEF X
  <2>5. /\ (observed \cap Answers)' = (observed \cap Answers) \ X
        /\ Carried' = [c \in Calls |-> IF Carried[c] \in X THEN None ELSE Carried[c]]
        /\ Latest' = [q \in Reqs |-> IF q \in X THEN None ELSE Latest[q]]
    BY <2>4, ShelfClears
  <2>6. Shelf!Clear({completed[i]})
    BY <2>2, <2>5 DEF Shelf!Clear, X
  <2>7. Shelf!Drop(i)
    BY <2>2, <2>3, <2>6 DEF Shelf!Drop, Shelf!RemoveAt, RemoveAt
  <2> QED BY <2>2, <2>7 DEF Shelf!Next
<1> QED BY <1>4, <1>5

\* A new answer is kept, and what it pushes out is what the retention gives up.
LEMMA Keep_Shelf ==
  ASSUME Inv, Inv', ShelfInv, NEW r \in Reqs, ReceiveResponse(r)
  PROVE  Shelf!Keep(r)
<1> DEFINE X == Evicted(r)
           s == Append(completed, r)
           i == EvictIndex(s)
<1>1. /\ Answers = Elems(completed) /\ Answers = Shelf!Retained /\ Distinct(completed)
      /\ completed \in Seq(Reqs) /\ Len(completed) \in Nat
      /\ Len(completed) <= MaxRetained /\ MaxRetained \in Nat
  BY AnswersAre
<1>2. /\ pend[r] = "open" /\ KeepReply(r) /\ r \notin observed
      /\ \A c \in Calls : ~Carries(c, r)
  BY DEF ReceiveResponse, ShelfInv, ReplyInv, OpenUnread, SettledFirst, Outcome, Carries
<1>3. r \notin Answers /\ Answers \subseteq Reqs
  BY <1>2 DEF Answers
<1>4. /\ s \in Seq(Reqs) /\ Len(s) = Len(completed) + 1 /\ Elems(s) = Answers \cup {r}
  <2> HIDE DEF X, i
  <2>1. /\ Append(completed, r) \in Seq(Reqs) /\ Len(Append(completed, r)) = Len(completed) + 1
        /\ Elems(Append(completed, r)) = Elems(completed) \cup {r}
    <3>1. completed \in Seq(Reqs) /\ r \in Reqs
      BY <1>1
    <3> QED BY <3>1, AppendElements
  <2> QED BY <1>1, <2>1
<1>5. /\ completed' = IF Overflows THEN RemoveAt(s, i) ELSE s
      /\ X = IF Overflows THEN {s[i]} ELSE {}
      /\ \A q \in Reqs : pend'[q] = IF q \in X THEN "none" ELSE IF q = r THEN "done" ELSE pend[q]
      /\ observed' = observed \ X /\ seenReply' = seenReply \ X
      /\ \A q \in Reqs \ X : reader'[q] = reader[q] /\ listeners'[q] = listeners[q]
  BY <1>2 DEF KeepReply, Evicted, Appended, ReceiveResponse
<1> HIDE DEF X, s, i
<1>6. /\ X \subseteq Reqs /\ i \in 1..Len(s)
      /\ Shelf!FirstAt(s, observed \cap Answers, i) \/ (i = 1 /\ Answers \cap observed = {})
  <2>1. \A j \in 1..Len(s) : s[j] \in observed <=> s[j] \in observed \cap Answers
    BY <1>2, <1>4 DEF Elems
  <2>2. CASE \E j \in 1..Len(s) : s[j] \in observed
    <3>1. PICK k \in 1..Len(s) : s[k] \in observed
      BY <2>2
    <3>2. i = FirstIndex(s, observed)
      BY <2>2 DEF i, EvictIndex
    <3>3. /\ i \in 1..Len(s) /\ s[i] \in observed
          /\ \A j \in 1..(i - 1) : s[j] \notin observed
      BY <1>4, <3>1, <3>2, FirstIndexFound
    <3>4. \A j \in 1..Len(s) : s[j] \in observed \cap Answers => i <= j
      BY <1>1, <1>4, <2>1, <3>3
    <3>5. Shelf!FirstAt(s, observed \cap Answers, i)
      BY <2>1, <3>3, <3>4 DEF Shelf!FirstAt
    <3> QED BY <1>2, <3>3, <3>5, Eviction DEF X, Inv
  <2>3. CASE ~\E j \in 1..Len(s) : s[j] \in observed
    <3>1. i = 1 /\ 1 \in 1..Len(s)
      BY <1>1, <1>4, <2>3 DEF i, EvictIndex
    <3>2. Answers \cap observed = {}
      BY <1>4, <2>3 DEF Elems
    <3> QED BY <1>2, <3>1, <3>2, Eviction DEF X, Inv
  <2> QED BY <2>2, <2>3
<1>7. /\ (observed \cap Answers)' = (observed \cap Answers) \ X
      /\ Carried' = [c \in Calls |-> IF Carried[c] \in X THEN None ELSE Carried[c]]
      /\ Latest' = [q \in Reqs |-> IF q \in X THEN None ELSE Latest[q]]
  <2> DEFINE N == {r}
  <2>1. \A c \in Calls, q \in Reqs : Carries(c, q)' = Carries(c, q)
    BY DEF ReceiveResponse, Resolve, KeyedOn, Carries
  <2>2. Answers' = (Answers \cup N) \ X
    BY <1>5 DEF Answers
  <2>3. /\ X \in SUBSET Reqs /\ N \in SUBSET Reqs /\ N \cap Answers = {}
        /\ \A q \in Answers \ X : q \in observed' <=> q \in observed
        /\ \A q \in Answers \ X : reader'[q] = reader[q] /\ listeners'[q] = listeners[q]
        /\ CarriesStay(Answers')
        /\ \A q \in N \ X : q \notin observed' /\ \A c \in Calls : ~Carries(c, q)
    BY <1>2, <1>3, <1>5, <1>6, <2>1, <2>2 DEF CarriesStay
  <2> HIDE DEF N
  <2> QED BY <2>2, <2>3, ShelfClears
<1>8. CASE Overflows
  <2>1. Shelf!Clear({s[i]})
    BY <1>5, <1>7, <1>8 DEF Shelf!Clear
  <2>2. Len(s) > MaxRetained
    BY <1>1, <1>4, <1>8 DEF Overflows
  <2>3. completed' = Shelf!RemoveAt(s, i)
    BY <1>5, <1>8 DEF Shelf!RemoveAt, RemoveAt
  <2>4. Shelf!FirstAt(s, observed \cap Answers, i)
        \/ (i = 1 /\ Shelf!Retained \cap (observed \cap Answers) = {})
    BY <1>1, <1>6
  <2>5. \E k \in 1..Len(s) :
          /\ Len(s) > MaxRetained
          /\ Shelf!FirstAt(s, observed \cap Answers, k)
             \/ (k = 1 /\ Shelf!Retained \cap (observed \cap Answers) = {})
          /\ completed' = Shelf!RemoveAt(s, k)
          /\ Shelf!Clear({s[k]})
    BY <1>6, <2>1, <2>2, <2>3, <2>4
  <2>6. r \notin Shelf!Retained
    BY <1>1, <1>3
  <2> QED BY <2>5, <2>6, Zenon DEF Shelf!Keep, s
<1>9. CASE ~Overflows
  <2>1. X = {}
    BY <1>5, <1>9
  <2>2. (observed \cap Answers)' = observed \cap Answers /\ seenReply' = seenReply
    BY <1>5, <1>7, <2>1
  <2>3. Carried' = Carried
    BY <1>7, <2>1 DEF Carried
  <2>4. Latest' = Latest
    BY <1>7, <2>1 DEF Latest
  <2>5. Len(completed) < MaxRetained
    BY <1>1, <1>9 DEF Overflows
  <2> QED BY <1>1, <1>3, <1>5, <1>9, <2>2, <2>3, <2>4, <2>5 DEF Shelf!Keep, s
<1> QED BY <1>8, <1>9

\* markReplyRead under a live signal gives the answer to the call.
LEMMA Give_Shelf ==
  ASSUME Inv, Inv', NEW c \in Calls, NEW r \in Answers, GiveReply(c, r), pc[c] # "read",
         UNCHANGED seenReply
  PROVE  Shelf!Give(c, r)
<1> USE Constants_Apart
<1>1. /\ reader \in [Reqs -> Calls \cup {None}] /\ listeners \in [Reqs -> SUBSET (Calls \cup {None})]
      /\ pc \in [Calls -> CallStates] /\ arg \in [Calls -> Msgs \cup Reqs \cup {None}]
  BY DEF Inv, OutboundInv, OutboundTypeOK, MailInv, CallTypeOK
<1>2. /\ observed' = observed \cup {r} /\ UNCHANGED <<pend, completed>>
      /\ \A q \in Reqs : /\ reader'[q] = IF q = r THEN c ELSE reader[q]
                         /\ listeners'[q] = IF q = r THEN listeners[q] \cup {c} ELSE listeners[q]
      /\ \A d \in Calls : /\ pc'[d] = IF d = c THEN "read" ELSE pc[d]
                          /\ arg'[d] = IF d = c THEN r ELSE arg[d]
  BY <1>1 DEF GiveReply, ReadReply, Goto, Answers
<1>3. Answers' = Answers /\ Answers \subseteq Reqs /\ r \in Reqs
  BY <1>2 DEF Answers
<1>4. (observed \cap Answers)' = (observed \cap Answers) \cup {r}
  BY <1>2, <1>3
<1>5. Carried' = [Carried EXCEPT ![c] = r] /\ Carried[c] = None
  <2>1. \A d \in Calls : Carried'[d] = IF d = c THEN r ELSE Carried[d]
    BY <1>2, <1>3 DEF Carried
  <2> QED BY <2>1 DEF Carried
<1>6. Latest' = [Latest EXCEPT ![r] = c]
  <2>1. Latest'[r] = c
    BY <1>2, <1>3 DEF Latest, Reads
  <2>2. ASSUME NEW q \in Reqs, q # r PROVE Latest'[q] = Latest[q]
    <3>1. \A d \in Calls : Reads(d, q)' <=> Reads(d, q)
      BY <1>2, <2>2 DEF Reads
    <3> QED BY <1>1, <1>2, <1>3, <2>2, <3>1 DEF Latest
  <2> QED BY <1>3, <2>1, <2>2 DEF Latest
<1> QED BY <1>2, <1>4, <1>5, <1>6 DEF Shelf!Give

\* A read that takes nothing from the list of answers, of one that is not there.
LEMMA GiveNothing_Shelf ==
  ASSUME Inv, Inv', NEW c \in Calls, NEW r \in Reqs \ Answers, pc[c] # "read",
         GiveReply(c, r) \/ (\E wake \in BOOLEAN : ReadReplyAborted(r) /\ ReturnReclaimed(c, wake)),
         UNCHANGED seenReply
  PROVE  UNCHANGED Shelf!vars
<1>1. OutboundTypeOK /\ CallTypeOK
  BY DEF Inv, OutboundInv, MailInv
<1>2. /\ UNCHANGED <<completed, seenReply>>
      /\ \A q \in Answers : q \in observed' <=> q \in observed
      /\ \A q \in Answers : reader'[q] = reader[q] /\ listeners'[q] = listeners[q]
  BY <1>1 DEF GiveReply, ReadReply, ReadReplyAborted, OutboundTypeOK, Answers
<1>3. CarriesStay(Answers)
  BY <1>1 DEF GiveReply, Goto, ReturnReclaimed, CarriesStay, Carries, CallTypeOK
<1> QED BY <1>2, <1>3, ShelfStays

\* The same under a signal that has fired.
LEMMA Skip_Shelf ==
  ASSUME Inv, Inv', NEW c \in Calls, NEW r \in Answers, ReadReplyAborted(r),
         NEW wake \in BOOLEAN, ReturnReclaimed(c, wake), pc[c] # "read", UNCHANGED seenReply
  PROVE  Shelf!Skip(r)
<1> USE Constants_Apart
<1>1. /\ reader \in [Reqs -> Calls \cup {None}] /\ listeners \in [Reqs -> SUBSET (Calls \cup {None})]
      /\ pc \in [Calls -> CallStates] /\ arg \in [Calls -> Msgs \cup Reqs \cup {None}]
  BY DEF Inv, OutboundInv, OutboundTypeOK, MailInv, CallTypeOK
<1>2. /\ observed' = observed \ {r} /\ UNCHANGED <<pend, completed, listeners>>
      /\ \A q \in Reqs : reader'[q] = IF q = r THEN None ELSE reader[q]
      /\ \A d \in Calls, q \in Reqs : Carries(d, q)' <=> Carries(d, q)
  BY <1>1 DEF ReadReplyAborted, ReturnReclaimed, Carries, Answers
<1>3. Answers' = Answers /\ Answers \subseteq Reqs /\ r \in Reqs /\ Answers = Shelf!Retained
  BY <1>2, AnswersAre DEF Answers
<1>4. (observed \cap Answers)' = (observed \cap Answers) \ {r}
  BY <1>2, <1>3
<1>5. Carried' = Carried
  <2>1. \A d \in Calls : Carried'[d] = Carried[d]
    BY <1>2, <1>3 DEF Carried, Carries
  <2> QED BY <2>1 DEF Carried
<1>6. Latest' = [Latest EXCEPT ![r] = None]
  <2>1. Latest'[r] = None
    BY <1>2, <1>3 DEF Latest
  <2>2. ASSUME NEW q \in Reqs, q # r PROVE Latest'[q] = Latest[q]
    <3>1. \A d \in Calls : Reads(d, q)' <=> Reads(d, q)
      BY <1>2 DEF Reads, Carries
    <3> QED BY <1>1, <1>2, <1>3, <2>2, <3>1 DEF Latest
  <2> QED BY <1>3, <2>1, <2>2 DEF Latest
<1> QED BY <1>2, <1>3, <1>4, <1>5, <1>6 DEF Shelf!Skip

\* A call that carries an answer ends: the answer arrives, or is un-read when
\* the call was the latest to be given it.
LEMMA Over_Shelf ==
  ASSUME Inv, Inv', NEW c \in Calls, Publish(c) \/ Abort(c), pc[c] = "read"
  PROVE  [Shelf!Next]_(Shelf!vars)
<1> USE Constants_Apart
<1> DEFINE r == arg[c]
<1>1. /\ reader \in [Reqs -> Calls \cup {None}] /\ listeners \in [Reqs -> SUBSET (Calls \cup {None})]
      /\ pc \in [Calls -> CallStates] /\ arg \in [Calls -> Msgs \cup Reqs \cup {None}]
      /\ r \in Reqs
  BY DEF Inv, OutboundInv, OutboundTypeOK, MailInv, CallTypeOK, ArgsFit
<1>2. UNCHANGED <<pend, completed>>
  BY DEF Publish, Abort, ReclaimReply
<1>3. Answers' = Answers /\ Answers \subseteq Reqs
  BY <1>2 DEF Answers
<1>4. /\ \A d \in Calls, q \in Reqs : Carries(d, q)' <=> d # c /\ Carries(d, q)
      /\ \A d \in Calls, q \in Reqs : d # c => (d \in listeners'[q] <=> d \in listeners[q])
      /\ \A q \in Reqs : q # r => listeners'[q] = listeners[q] /\ reader'[q] = reader[q]
      /\ \A q \in observed \cup observed' : q # r => (q \in observed' <=> q \in observed)
  <2>1. CASE Publish(c)
    BY <1>1, <2>1 DEF Publish, Return, Goto, Carries
  <2>2. CASE Abort(c)
    BY <1>1, <2>2 DEF Abort, ReclaimReply, ReturnReclaimed, Carries
  <2> QED BY <2>1, <2>2
<1>5. \A d \in Calls, q \in Reqs : Reads(d, q)' <=> d # c /\ Reads(d, q)
  BY <1>4 DEF Reads, Carries
<1>6. CASE r \notin Answers
  <2>1. seenReply' = seenReply
    <3>1. pend[r] # "done"
      BY <1>1, <1>6 DEF Answers
    <3>2. CASE Publish(c)
      BY <3>1, <3>2 DEF Publish
    <3>3. CASE Abort(c)
      BY <3>3 DEF Abort, history
    <3> QED BY <3>2, <3>3
  <2>2. CarriesStay(Answers)
    BY <1>3, <1>4, <1>6 DEF CarriesStay, Carries
  <2> QED BY <1>2, <1>3, <1>4, <1>6, <2>1, <2>2, ShelfStays
<1>7. CASE r \in Answers
  <2>1. Carried[c] = r /\ Carried' = [Carried EXCEPT ![c] = None]
    <3>1. \A d \in Calls : Carried'[d] = IF d = c THEN None ELSE Carried[d]
      BY <1>3, <1>4 DEF Carried, Carries
    <3> QED BY <1>7, <3>1 DEF Carried
  <2>2. ASSUME NEW q \in Reqs
        PROVE  Latest'[q] = IF q = r /\ Latest[q] = c THEN None ELSE Latest[q]
    <3>1. CASE q # r
      <4>1. reader'[q] = reader[q] /\ ~Reads(c, q)
        BY <1>4, <3>1 DEF Reads
      <4> QED BY <1>1, <1>3, <1>5, <3>1, <4>1 DEF Latest
    <3>2. CASE q = r
      <4>1. reader'[r] = reader[r] \/ (reader[r] = c /\ reader'[r] = None)
        BY <1>1 DEF Publish, Abort, ReclaimReply, ReclaimActs
      <4> QED BY <1>1, <1>3, <1>5, <3>2, <4>1 DEF Latest
    <3> QED BY <3>1, <3>2
  <2>3. Latest' = [Latest EXCEPT ![r] = IF @ = c THEN None ELSE @]
    BY <1>1, <2>2 DEF Latest
  <2>4. Shelf!Over(c)
    BY <1>1, <1>2, <2>1, <2>3 DEF Shelf!Over
  <2>5. CASE Publish(c)
    <3>1. observed' = observed /\ seenReply' = seenReply \cup {r}
      BY <1>7, <2>5 DEF Publish, Answers
    <3> QED BY <1>3, <2>1, <2>4, <3>1 DEF Shelf!Reach, Shelf!Next
  <2>6. CASE Abort(c)
    <3>1. ReclaimReply(c, r) /\ UNCHANGED seenReply
      BY <2>6 DEF Abort, history
    <3>2. ReclaimActs(c, r) <=> Latest[r] = c
      BY <1>1, <1>7 DEF ReclaimActs, Latest, Reads, Answers
    <3>3. (observed \cap Answers)' =
            IF Latest[r] = c THEN (observed \cap Answers) \ {r} ELSE observed \cap Answers
      BY <1>3, <3>1, <3>2 DEF ReclaimReply
    <3> QED BY <2>1, <2>4, <3>1, <3>3 DEF Shelf!Miss, Shelf!Next
  <2> QED BY <2>5, <2>6
<1> QED BY <1>6, <1>7

\* An await for whatever there is gives the oldest answer that is not read.
LEMMA GiveOldest_Shelf ==
  ASSUME Inv, Inv', NEW c \in Calls, UnreadReplies # {}, GiveReply(c, OldestUnread),
         pc[c] # "read", UNCHANGED seenReply
  PROVE  Shelf!GiveOldest(c)
<1> DEFINE i == FirstIndex(completed, UnreadReplies)
<1>1. /\ Answers = Elems(completed) /\ completed \in Seq(Reqs) /\ Len(completed) \in Nat
  BY AnswersAre
<1>2. UnreadReplies = Answers \ observed /\ Answers \subseteq Reqs
  BY <1>1 DEF UnreadReplies, RetainedReplies, Elems, Answers
<1>3. PICK k \in 1..Len(completed) : completed[k] \in UnreadReplies
  BY DEF UnreadReplies, RetainedReplies
<1>4. /\ i \in 1..Len(completed) /\ completed[i] \in UnreadReplies
      /\ \A j \in 1..(i - 1) : completed[j] \notin UnreadReplies
  BY <1>1, <1>3, FirstIndexFound
<1>5. OldestUnread = completed[i]
  BY DEF OldestUnread
<1> HIDE DEF i
<1>6. \A j \in 1..Len(completed) : completed[j] \in Answers
  BY <1>1 DEF Elems
<1>7. Shelf!FirstAt(completed, Reqs \ (observed \cap Answers), i)
  <2>1. \A j \in 1..Len(completed) :
          completed[j] \in Reqs \ (observed \cap Answers) <=> completed[j] \in UnreadReplies
    BY <1>2, <1>6
  <2> QED BY <1>1, <1>4, <2>1 DEF Shelf!FirstAt
<1>8. Shelf!Give(c, completed[i])
  BY <1>2, <1>4, <1>5, Give_Shelf
<1> QED BY <1>4, <1>7, <1>8 DEF Shelf!GiveOldest

LEMMA ToldRetained_Step ==
  ASSUME Inv, ToldRetained, [Next]_vars PROVE ToldRetained'
<1> USE DEF ToldRetained, Answers
<1>1. ASSUME UNCHANGED pend, seenReply' \subseteq seenReply \cup Answers PROVE ToldRetained'
  BY <1>1
<1>2. ASSUME NEW m \in Msgs, NEW registered \in SUBSET Registrable,
             ReceivePrompt(m, registered)
      PROVE  ToldRetained'
  BY <1>1, <1>2 DEF ReceivePrompt, outboundVars, history
<1>3. ASSUME NEW r \in Reqs, ReceiveResponse(r) PROVE ToldRetained'
  <2>1. /\ \A q \in Reqs : pend'[q] = IF q \in Evicted(r) THEN "none"
                                      ELSE IF q = r THEN "done" ELSE pend[q]
        /\ seenReply' = seenReply \ Evicted(r)
    BY <1>3 DEF ReceiveResponse, KeepReply
  <2> QED BY <2>1
<1>4. ASSUME NEW R \in SUBSET Reqs, ForgetRecords(R), seenReply' \subseteq seenReply \ R
      PROVE  ToldRetained'
  BY <1>4 DEF ForgetRecords
<1>5. ASSUME NEW r \in Reqs, Acked(r) \/ SendFailed(r) \/ Expire(r) PROVE ToldRetained'
  <2>1. CASE ForgetPending(r) /\ seenReply' = seenReply \ {r}
    BY <1>4, <2>1 DEF ForgetPending
  <2>2. CASE ForgetPending(r) /\ seenReply' = seenReply /\ pend[r] = "none"
    BY <1>4, <2>2 DEF ForgetPending
  <2>3. CASE UNCHANGED <<pend, seenReply>>
    BY <1>1, <2>3
  <2> QED BY <1>5, <2>1, <2>2, <2>3 DEF Acked, SettleAcked, SendFailed, Expire, history
<1>6. ASSUME NEW r \in Reqs, Dispatch(r) PROVE ToldRetained'
  <2>1. pend' = [pend EXCEPT ![r] = "open"] /\ pend[r] = "none" /\ seenReply' = seenReply
    BY <1>6 DEF Dispatch, Forgotten, OpenRequest, history
  <2> QED BY <2>1 DEF Inv, OutboundInv, OutboundTypeOK
<1>7. ASSUME Cancel PROVE ToldRetained'
  <2>1. ASSUME NEW r \in Reqs, CancelOne(r) PROVE ToldRetained'
    BY <1>4, <2>1 DEF CancelOne, ForgetPending
  <2>2. ASSUME NEW R \in SUBSET OpenRequests, CancelOpen(R) PROVE ToldRetained'
    <3>1. R \in SUBSET Reqs /\ ForgetRecords(R) /\ seenReply' \subseteq seenReply \ R
      BY <2>2 DEF CancelOpen, OpenRequests, history
    <3> QED BY <1>4, <3>1
  <2>3. CASE \E p \in Peers : CancelOpen({r \in OpenRequests : Target[r] = p})
    BY <2>2, <2>3
  <2> QED BY <1>7, <2>1, <2>2, <2>3 DEF Cancel
<1>8. ASSUME NEW c \in Calls, (\E fired \in BOOLEAN : AwaitInbound(c, fired)) \/ Resume(c)
      PROVE  ToldRetained'
  BY <1>1, <1>8, BareAwaitSteps
  DEF HandsOver, HandsNothing, GiveReply, ReadReply, outboundVars, history
<1>9. ASSUME NEW c \in Calls, Publish(c) \/ Abort(c) PROVE ToldRetained'
  <2>1. UNCHANGED pend
    BY <1>9 DEF Publish, Abort, ReclaimReply, outboundVars
  <2>2. arg[c] \in Reqs \/ pc[c] # "read"
    BY DEF Inv, MailInv, ArgsFit
  <2>3. seenReply' \subseteq seenReply \cup Answers
    BY <1>9, <2>2 DEF Publish, Abort, history
  <2> QED BY <1>1, <2>1, <2>3
<1>10. ASSUME NEW c \in Calls, NEW r \in Reqs, NEW fired \in BOOLEAN,
              ReadAnswer(c, r, fired) \/ AwaitReply(c, r) \/ ResumeKeyed(c)
       PROVE  ToldRetained'
  BY <1>1, <1>10
  DEF ReadAnswer, AwaitReply, ResumeKeyed, GiveReply, ReadReply, ReadReplyAborted,
      outboundVars, history
<1>11. ASSUME NEW c \in Calls,
              \/ ResumeKeyed(c) \/ Timeout(c) \/ Responded(c) \/ RespondFailed(c)
              \/ \E m \in Msgs : Respond(c, m)
       PROVE  ToldRetained'
  BY <1>1, <1>11
  DEF ResumeKeyed, Timeout, Responded, RespondFailed, Respond, GiveReply, ReadReply,
      ReadReplyAborted, outboundVars, history
<1>12. ASSUME NEW m \in Msgs, Abandon(m) PROVE ToldRetained'
  BY <1>1, <1>12 DEF Abandon, outboundVars
<1>13. ASSUME UNCHANGED vars PROVE ToldRetained'
  BY <1>1, <1>13 DEF vars, outboundVars, history
<1>14. CASE Next
  BY <1>14, <1>2, <1>3, <1>5, <1>6, <1>7, <1>8, <1>9, <1>10, <1>11, <1>12 DEF Next
<1> QED BY <1>13, <1>14

\* What a step of the event loop does to the answers and to what counts as read
\* of them is a step of the retention.
LEMMA ShelfSteps ==
  ASSUME Inv, Inv', ShelfInv, [Next]_vars
  PROVE  [Shelf!Next]_(Shelf!vars)
<1> USE Constants_Apart
<1> DEFINE Stays == UNCHANGED Shelf!vars
           Goal == [Shelf!Next]_(Shelf!vars)
<1>0. /\ pc \in [Calls -> CallStates] /\ arg \in [Calls -> Msgs \cup Reqs \cup {None}]
      /\ Answers \subseteq Reqs
  BY DEF Inv, MailInv, CallTypeOK, Answers
<1>1. ASSUME UNCHANGED outboundVars, UNCHANGED seenReply, CarriesStay(Reqs) PROVE Stays
  <2>1. CarriesStay(Answers)
    BY <1>0, <1>1 DEF CarriesStay
  <2> QED BY <1>1, <2>1, AsideOfShelf DEF outboundVars
<1>2. ASSUME NEW m \in Msgs, NEW registered \in SUBSET Registrable,
             ReceivePrompt(m, registered)
      PROVE  Stays
  <2>1. CarriesStay(Reqs)
    BY <1>0, <1>2 DEF ReceivePrompt, WakeWaiter, Goto, CarriesStay, Carries
  <2> QED BY <1>1, <1>2, <2>1 DEF ReceivePrompt, history
<1>3. ASSUME NEW r \in Reqs, ReceiveResponse(r) PROVE Goal
  BY <1>3, Keep_Shelf DEF Shelf!Next
<1>4. ASSUME NEW r \in Reqs, Acked(r) PROVE Goal
  <2>1. CarriesStay(Reqs)
    BY <1>4 DEF Acked, callVars, CarriesStay, Carries
  <2>2. CASE pend[r] = "none"
    <3>1. ForgetPending(r) /\ seenReply' = seenReply
      BY <1>4, <2>2 DEF Acked, SettleAcked, history
    <3>2. r \notin seenReply
      BY <2>2 DEF ShelfInv, ToldRetained, Answers
    <3>3. seenReply' = seenReply \ {r}
      BY <3>1, <3>2
    <3> QED BY <2>1, <3>1, <3>3, Forget_Shelf
  <2>3. CASE pend[r] # "none"
    <3>1. UNCHANGED <<pend, completed, observed, reader, listeners, seenReply>>
      BY <1>4, <2>3 DEF Acked, SettleAcked, history
    <3>2. CarriesStay(Answers)
      BY <1>0, <2>1 DEF CarriesStay
    <3> QED BY <3>1, <3>2, AsideOfShelf
  <2> QED BY <2>2, <2>3
<1>5. ASSUME NEW r \in Reqs, SendFailed(r) \/ Expire(r) PROVE Goal
  <2>1. CarriesStay(Reqs)
    BY <1>5 DEF SendFailed, Expire, callVars, CarriesStay, Carries
  <2> QED BY <1>5, <2>1, Forget_Shelf DEF SendFailed, Expire
<1>6. ASSUME NEW r \in Reqs, Dispatch(r) PROVE Stays
  <2>1. UNCHANGED <<completed, observed, reader, listeners, seenReply, pc, arg>>
    BY <1>6 DEF Dispatch, OpenRequest, callVars, history
  <2>2. CarriesStay(Answers)
    BY <2>1 DEF CarriesStay, Carries
  <2> QED BY <2>1, <2>2, ShelfStays
<1>7. ASSUME Cancel PROVE Goal
  <2>1. ASSUME NEW R \in SUBSET Reqs, Resolve(R, FALSE), UNCHANGED arg PROVE CarriesStay(Reqs)
    BY <2>1 DEF Resolve, KeyedOn, CarriesStay, Carries
  <2>2. ASSUME NEW r \in Reqs, CancelOne(r) PROVE Goal
    <3>1. CarriesStay(Reqs)
      BY <2>1, <2>2 DEF CancelOne
    <3> QED BY <2>2, <3>1, Forget_Shelf DEF CancelOne
  <2>3. ASSUME NEW R \in SUBSET OpenRequests, CancelOpen(R) PROVE Goal
    <3>1. /\ ForgetRecords(R) /\ R \in SUBSET Reqs /\ R \cap Answers = {}
          /\ UNCHANGED <<completed, seenReply, arg>> /\ Resolve(R, FALSE)
      BY <2>3 DEF CancelOpen, OpenRequests, Answers, history
    <3>2. CarriesStay(Answers)
      BY <1>0, <2>1, <3>1 DEF CarriesStay
    <3>3. /\ \A q \in Answers : q \in observed' <=> q \in observed
          /\ \A q \in Answers : reader'[q] = reader[q] /\ listeners'[q] = listeners[q]
      BY <1>0, <3>1 DEF ForgetRecords
    <3> QED BY <3>1, <3>2, <3>3, ShelfStays
  <2>4. CASE \E p \in Peers : CancelOpen({r \in OpenRequests : Target[r] = p})
    BY <2>3, <2>4
  <2> QED BY <1>7, <2>2, <2>3, <2>4 DEF Cancel
<1>8. ASSUME NEW c \in Calls, (\E fired \in BOOLEAN : AwaitInbound(c, fired)) \/ Resume(c)
      PROVE  Goal
  <2>1. pc[c] # "read" /\ UNCHANGED seenReply /\ (HandsOver(c) \/ HandsNothing(c))
    BY <1>8, BareAwaitSteps DEF AwaitInbound, Resume, history
  <2>2. CASE UNCHANGED outboundVars
             /\ (UNCHANGED callVars \/ \E s \in CallStates \ {"read"} : \E id : Goto(c, s, id))
    <3>1. CarriesStay(Reqs)
      BY <1>0, <2>1, <2>2 DEF Goto, callVars, CarriesStay, Carries
    <3> QED BY <1>1, <2>1, <2>2, <3>1
  <2>3. CASE UnreadReplies # {} /\ GiveReply(c, OldestUnread)
    BY <2>1, <2>3, GiveOldest_Shelf DEF Shelf!Next
  <2>4. HandsOver(c) => UNCHANGED outboundVars /\ \E s \in {"idle", "handed"} : \E id : Goto(c, s, id)
    BY DEF HandsOver, Hand, Return
  <2> QED BY <2>1, <2>2, <2>3, <2>4 DEF HandsNothing, CallStates
<1>9. ASSUME NEW c \in Calls, Timeout(c) \/ RespondFailed(c) \/ \E m \in Msgs : Respond(c, m)
      PROVE  Stays
  <2>1. CarriesStay(Reqs)
    BY <1>0, <1>9 DEF Timeout, RespondFailed, Respond, Return, Goto, CarriesStay, Carries
  <2> QED BY <1>1, <1>9, <2>1 DEF Timeout, RespondFailed, Respond, history
<1>10. ASSUME NEW c \in Calls, NEW r \in Reqs, AwaitReply(c, r) PROVE Stays
  <2>1. CarriesStay(Reqs)
    BY <1>0, <1>10 DEF AwaitReply, Goto, CarriesStay, Carries
  <2> QED BY <1>1, <1>10, <2>1 DEF AwaitReply, history
<1>11. ASSUME NEW c \in Calls, NEW r \in Reqs, NEW fired \in BOOLEAN, ReadAnswer(c, r, fired)
       PROVE  Goal
  <2>1. r \in Answers /\ pc[c] # "read" /\ UNCHANGED seenReply
    BY <1>11 DEF ReadAnswer, Answers, history
  <2>2. CASE GiveReply(c, r)
    BY <2>1, <2>2, Give_Shelf, AnswersAre DEF Shelf!GiveAsked, Shelf!Next
  <2>3. CASE ReadReplyAborted(r) /\ ReturnReclaimed(c, TRUE)
    BY <2>1, <2>3, Skip_Shelf DEF Shelf!Next
  <2> QED BY <1>11, <2>2, <2>3 DEF ReadAnswer
<1>12. ASSUME NEW c \in Calls, ResumeKeyed(c) PROVE Goal
  <2>1. arg[c] \in Reqs /\ pc[c] # "read" /\ UNCHANGED seenReply
    BY <1>12 DEF ResumeKeyed, Inv, MailInv, ArgsFit, history
  <2>2. GiveReply(c, arg[c])
        \/ (ReadReplyAborted(arg[c]) /\ ReturnReclaimed(c, pend[arg[c]] = "done"))
    BY <1>12 DEF ResumeKeyed
  <2>3. CASE arg[c] \in Answers /\ GiveReply(c, arg[c])
    BY <2>1, <2>3, Give_Shelf, AnswersAre DEF Shelf!GiveAsked, Shelf!Next
  <2>4. CASE arg[c] \in Answers /\ ReadReplyAborted(arg[c])
             /\ ReturnReclaimed(c, pend[arg[c]] = "done")
    BY <2>1, <2>4, Skip_Shelf DEF Shelf!Next
  <2>5. CASE arg[c] \notin Answers
    BY <2>1, <2>2, <2>5, GiveNothing_Shelf
  <2> QED BY <2>2, <2>3, <2>4, <2>5
<1>13. ASSUME NEW c \in Calls, Publish(c) \/ Abort(c) PROVE Goal
  <2>1. CASE pc[c] = "read"
    BY <1>13, <2>1, Over_Shelf
  <2>2. CASE pc[c] # "read"
    <3>1. CarriesStay(Reqs)
      BY <1>0, <1>13, <2>2 DEF Publish, Abort, Return, Goto, CarriesStay, Carries
    <3>2. UNCHANGED outboundVars /\ UNCHANGED seenReply
      BY <1>13, <2>2 DEF Publish, Abort, outboundVars, history
    <3> QED BY <1>1, <3>1, <3>2
  <2> QED BY <2>1, <2>2
<1>14. ASSUME NEW c \in Calls, Responded(c) PROVE Stays
  <2>1. CarriesStay(Reqs)
    BY <1>0, <1>14 DEF Responded, Return, Goto, CarriesStay, Carries
  <2> QED BY <1>1, <1>14, <2>1 DEF Responded
<1>15. ASSUME NEW m \in Msgs, Abandon(m) PROVE Stays
  BY <1>1, <1>15 DEF Abandon, callVars, CarriesStay, Carries
<1>16. ASSUME UNCHANGED vars PROVE Stays
  BY <1>1, <1>16 DEF vars, callVars, history, CarriesStay, Carries
<1>17. Stays => Goal
  OBVIOUS
<1> SUFFICES Goal
  OBVIOUS
<1> HIDE DEF Stays, Goal
<1>18. ASSUME NEW r \in Reqs,
              \/ ReceiveResponse(r) \/ Acked(r) \/ SendFailed(r) \/ Expire(r) \/ Dispatch(r)
       PROVE  Goal
  BY <1>3, <1>4, <1>5, <1>6, <1>17, <1>18
<1>19. ASSUME NEW c \in Calls,
              \/ \E fired \in BOOLEAN : AwaitInbound(c, fired)
              \/ Timeout(c) \/ Resume(c) \/ ResumeKeyed(c)
              \/ Publish(c) \/ Abort(c) \/ Responded(c) \/ RespondFailed(c)
       PROVE  Goal
  BY <1>8, <1>9, <1>12, <1>13, <1>14, <1>17, <1>19
<1>20. ASSUME NEW c \in Calls, NEW r \in Reqs,
              (\E fired \in BOOLEAN : ReadAnswer(c, r, fired)) \/ AwaitReply(c, r)
       PROVE  Goal
  BY <1>10, <1>11, <1>17, <1>20
<1>21. CASE \E m \in Msgs, registered \in SUBSET Registrable : ReceivePrompt(m, registered)
  BY <1>2, <1>17, <1>21
<1>22. CASE \E c \in Calls, m \in Msgs : Respond(c, m)
  BY <1>9, <1>17, <1>22
<1>23. CASE \E m \in Msgs : Abandon(m)
  BY <1>15, <1>17, <1>23
<1>24. CASE Next
  BY <1>24, <1>7, <1>18, <1>19, <1>20, <1>21, <1>22, <1>23 DEF Next
<1> QED BY <1>16, <1>17, <1>24

\* Answers are given oldest first, count as read only until the latest call they
\* were given to is cancelled, and the read ones make room first: the adapter
\* implements the retention (receiveResponse, takeCompletedReply, markReplyRead,
\* armReclaimAt, forgetPending).
THEOREM RetentionImplemented == Spec => ImplementsRetention
<1>1. Init => ShelfInv /\ Shelf!Init
  <2> SUFFICES ASSUME Init PROVE ShelfInv /\ Shelf!Init OBVIOUS
  <2>1. Answers = {}
    BY DEF Init, OutboundInit, Answers
  <2>2. Carried = [c \in Calls |-> None] /\ Latest = [r \in Reqs |-> None]
    BY <2>1 DEF Carried, Latest
  <2>3. ReplyInv
    BY DEF Init, OutboundInit, ReplyInv, OpenUnread, SettledFirst, Outcome, NoLostReply
  <2> QED BY <2>1, <2>2, <2>3 DEF Init, OutboundInit, ShelfInv, ToldRetained, Shelf!Init
<1>2. Inv /\ ShelfInv /\ [Next]_vars => ShelfInv'
  BY ReplyInv_Step, ToldRetained_Step DEF ShelfInv
<1>3. Inv /\ Inv' /\ ShelfInv /\ [Next]_vars => [Shelf!Next]_(Shelf!vars)
  BY ShelfSteps
<1> QED BY <1>1, <1>2, <1>3, Invariant, PTL DEF Spec, ImplementsRetention, Shelf!Spec

-----------------------------------------------------------------------------
(* What a step does to the mailbox *)

\* The mailbox stays as it is; the wake layer may be told its count again.
MailboxStays ==
  /\ UNCHANGED <<inbound, queue, delivering, active, unseen>>
  /\ WakeUpdate \/ UNCHANGED wakeCount

Reclaims == \E c \in Calls, m \in Msgs : ReclaimInbound(m, c)

\* What is forgotten was answered or abandoned.
Forgets ==
  \E m \in Msgs :
    /\ m \notin InTransit /\ ForgetInbound(m) /\ seenRequest' = seenRequest \ {m}
    /\ Answerable(m) \/ \E c \in Calls : pc[c] = "replying" /\ arg[c] = m

\* A call that holds a request has held it before this step.
NoneGiven ==
  \A c \in Calls : pc'[c] \in {"handed", "replying"} => pc[c] = pc'[c] /\ arg[c] = arg'[c]

Accepted(m, registered) ==
  /\ Accepts(m, registered) /\ inbound' = inbound \cup {m} /\ active' = active
  /\ queue' = Append(queue, m) \/ (inbound = {} /\ queue = <<>> /\ queue' = <<>>)
  /\ \A c \in Calls : arg[c] # m
  /\ delivering \subseteq delivering'
  /\ seenRequest' = seenRequest /\ WakeUpdate

MailboxStep ==
  \/ MailboxStays /\ NoneGiven
     /\ \/ seenRequest' = seenRequest
        \/ \E c \in Calls : /\ Publish(c) /\ pc[c] = "handed"
                            /\ seenRequest' = seenRequest \cup ({arg[c]} \cap inbound)
  \/ MailboxStays /\ seenRequest' = seenRequest /\ \E c \in Calls, m \in Msgs : Respond(c, m)
  \/ NoneGiven /\ \E m \in Msgs, registered \in SUBSET Registrable : Accepted(m, registered)
  \/ UNCHANGED history /\ \E c \in Calls : HandsOver(c)
  \/ NoneGiven /\ Reclaims /\ seenRequest' = seenRequest
  \/ NoneGiven /\ Forgets

LEMMA MailboxSteps ==
  ASSUME Inv, [Next]_vars PROVE MailboxStep
<1> USE Constants_Apart
<1>0. pc \in [Calls -> CallStates] /\ arg \in [Calls -> Msgs \cup Reqs \cup {None}]
  BY DEF Inv, MailInv, CallTypeOK
<1>1. ASSUME UNCHANGED inboundVars, NoneGiven, UNCHANGED seenRequest PROVE MailboxStep
  BY <1>1 DEF MailboxStep, MailboxStays, inboundVars
<1>2. ASSUME NEW m \in Msgs, NEW registered \in SUBSET Registrable,
             ReceivePrompt(m, registered)
      PROVE  MailboxStep
  <2>1. NoneGiven
    BY <1>0, <1>2 DEF ReceivePrompt, WakeWaiter, Goto, NoneGiven
  <2>2. CASE waiter # None
    <3>1. pc[waiter] = "parked" /\ waiter \in Calls
      BY <1>0, <1>2, <2>2
      DEF Inv, MailInv, OneBareAwait, InBareAwait, CallTypeOK, ReceivePrompt, Settled
    <3>2. queue = <<>> /\ active = None
      BY <3>1 DEF Inv, NoSleepThrough
    <3>3. inbound = {}
      BY <1>2, <3>2, SettledFacts DEF ReceivePrompt, Inv, MailInv, EveryRequestReachable, QueuedMsgs
    <3> QED BY <1>2, <2>1, <2>2, <3>2, <3>3 DEF ReceivePrompt, Accepted, history, MailboxStep
  <2>3. CASE waiter = None
    BY <1>2, <2>1, <2>3 DEF ReceivePrompt, Accepted, history, MailboxStep
  <2> QED BY <2>2, <2>3
<1>3. ASSUME NEW r \in Reqs,
             \/ ReceiveResponse(r) \/ Acked(r) \/ SendFailed(r) \/ Expire(r) \/ Dispatch(r)
      PROVE  MailboxStep
  <2>1. NoneGiven
    BY <1>0, <1>3
    DEF ReceiveResponse, Acked, SendFailed, Expire, Dispatch, Resolve, callVars, NoneGiven
  <2> QED BY <1>1, <1>3, <2>1 DEF ReceiveResponse, Acked, SendFailed, Expire, Dispatch, history
<1>4. ASSUME Cancel PROVE MailboxStep
  <2>1. NoneGiven
    BY <1>0, <1>4 DEF Cancel, CancelOne, CancelOpen, Resolve, NoneGiven
  <2> QED BY <1>1, <1>4, <2>1 DEF Cancel, CancelOne, CancelOpen, history
<1>5. ASSUME NEW c \in Calls, (\E fired \in BOOLEAN : AwaitInbound(c, fired)) \/ Resume(c)
      PROVE  MailboxStep
  <2>1. (HandsOver(c) \/ HandsNothing(c)) /\ UNCHANGED history
    BY <1>5, BareAwaitSteps
  <2>2. CASE HandsOver(c)
    BY <2>1, <2>2 DEF MailboxStep, history
  <2>3. CASE HandsNothing(c)
    <3>2. NoneGiven
      BY <1>0, <2>3 DEF HandsNothing, GiveReply, Goto, callVars, NoneGiven
    <3> QED BY <2>1, <2>3, <3>2 DEF MailboxStep, MailboxStays, HandsNothing, history
  <2> QED BY <2>1, <2>2, <2>3
<1>6. ASSUME NEW c \in Calls, Timeout(c) \/ ResumeKeyed(c) \/ RespondFailed(c)
      PROVE  MailboxStep
  <2>1. NoneGiven
    BY <1>0, <1>6
    DEF Timeout, ResumeKeyed, RespondFailed, GiveReply, Return, ReturnReclaimed, Goto, NoneGiven
  <2> QED BY <1>1, <1>6, <2>1 DEF Timeout, ResumeKeyed, RespondFailed, history
<1>7. ASSUME NEW c \in Calls, Publish(c) PROVE MailboxStep
  <2>1. NoneGiven
    BY <1>0, <1>7 DEF Publish, Return, Goto, NoneGiven
  <2>2. MailboxStays
    BY <1>7 DEF Publish, inboundVars, MailboxStays
  <2> QED BY <1>7, <2>1, <2>2 DEF Publish, MailboxStep
<1>8. ASSUME NEW c \in Calls, Abort(c) PROVE MailboxStep
  <2>1. NoneGiven
    BY <1>0, <1>8 DEF Abort, Return, ReturnReclaimed, Goto, NoneGiven
  <2>2. CASE pc[c] = "handed"
    BY <1>8, <2>1, <2>2 DEF Abort, history, Reclaims, MailboxStep, Inv, MailInv, ArgsFit
  <2>3. CASE pc[c] # "handed"
    BY <1>1, <1>8, <2>1, <2>3 DEF Abort, history
  <2> QED BY <2>2, <2>3
<1>9. ASSUME NEW c \in Calls, Responded(c) PROVE MailboxStep
  <2>1. NoneGiven
    BY <1>0, <1>9 DEF Responded, Return, Goto, NoneGiven
  <2>2. arg[c] \in Msgs /\ arg[c] \notin InTransit
    BY <1>9, SettledFacts DEF Responded, Inv, MailInv, ArgsFit
  <2> QED BY <1>9, <2>1, <2>2 DEF Responded, Forgets, MailboxStep
<1>10. ASSUME NEW c \in Calls, NEW r \in Reqs,
              (\E fired \in BOOLEAN : ReadAnswer(c, r, fired)) \/ AwaitReply(c, r)
       PROVE  MailboxStep
  <2>1. NoneGiven
    BY <1>0, <1>10 DEF ReadAnswer, AwaitReply, GiveReply, ReturnReclaimed, Goto, NoneGiven
  <2> QED BY <1>1, <1>10, <2>1 DEF ReadAnswer, AwaitReply, history
<1>11. ASSUME NEW c \in Calls, NEW m \in Msgs, Respond(c, m) PROVE MailboxStep
  <2>1. MailboxStays /\ seenRequest' = seenRequest
    BY <1>11 DEF Respond, history, inboundVars, MailboxStays
  <2> QED BY <1>11, <2>1 DEF MailboxStep
<1>12. ASSUME NEW m \in Msgs, Abandon(m) PROVE MailboxStep
  <2>1. NoneGiven
    BY <1>12 DEF Abandon, callVars, NoneGiven
  <2> QED BY <1>12, <2>1 DEF Abandon, Answerable, Forgets, MailboxStep
<1>13. ASSUME UNCHANGED vars PROVE MailboxStep
  BY <1>1, <1>13 DEF vars, history, callVars, NoneGiven
<1>14. CASE Next
  BY <1>14, <1>2, <1>3, <1>4, <1>5, <1>6, <1>7, <1>8, <1>9, <1>10, <1>11, <1>12 DEF Next
<1> QED BY <1>13, <1>14

-----------------------------------------------------------------------------
(* Shares of the mailbox *)

QuotaInv == IsFiniteSet(inbound) /\ SendersBounded

\* Fewer requests break no bound.
LEMMA Fewer_Quota ==
  ASSUME QuotaInv, inbound' \subseteq inbound PROVE QuotaInv'
<1>1. IsFiniteSet(inbound') /\ Cardinality(inbound') <= Cardinality(inbound)
  BY FS_Subset DEF QuotaInv
<1>2. ASSUME NEW S PROVE Cardinality(HeldFrom(S)') <= Cardinality(HeldFrom(S))
                         /\ Cardinality(HeldFrom(S)) \in Nat /\ Cardinality(HeldFrom(S)') \in Nat
  <2>1. HeldFrom(S) \subseteq inbound /\ HeldFrom(S)' \subseteq HeldFrom(S)
    BY DEF HeldFrom
  <2>2. IsFiniteSet(HeldFrom(S))
    BY <2>1, FS_Subset DEF QuotaInv
  <2>3. IsFiniteSet(HeldFrom(S)') /\ Cardinality(HeldFrom(S)') <= Cardinality(HeldFrom(S))
    BY <2>1, <2>2, FS_Subset
  <2> QED BY <2>2, <2>3, FS_CardinalityType
<1>3. Cardinality(inbound) \in Nat /\ Cardinality(inbound') \in Nat
  BY <1>1, FS_CardinalityType DEF QuotaInv
<1>4. \A s \in Sessions : Cardinality(HeldFrom({s})') <= SenderQuota
  BY <1>2, InboundConstants DEF QuotaInv, SendersBounded
<1>5. Cardinality(HeldFrom(Sessions \ Registrable)') <= SenderQuota
  BY <1>2, InboundConstants DEF QuotaInv, SendersBounded
<1> QED BY <1>1, <1>3, <1>4, <1>5, InboundConstants DEF QuotaInv, SendersBounded, HeldFrom

\* The quota bucket of a newcomer holds all that is held from a group of
\* sessions with one key; with room in the bucket there is room in the group.
LEMMA Newcomer_Share ==
  ASSUME QuotaInv, NEW m \in Msgs, NEW registered \in SUBSET Registrable,
         Accepts(m, registered), inbound' = inbound \cup {m},
         NEW S \in SUBSET Sessions,
         \A s, t \in S : QuotaKey(s, registered) = QuotaKey(t, registered),
         Cardinality(HeldFrom(S)) <= SenderQuota
  PROVE  Cardinality(HeldFrom(S)') <= SenderQuota
<1>1. HeldFrom(S) \subseteq inbound /\ IsFiniteSet(HeldFrom(S))
  <2>1. HeldFrom(S) \subseteq inbound BY DEF HeldFrom
  <2> QED BY <2>1, FS_Subset DEF QuotaInv
<1>2. CASE Sender[m] \notin S
  <2>1. HeldFrom(S)' = HeldFrom(S)
    BY <1>2 DEF HeldFrom
  <2> QED BY <2>1
<1>3. CASE Sender[m] \in S
  <2> DEFINE B == {h \in inbound : QuotaKey(Sender[h], registered) = QuotaKey(Sender[m], registered)}
  <2>1. IsFiniteSet(B) /\ Cardinality(B) \in Nat
    BY FS_Subset, FS_CardinalityType DEF QuotaInv
  <2>2. Cardinality(B) < SenderQuota
    BY <2>1, InboundConstants DEF Accepts, SenderQuotaReached
  <2>3. HeldFrom(S) \subseteq B
    BY <1>3 DEF HeldFrom
  <2> HIDE DEF B
  <2>4. Cardinality(HeldFrom(S)) <= Cardinality(B) /\ Cardinality(HeldFrom(S)) \in Nat
    BY <1>1, <2>1, <2>3, FS_Subset, FS_CardinalityType
  <2>5. HeldFrom(S)' = HeldFrom(S) \cup {m}
    BY <1>3 DEF HeldFrom
  <2>6. Cardinality(HeldFrom(S)') <= Cardinality(HeldFrom(S)) + 1
    <3> DEFINE H == HeldFrom(S)
    <3>1. Cardinality(H \cup {m}) = IF m \in H THEN Cardinality(H) ELSE Cardinality(H) + 1
      BY <1>1, FS_AddElement
    <3> HIDE DEF H
    <3> QED BY <2>4, <2>5, <3>1 DEF H
  <2>7. Cardinality(HeldFrom(S)') \in Nat
    BY <1>1, <2>5, FS_AddElement, FS_CardinalityType
  <2> QED BY <2>1, <2>2, <2>4, <2>6, <2>7, InboundConstants
<1> QED BY <1>2, <1>3

LEMMA Newcomer_Quota ==
  ASSUME QuotaInv, NEW m \in Msgs, NEW registered \in SUBSET Registrable,
         Accepts(m, registered), inbound' = inbound \cup {m}
  PROVE  QuotaInv'
<1>1. IsFiniteSet(inbound') /\ Cardinality(inbound') = Cardinality(inbound) + 1
      /\ Cardinality(inbound) \in Nat
  BY FS_AddElement, FS_CardinalityType DEF QuotaInv, Accepts
<1>2. Cardinality(inbound') <= InboundLimit
  BY <1>1, InboundConstants DEF Accepts
<1>3. ASSUME NEW s \in Sessions PROVE Cardinality(HeldFrom({s})') <= SenderQuota
  BY <1>3, Newcomer_Share DEF QuotaInv, SendersBounded
<1>4. Cardinality(HeldFrom(Sessions \ Registrable)') <= SenderQuota
  <2>1. \A s \in Sessions \ Registrable : QuotaKey(s, registered) = None
    BY DEF QuotaKey
  <2> QED BY <2>1, Newcomer_Share DEF QuotaInv, SendersBounded
<1> QED BY <1>1, <1>2, <1>3, <1>4 DEF QuotaInv, SendersBounded, HeldFrom

\* No sender, and no maker of session ids, exceeds the quota, however the
\* registry changes between prompts (receivePrompt, senderQuotaReached).
THEOREM SendersShare == Spec => []SendersBounded
<1>1. Init => QuotaInv
  <2> SUFFICES ASSUME Init PROVE QuotaInv OBVIOUS
  <2>1. inbound = {} /\ \A S : HeldFrom(S) = {}
    BY DEF Init, InboundInit, HeldFrom
  <2>2. \A s \in Sessions : Cardinality(HeldFrom({s})) = 0
    BY <2>1, FS_EmptySet
  <2>3. Cardinality(HeldFrom(Sessions \ Registrable)) = 0
    BY <2>1, FS_EmptySet
  <2> QED BY <2>1, <2>2, <2>3, FS_EmptySet, InboundConstants DEF QuotaInv, SendersBounded
<1>2. Inv /\ QuotaInv /\ [Next]_vars => QuotaInv'
  <2> SUFFICES ASSUME Inv, QuotaInv, [Next]_vars PROVE QuotaInv' OBVIOUS
  <2>1. \/ inbound' \subseteq inbound
        \/ \E m \in Msgs, registered \in SUBSET Registrable :
             Accepts(m, registered) /\ inbound' = inbound \cup {m}
    BY MailboxSteps DEF MailboxStep, MailboxStays, Accepted, HandsOver, Hand, HandInbound,
       Reclaims, ReclaimInbound, Forgets, ForgetInbound
  <2> QED BY <2>1, Fewer_Quota, Newcomer_Quota
<1>3. QuotaInv => SendersBounded
  BY DEF QuotaInv
<1> QED BY <1>1, <1>2, <1>3, Invariant, PTL DEF Spec

-----------------------------------------------------------------------------
(* The count of the wake layer *)

\* What the agent was given, and has not answered, waits in no queue.
GivenAway ==
  /\ \A c \in Calls : pc[c] = "handed" /\ arg[c] \in inbound => arg[c] \in delivering
  /\ seenRequest \subseteq delivering
  /\ ~AnswerQueued =>
       \A c \in Calls : pc[c] = "replying" /\ arg[c] \in inbound => arg[c] \in seenRequest

LEMMA GivenAway_Step ==
  ASSUME Inv, [Next]_vars, GivenAway PROVE GivenAway'
<1> USE Constants_Apart
<1>1. CASE NoneGiven /\ UNCHANGED <<inbound, delivering>>
           /\ \/ seenRequest' = seenRequest
              \/ \E c \in Calls : /\ pc[c] = "handed"
                                  /\ seenRequest' = seenRequest \cup ({arg[c]} \cap inbound)
  BY <1>1 DEF NoneGiven, GivenAway
<1>2. CASE UNCHANGED <<inbound, delivering, seenRequest>>
           /\ \E c \in Calls, m \in Msgs : Respond(c, m)
  <2>1. PICK c \in Calls, m \in Msgs : Respond(c, m) BY <1>2
  <2>2. ~AnswerQueued => m \in seenRequest
    BY <2>1 DEF Respond, Answerable
  <2> QED BY <1>2, <2>1, <2>2 DEF Respond, Goto, GivenAway, Inv, MailInv, CallTypeOK
<1>3. ASSUME NoneGiven, NEW m \in Msgs, NEW registered \in SUBSET Registrable,
             Accepted(m, registered)
      PROVE  GivenAway'
  BY <1>3 DEF NoneGiven, Accepted, GivenAway
<1>4. ASSUME seenRequest' = seenRequest, NEW c \in Calls, HandsOver(c) PROVE GivenAway'
  <2>1. PICK m \in inbound, fired \in BOOLEAN : Hand(c, m, fired) BY <1>4 DEF HandsOver
  <2>2. delivering' = delivering \cup {m} /\ inbound' = inbound
    BY <2>1 DEF Hand, HandInbound
  <2>3. Goto(c, "idle", None) \/ Goto(c, "handed", m)
    BY <2>1 DEF Hand, Return
  <2> QED BY <1>4, <2>2, <2>3 DEF Goto, GivenAway, Inv, MailInv, CallTypeOK
<1>5. CASE NoneGiven /\ Reclaims /\ seenRequest' = seenRequest
  BY <1>5 DEF NoneGiven, Reclaims, ReclaimInbound, GivenAway
<1>6. CASE NoneGiven /\ Forgets
  BY <1>6 DEF NoneGiven, Forgets, ForgetInbound, GivenAway
<1> QED
  BY <1>1, <1>2, <1>3, <1>4, <1>5, <1>6, MailboxSteps DEF MailboxStep, MailboxStays, history

\* A request that may be answered is not in the queue.
LEMMA Forgets_Unqueued ==
  ASSUME Inv, ~AnswerQueued, GivenAway, NEW m \in Msgs, ForgetInbound(m),
         Answerable(m) \/ \E c \in Calls : pc[c] = "replying" /\ arg[c] = m
  PROVE  queue' = queue
<1>1. m \notin Elems(queue)
  <2>1. EveryRequestReachable
    BY DEF Inv, MailInv
  <2>2. Elems(queue) \subseteq inbound /\ Elems(queue) \cap delivering = {}
    BY <2>1, Reachable_Split DEF ReachableWith
  <2> QED BY <2>2 DEF Answerable, GivenAway
<1> QED BY <1>1 DEF ForgetInbound, Without, Elems

LEMMA Fresh_Step ==
  ASSUME Inv, [Next]_vars, ~AnswerQueued, GivenAway, WakeCountFresh PROVE WakeCountFresh'
<1>1. CASE WakeUpdate
  BY <1>1 DEF WakeUpdate, WakeCountFresh
<1>2. CASE UNCHANGED <<queue, active, unseen, wakeCount>>
  BY <1>2 DEF WakeCountFresh, Undelivered
<1>3. CASE MailboxStays
  BY <1>1, <1>2, <1>3 DEF MailboxStays
<1>4. ASSUME NEW c \in Calls, HandsOver(c) PROVE WakeCountFresh'
  BY <1>1, <1>4 DEF HandsOver, Hand
<1>5. CASE Reclaims
  BY <1>1, <1>2, <1>5 DEF Reclaims, ReclaimInbound
<1>6. CASE Forgets
  <2>1. PICK m \in Msgs : /\ ForgetInbound(m)
                          /\ Answerable(m) \/ \E c \in Calls : pc[c] = "replying" /\ arg[c] = m
    BY <1>6 DEF Forgets
  <2>2. queue' = queue
    BY <2>1, Forgets_Unqueued
  <2> QED BY <1>1, <1>2, <2>1, <2>2 DEF ForgetInbound
<1> QED
  BY <1>1, <1>3, <1>4, <1>5, <1>6, MailboxSteps DEF MailboxStep, Accepted

\* When the host answers only what it was handed, the count the wake layer was
\* last told is the count of undelivered requests, after every handler (every
\* call of wakeUpdate, and handInbound, reclaimInbound and forgetInbound).
THEOREM CountFresh == Spec => []WakeCountFresh
<1>1. Init => GivenAway /\ WakeCountFresh
  BY DEF Init, InboundInit, GivenAway, WakeCountFresh, Undelivered
<1>2. CASE AnswerQueued
  BY <1>2, PTL DEF WakeCountFresh
<1>3. CASE ~AnswerQueued
  <2>1. Inv /\ GivenAway /\ WakeCountFresh /\ [Next]_vars => GivenAway' /\ WakeCountFresh'
    BY <1>3, GivenAway_Step, Fresh_Step
  <2> QED BY <1>1, <2>1, Invariant, PTL DEF Spec
<1> QED BY <1>2, <1>3

-----------------------------------------------------------------------------
(* The mailbox implements its abstract specification *)

\* A list with one more element in front.
LEMMA InFront ==
  ASSUME NEW S, NEW m \in S, NEW q \in Seq(S)
  PROVE  /\ <<m>> \o q # <<>> /\ Head(<<m>> \o q) = m /\ Tail(<<m>> \o q) = q
         /\ Elems(<<m>> \o q) = {m} \cup Elems(q)
<1> DEFINE t == <<m>> \o q
<1>1. /\ t \in Seq(S) /\ Len(t) = 1 + Len(q) /\ Len(q) \in Nat
      /\ \A i \in 1..(1 + Len(q)) : t[i] = IF i <= 1 THEN m ELSE q[i - 1]
  <2>1. <<m>> \in Seq(S) /\ Len(<<m>>) = 1 /\ <<m>>[1] = m
    OBVIOUS
  <2>2. /\ t \in Seq(S) /\ Len(t) = Len(<<m>>) + Len(q)
        /\ \A i \in 1..(Len(<<m>>) + Len(q)) :
             t[i] = IF i <= Len(<<m>>) THEN <<m>>[i] ELSE q[i - Len(<<m>>)]
    BY <2>1, ConcatProperties
  <2> HIDE DEF t
  <2> QED BY <2>1, <2>2, LenProperties
<1>2. t # <<>> /\ t[1] = m
  BY <1>1
<1>3. Head(t) = m
  BY <1>1, <1>2
<1>4. Tail(t) = q
  <2> HIDE DEF t
  <2>1. /\ Tail(t) \in Seq(S) /\ Len(Tail(t)) = Len(q)
        /\ \A i \in 1..Len(Tail(t)) : Tail(t)[i] = t[i + 1]
    BY <1>1, <1>2, HeadTailProperties
  <2>2. \A i \in 1..Len(q) : Tail(t)[i] = q[i]
    BY <1>1, <2>1
  <2> QED BY <2>1, <2>2, SeqEqual
<1>6. Elems(t) = {m} \cup Elems(q)
  <2> HIDE DEF t
  <2>1. ASSUME NEW x \in Elems(t) PROVE x \in {m} \cup Elems(q)
    <3>1. PICK i \in 1..(1 + Len(q)) : x = t[i]
      BY <1>1 DEF Elems
    <3>2. i # 1 => i - 1 \in 1..Len(q) /\ x = q[i - 1]
      BY <1>1, <3>1
    <3> QED BY <1>2, <3>1, <3>2 DEF Elems
  <2>2. ASSUME NEW j \in 1..Len(q) PROVE q[j] \in Elems(t)
    <3>1. j + 1 \in 1..Len(t) /\ t[j + 1] = q[j]
      BY <1>1
    <3> QED BY <3>1 DEF Elems
  <2>3. m \in Elems(t)
    BY <1>1, <1>2 DEF Elems
  <2> QED BY <2>1, <2>2, <2>3 DEF Elems
<1> QED BY <1>2, <1>3, <1>4, <1>6

LEMMA InFrontAppend ==
  ASSUME NEW S, NEW m \in S, NEW e \in S, NEW q \in Seq(S)
  PROVE  Append(<<m>> \o q, e) = <<m>> \o Append(q, e)
<1>1. <<m>> \in Seq(S) /\ <<e>> \in Seq(S)
  OBVIOUS
<1>2. <<m>> \o q \in Seq(S)
  BY <1>1, ConcatProperties
<1>3. Append(<<m>> \o q, e) = (<<m>> \o q) \o <<e>> /\ Append(q, e) = q \o <<e>>
  BY <1>2, AppendIsConcat
<1> QED BY <1>1, <1>3, ConcatAssociative

\* The head of a list put in front of its tail.
LEMMA FrontAgain ==
  ASSUME NEW S, NEW q \in Seq(S), q # <<>>
  PROVE  <<Head(q)>> \o Tail(q) = q
<1> DEFINE t == <<Head(q)>> \o Tail(q)
<1>1. /\ Head(q) \in S /\ Tail(q) \in Seq(S) /\ Len(Tail(q)) = Len(q) - 1
      /\ \A i \in 1..Len(Tail(q)) : Tail(q)[i] = q[i + 1]
  BY HeadTailProperties
<1>2. <<Head(q)>> \in Seq(S) /\ Len(<<Head(q)>>) = 1 /\ <<Head(q)>>[1] = Head(q)
  BY <1>1
<1>3. /\ t \in Seq(S) /\ Len(t) = 1 + Len(Tail(q))
      /\ \A i \in 1..(1 + Len(Tail(q))) : t[i] = IF i <= 1 THEN Head(q) ELSE Tail(q)[i - 1]
  <2> DEFINE h == <<Head(q)>>
  <2>1. /\ t \in Seq(S) /\ Len(t) = Len(h) + Len(Tail(q))
        /\ \A i \in 1..(Len(h) + Len(Tail(q))) :
             t[i] = IF i <= Len(h) THEN h[i] ELSE Tail(q)[i - Len(h)]
    BY <1>1, <1>2, ConcatProperties
  <2> HIDE DEF t
  <2>2. \A i \in 1..(1 + Len(Tail(q))) : i <= 1 => i = 1
    BY <1>1, LenProperties
  <2> QED BY <1>2, <2>1, <2>2
<1> HIDE DEF t
<1>4. Len(t) = Len(q) /\ Len(q) \in Nat /\ Head(q) = q[1]
  BY <1>1, <1>3, LenProperties
<1>5. \A i \in 1..Len(q) : t[i] = q[i]
  BY <1>1, <1>3, <1>4
<1>6. t = q
  BY <1>3, <1>4, <1>5, SeqEqual
<1> QED BY <1>6 DEF t

\* What the mapped mailbox holds: the queue, behind the one accepted request
\* that is not in it.
HoldsJust == inbound = Elems(queue) /\ MailOf(AtFront) = queue
HoldsBehind(m) ==
  /\ m \in Msgs /\ AtFront = {m} /\ inbound = {m} \cup Elems(queue) /\ m \notin Elems(queue)
  /\ MailOf(AtFront) = <<m>> \o queue

LEMMA FrontIs == Inv => AtFront = inbound \ Elems(queue)
<1> SUFFICES ASSUME Inv PROVE AtFront = inbound \ Elems(queue)
  OBVIOUS
<1>1. /\ inbound = Elems(queue) \cup ({active} \ {None}) \cup InTransit
      /\ delivering = ({active} \ {None}) \cup InTransit
      /\ Elems(queue) \cap delivering = {}
  BY Reachable_Split DEF Inv, MailInv, ReachableWith
<1>2. active # None => InTransit = {}
  BY DEF Inv, MailInv, OneBareAwait, InTransit
<1> QED BY <1>1, <1>2 DEF AtFront

LEMMA MailIs ==
  ASSUME Inv
  PROVE  /\ AtFront = inbound \ Elems(queue)
         /\ HoldsJust \/ \E m \in Msgs : HoldsBehind(m)
         /\ \A m \in Msgs : AtFront = {m} => HoldsBehind(m)
         /\ AtFront = {} => HoldsJust
         /\ active # None => AtFront = {active}
         /\ queue \in Seq(Msgs) /\ Distinct(queue) /\ inbound \subseteq Msgs
<1>1. /\ inbound = Elems(queue) \cup ({active} \ {None}) \cup InTransit
      /\ delivering = ({active} \ {None}) \cup InTransit
      /\ Elems(queue) \cap delivering = {} /\ Distinct(queue)
      /\ queue \in Seq(Msgs) /\ inbound \subseteq Msgs
  BY Reachable_Split DEF Inv, MailInv, InboundTypeOK, ReachableWith
<1>3. AtFront = inbound \ Elems(queue)
  BY FrontIs
<1>4. AtFront = {} \/ \E m \in Msgs : AtFront = {m}
  <2>1. CASE active # None
    BY <1>1, <2>1 DEF AtFront
  <2>2. CASE active = None
    <3>1. \A x, y \in InTransit : x = y
      BY DEF Inv, MailInv, OneBareAwait, InBareAwait, InTransit
    <3> QED BY <1>1, <2>2, <3>1 DEF AtFront
  <2> QED BY <2>1, <2>2
<1>5. ASSUME NEW m \in Msgs, AtFront = {m} PROVE HoldsBehind(m)
  <2>1. MailOf(AtFront) = <<m>> \o queue
    BY <1>5 DEF MailOf
  <2> QED BY <1>1, <1>3, <1>5, <2>1 DEF HoldsBehind
<1>6. AtFront = {} => HoldsJust
  BY <1>1, <1>3 DEF HoldsJust, MailOf
<1> QED BY <1>1, <1>3, <1>4, <1>5, <1>6 DEF AtFront

\* The abstract mailbox holds the accepted requests.
LEMMA MailElems ==
  ASSUME Inv PROVE Elems(MailOf(AtFront)) = inbound
<1>1. CASE HoldsJust
  BY <1>1 DEF HoldsJust
<1>2. ASSUME NEW m \in Msgs, HoldsBehind(m) PROVE Elems(MailOf(AtFront)) = inbound
  <2>1. Elems(<<m>> \o queue) = {m} \cup Elems(queue)
    BY MailIs, InFront
  <2> QED BY <1>2, <2>1 DEF HoldsBehind
<1> QED BY <1>1, <1>2, MailIs

LEMMA MailStill ==
  ASSUME Inv, Inv', UNCHANGED <<inbound, queue>>
  PROVE  MailOf(AtFront)' = MailOf(AtFront)
<1>1. AtFront = inbound \ Elems(queue)
  BY FrontIs
<1>2. (AtFront = inbound \ Elems(queue))'
  BY FrontIs, PTL
<1>3. AtFront' = AtFront
  BY <1>1, <1>2
<1> QED BY <1>3 DEF MailOf

LEMMA Box_Accept ==
  ASSUME Inv, Inv', NEW m \in Msgs, NEW registered \in SUBSET Registrable,
         Accepted(m, registered), Given' = Given
  PROVE  Box!Accept(m)
<1>1. /\ m \notin inbound /\ inbound' = inbound \cup {m} /\ seenRequest' = seenRequest
      /\ queue' = Append(queue, m) \/ (inbound = {} /\ queue = <<>> /\ queue' = <<>>)
  BY DEF Accepted, Accepts
<1>2. queue \in Seq(Msgs) /\ (AtFront = inbound \ Elems(queue))'
  <2>1. (AtFront = inbound \ Elems(queue))'
    BY FrontIs, PTL
  <2> QED BY <2>1, MailIs
<1>3. Elems(Append(queue, m)) = Elems(queue) \cup {m}
  BY <1>2, AppendElements
<1>4. m \notin Box!Mail
  BY <1>1, MailElems DEF Box!Mail, Elems
<1>5. MailOf(AtFront)' = Append(MailOf(AtFront), m)
  <2>1. CASE queue' = Append(queue, m) /\ HoldsJust
    <3>1. AtFront' = {}
      BY <1>1, <1>2, <1>3, <2>1 DEF HoldsJust
    <3> QED BY <2>1, <3>1 DEF HoldsJust, MailOf
  <2>2. ASSUME queue' = Append(queue, m), NEW x \in Msgs, HoldsBehind(x)
        PROVE  MailOf(AtFront)' = Append(MailOf(AtFront), m)
    <3>1. AtFront' = {x}
      BY <1>1, <1>2, <1>3, <2>2 DEF HoldsBehind
    <3>2. MailOf(AtFront)' = <<x>> \o queue'
      BY <3>1 DEF MailOf
    <3>3. Append(<<x>> \o queue, m) = <<x>> \o Append(queue, m)
      BY <1>2, InFrontAppend
    <3> QED BY <2>2, <3>2, <3>3 DEF HoldsBehind
  <2>3. CASE inbound = {} /\ queue = <<>> /\ queue' = <<>>
    <3>1. AtFront = {} /\ AtFront' = {m}
      BY <1>1, <1>2, <2>3, FrontIs DEF Elems
    <3>2. MailOf(AtFront)' = <<m>> \o <<>> /\ MailOf(AtFront) = <<>>
      BY <2>3, <3>1 DEF MailOf
    <3>3. <<m>> \in Seq(Msgs) /\ <<>> \in Seq(Msgs)
      OBVIOUS
    <3>4. <<m>> \o <<>> = <<m>> /\ Append(<<>>, m) = <<>> \o <<m>> /\ <<>> \o <<m>> = <<m>>
      BY <3>3, ConcatEmptySeq, AppendIsConcat
    <3> QED BY <3>2, <3>4
  <2> QED BY <1>1, <2>1, <2>2, <2>3, MailIs
<1> QED BY <1>1, <1>4, <1>5 DEF Box!Accept

\* A hand-over takes the request at the front, which stays there.
LEMMA Box_Give ==
  ASSUME Inv, Inv', NEW c \in Calls, HandsOver(c), UNCHANGED history
  PROVE  Box!Give(c) \/ Box!Miss(c) \/ UNCHANGED Box!vars
<1> USE Constants_Apart
<1>1. PICK m \in inbound, fired \in BOOLEAN :
        /\ Hand(c, m, fired) /\ active \in {None, m}
        /\ queue' = queue \/ (queue # <<>> /\ queue' = Tail(queue))
  BY DEF HandsOver
<1>2. /\ m \in Msgs /\ m # None /\ queue \in Seq(Msgs) /\ Distinct(queue)
      /\ inbound' = inbound /\ active' = m
  BY <1>1, MailIs DEF Hand, HandInbound
<1>3. AtFront' = {m} /\ (AtFront = inbound \ Elems(queue))'
  <2>1. (AtFront = inbound \ Elems(queue))'
    BY FrontIs, PTL
  <2> QED BY <1>2, <2>1 DEF AtFront
<1>4. MailOf(AtFront)' = <<m>> \o queue'
  BY <1>3 DEF MailOf
<1>5. MailOf(AtFront)' = MailOf(AtFront) /\ MailOf(AtFront) # <<>> /\ Head(MailOf(AtFront)) = m
  <2>1. CASE queue' = queue
    <3>1. <<m>> \o queue # <<>> /\ Head(<<m>> \o queue) = m
      BY <1>2, InFront
    <3> QED BY <1>2, <1>4, <2>1, <3>1, MailStill
  <2>2. CASE queue # <<>> /\ queue' = Tail(queue)
    <3>1. Head(queue) \in Elems(queue) /\ Elems(Tail(queue)) = Elems(queue) \ {Head(queue)}
      BY <1>2, <2>2, TailElements
    <3>2. m = Head(queue)
      BY <1>2, <1>3, <2>2, <3>1, MailIs, Sources DEF HoldsJust, HoldsBehind
    <3>3. AtFront = {}
      BY <1>2, <1>3, <2>2, <3>1, <3>2, FrontIs
    <3>4. <<m>> \o Tail(queue) = queue
      BY <1>2, <2>2, <3>2, FrontAgain
    <3>5. MailOf(AtFront) = queue
      BY <3>3 DEF MailOf
    <3> QED BY <1>4, <2>2, <3>2, <3>4, <3>5
  <2> QED BY <1>1, <2>1, <2>2
<1>6. Given \in [Calls -> Msgs \cup {None}]
      /\ Given' = [Given EXCEPT ![c] = IF fired THEN None ELSE m]
  <2>1. /\ pc \in [Calls -> CallStates] /\ arg \in [Calls -> Msgs \cup Reqs \cup {None}]
        /\ \A d \in Calls : pc[d] = "handed" => arg[d] \in Msgs
    BY DEF Inv, MailInv, CallTypeOK, ArgsFit
  <2>2. Goto(c, IF fired THEN "idle" ELSE "handed", IF fired THEN None ELSE m)
    BY <1>1 DEF Hand, Return
  <2>3. Given \in [Calls -> Msgs \cup {None}]
    BY <2>1 DEF Given
  <2> QED BY <2>1, <2>2, <2>3 DEF Goto, Given
<1>7. CASE ~fired
  BY <1>5, <1>6, <1>7 DEF Box!Give, history
<1>8. CASE fired
  <2>1. CASE Given[c] = None
    <3>1. Given' = Given
      BY <1>6, <1>8, <2>1
    <3> QED BY <1>5, <3>1 DEF Box!vars, history
  <2>2. CASE Given[c] # None
    BY <1>5, <1>6, <1>8, <2>2 DEF Box!Miss, history
  <2> QED BY <2>1, <2>2
<1> QED BY <1>1, <1>7, <1>8

\* A list with one more element in front, by its places.
LEMMA InFrontPlaces ==
  ASSUME NEW S, NEW m \in S, NEW q \in Seq(S)
  PROVE  /\ <<m>> \o q \in Seq(S) /\ Len(<<m>> \o q) = Len(q) + 1 /\ Len(q) \in Nat
         /\ (<<m>> \o q)[1] = m
         /\ \A j \in 2..(Len(q) + 1) : (<<m>> \o q)[j] = q[j - 1]
<1> DEFINE h == <<m>>
<1>1. h \in Seq(S) /\ Len(h) = 1 /\ h[1] = m
  OBVIOUS
<1> HIDE DEF h
<1>2. /\ h \o q \in Seq(S) /\ Len(h \o q) = Len(h) + Len(q) /\ Len(q) \in Nat
      /\ \A j \in 1..(Len(h) + Len(q)) :
           (h \o q)[j] = IF j <= Len(h) THEN h[j] ELSE q[j - Len(h)]
  BY <1>1, ConcatProperties, LenProperties
<1>3. 1 \in 1..(Len(h) + Len(q)) /\ \A j \in 2..(Len(q) + 1) : j \in 1..(Len(h) + Len(q)) /\ ~(j <= Len(h))
  BY <1>1, <1>2
<1>4. (h \o q)[1] = m /\ \A j \in 2..(Len(q) + 1) : (h \o q)[j] = q[j - 1]
  BY <1>1, <1>2, <1>3
<1> QED BY <1>1, <1>2, <1>4 DEF h

\* Without its first element.
LEMMA InFrontRemoveFirst ==
  ASSUME NEW S, NEW m \in S, NEW q \in Seq(S)
  PROVE  RemoveAt(<<m>> \o q, 1) = q
<1> DEFINE t == <<m>> \o q
<1>1. /\ t \in Seq(S) /\ Len(t) = Len(q) + 1 /\ Len(q) \in Nat
      /\ \A j \in 2..(Len(q) + 1) : t[j] = q[j - 1]
  BY InFrontPlaces
<1> HIDE DEF t
<1>2. RemoveAt(t, 1) = q
  <2>1. /\ RemoveAt(t, 1) \in Seq(S) /\ Len(RemoveAt(t, 1)) = Len(q)
        /\ \A j \in 1..Len(q) : RemoveAt(t, 1)[j] = t[j + 1]
    <3>1. 1 \in 1..Len(t) /\ Len(t) - 1 = Len(q) /\ \A j \in 1..Len(q) : ~(j < 1)
      BY <1>1
    <3>2. /\ RemoveAt(t, 1) \in Seq(S) /\ Len(RemoveAt(t, 1)) = Len(t) - 1
          /\ \A j \in 1..(Len(t) - 1) : RemoveAt(t, 1)[j] = IF j < 1 THEN t[j] ELSE t[j + 1]
      BY <1>1, <3>1, RemoveAtProperties
    <3> QED BY <3>1, <3>2
  <2>2. \A j \in 1..Len(q) : RemoveAt(t, 1)[j] = q[j]
    BY <1>1, <2>1
  <2> QED BY <2>1, <2>2, SeqEqual
<1> QED BY <1>2 DEF t

\* Without an element behind the first.
LEMMA InFrontRemoveBehind ==
  ASSUME NEW S, NEW m \in S, NEW q \in Seq(S), NEW i \in 1..Len(q)
  PROVE  /\ i + 1 \in 1..Len(<<m>> \o q) /\ (<<m>> \o q)[i + 1] = q[i]
         /\ RemoveAt(<<m>> \o q, i + 1) = <<m>> \o RemoveAt(q, i)
<1> DEFINE t == <<m>> \o q
<1>1. /\ t \in Seq(S) /\ Len(t) = Len(q) + 1 /\ Len(q) \in Nat /\ t[1] = m
      /\ \A j \in 2..(Len(q) + 1) : t[j] = q[j - 1]
  BY InFrontPlaces
<1> HIDE DEF t
<1>2. i + 1 \in 1..Len(t) /\ t[i + 1] = q[i] /\ RemoveAt(t, i + 1) = <<m>> \o RemoveAt(q, i)
  <2> DEFINE u == RemoveAt(t, i + 1)
             v == RemoveAt(q, i)
             w == <<m>> \o v
  <2>1. i + 1 \in 1..Len(t) /\ t[i + 1] = q[i]
    BY <1>1
  <2>2. /\ u \in Seq(S) /\ Len(u) = Len(q)
        /\ \A j \in 1..Len(q) : u[j] = IF j < i + 1 THEN t[j] ELSE t[j + 1]
    <3>1. Len(t) - 1 = Len(q)
      BY <1>1
    <3>2. /\ u \in Seq(S) /\ Len(u) = Len(t) - 1
          /\ \A j \in 1..(Len(t) - 1) : u[j] = IF j < i + 1 THEN t[j] ELSE t[j + 1]
      BY <1>1, <2>1, RemoveAtProperties
    <3> QED BY <3>1, <3>2
  <2>3. /\ v \in Seq(S) /\ Len(v) = Len(q) - 1
        /\ \A j \in 1..(Len(q) - 1) : v[j] = IF j < i THEN q[j] ELSE q[j + 1]
    BY RemoveAtProperties
  <2>4. /\ w \in Seq(S) /\ Len(w) = Len(q) /\ w[1] = m
        /\ \A j \in 2..Len(q) : w[j] = v[j - 1]
    <3> HIDE DEF v
    <3>1. /\ w \in Seq(S) /\ Len(w) = Len(v) + 1 /\ w[1] = m
          /\ \A j \in 2..(Len(v) + 1) : w[j] = v[j - 1]
      BY <2>3, InFrontPlaces
    <3> QED BY <1>1, <2>3, <3>1
  <2> HIDE DEF u, v, w
  <2>5. ASSUME NEW j \in 1..Len(q) PROVE u[j] = w[j]
    <3>1. CASE j = 1
      BY <1>1, <2>2, <2>4, <3>1
    <3>2. CASE j # 1 /\ j < i + 1
      <4>1. j \in 2..(Len(q) + 1) /\ j \in 2..Len(q) /\ j - 1 \in 1..(Len(q) - 1) /\ j - 1 < i
        BY <1>1, <3>2
      <4> QED BY <1>1, <2>2, <2>3, <2>4, <3>2, <4>1
    <3>3. CASE j # 1 /\ ~(j < i + 1)
      <4>1. /\ j + 1 \in 2..(Len(q) + 1) /\ j \in 2..Len(q) /\ j - 1 \in 1..(Len(q) - 1)
            /\ ~(j - 1 < i) /\ (j + 1) - 1 = j /\ (j - 1) + 1 = j
        BY <1>1, <3>3
      <4>2. u[j] = t[j + 1] /\ t[j + 1] = q[j]
        BY <1>1, <2>2, <3>3, <4>1
      <4>3. w[j] = v[j - 1] /\ v[j - 1] = q[j]
        BY <2>3, <2>4, <4>1
      <4> QED BY <4>2, <4>3
    <3> QED BY <3>1, <3>2, <3>3
  <2>6. u = w
    BY <2>2, <2>4, <2>5, SeqEqual
  <2> QED BY <2>1, <2>6 DEF u, v, w
<1> QED BY <1>2 DEF t

\* Forgetting an element of a list drops it where it is.
LEMMA WithoutAt ==
  ASSUME NEW S, NEW s \in Seq(S), NEW e, e \in Elems(s)
  PROVE  \E i \in 1..Len(s) : s[i] = e /\ Without(s, e) = RemoveAt(s, i)
<1> DEFINE T == {e}
<1>1. PICK k \in 1..Len(s) : s[k] = e
  BY DEF Elems
<1>2. s[k] \in T
  BY <1>1
<1>3. Without(s, e) = RemoveAt(s, FirstIndex(s, T))
  BY <1>1 DEF Without
<1>4. T = {e}
  OBVIOUS
<1> HIDE DEF T
<1>5. FirstIndex(s, T) \in 1..Len(s) /\ s[FirstIndex(s, T)] \in T
  BY <1>2, FirstIndexFound
<1> QED BY <1>3, <1>4, <1>5

\* What is forgotten is at the front, and has been seen unless the host answers
\* out of turn, or is somewhere behind if it does, or was forgotten before.
LEMMA Box_Finish ==
  ASSUME Inv, Inv', GivenAway, Forgets, Given' = Given
  PROVE  Box!Finish \/ (\E i \in 1..Len(MailOf(AtFront)) : Box!Withdraw(i)) \/ UNCHANGED Box!vars
<1> USE Constants_Apart
<1>1. PICK m \in Msgs :
        /\ m \notin InTransit /\ ForgetInbound(m) /\ seenRequest' = seenRequest \ {m}
        /\ Answerable(m) \/ \E c \in Calls : pc[c] = "replying" /\ arg[c] = m
  BY DEF Forgets
<1>2. /\ queue \in Seq(Msgs) /\ Distinct(queue) /\ inbound' = inbound \ {m}
      /\ queue' = Without(queue, m) /\ (m \notin Elems(queue) => queue' = queue)
  BY <1>1, MailIs DEF ForgetInbound, Without, Elems
<1>3. /\ delivering = ({active} \ {None}) \cup InTransit /\ delivering \subseteq inbound
      /\ Elems(queue) \subseteq inbound /\ Elems(queue) \cap delivering = {}
  BY Reachable_Split DEF Inv, MailInv, ReachableWith
<1>4. m \in inbound /\ ~AnswerQueued => m \in seenRequest
  BY <1>1 DEF Answerable, GivenAway
<1>5. AtFront' = (inbound \ {m}) \ (Elems(queue) \ {m})
  <2>1. (AtFront = inbound \ Elems(queue))'
    BY FrontIs, PTL
  <2>2. Elems(queue') = Elems(queue) \ {m}
    BY <1>2, WithoutProperties
  <2> QED BY <1>2, <2>1, <2>2
<1>6. CASE m \notin inbound
  <2>1. inbound' = inbound /\ queue' = queue /\ seenRequest' = seenRequest
    BY <1>1, <1>2, <1>3, <1>6 DEF GivenAway
  <2> QED BY <2>1, MailStill DEF Box!vars
<1>7. CASE m \in inbound /\ m \notin Elems(queue)
  <2>1. HoldsBehind(m)
    BY <1>7, MailIs DEF HoldsBehind, HoldsJust
  <2>2. AtFront' = {} /\ queue' = queue
    BY <1>2, <1>5, <2>1 DEF HoldsBehind
  <2>3. MailOf(AtFront)' = queue /\ MailOf(AtFront) = <<m>> \o queue
    BY <2>1, <2>2 DEF MailOf, HoldsBehind
  <2>4. CASE m \in seenRequest
    <3>1. <<m>> \o queue # <<>> /\ Head(<<m>> \o queue) = m /\ Tail(<<m>> \o queue) = queue
      BY <1>2, InFront
    <3> QED BY <1>1, <2>3, <2>4, <3>1 DEF Box!Finish
  <2>5. CASE m \notin seenRequest
    <3>1. /\ RemoveAt(<<m>> \o queue, 1) = queue /\ (<<m>> \o queue)[1] = m
          /\ 1 \in 1..Len(<<m>> \o queue)
      BY <1>2, InFrontPlaces, InFrontRemoveFirst
    <3>2. AnswerQueued
      BY <1>4, <1>7, <2>5
    <3>3. Box!Withdraw(1)
      BY <1>1, <2>3, <3>1, <3>2 DEF Box!Withdraw, Box!RemoveAt, RemoveAt
    <3> QED BY <2>3, <3>1, <3>3
  <2> QED BY <2>4, <2>5
<1>8. CASE m \in Elems(queue)
  <2>1. PICK i \in 1..Len(queue) : queue[i] = m /\ queue' = RemoveAt(queue, i)
    BY <1>2, <1>8, WithoutAt
  <2>2. AnswerQueued
    BY <1>3, <1>4, <1>8 DEF GivenAway
  <2>3. AtFront' = AtFront
    BY <1>5, <1>8, FrontIs
  <2>4. CASE HoldsJust
    <3>1. AtFront = {}
      BY <2>4, FrontIs DEF HoldsJust
    <3>2. MailOf(AtFront)' = RemoveAt(queue, i) /\ MailOf(AtFront) = queue
      BY <2>1, <2>3, <3>1 DEF MailOf
    <3>3. Box!Withdraw(i)
      BY <1>1, <2>1, <2>2, <3>2 DEF Box!Withdraw, Box!RemoveAt, RemoveAt
    <3> QED BY <3>2, <3>3
  <2>5. ASSUME NEW x \in Msgs, HoldsBehind(x)
        PROVE  \E k \in 1..Len(MailOf(AtFront)) : Box!Withdraw(k)
    <3>1. MailOf(AtFront)' = <<x>> \o RemoveAt(queue, i) /\ MailOf(AtFront) = <<x>> \o queue
      BY <2>1, <2>3, <2>5 DEF MailOf, HoldsBehind
    <3>2. /\ i + 1 \in 1..Len(<<x>> \o queue) /\ (<<x>> \o queue)[i + 1] = m
          /\ RemoveAt(<<x>> \o queue, i + 1) = <<x>> \o RemoveAt(queue, i)
      <4> DEFINE w == <<x>> \o queue
      <4>1. /\ i + 1 \in 1..Len(w) /\ w[i + 1] = queue[i]
            /\ RemoveAt(w, i + 1) = <<x>> \o RemoveAt(queue, i)
        <5>1. queue \in Seq(Msgs)
          BY <1>2
        <5> QED BY ONLY <5>1, i \in 1..Len(queue), x \in Msgs, InFrontRemoveBehind DEF w
      <4> HIDE DEF w
      <4>2. w[i + 1] = m
        BY <2>1, <4>1
      <4> QED BY <4>1, <4>2 DEF w
    <3>3. Box!Withdraw(i + 1)
      BY <1>1, <2>2, <3>1, <3>2 DEF Box!Withdraw, Box!RemoveAt, RemoveAt
    <3> QED BY <3>1, <3>2, <3>3
  <2> QED BY <2>4, <2>5, MailIs
<1> QED BY <1>6, <1>7, <1>8

\* Nothing that is on its way to the agent changes, unless its call ends.
LEMMA GivenStays ==
  ASSUME Inv, [Next]_vars, NoneGiven,
         \A c \in Calls : pc[c] = "handed" => ~Publish(c) /\ ~Abort(c)
  PROVE  Given' = Given
<1>1. ASSUME NEW c \in Calls, pc[c] = "handed" PROVE pc'[c] = pc[c] /\ arg'[c] = arg[c]
  BY <1>1, ResultsKept DEF Delivered, Ends, Responded, RespondFailed
<1>2. ASSUME NEW c \in Calls, pc[c] # "handed" PROVE pc'[c] # "handed"
  BY <1>2 DEF NoneGiven
<1> QED BY <1>1, <1>2 DEF Given

LEMMA BoxSteps ==
  ASSUME Inv, Inv', [Next]_vars, GivenAway
  PROVE  [Box!Next]_(Box!vars)
<1> USE Constants_Apart
<1>0. pc \in [Calls -> CallStates] /\ arg \in [Calls -> Msgs \cup Reqs \cup {None}]
  BY DEF Inv, MailInv, CallTypeOK
<1>1. ASSUME NEW c \in Calls, pc[c] = "handed", Publish(c) \/ Abort(c)
      PROVE  [Box!Next]_(Box!vars)
  <2>1. UNCHANGED <<inbound, queue>> /\ Return(c)
    BY <1>1 DEF Publish, Abort, ReclaimInbound, inboundVars
  <2>2. MailOf(AtFront)' = MailOf(AtFront)
    BY <2>1, MailStill
  <2>3. Given' = [Given EXCEPT ![c] = None] /\ Given[c] = arg[c] /\ arg[c] # None
    BY <1>0, <1>1, <2>1 DEF Return, Goto, Given, Inv, MailInv, ArgsFit
  <2>4. CASE Publish(c)
    <3>1. seenRequest' = seenRequest \cup ({Given[c]} \cap Box!Mail)
      BY <1>1, <2>3, <2>4, MailElems DEF Publish, Box!Mail, Elems
    <3> QED BY <2>2, <2>3, <3>1 DEF Box!Reach, Box!Next
  <2>5. CASE Abort(c)
    BY <2>2, <2>3, <2>5 DEF Abort, history, Box!Miss, Box!Next
  <2> QED BY <1>1, <2>4, <2>5
<1>2. ASSUME \A c \in Calls : pc[c] = "handed" => ~Publish(c) /\ ~Abort(c)
      PROVE  [Box!Next]_(Box!vars)
  <2>1. ASSUME MailboxStays \/ Reclaims, Given' = Given, seenRequest' = seenRequest
        PROVE  UNCHANGED Box!vars
    <3>1. UNCHANGED <<inbound, queue>>
      BY <2>1 DEF MailboxStays, Reclaims, ReclaimInbound
    <3> QED BY <2>1, <3>1, MailStill DEF Box!vars
  <2>2. NoneGiven => Given' = Given
    BY <1>2, GivenStays
  <2>3. ASSUME NEW c \in Calls, NEW m \in Msgs, Respond(c, m) PROVE Given' = Given
    BY <1>0, <2>3 DEF Respond, Goto, Given
  <2>4. CASE MailboxStays /\ NoneGiven
             /\ \/ seenRequest' = seenRequest
                \/ \E c \in Calls : /\ Publish(c) /\ pc[c] = "handed"
                                    /\ seenRequest' = seenRequest \cup ({arg[c]} \cap inbound)
    BY <1>2, <2>1, <2>2, <2>4
  <2>5. CASE MailboxStays /\ seenRequest' = seenRequest /\ \E c \in Calls, m \in Msgs : Respond(c, m)
    BY <2>1, <2>3, <2>5
  <2>6. CASE NoneGiven /\ \E m \in Msgs, registered \in SUBSET Registrable : Accepted(m, registered)
    BY <2>2, <2>6, Box_Accept DEF Box!Next
  <2>7. CASE UNCHANGED history /\ \E c \in Calls : HandsOver(c)
    BY <2>7, Box_Give DEF Box!Next
  <2>8. CASE NoneGiven /\ Reclaims /\ seenRequest' = seenRequest
    BY <2>1, <2>2, <2>8
  <2>9. CASE NoneGiven /\ Forgets
    BY <2>2, <2>9, Box_Finish DEF Box!Next
  <2> QED BY <2>4, <2>5, <2>6, <2>7, <2>8, <2>9, MailboxSteps DEF MailboxStep
<1> QED BY <1>1, <1>2

\* Requests are given to the agent and finished one at a time, in the order in
\* which they were accepted: the adapter implements the mailbox (receivePrompt,
\* awaitInbound, handInbound, reclaimInbound, forgetInbound).
THEOREM MailboxImplemented == Spec => ImplementsMailbox
<1>1. Init => GivenAway /\ Box!Init
  <2> SUFFICES ASSUME Init PROVE GivenAway /\ Box!Init OBVIOUS
  <2>1. AtFront = {}
    BY DEF Init, InboundInit, AtFront, InTransit
  <2>2. MailOf(AtFront) = <<>>
    BY <2>1 DEF MailOf, Init, InboundInit
  <2>3. Given = [c \in Calls |-> None]
    BY DEF Init, Given
  <2> QED BY <2>2, <2>3 DEF Init, InboundInit, GivenAway, Box!Init
<1>2. Inv /\ GivenAway /\ [Next]_vars => GivenAway'
  BY GivenAway_Step
<1>3. Inv /\ Inv' /\ GivenAway /\ [Next]_vars => [Box!Next]_(Box!vars)
  BY BoxSteps
<1> QED BY <1>1, <1>2, <1>3, Invariant, PTL DEF Spec, ImplementsMailbox, Box!Spec
=============================================================================
