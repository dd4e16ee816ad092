---------------------------- MODULE RelayEndpoint ----------------------------
(***************************************************************************)
(* One endpoint path and the adapters that bind it: those of one session,  *)
(* since the path is a function of the session id (src/src/relayAdapter.ts *)
(* and reapEndpoint of src/src/relayWire.ts).  The code knows the object   *)
(* at the path by its device and inode, and compares what it remembers     *)
(* only with what is there now; so all that is kept of an identity is      *)
(* whether it is the one at the path (Here) or of an object that has left  *)
(* the path (Gone).                                                        *)
(***************************************************************************)
CONSTANTS
  Adapters,      \* processes that run with this session id
  None, Here, Gone,
  Erring         \* those whose probes may err: fail at a listener, or take too long

ASSUME EndpointConstants ==
  /\ None # Here /\ None # Gone /\ Here # Gone
  /\ Erring \subseteq Adapters

VARIABLES
  path,          \* what is at the path: nothing, a socket or some other file
  server,        \* server[a]: the socket its server listens on
  ident,         \* ident[a]: socketIdentity
  judged,        \* those whose last look at the path, before a removal, was at what is there
  phase,         \* phase[a]: how far start and close are
  step,          \* step[a]: what the bind of start or of a rebind does next
  surrendered,   \* adapters with ownershipSurrendered
  listed,        \* adapters with a registry entry
  beat,          \* those of them that wrote it since what is at the path, a socket, was bound
  dead,          \* whether a process that ended left such an entry
  reap,          \* how far a pruner is, and what of its verdict is true of what is there
  mistaken       \* history: those that took the identity of something else for their own

vars == <<path, server, ident, judged, phase, step, surrendered, listed, beat, dead, reap, mistaken>>
control == <<phase, step, surrendered, listed>>

Objects == {None, Here, Gone}
Phases == {"off", "starting", "serving", "closing", "shutting", "leaving", "closed"}
Steps == {"none", "shut", "beatshut", "write", "judge", "probe", "contended", "stale",
          "unlink", "listen", "identify", "register"}
Pruner == [at : {"none", "judge", "check", "remove"}, mark : BOOLEAN, seen : BOOLEAN]

TypeOK ==
  /\ path \in {"none", "socket", "file"}
  /\ server \in [Adapters -> Objects]
  /\ ident \in [Adapters -> Objects]
  /\ phase \in [Adapters -> Phases]
  /\ step \in [Adapters -> Steps]
  /\ surrendered \subseteq Adapters /\ mistaken \subseteq Adapters
  /\ listed \subseteq Adapters /\ beat \subseteq listed
  /\ judged \subseteq Adapters /\ dead \in BOOLEAN /\ reap \in Pruner
  /\ (\E a \in Adapters : server[a] = Here) \/ beat # {} \/ dead \/ reap.mark => path = "socket"

Idle == [at |-> "none", mark |-> FALSE, seen |-> FALSE]

Init ==
  /\ path = "none" /\ dead = FALSE /\ reap = Idle
  /\ surrendered = {} /\ listed = {} /\ beat = {} /\ judged = {} /\ mistaken = {}
  /\ server = [a \in Adapters |-> None] /\ ident = server
  /\ phase = [a \in Adapters |-> "off"]
  /\ step = [a \in Adapters |-> "none"]

-----------------------------------------------------------------------------
(* The path *)

Reaches(a) == server[a] = Here
Answered == \E a \in Adapters : Reaches(a)
Now == IF path = "none" THEN None ELSE Here

\* Fault: an object is known by its path alone.
Left_ByPath(f) == f

\* What was at the path has left it,
Left(f) == [a \in Adapters |-> IF f[a] = Here THEN Gone ELSE f[a]]

\* and p is there.
Place(p) ==
  /\ path' = p
  /\ ident' = Left(ident)
  /\ judged' = {} /\ beat' = {} /\ dead' = FALSE
  /\ reap' = [reap EXCEPT !.mark = FALSE, !.seen = FALSE]

Go(a, next) == step' = [step EXCEPT ![a] = next]
Enter(a, next) == phase' = [phase EXCEPT ![a] = next]

\* Where the code awaits, so that another handler of the same process may run.
\* What other processes do may come between any two steps.
Yields(a) == step[a] \in {"none", "judge", "probe", "contended", "stale"}

-----------------------------------------------------------------------------
(* bind, clearStaleEndpoint, socketAlive *)

Start(a) ==
  /\ phase[a] = "off"
  /\ Enter(a, "starting") /\ Go(a, "judge")
  /\ UNCHANGED <<path, server, ident, judged, surrendered, listed, beat, dead, reap, mistaken>>

\* The object at the path is noted,
Look(a) == judged' = IF path = "none" THEN judged \ {a} ELSE judged \cup {a}

Judge(a) ==
  /\ step[a] = "judge"
  /\ Look(a)
  /\ Go(a, IF path = "none" THEN "listen" ELSE "probe")
  /\ UNCHANGED <<path, server, ident, phase, surrendered, listed, beat, dead, reap, mistaken>>

\* and a connection to the path tried, where something else may be by now.
Probe(a) ==
  /\ step[a] = "probe"
  /\ \E alive \in {Answered} \cup (IF a \in Erring THEN BOOLEAN ELSE {}) :
       Go(a, IF alive THEN "contended" ELSE "stale")
  /\ UNCHANGED <<path, server, ident, judged, phase, surrendered, listed, beat, dead, reap, mistaken>>

\* Fault: a rebind that finds another owner is tried again for ever.
Contended_Retried(a) ==
  /\ step[a] = "contended"
  /\ Go(a, "none") /\ judged' = judged \ {a}
  /\ phase' = [phase EXCEPT ![a] = IF @ = "starting" THEN "closing" ELSE @]
  /\ UNCHANGED <<path, server, ident, surrendered, listed, beat, dead, reap, mistaken>>

\* The path has an owner: start fails and closes; a rebind surrenders, which
\* stops the heartbeat and takes the entry back.
Contended(a) ==
  /\ step[a] = "contended"
  /\ Go(a, "none") /\ judged' = judged \ {a}
  /\ IF phase[a] = "starting"
       THEN Enter(a, "closing") /\ UNCHANGED <<surrendered, listed, beat>>
       ELSE /\ surrendered' = surrendered \cup {a}
            /\ listed' = listed \ {a} /\ beat' = beat \ {a}
            /\ UNCHANGED phase
  /\ UNCHANGED <<path, server, ident, dead, reap, mistaken>>

\* Fault: what took the corpse's place during the probe is removed for it.
Stale_Unchecked(a) ==
  /\ step[a] = "stale"
  /\ Look(a)
  /\ Go(a, "unlink")
  /\ UNCHANGED <<path, server, ident, phase, surrendered, listed, beat, dead, reap, mistaken>>

\* The probe found nobody: what was judged is to be removed, if it is still there.
Stale(a) ==
  /\ step[a] = "stale"
  /\ Go(a, IF a \in judged THEN "unlink" ELSE "listen")
  /\ UNCHANGED <<path, server, ident, judged, phase, surrendered, listed, beat, dead, reap, mistaken>>

\* a removes what is at the path by then: rmSync, and the close of a listener.
Removes(a) ==
  /\ Place("none")
  /\ server' = [Left(server) EXCEPT ![a] = None]
  /\ mistaken' = mistaken \ {a}

Unlink(a) ==
  /\ step[a] = "unlink"
  /\ Removes(a)
  /\ Go(a, "listen")
  /\ UNCHANGED <<phase, surrendered, listed>>

\* listen creates the socket file, or fails with EADDRINUSE: then start closes,
\* and a rebind is tried again by the next heartbeat.
Listen(a) ==
  /\ step[a] = "listen"
  /\ \/ /\ path = "none"
        /\ Place("socket")
        /\ server' = [server EXCEPT ![a] = Here]
        /\ Go(a, "identify")
        /\ UNCHANGED phase
     \/ /\ path # "none"
        /\ Go(a, "none")
        /\ phase' = [phase EXCEPT ![a] = IF @ = "starting" THEN "closing" ELSE @]
        /\ UNCHANGED <<path, server, ident, judged, beat, dead, reap>>
  /\ UNCHANGED <<surrendered, listed, mistaken>>

Identify(a) ==
  /\ step[a] = "identify"
  /\ ident' = [ident EXCEPT ![a] = Now]
  /\ mistaken' = IF Reaches(a) THEN mistaken \ {a} ELSE mistaken \cup {a}
  /\ Go(a, IF phase[a] = "starting" THEN "register" ELSE "none")
  /\ UNCHANGED <<path, server, judged, phase, surrendered, listed, beat, dead, reap>>

\* writeRegistry: heartbeat_at is later than the binding of what is there.
WriteEntry(a) ==
  /\ listed' = listed \cup {a}
  /\ beat' = IF path = "socket" THEN beat \cup {a} ELSE beat \ {a}
  /\ UNCHANGED <<dead, reap, mistaken>>

Started(a) ==
  /\ step[a] = "register"
  /\ WriteEntry(a)
  /\ Enter(a, "serving") /\ Go(a, "none")
  /\ UNCHANGED <<path, server, ident, judged, surrendered>>

-----------------------------------------------------------------------------
(* ensureBound, rebind, releaseServer, heartbeatTick *)

\* Fault: no socket of ours and nothing at the path count as bound.
BoundSocketPresent_Equal(a) == ident[a] = Now

BoundSocketPresent(a) == ident[a] = Here

Stolen(a) == path # "none" /\ ident[a] = Gone

\* releaseServer: a listener whose path holds something else is abandoned,
\* any other is closed, which removes what is at the path by then.
Release(a, close, done) ==
  /\ ident' = [ident EXCEPT ![a] = None]
  /\ IF Stolen(a) \/ server[a] = None
       THEN /\ server' = [server EXCEPT ![a] = None] /\ mistaken' = mistaken \ {a}
            /\ UNCHANGED judged /\ done
       ELSE Look(a) /\ UNCHANGED <<server, mistaken>> /\ close

\* Fault: the heartbeat of an adapter that surrendered goes on.
Beats_Always(a) ==
  /\ phase[a] = "serving" \/ (phase[a] = "closing" /\ step[a] # "none")
  /\ Yields(a)

\* The heartbeat runs until a surrender, or until close gets past its wait.
Beats(a) ==
  /\ phase[a] = "serving" \/ (phase[a] = "closing" /\ step[a] # "none")
  /\ a \notin surrendered /\ Yields(a)

NeedsRebind(a) ==
  /\ phase[a] = "serving" /\ step[a] = "none" /\ a \notin surrendered
  /\ ~BoundSocketPresent(a)

\* A host that has a lever of its own calls ensureBound.
EnsureBound(a) ==
  /\ NeedsRebind(a)
  /\ Release(a, Go(a, "shut"), Go(a, "judge"))
  /\ UNCHANGED <<path, phase, surrendered, listed, beat, dead, reap>>

\* heartbeatTick: ensureBound up to its first await, and the entry is written.
Heartbeat(a) ==
  /\ Beats(a)
  /\ IF NeedsRebind(a)
       THEN /\ Release(a, Go(a, "beatshut"), Go(a, "write"))
            /\ UNCHANGED <<listed, beat, dead, reap>>
       ELSE WriteEntry(a) /\ UNCHANGED <<server, ident, judged, step>>
  /\ UNCHANGED <<path, phase, surrendered>>

RebindShut(a) ==
  /\ step[a] \in {"shut", "beatshut"}
  /\ Removes(a)
  /\ Go(a, IF step[a] = "shut" THEN "judge" ELSE "write")
  /\ UNCHANGED <<phase, surrendered, listed>>

HeartbeatWrites(a) ==
  /\ step[a] = "write"
  /\ WriteEntry(a)
  /\ Go(a, "judge")
  /\ UNCHANGED <<path, server, ident, judged, phase, surrendered>>

-----------------------------------------------------------------------------
(* close; the end of a process *)

Close(a) ==
  /\ phase[a] = "serving" /\ Yields(a)
  /\ Enter(a, "closing")
  /\ UNCHANGED <<path, server, ident, judged, step, surrendered, listed, beat, dead, reap, mistaken>>

\* Fault: close does not wait for a rebind under way.
Rebinding_Ignored(a) == FALSE

Rebinding(a) == step[a] # "none"

\* Once a rebind under way has settled, the heartbeat stops and the listener
\* is released.
CloseRelease(a) ==
  /\ phase[a] = "closing" /\ ~Rebinding(a)
  /\ Release(a, Enter(a, "shutting"), Enter(a, "leaving"))
  /\ UNCHANGED <<path, step, surrendered, listed, beat, dead, reap>>

CloseShut(a) ==
  /\ phase[a] = "shutting"
  /\ Removes(a)
  /\ Enter(a, "leaving")
  /\ UNCHANGED <<step, surrendered, listed>>

Deregister(a) ==
  /\ phase[a] = "leaving"
  /\ listed' = listed \ {a} /\ beat' = beat \ {a}
  /\ Enter(a, "closed")
  /\ UNCHANGED <<path, server, ident, judged, step, surrendered, dead, reap, mistaken>>

\* The process ends, at any point; its socket file and its entry stay.  Its
\* id then stands for the next process of the session.
End(a) ==
  /\ phase[a] # "off"
  /\ dead' = (dead \/ a \in beat)
  /\ listed' = listed \ {a} /\ beat' = beat \ {a} /\ surrendered' = surrendered \ {a}
  /\ judged' = judged \ {a} /\ mistaken' = mistaken \ {a}
  /\ server' = [server EXCEPT ![a] = None]
  /\ ident' = [ident EXCEPT ![a] = None]
  /\ Enter(a, "off") /\ Go(a, "none")
  /\ UNCHANGED <<path, reap>>

-----------------------------------------------------------------------------
(* Others: pruneDeadEntries of another agent; whoever tidies up the directory *)

Prunes(at, mark, seen) == reap' = [at |-> at, mark |-> mark, seen |-> seen]

\* The entry of a dead peer is read, and removed; no live one names the path.
ReapRead ==
  /\ dead /\ reap = Idle
  /\ IF listed = {} THEN Prunes("judge", TRUE, FALSE) ELSE UNCHANGED reap
  /\ dead' = FALSE
  /\ UNCHANGED <<path, server, ident, judged, control, beat, mistaken>>

\* reapEndpoint: a socket bound before the dead peer's last heartbeat, seen twice.
ReapJudge ==
  /\ reap.at = "judge"
  /\ IF path = "socket" /\ reap.mark THEN Prunes("check", reap.mark, TRUE) ELSE reap' = Idle
  /\ UNCHANGED <<path, server, ident, judged, control, beat, dead, mistaken>>

ReapCheck ==
  /\ reap.at = "check"
  /\ IF reap.seen THEN Prunes("remove", reap.mark, reap.seen) ELSE reap' = Idle
  /\ UNCHANGED <<path, server, ident, judged, control, beat, dead, mistaken>>

ReapRemove ==
  /\ reap.at = "remove"
  /\ path' = "none"
  /\ server' = Left(server) /\ ident' = Left(ident)
  /\ judged' = {} /\ beat' = {} /\ dead' = FALSE
  /\ reap' = Idle
  /\ UNCHANGED <<control, mistaken>>

\* The socket file is deleted, or something else is put there.
Meddle ==
  /\ \E p \in {"none", "file"} : Place(p)
  /\ server' = Left(server)
  /\ UNCHANGED <<control, mistaken>>

-----------------------------------------------------------------------------
\* What a does next of a bind or a close under way.
Proceed(a) ==
  \/ Judge(a) \/ Probe(a) \/ Contended(a) \/ Stale(a) \/ Unlink(a)
  \/ Listen(a) \/ Identify(a) \/ Started(a)
  \/ RebindShut(a) \/ HeartbeatWrites(a)
  \/ CloseRelease(a) \/ CloseShut(a) \/ Deregister(a)

AdapterStep(a) ==
  Start(a) \/ Proceed(a) \/ EnsureBound(a) \/ Heartbeat(a) \/ Close(a) \/ End(a)

Next ==
  \/ \E a \in Adapters : AdapterStep(a)
  \/ ReapRead \/ ReapJudge \/ ReapCheck \/ ReapRemove \/ Meddle

Spec == Init /\ [][Next]_vars

\* The same, where nobody tidies up the directory.
QuietSpec == Init /\ [][Next /\ ~Meddle]_vars

-----------------------------------------------------------------------------
(* Safety *)

\* A listener is closed, and with it what is at its path.
Shuts(a) == RebindShut(a) \/ CloseShut(a)

\* The ways in which a live listener loses the path to somebody else:
Evicts(a) == Unlink(a) /\ a \in Erring           \* its probe failed for a reason of its own;
Overtaken(a) == (Unlink(a) \/ Shuts(a)) /\ a \notin judged
                                                 \* the listener came after its last look;
Misreads(a) == Shuts(a) /\ a \in mistaken         \* it had taken another's identity for its own;
Reaps == ReapRemove /\ (reap.seen => reap.mark)
                                                 \* a pruner was overtaken, or its verdict was
                                                 \* about the socket of a dead peer's last beat.

\* "Never unlink an endpoint a live process still owns": nobody else takes the
\* path from under a live listener, except in these ways.  None of them is a
\* removal of the listener that was there when it was looked for and not found.
LiveSocketKept ==
  [][\/ Meddle \/ Reaps
     \/ \E a \in Adapters : Evicts(a) \/ Overtaken(a) \/ Misreads(a)
     \/ \A b \in Adapters : Reaches(b) => server'[b] # Gone]_vars

\* "Remove only the socket the verdict was actually about": what an adapter
\* removes after its probe is what it saw there, where a listener is there now.
VerdictIsAboutRemoved == [][\A a \in Adapters : Unlink(a) /\ Answered => a \in judged]_vars

\* An adapter that serves and takes its endpoint for bound is reached there:
\* whatever was deleted, replaced or half rebound, the identity it compares
\* with the path is that of the socket it listens on, unless something else had
\* that socket's place before its identity was read (listen, then stat in bind).
PresentMeansReached ==
  \A a \in Adapters :
    phase[a] = "serving" /\ step[a] = "none" /\ BoundSocketPresent(a)
      => Reaches(a) \/ a \in mistaken

\* A closed adapter has left nothing behind: no bind that was under way gives
\* it a listener or an entry after close.
ClosedIsGone ==
  \A a \in Adapters : phase[a] = "closed" =>
    server[a] = None /\ step[a] = "none" /\ a \notin listed

\* A surrender is for good: no listener, no entry, nothing under way.
SurrenderIsSilent ==
  \A a \in surrendered : server[a] = None /\ step[a] = "none" /\ a \notin listed

-----------------------------------------------------------------------------
(* Liveness *)

\* What is under way goes on (a probe answers within a second); heartbeats fire.
Fairness ==
  \A a \in Adapters : WF_vars(Proceed(a)) /\ SF_vars(Heartbeat(a))

FairSpec == Spec /\ Fairness

\* Once the directory is left alone, processes of the session stop ending and
\* probes stop missing listeners, an adapter that serves is reached at its
\* endpoint again, or surrenders it, also one whose socket was taken; except
\* one that has taken another's socket for its own while that is there.
Misses == \E a \in Erring : Probe(a) /\ (step'[a] = "contended") # Answered
Calm == <>[][~Meddle /\ ~Misses /\ \A a \in Adapters : ~End(a)]_vars
Deceived(a) == a \in mistaken /\ BoundSocketPresent(a)
Heals ==
  Calm =>
    \A a \in Adapters :
      phase[a] = "serving" ~>
        (Reaches(a) \/ a \in surrendered \/ phase[a] # "serving" \/ Deceived(a))
=============================================================================
