------------------------ MODULE RelayEndpointProofs ------------------------
(***************************************************************************)
(* The inductive invariant of RelayEndpoint.                               *)
(***************************************************************************)
EXTENDS RelayEndpoint, TLAPS

\* What stands for the object at the path is remembered only while one is there,
\* and a pruner has seen only the socket its verdict is about.
HereIsThere ==
  /\ path = "none" => judged = {} /\ \A a \in Adapters : ident[a] # Here
  /\ reap.seen => reap.mark

\* The path has one listener, and whoever knows the socket at it listens on it,
\* those that were mistaken when they learnt it aside.
OneOwner ==
  /\ \A a, b \in Adapters : Reaches(a) /\ Reaches(b) => a = b
  /\ \A a \in Adapters : ident[a] = Here => Reaches(a) \/ a \in mistaken

\* A listener is about to be closed.
Shutting(a) == step[a] \in {"shut", "beatshut"} \/ phase[a] = "shutting"

\* How far a bind or a close is says what an adapter has.
Course(a) ==
  /\ phase[a] = "off" => /\ step[a] = "none" /\ server[a] = None
                        /\ a \notin listed /\ a \notin surrendered
  /\ phase[a] = "starting" => a \notin listed /\ a \notin surrendered
                             /\ step[a] \notin {"none", "shut", "beatshut", "write"}
  /\ step[a] # "none" => phase[a] \in {"starting", "serving", "closing"}
  /\ step[a] \in {"write", "judge", "probe", "contended", "stale", "unlink", "listen"}
       => server[a] = None
  /\ step[a] = "register" => phase[a] = "starting"
  /\ phase[a] \in {"leaving", "closed"} => server[a] = None
  /\ phase[a] = "closed" => a \notin listed
  /\ server[a] # None =>
       ident[a] # None \/ step[a] = "identify" \/ Shutting(a) \/ a \in mistaken

\* Nobody listens at what was last seen at a path that is about to be cleared,
\* its own listener aside.
Cleared ==
  \A a \in judged, b \in Adapters :
    /\ a \notin Erring /\ step[a] \in {"stale", "unlink"} => ~Reaches(b)
    /\ a \notin mistaken /\ Shutting(a) => (Reaches(b) => a = b)

IInv ==
  /\ TypeOK /\ HereIsThere /\ OneOwner /\ Cleared /\ SurrenderIsSilent
  /\ \A a \in Adapters : Course(a)

-----------------------------------------------------------------------------
\* Every step of an adapter keeps the invariant.
LEMMA AdapterKeeps ==
  ASSUME IInv, NEW a \in Adapters, AdapterStep(a)
  PROVE  IInv'
<1> USE EndpointConstants
<1>1. CASE Start(a)
  <2>1. TypeOK'
    BY <1>1 DEF Start, Enter, Go, IInv, TypeOK, Objects, Phases, Steps, Pruner, HereIsThere
  <2>2. HereIsThere'
    BY <1>1 DEF Start, Enter, Go, IInv, TypeOK, Pruner, HereIsThere
  <2>3. OneOwner'
    BY <1>1 DEF Start, Enter, Go, IInv, TypeOK, HereIsThere, OneOwner, Reaches, Course,
      Shutting
  <2>4. Cleared'
    BY <1>1 DEF Start, Enter, Go, IInv, TypeOK, Objects, HereIsThere, OneOwner, Cleared,
      Reaches, Course, Shutting
  <2>5. SurrenderIsSilent'
    BY <1>1 DEF Start, Enter, Go, IInv, TypeOK, SurrenderIsSilent, Course
  <2>6. \A x \in Adapters : Course(x)'
    BY <1>1 DEF Start, Enter, Go, IInv, TypeOK, HereIsThere, OneOwner, SurrenderIsSilent,
      Reaches, Course, Shutting
  <2> QED BY <2>1, <2>2, <2>3, <2>4, <2>5, <2>6 DEF IInv
<1>2. CASE Judge(a)
  <2>1. TypeOK'
    BY <1>2 DEF Judge, Look, Go, IInv, TypeOK, Objects, Phases, Steps, Pruner, HereIsThere
  <2>2. HereIsThere'
    BY <1>2 DEF Judge, Look, Go, IInv, TypeOK, Pruner, HereIsThere
  <2>3. OneOwner'
    BY <1>2 DEF Judge, Look, Go, IInv, TypeOK, HereIsThere, OneOwner, Reaches, Course,
      Shutting
  <2>4. Cleared'
    BY <1>2 DEF Judge, Look, Go, IInv, TypeOK, Objects, HereIsThere, OneOwner, Cleared,
      Reaches, Course, Shutting
  <2>5. SurrenderIsSilent'
    BY <1>2 DEF Judge, Look, Go, IInv, TypeOK, SurrenderIsSilent, Course
  <2>6. \A x \in Adapters : Course(x)'
    BY <1>2 DEF Judge, Look, Go, IInv, TypeOK, HereIsThere, OneOwner, SurrenderIsSilent,
      Reaches, Course, Shutting
  <2> QED BY <2>1, <2>2, <2>3, <2>4, <2>5, <2>6 DEF IInv
<1>3. CASE Probe(a)
  <2>0. PICK alive \in BOOLEAN :
              /\ step' = [step EXCEPT ![a] = IF alive THEN "contended" ELSE "stale"]
              /\ ~alive /\ a \notin Erring => \A b \in Adapters : ~Reaches(b)
    BY <1>3 DEF Probe, Answered, Go
  <2>1. TypeOK'
    BY <1>3, <2>0 DEF Probe, IInv, TypeOK, Objects, Phases, Steps, Pruner, HereIsThere
  <2>2. HereIsThere'
    BY <1>3, <2>0 DEF Probe, IInv, TypeOK, Pruner, HereIsThere
  <2>3. OneOwner'
    BY <1>3, <2>0 DEF Probe, IInv, TypeOK, HereIsThere, OneOwner, Reaches, Course, Shutting
  <2>4. Cleared'
    BY <1>3, <2>0 DEF Probe, IInv, TypeOK, Objects, HereIsThere, OneOwner, Cleared, Reaches,
      Course, Shutting
  <2>5. SurrenderIsSilent'
    BY <1>3, <2>0 DEF Probe, IInv, TypeOK, SurrenderIsSilent, Course
  <2>6. \A x \in Adapters : Course(x)'
    BY <1>3, <2>0 DEF Probe, IInv, TypeOK, HereIsThere, OneOwner, SurrenderIsSilent,
      Reaches, Course, Shutting
  <2> QED BY <2>1, <2>2, <2>3, <2>4, <2>5, <2>6 DEF IInv
<1>4. CASE Contended(a)
  <2>1. TypeOK'
    BY <1>4 DEF Contended, Enter, Go, IInv, TypeOK, Objects, Phases, Steps, Pruner,
      HereIsThere
  <2>2. HereIsThere'
    BY <1>4 DEF Contended, Enter, Go, IInv, TypeOK, Pruner, HereIsThere
  <2>3. OneOwner'
    BY <1>4 DEF Contended, Enter, Go, IInv, TypeOK, HereIsThere, OneOwner, Reaches, Course,
      Shutting
  <2>4. Cleared'
    BY <1>4 DEF Contended, Enter, Go, IInv, TypeOK, Objects, HereIsThere, OneOwner, Cleared,
      Reaches, Course, Shutting
  <2>5. SurrenderIsSilent'
    BY <1>4 DEF Contended, Enter, Go, IInv, TypeOK, SurrenderIsSilent, Course
  <2>6. \A x \in Adapters : Course(x)'
    BY <1>4 DEF Contended, Enter, Go, IInv, TypeOK, HereIsThere, OneOwner,
      SurrenderIsSilent, Reaches, Course, Shutting
  <2> QED BY <2>1, <2>2, <2>3, <2>4, <2>5, <2>6 DEF IInv
<1>5. CASE Stale(a)
  <2>1. TypeOK'
    BY <1>5 DEF Stale, Go, IInv, TypeOK, Objects, Phases, Steps, Pruner, HereIsThere
  <2>2. HereIsThere'
    BY <1>5 DEF Stale, Go, IInv, TypeOK, Pruner, HereIsThere
  <2>3. OneOwner'
    BY <1>5 DEF Stale, Go, IInv, TypeOK, HereIsThere, OneOwner, Reaches, Course, Shutting
  <2>4. Cleared'
    BY <1>5 DEF Stale, Go, IInv, TypeOK, Objects, HereIsThere, OneOwner, Cleared, Reaches,
      Course, Shutting
  <2>5. SurrenderIsSilent'
    BY <1>5 DEF Stale, Go, IInv, TypeOK, SurrenderIsSilent, Course
  <2>6. \A x \in Adapters : Course(x)'
    BY <1>5 DEF Stale, Go, IInv, TypeOK, HereIsThere, OneOwner, SurrenderIsSilent, Reaches,
      Course, Shutting
  <2> QED BY <2>1, <2>2, <2>3, <2>4, <2>5, <2>6 DEF IInv
<1>6. CASE Unlink(a)
  <2>1. TypeOK'
    BY <1>6 DEF Unlink, Removes, Place, Left, Go, IInv, TypeOK, Objects, Phases, Steps,
      Pruner, HereIsThere
  <2>2. HereIsThere'
    BY <1>6 DEF Unlink, Removes, Place, Left, Go, IInv, TypeOK, Pruner, HereIsThere
  <2>3. OneOwner'
    BY <1>6 DEF Unlink, Removes, Place, Left, Go, IInv, TypeOK, HereIsThere, OneOwner,
      Reaches, Course, Shutting
  <2>4. Cleared'
    BY <1>6 DEF Unlink, Removes, Place, Left, Go, IInv, TypeOK, Objects, HereIsThere,
      OneOwner, Cleared, Reaches, Course, Shutting
  <2>5. SurrenderIsSilent'
    BY <1>6 DEF Unlink, Removes, Place, Left, Go, IInv, TypeOK, SurrenderIsSilent, Course
  <2>6. \A x \in Adapters : Course(x)'
    BY <1>6 DEF Unlink, Removes, Place, Left, Go, IInv, TypeOK, HereIsThere, OneOwner,
      SurrenderIsSilent, Reaches, Course, Shutting
  <2> QED BY <2>1, <2>2, <2>3, <2>4, <2>5, <2>6 DEF IInv
<1>7. CASE Listen(a)
  <2>1. TypeOK'
    <3>1. path' \in {"none", "socket", "file"}
      BY <1>7 DEF Listen, Place, Left, Go, IInv, TypeOK, Objects, Phases, Steps, Pruner,
        HereIsThere
    <3>2. server' \in [Adapters -> Objects] /\ ident' \in [Adapters -> Objects]
      BY <1>7 DEF Listen, Place, Left, Go, IInv, TypeOK, Objects, Phases, Steps, Pruner,
        HereIsThere
    <3>3. phase' \in [Adapters -> Phases] /\ step' \in [Adapters -> Steps]
      BY <1>7 DEF Listen, Place, Left, Go, IInv, TypeOK, Objects, Phases, Steps, Pruner,
        HereIsThere
    <3>4. surrendered' \subseteq Adapters /\ mistaken' \subseteq Adapters /\ judged'
      \subseteq Adapters
      BY <1>7 DEF Listen, Place, Left, Go, IInv, TypeOK, Objects, Phases, Steps, Pruner,
        HereIsThere
    <3>5. listed' \subseteq Adapters /\ beat' \subseteq listed'
      BY <1>7 DEF Listen, Place, Left, Go, IInv, TypeOK, Objects, Phases, Steps, Pruner,
        HereIsThere
    <3>6. dead' \in BOOLEAN /\ reap' \in Pruner
      BY <1>7 DEF Listen, Place, Left, Go, IInv, TypeOK, Objects, Phases, Steps, Pruner,
        HereIsThere
    <3>7. (\E x \in Adapters : server'[x] = Here) \/ beat' # {} \/ dead' \/ reap'.mark =>
      path' = "socket"
      BY <1>7 DEF Listen, Place, Left, Go, IInv, TypeOK, Objects, Phases, Steps, Pruner,
        HereIsThere
    <3> QED BY <3>1, <3>2, <3>3, <3>4, <3>5, <3>6, <3>7 DEF TypeOK
  <2>2. HereIsThere'
    BY <1>7 DEF Listen, Place, Left, Go, IInv, TypeOK, Pruner, HereIsThere
  <2>3. OneOwner'
    BY <1>7 DEF Listen, Place, Left, Go, IInv, TypeOK, HereIsThere, OneOwner, Reaches,
      Course, Shutting
  <2>4. Cleared'
    BY <1>7 DEF Listen, Place, Left, Go, IInv, TypeOK, Objects, HereIsThere, OneOwner,
      Cleared, Reaches, Course, Shutting
  <2>5. SurrenderIsSilent'
    BY <1>7 DEF Listen, Place, Left, Go, IInv, TypeOK, SurrenderIsSilent, Course
  <2>6. \A x \in Adapters : Course(x)'
    BY <1>7 DEF Listen, Place, Left, Go, IInv, TypeOK, HereIsThere, OneOwner,
      SurrenderIsSilent, Reaches, Course, Shutting
  <2> QED BY <2>1, <2>2, <2>3, <2>4, <2>5, <2>6 DEF IInv
<1>8. CASE Identify(a)
  <2>1. TypeOK'
    BY <1>8 DEF Identify, Now, Go, IInv, TypeOK, Objects, Phases, Steps, Pruner, HereIsThere
  <2>2. HereIsThere'
    BY <1>8 DEF Identify, Now, Go, IInv, TypeOK, Pruner, HereIsThere
  <2>3. OneOwner'
    BY <1>8 DEF Identify, Now, Go, IInv, TypeOK, HereIsThere, OneOwner, Reaches, Course,
      Shutting
  <2>4. Cleared'
    BY <1>8 DEF Identify, Now, Go, IInv, TypeOK, Objects, HereIsThere, OneOwner, Cleared,
      Reaches, Course, Shutting
  <2>5. SurrenderIsSilent'
    BY <1>8 DEF Identify, Now, Go, IInv, TypeOK, SurrenderIsSilent, Course
  <2>6. \A x \in Adapters : Course(x)'
    BY <1>8 DEF Identify, Now, Go, IInv, TypeOK, HereIsThere, OneOwner, SurrenderIsSilent,
      Reaches, Course, Shutting
  <2> QED BY <2>1, <2>2, <2>3, <2>4, <2>5, <2>6 DEF IInv
<1>9. CASE Started(a)
  <2>1. TypeOK'
    BY <1>9 DEF Started, WriteEntry, Enter, Go, IInv, TypeOK, Objects, Phases, Steps,
      Pruner, HereIsThere
  <2>2. HereIsThere'
    BY <1>9 DEF Started, WriteEntry, Enter, Go, IInv, TypeOK, Pruner, HereIsThere
  <2>3. OneOwner'
    BY <1>9 DEF Started, WriteEntry, Enter, Go, IInv, TypeOK, HereIsThere, OneOwner,
      Reaches, Course, Shutting
  <2>4. Cleared'
    BY <1>9 DEF Started, WriteEntry, Enter, Go, IInv, TypeOK, Objects, HereIsThere,
      OneOwner, Cleared, Reaches, Course, Shutting
  <2>5. SurrenderIsSilent'
    BY <1>9 DEF Started, WriteEntry, Enter, Go, IInv, TypeOK, SurrenderIsSilent, Course
  <2>6. \A x \in Adapters : Course(x)'
    BY <1>9 DEF Started, WriteEntry, Enter, Go, IInv, TypeOK, HereIsThere, OneOwner,
      SurrenderIsSilent, Reaches, Course, Shutting
  <2> QED BY <2>1, <2>2, <2>3, <2>4, <2>5, <2>6 DEF IInv
<1>10. CASE RebindShut(a)
  <2>1. TypeOK'
    BY <1>10 DEF RebindShut, Removes, Place, Left, Go, IInv, TypeOK, Objects, Phases, Steps,
      Pruner, HereIsThere
  <2>2. HereIsThere'
    BY <1>10 DEF RebindShut, Removes, Place, Left, Go, IInv, TypeOK, Pruner, HereIsThere
  <2>3. OneOwner'
    BY <1>10 DEF RebindShut, Removes, Place, Left, Go, IInv, TypeOK, HereIsThere, OneOwner,
      Reaches, Course, Shutting
  <2>4. Cleared'
    BY <1>10 DEF RebindShut, Removes, Place, Left, Go, IInv, TypeOK, Objects, HereIsThere,
      OneOwner, Cleared, Reaches, Course, Shutting
  <2>5. SurrenderIsSilent'
    BY <1>10 DEF RebindShut, Removes, Place, Left, Go, IInv, TypeOK, SurrenderIsSilent,
      Course
  <2>6. \A x \in Adapters : Course(x)'
    BY <1>10 DEF RebindShut, Removes, Place, Left, Go, IInv, TypeOK, HereIsThere, OneOwner,
      SurrenderIsSilent, Reaches, Course, Shutting
  <2> QED BY <2>1, <2>2, <2>3, <2>4, <2>5, <2>6 DEF IInv
<1>11. CASE HeartbeatWrites(a)
  <2>1. TypeOK'
    BY <1>11 DEF HeartbeatWrites, WriteEntry, Go, IInv, TypeOK, Objects, Phases, Steps,
      Pruner, HereIsThere
  <2>2. HereIsThere'
    BY <1>11 DEF HeartbeatWrites, WriteEntry, Go, IInv, TypeOK, Pruner, HereIsThere
  <2>3. OneOwner'
    BY <1>11 DEF HeartbeatWrites, WriteEntry, Go, IInv, TypeOK, HereIsThere, OneOwner,
      Reaches, Course, Shutting
  <2>4. Cleared'
    BY <1>11 DEF HeartbeatWrites, WriteEntry, Go, IInv, TypeOK, Objects, HereIsThere,
      OneOwner, Cleared, Reaches, Course, Shutting
  <2>5. SurrenderIsSilent'
    BY <1>11 DEF HeartbeatWrites, WriteEntry, Go, IInv, TypeOK, SurrenderIsSilent, Course
  <2>6. \A x \in Adapters : Course(x)'
    BY <1>11 DEF HeartbeatWrites, WriteEntry, Go, IInv, TypeOK, HereIsThere, OneOwner,
      SurrenderIsSilent, Reaches, Course, Shutting
  <2> QED BY <2>1, <2>2, <2>3, <2>4, <2>5, <2>6 DEF IInv
<1>12. CASE CloseRelease(a)
  <2>1. TypeOK'
    BY <1>12 DEF CloseRelease, Rebinding, Release, Stolen, Look, Enter, IInv, TypeOK,
      Objects, Phases, Steps, Pruner, HereIsThere
  <2>2. HereIsThere'
    BY <1>12 DEF CloseRelease, Rebinding, Release, Stolen, Look, Enter, IInv, TypeOK,
      Pruner, HereIsThere
  <2>3. OneOwner'
    BY <1>12 DEF CloseRelease, Rebinding, Release, Stolen, Look, Enter, IInv, TypeOK,
      HereIsThere, OneOwner, Reaches, Course, Shutting
  <2>4. Cleared'
    BY <1>12 DEF CloseRelease, Rebinding, Release, Stolen, Look, Enter, IInv, TypeOK,
      Objects, HereIsThere, OneOwner, Cleared, Reaches, Course, Shutting
  <2>5. SurrenderIsSilent'
    BY <1>12 DEF CloseRelease, Rebinding, Release, Stolen, Look, Enter, IInv, TypeOK,
      SurrenderIsSilent, Course
  <2>6. \A x \in Adapters : Course(x)'
    BY <1>12 DEF CloseRelease, Rebinding, Release, Stolen, Look, Enter, IInv, TypeOK,
      HereIsThere, OneOwner, SurrenderIsSilent, Reaches, Course, Shutting
  <2> QED BY <2>1, <2>2, <2>3, <2>4, <2>5, <2>6 DEF IInv
<1>13. CASE CloseShut(a)
  <2>1. TypeOK'
    BY <1>13 DEF CloseShut, Removes, Place, Left, Enter, IInv, TypeOK, Objects, Phases,
      Steps, Pruner, HereIsThere
  <2>2. HereIsThere'
    BY <1>13 DEF CloseShut, Removes, Place, Left, Enter, IInv, TypeOK, Pruner, HereIsThere
  <2>3. OneOwner'
    BY <1>13 DEF CloseShut, Removes, Place, Left, Enter, IInv, TypeOK, HereIsThere,
      OneOwner, Reaches, Course, Shutting
  <2>4. Cleared'
    BY <1>13 DEF CloseShut, Removes, Place, Left, Enter, IInv, TypeOK, Objects, HereIsThere,
      OneOwner, Cleared, Reaches, Course, Shutting
  <2>5. SurrenderIsSilent'
    BY <1>13 DEF CloseShut, Removes, Place, Left, Enter, IInv, TypeOK, SurrenderIsSilent,
      Course
  <2>6. \A x \in Adapters : Course(x)'
    BY <1>13 DEF CloseShut, Removes, Place, Left, Enter, IInv, TypeOK, HereIsThere,
      OneOwner, SurrenderIsSilent, Reaches, Course, Shutting
  <2> QED BY <2>1, <2>2, <2>3, <2>4, <2>5, <2>6 DEF IInv
<1>14. CASE Deregister(a)
  <2>1. TypeOK'
    BY <1>14 DEF Deregister, Enter, IInv, TypeOK, Objects, Phases, Steps, Pruner,
      HereIsThere
  <2>2. HereIsThere'
    BY <1>14 DEF Deregister, Enter, IInv, TypeOK, Pruner, HereIsThere
  <2>3. OneOwner'
    BY <1>14 DEF Deregister, Enter, IInv, TypeOK, HereIsThere, OneOwner, Reaches, Course,
      Shutting
  <2>4. Cleared'
    BY <1>14 DEF Deregister, Enter, IInv, TypeOK, Objects, HereIsThere, OneOwner, Cleared,
      Reaches, Course, Shutting
  <2>5. SurrenderIsSilent'
    BY <1>14 DEF Deregister, Enter, IInv, TypeOK, SurrenderIsSilent, Course
  <2>6. \A x \in Adapters : Course(x)'
    BY <1>14 DEF Deregister, Enter, IInv, TypeOK, HereIsThere, OneOwner, SurrenderIsSilent,
      Reaches, Course, Shutting
  <2> QED BY <2>1, <2>2, <2>3, <2>4, <2>5, <2>6 DEF IInv
<1>15. CASE EnsureBound(a)
  <2>1. TypeOK'
    BY <1>15 DEF EnsureBound, NeedsRebind, BoundSocketPresent, Release, Stolen, Look, Go,
      IInv, TypeOK, Objects, Phases, Steps, Pruner, HereIsThere
  <2>2. HereIsThere'
    BY <1>15 DEF EnsureBound, NeedsRebind, BoundSocketPresent, Release, Stolen, Look, Go,
      IInv, TypeOK, Pruner, HereIsThere
  <2>3. OneOwner'
    BY <1>15 DEF EnsureBound, NeedsRebind, BoundSocketPresent, Release, Stolen, Look, Go,
      IInv, TypeOK, HereIsThere, OneOwner, Reaches, Course, Shutting
  <2>4. Cleared'
    BY <1>15 DEF EnsureBound, NeedsRebind, BoundSocketPresent, Release, Stolen, Look, Go,
      IInv, TypeOK, Objects, HereIsThere, OneOwner, Cleared, Reaches, Course, Shutting
  <2>5. SurrenderIsSilent'
    BY <1>15 DEF EnsureBound, NeedsRebind, BoundSocketPresent, Release, Stolen, Look, Go,
      IInv, TypeOK, SurrenderIsSilent, Course
  <2>6. \A x \in Adapters : Course(x)'
    BY <1>15 DEF EnsureBound, NeedsRebind, BoundSocketPresent, Release, Stolen, Look, Go,
      IInv, TypeOK, HereIsThere, OneOwner, SurrenderIsSilent, Reaches, Course, Shutting
  <2> QED BY <2>1, <2>2, <2>3, <2>4, <2>5, <2>6 DEF IInv
<1>16. CASE Heartbeat(a)
  <2>1. TypeOK'
    BY <1>16 DEF Heartbeat, Beats, WriteEntry, NeedsRebind, BoundSocketPresent, Release,
      Stolen, Look, Go, IInv, TypeOK, Objects, Phases, Steps, Pruner, HereIsThere
  <2>2. HereIsThere'
    BY <1>16 DEF Heartbeat, Beats, WriteEntry, NeedsRebind, BoundSocketPresent, Release,
      Stolen, Look, Go, IInv, TypeOK, Pruner, HereIsThere
  <2>3. OneOwner'
    BY <1>16 DEF Heartbeat, Beats, WriteEntry, NeedsRebind, BoundSocketPresent, Release,
      Stolen, Look, Go, IInv, TypeOK, HereIsThere, OneOwner, Reaches, Course, Shutting
  <2>4. Cleared'
    BY <1>16 DEF Heartbeat, Beats, WriteEntry, NeedsRebind, BoundSocketPresent, Release,
      Stolen, Look, Go, IInv, TypeOK, Objects, HereIsThere, OneOwner, Cleared, Reaches,
      Course, Shutting
  <2>5. SurrenderIsSilent'
    BY <1>16 DEF Heartbeat, Beats, WriteEntry, NeedsRebind, BoundSocketPresent, Release,
      Stolen, Look, Go, IInv, TypeOK, SurrenderIsSilent, Course
  <2>6. \A x \in Adapters : Course(x)'
    BY <1>16 DEF Heartbeat, Beats, WriteEntry, NeedsRebind, BoundSocketPresent, Release,
      Stolen, Look, Go, IInv, TypeOK, HereIsThere, OneOwner, SurrenderIsSilent, Reaches,
      Course, Shutting
  <2> QED BY <2>1, <2>2, <2>3, <2>4, <2>5, <2>6 DEF IInv
<1>17. CASE Close(a)
  <2>1. TypeOK'
    BY <1>17 DEF Close, Enter, IInv, TypeOK, Objects, Phases, Steps, Pruner, HereIsThere
  <2>2. HereIsThere'
    BY <1>17 DEF Close, Enter, IInv, TypeOK, Pruner, HereIsThere
  <2>3. OneOwner'
    BY <1>17 DEF Close, Enter, IInv, TypeOK, HereIsThere, OneOwner, Reaches, Course,
      Shutting
  <2>4. Cleared'
    BY <1>17 DEF Close, Enter, IInv, TypeOK, Objects, HereIsThere, OneOwner, Cleared,
      Reaches, Course, Shutting
  <2>5. SurrenderIsSilent'
    BY <1>17 DEF Close, Enter, IInv, TypeOK, SurrenderIsSilent, Course
  <2>6. \A x \in Adapters : Course(x)'
    BY <1>17 DEF Close, Enter, IInv, TypeOK, HereIsThere, OneOwner, SurrenderIsSilent,
      Reaches, Course, Shutting
  <2> QED BY <2>1, <2>2, <2>3, <2>4, <2>5, <2>6 DEF IInv
<1>18. CASE End(a)
  <2>1. TypeOK'
    BY <1>18 DEF End, Enter, Go, IInv, TypeOK, Objects, Phases, Steps, Pruner, HereIsThere
  <2>2. HereIsThere'
    BY <1>18 DEF End, Enter, Go, IInv, TypeOK, Pruner, HereIsThere
  <2>3. OneOwner'
    BY <1>18 DEF End, Enter, Go, IInv, TypeOK, HereIsThere, OneOwner, Reaches, Course,
      Shutting
  <2>4. Cleared'
    BY <1>18 DEF End, Enter, Go, IInv, TypeOK, Objects, HereIsThere, OneOwner, Cleared,
      Reaches, Course, Shutting
  <2>5. SurrenderIsSilent'
    BY <1>18 DEF End, Enter, Go, IInv, TypeOK, SurrenderIsSilent, Course
  <2>6. \A x \in Adapters : Course(x)'
    BY <1>18 DEF End, Enter, Go, IInv, TypeOK, HereIsThere, OneOwner, SurrenderIsSilent,
      Reaches, Course, Shutting
  <2> QED BY <2>1, <2>2, <2>3, <2>4, <2>5, <2>6 DEF IInv
<1> QED BY <1>1, <1>2, <1>3, <1>4, <1>5, <1>6, <1>7, <1>8, <1>9, <1>10, <1>11, <1>12, <1>13,
  <1>14, <1>15, <1>16, <1>17, <1>18 DEF AdapterStep, Proceed

\* So does every step of the others.
LEMMA OthersKeep ==
  ASSUME IInv, ReapRead \/ ReapJudge \/ ReapCheck \/ ReapRemove \/ Meddle
  PROVE  IInv'
<1> USE EndpointConstants
<1>1. CASE ReapRead
  <2>1. TypeOK'
    <3>1. path' \in {"none", "socket", "file"}
      BY <1>1 DEF ReapRead, Prunes, Idle, control, IInv, TypeOK, Objects, Phases, Steps,
        Pruner, HereIsThere
    <3>2. server' \in [Adapters -> Objects] /\ ident' \in [Adapters -> Objects]
      BY <1>1 DEF ReapRead, Prunes, Idle, control, IInv, TypeOK, Objects, Phases, Steps,
        Pruner, HereIsThere
    <3>3. phase' \in [Adapters -> Phases] /\ step' \in [Adapters -> Steps]
      BY <1>1 DEF ReapRead, Prunes, Idle, control, IInv, TypeOK, Objects, Phases, Steps,
        Pruner, HereIsThere
    <3>4. surrendered' \subseteq Adapters /\ mistaken' \subseteq Adapters /\ judged'
      \subseteq Adapters
      BY <1>1 DEF ReapRead, Prunes, Idle, control, IInv, TypeOK, Objects, Phases, Steps,
        Pruner, HereIsThere
    <3>5. listed' \subseteq Adapters /\ beat' \subseteq listed'
      BY <1>1 DEF ReapRead, Prunes, Idle, control, IInv, TypeOK, Objects, Phases, Steps,
        Pruner, HereIsThere
    <3>6. dead' \in BOOLEAN /\ reap' \in Pruner
      <4>1. [at |-> "judge", mark |-> TRUE, seen |-> FALSE] \in Pruner
        BY <1>1 DEF Pruner, IInv, TypeOK
      <4>2. Idle \in Pruner
        BY DEF Idle, Pruner
      <4>3. dead' \in BOOLEAN
        BY <1>1 DEF ReapRead, IInv, TypeOK
      <4>4. reap' \in Pruner
        BY <1>1, <4>1, <4>2 DEF ReapRead, Prunes, IInv, TypeOK
      <4> QED BY <4>3, <4>4
    <3>7. (\E x \in Adapters : server'[x] = Here) \/ beat' # {} \/ dead' \/ reap'.mark =>
      path' = "socket"
      BY <1>1 DEF ReapRead, Prunes, Idle, control, IInv, TypeOK, Objects, Phases, Steps,
        Pruner, HereIsThere
    <3> QED BY <3>1, <3>2, <3>3, <3>4, <3>5, <3>6, <3>7 DEF TypeOK
  <2>2. HereIsThere'
    BY <1>1 DEF ReapRead, Prunes, Idle, control, IInv, TypeOK, Pruner, HereIsThere
  <2>3. OneOwner'
    BY <1>1 DEF ReapRead, Prunes, Idle, control, IInv, TypeOK, HereIsThere, OneOwner,
      Reaches, Course, Shutting
  <2>4. Cleared'
    BY <1>1 DEF ReapRead, Prunes, Idle, control, IInv, TypeOK, Objects, HereIsThere,
      OneOwner, Cleared, Reaches, Course, Shutting
  <2>5. SurrenderIsSilent'
    BY <1>1 DEF ReapRead, Prunes, Idle, control, IInv, TypeOK, SurrenderIsSilent, Course
  <2>6. \A x \in Adapters : Course(x)'
    BY <1>1 DEF ReapRead, Prunes, Idle, control, IInv, TypeOK, HereIsThere, OneOwner,
      SurrenderIsSilent, Reaches, Course, Shutting
  <2> QED BY <2>1, <2>2, <2>3, <2>4, <2>5, <2>6 DEF IInv
<1>2. CASE ReapJudge
  <2>1. TypeOK'
    <3>1. path' \in {"none", "socket", "file"}
      BY <1>2 DEF ReapJudge, Prunes, Idle, control, IInv, TypeOK, Objects, Phases, Steps,
        Pruner, HereIsThere
    <3>2. server' \in [Adapters -> Objects] /\ ident' \in [Adapters -> Objects]
      BY <1>2 DEF ReapJudge, Prunes, Idle, control, IInv, TypeOK, Objects, Phases, Steps,
        Pruner, HereIsThere
    <3>3. phase' \in [Adapters -> Phases] /\ step' \in [Adapters -> Steps]
      BY <1>2 DEF ReapJudge, Prunes, Idle, control, IInv, TypeOK, Objects, Phases, Steps,
        Pruner, HereIsThere
    <3>4. surrendered' \subseteq Adapters /\ mistaken' \subseteq Adapters /\ judged'
      \subseteq Adapters
      BY <1>2 DEF ReapJudge, Prunes, Idle, control, IInv, TypeOK, Objects, Phases, Steps,
        Pruner, HereIsThere
    <3>5. listed' \subseteq Adapters /\ beat' \subseteq listed'
      BY <1>2 DEF ReapJudge, Prunes, Idle, control, IInv, TypeOK, Objects, Phases, Steps,
        Pruner, HereIsThere
    <3>6. dead' \in BOOLEAN /\ reap' \in Pruner
      <4>1. [at |-> "check", mark |-> reap.mark, seen |-> TRUE] \in Pruner
        BY <1>2 DEF Pruner, IInv, TypeOK
      <4>2. Idle \in Pruner
        BY DEF Idle, Pruner
      <4>3. dead' \in BOOLEAN
        BY <1>2 DEF ReapJudge, IInv, TypeOK
      <4>4. reap' \in Pruner
        BY <1>2, <4>1, <4>2 DEF ReapJudge, Prunes, IInv, TypeOK
      <4> QED BY <4>3, <4>4
    <3>7. (\E x \in Adapters : server'[x] = Here) \/ beat' # {} \/ dead' \/ reap'.mark =>
      path' = "socket"
      BY <1>2 DEF ReapJudge, Prunes, Idle, control, IInv, TypeOK, Objects, Phases, Steps,
        Pruner, HereIsThere
    <3> QED BY <3>1, <3>2, <3>3, <3>4, <3>5, <3>6, <3>7 DEF TypeOK
  <2>2. HereIsThere'
    BY <1>2 DEF ReapJudge, Prunes, Idle, control, IInv, TypeOK, Pruner, HereIsThere
  <2>3. OneOwner'
    BY <1>2 DEF ReapJudge, Prunes, Idle, control, IInv, TypeOK, HereIsThere, OneOwner,
      Reaches, Course, Shutting
  <2>4. Cleared'
    BY <1>2 DEF ReapJudge, Prunes, Idle, control, IInv, TypeOK, Objects, HereIsThere,
      OneOwner, Cleared, Reaches, Course, Shutting
  <2>5. SurrenderIsSilent'
    BY <1>2 DEF ReapJudge, Prunes, Idle, control, IInv, TypeOK, SurrenderIsSilent, Course
  <2>6. \A x \in Adapters : Course(x)'
    BY <1>2 DEF ReapJudge, Prunes, Idle, control, IInv, TypeOK, HereIsThere, OneOwner,
      SurrenderIsSilent, Reaches, Course, Shutting
  <2> QED BY <2>1, <2>2, <2>3, <2>4, <2>5, <2>6 DEF IInv
<1>3. CASE ReapCheck
  <2>1. TypeOK'
    <3>1. path' \in {"none", "socket", "file"}
      BY <1>3 DEF ReapCheck, Prunes, Idle, control, IInv, TypeOK, Objects, Phases, Steps,
        Pruner, HereIsThere
    <3>2. server' \in [Adapters -> Objects] /\ ident' \in [Adapters -> Objects]
      BY <1>3 DEF ReapCheck, Prunes, Idle, control, IInv, TypeOK, Objects, Phases, Steps,
        Pruner, HereIsThere
    <3>3. phase' \in [Adapters -> Phases] /\ step' \in [Adapters -> Steps]
      BY <1>3 DEF ReapCheck, Prunes, Idle, control, IInv, TypeOK, Objects, Phases, Steps,
        Pruner, HereIsThere
    <3>4. surrendered' \subseteq Adapters /\ mistaken' \subseteq Adapters /\ judged'
      \subseteq Adapters
      BY <1>3 DEF ReapCheck, Prunes, Idle, control, IInv, TypeOK, Objects, Phases, Steps,
        Pruner, HereIsThere
    <3>5. listed' \subseteq Adapters /\ beat' \subseteq listed'
      BY <1>3 DEF ReapCheck, Prunes, Idle, control, IInv, TypeOK, Objects, Phases, Steps,
        Pruner, HereIsThere
    <3>6. dead' \in BOOLEAN /\ reap' \in Pruner
      <4>1. [at |-> "remove", mark |-> reap.mark, seen |-> reap.seen] \in Pruner
        BY <1>3 DEF Pruner, IInv, TypeOK
      <4>2. Idle \in Pruner
        BY DEF Idle, Pruner
      <4>3. dead' \in BOOLEAN
        BY <1>3 DEF ReapCheck, IInv, TypeOK
      <4>4. reap' \in Pruner
        BY <1>3, <4>1, <4>2 DEF ReapCheck, Prunes, IInv, TypeOK
      <4> QED BY <4>3, <4>4
    <3>7. (\E x \in Adapters : server'[x] = Here) \/ beat' # {} \/ dead' \/ reap'.mark =>
      path' = "socket"
      BY <1>3 DEF ReapCheck, Prunes, Idle, control, IInv, TypeOK, Objects, Phases, Steps,
        Pruner, HereIsThere
    <3> QED BY <3>1, <3>2, <3>3, <3>4, <3>5, <3>6, <3>7 DEF TypeOK
  <2>2. HereIsThere'
    BY <1>3 DEF ReapCheck, Prunes, Idle, control, IInv, TypeOK, Pruner, HereIsThere
  <2>3. OneOwner'
    BY <1>3 DEF ReapCheck, Prunes, Idle, control, IInv, TypeOK, HereIsThere, OneOwner,
      Reaches, Course, Shutting
  <2>4. Cleared'
    BY <1>3 DEF ReapCheck, Prunes, Idle, control, IInv, TypeOK, Objects, HereIsThere,
      OneOwner, Cleared, Reaches, Course, Shutting
  <2>5. SurrenderIsSilent'
    BY <1>3 DEF ReapCheck, Prunes, Idle, control, IInv, TypeOK, SurrenderIsSilent, Course
  <2>6. \A x \in Adapters : Course(x)'
    BY <1>3 DEF ReapCheck, Prunes, Idle, control, IInv, TypeOK, HereIsThere, OneOwner,
      SurrenderIsSilent, Reaches, Course, Shutting
  <2> QED BY <2>1, <2>2, <2>3, <2>4, <2>5, <2>6 DEF IInv
<1>4. CASE ReapRemove
  <2>1. TypeOK'
    BY <1>4 DEF ReapRemove, Left, Idle, control, IInv, TypeOK, Objects, Phases, Steps,
      Pruner, HereIsThere
  <2>2. HereIsThere'
    BY <1>4 DEF ReapRemove, Left, Idle, control, IInv, TypeOK, Pruner, HereIsThere
  <2>3. OneOwner'
    BY <1>4 DEF ReapRemove, Left, Idle, control, IInv, TypeOK, HereIsThere, OneOwner,
      Reaches, Course, Shutting
  <2>4. Cleared'
    BY <1>4 DEF ReapRemove, Left, Idle, control, IInv, TypeOK, Objects, HereIsThere,
      OneOwner, Cleared, Reaches, Course, Shutting
  <2>5. SurrenderIsSilent'
    BY <1>4 DEF ReapRemove, Left, Idle, control, IInv, TypeOK, SurrenderIsSilent, Course
  <2>6. \A x \in Adapters : Course(x)'
    BY <1>4 DEF ReapRemove, Left, Idle, control, IInv, TypeOK, HereIsThere, OneOwner,
      SurrenderIsSilent, Reaches, Course, Shutting
  <2> QED BY <2>1, <2>2, <2>3, <2>4, <2>5, <2>6 DEF IInv
<1>5. CASE Meddle
  <2>0. /\ path' \in {"none", "file"} /\ server' = Left(server) /\ ident' = Left(ident)
        /\ judged' = {} /\ beat' = {} /\ dead' = FALSE
        /\ reap' = [reap EXCEPT !.mark = FALSE, !.seen = FALSE]
        /\ UNCHANGED <<phase, step, surrendered, listed, mistaken>>
    BY <1>5 DEF Meddle, Place, control
  <2>1. TypeOK'
    <3>1. server' \in [Adapters -> Objects] /\ ident' \in [Adapters -> Objects]
      BY <2>0 DEF Left, IInv, TypeOK, Objects
    <3>2. reap' \in Pruner /\ ~reap'.mark
      BY <2>0 DEF IInv, TypeOK, Pruner
    <3>3. \A x \in Adapters : server'[x] # Here
      BY <2>0 DEF Left, IInv, TypeOK, Objects
    <3> QED BY <2>0, <3>1, <3>2, <3>3 DEF IInv, TypeOK
  <2>2. HereIsThere'
    BY <1>5 DEF Meddle, Place, Left, control, IInv, TypeOK, Pruner, HereIsThere
  <2>3. OneOwner'
    BY <1>5 DEF Meddle, Place, Left, control, IInv, TypeOK, HereIsThere, OneOwner, Reaches,
      Course, Shutting
  <2>4. Cleared'
    BY <1>5 DEF Meddle, Place, Left, control, IInv, TypeOK, Objects, HereIsThere, OneOwner,
      Cleared, Reaches, Course, Shutting
  <2>5. SurrenderIsSilent'
    BY <1>5 DEF Meddle, Place, Left, control, IInv, TypeOK, SurrenderIsSilent, Course
  <2>6. \A x \in Adapters : Course(x)'
    BY <1>5 DEF Meddle, Place, Left, control, IInv, TypeOK, HereIsThere, OneOwner,
      SurrenderIsSilent, Reaches, Course, Shutting
  <2> QED BY <2>1, <2>2, <2>3, <2>4, <2>5, <2>6 DEF IInv
<1> QED BY <1>1, <1>2, <1>3, <1>4, <1>5

LEMMA Inductive == IInv /\ [Next]_vars => IInv'
<1> SUFFICES ASSUME IInv, [Next]_vars PROVE IInv'
  OBVIOUS
<1>1. CASE \E a \in Adapters : AdapterStep(a)
  BY <1>1, AdapterKeeps
<1>2. CASE ReapRead \/ ReapJudge \/ ReapCheck \/ ReapRemove \/ Meddle
  BY <1>2, OthersKeep
<1>3. CASE UNCHANGED vars
  BY <1>3 DEF vars, IInv, TypeOK, HereIsThere, OneOwner, Course, Shutting, Cleared,
    SurrenderIsSilent, Reaches
<1> QED BY <1>1, <1>2, <1>3 DEF Next

LEMMA Initial == Init => IInv
<1> SUFFICES ASSUME Init PROVE IInv
  OBVIOUS
<1> USE EndpointConstants DEF Init, Idle
<1>1. TypeOK
  BY DEF TypeOK, Objects, Phases, Steps, Pruner
<1>2. HereIsThere /\ OneOwner /\ Cleared /\ SurrenderIsSilent
  BY DEF HereIsThere, OneOwner, Cleared, SurrenderIsSilent, Reaches
<1>3. \A a \in Adapters : Course(a)
  BY DEF Course, Shutting
<1> QED BY <1>1, <1>2, <1>3 DEF IInv

THEOREM EndpointInvariant == Spec => []IInv
BY Initial, Inductive, PTL DEF Spec

-----------------------------------------------------------------------------
\* The variables keep their types, and nothing that is known to be at the path
\* outlives it.
THEOREM TypeCorrect == Spec => []TypeOK
<1>1. IInv => TypeOK
  BY DEF IInv
<1> QED BY <1>1, EndpointInvariant, PTL

\* boundSocketPresent never strands an adapter: what it takes for bound reaches
\* it, through deletions, replacements, rebinds and crashes of any number of
\* adapters, unless its socket's place was taken between listen and stat.
THEOREM PresenceIsReachability == Spec => []PresentMeansReached
<1>1. IInv => PresentMeansReached
  BY DEF IInv, OneOwner, PresentMeansReached, BoundSocketPresent
<1> QED BY <1>1, EndpointInvariant, PTL

\* close leaves nothing behind, whatever rebind or surrender was under way.
THEOREM CloseIsFinal == Spec => []ClosedIsGone
<1>1. IInv => ClosedIsGone
  BY DEF IInv, Course, ClosedIsGone
<1> QED BY <1>1, EndpointInvariant, PTL

\* A surrender is final: the adapter never listens, binds or is listed again.
THEOREM SurrenderIsFinal == Spec => []SurrenderIsSilent
<1>1. IInv => SurrenderIsSilent
  BY DEF IInv
<1> QED BY <1>1, EndpointInvariant, PTL

\* No step takes from under a live adapter the socket that clearStaleEndpoint,
\* releaseServer or reapEndpoint looked at and judged: what a live adapter loses,
\* it loses to one whose probe of it failed, to a removal whose last look was at
\* something else, to one that had misread its own identity, or to a pruner.
THEOREM OwnersKeepTheirSockets == Spec => LiveSocketKept
<1> USE EndpointConstants
<1> DEFINE Kept == \/ Meddle \/ Reaps
                   \/ \E a \in Adapters : Evicts(a) \/ Overtaken(a) \/ Misreads(a)
                   \/ \A b \in Adapters : Reaches(b) => server'[b] # Gone
<1>1. ASSUME IInv, Next PROVE Kept
  <2>1. ASSUME NEW a \in Adapters, Unlink(a) PROVE Kept
    <3>1. CASE a \in Erring \/ a \notin judged
      BY <2>1, <3>1 DEF Evicts, Overtaken
    <3>2. CASE a \notin Erring /\ a \in judged
      BY <1>1, <2>1, <3>2 DEF Unlink, IInv, Cleared
    <3> QED BY <3>1, <3>2
  <2>2. ASSUME NEW a \in Adapters, Shuts(a) PROVE Kept
    <3>1. CASE a \in mistaken \/ a \notin judged
      BY <2>2, <3>1 DEF Misreads, Overtaken
    <3>2. CASE a \notin mistaken /\ a \in judged
      <4>1. \A b \in Adapters : Reaches(b) => a = b
        BY <1>1, <2>2, <3>2 DEF Shuts, RebindShut, CloseShut, IInv, Cleared, Shutting
      <4>2. server' = [Left(server) EXCEPT ![a] = None]
        BY <2>2 DEF Shuts, RebindShut, CloseShut, Removes
      <4> QED BY <1>1, <4>1, <4>2 DEF Left, IInv, TypeOK
    <3> QED BY <3>1, <3>2
  <2>3. ASSUME ReapRead \/ ReapJudge \/ ReapCheck \/ ReapRemove \/ Meddle PROVE Kept
    BY <1>1, <2>3 DEF ReapRead, ReapJudge, ReapCheck, ReapRemove, Reaps, control, IInv,
      HereIsThere, Reaches
  <2>4. ASSUME NEW a \in Adapters, AdapterStep(a), ~Unlink(a), ~Shuts(a) PROVE Kept
    <3>1. CASE Listen(a)
      BY <1>1, <3>1 DEF Listen, Place, Left, IInv, TypeOK, Reaches
    <3>2. CASE Heartbeat(a) \/ EnsureBound(a) \/ CloseRelease(a)
      BY <1>1, <3>2 DEF Heartbeat, EnsureBound, CloseRelease, Release, WriteEntry, IInv,
        TypeOK, Reaches
    <3>3. CASE End(a)
      BY <1>1, <3>3 DEF End, IInv, TypeOK, Reaches
    <3>4. CASE \/ Start(a) \/ Judge(a) \/ Probe(a) \/ Contended(a) \/ Stale(a)
               \/ Identify(a) \/ Started(a) \/ HeartbeatWrites(a) \/ Deregister(a) \/ Close(a)
      BY <3>4 DEF Start, Judge, Probe, Contended, Stale, Identify, Started,
        HeartbeatWrites, Deregister, Close, Reaches
    <3> QED BY <2>4, <3>1, <3>2, <3>3, <3>4 DEF AdapterStep, Proceed, Shuts
  <2> QED BY <1>1, <2>1, <2>2, <2>3, <2>4 DEF Next
<1>2. IInv /\ [Next]_vars => [Kept]_vars
  BY <1>1
<1> QED BY <1>2, EndpointInvariant, PTL DEF Spec, LiveSocketKept
=============================================================================
