------------------------------ MODULE NameLock ------------------------------
(***************************************************************************)
(* What the registry promises of a name: it is a lock.  A session acquires *)
(* it when no session holds it and keeps it until it gives it up itself,   *)
(* as long as nothing breaks it.                                           *)
(***************************************************************************)
CONSTANT Sessions

VARIABLES
  holders,   \* the sessions that have the name
  broken     \* whether the promise is off

vars == <<holders, broken>>

Init == holders = {} /\ broken = FALSE

Acquire(s) ==
  /\ ~broken /\ holders = {}
  /\ holders' = {s}
  /\ UNCHANGED broken

Release(s) ==
  /\ ~broken /\ holders = {s}
  /\ holders' = {}
  /\ UNCHANGED broken

Break ==
  /\ ~broken
  /\ broken' = TRUE /\ holders' = {}

Next == Break \/ \E s \in Sessions : Acquire(s) \/ Release(s)

Spec == Init /\ [][Next]_vars
=============================================================================
