-------------------------- MODULE RegistryHistory --------------------------
(***************************************************************************)
(* RelayRegistry with a history variable, which tells whether a process    *)
(* has ended in the middle of its work, and what the registry promises as  *)
(* long as none has.                                                       *)
(***************************************************************************)
EXTENDS RelayRegistry

VARIABLE crashed

AtRest(s) == phase[s] \in {"off", "closed", "elsewhere"} /\ op[s] = "none"

HInit == Init /\ crashed = FALSE
HNext ==
  /\ Next
  /\ crashed' = (crashed \/ \E s \in Sessions : ~AtRest(s) /\ phase'[s] = "off")
HSpec == HInit /\ [][HNext]_<<vars, crashed>>
HFairSpec == HSpec /\ Fairness

-----------------------------------------------------------------------------
\* As long as no process has crashed, a name is served by one session, however
\* starts, writes, failed binds, closes and restarts interleave: the exclusive
\* reservation and the ownership check suffice (reserveName, writeRegistry).
HolderWhileCalm == ~crashed => NameHasOneHolder

\* A session has the name from its reservation to the end of its close.
HasName(s) == phase[s] \in {"binding", "serving"}
Holders == IF crashed THEN {} ELSE {s \in Sessions : HasName(s)}
Lock == INSTANCE NameLock WITH holders <- Holders, broken <- crashed

\* The name passes from one session to another only when the first has given
\* it up, also while it binds, writes or closes (reserveName, deregister).
ImplementsNameLock == Lock!Spec
=============================================================================
