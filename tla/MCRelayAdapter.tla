--------------------------- MODULE MCRelayAdapter ---------------------------
(* Instances of RelayAdapter for TLC: a registered sender, two fabricated   *)
(* ones, and one recipient.  The message far comes from a fabricated sender *)
(* at the end of its hops, so that an agent working on it may dispatch      *)
(* nothing; the message forged comes from the other one.                    *)
EXTENDS RelayAdapter

CONSTANTS sender, fake1, fake2, far, forged

MCSender == [m \in Msgs |-> CASE m = far -> fake1
                               [] m = forged -> fake2
                               [] OTHER -> sender]
MCHops == [m \in Msgs |-> IF m = far THEN MaxHops - 1 ELSE 0]
MCTarget == [r \in Reqs |-> CHOOSE p \in Peers : TRUE]

\* Calls are interchangeable, and so are requests to the same recipient.
Symmetry == Permutations(Calls) \cup Permutations(Reqs)
=============================================================================
