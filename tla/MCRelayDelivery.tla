-------------------------- MODULE MCRelayDelivery --------------------------
(* One agent asks, another answers: requests that compete for one slot. *)
EXTENDS RelayDelivery

CONSTANTS asker, worker

MCFrom == [r \in Reqs |-> asker]
MCTo == [r \in Reqs |-> worker]
=============================================================================
