------------------------------ MODULE Mailbox ------------------------------
(***************************************************************************)
(* What the mailbox of an adapter promises to the agent that awaits it,    *)
(* whatever calls race, time out or are cancelled: requests are worked on  *)
(* one at a time, in the order they were accepted, a call is only ever     *)
(* given the request at the front, and a request stays at the front until  *)
(* it has reached the agent and the agent is done with it.  A host that    *)
(* answers out of turn may withdraw any request, and changes nothing else. *)
(***************************************************************************)
EXTENDS Naturals, Sequences, SequencesExt

CONSTANTS
  Msgs, Calls, None,
  OutOfTurn   \* whether the host answers requests the agent was not given

VARIABLES
  mail,     \* accepted requests the agent is not done with, oldest first
  given,    \* given[c]: the request call c carries to the agent, or None
  seen      \* requests of mail that have reached the agent

vars == <<mail, given, seen>>

Init == mail = <<>> /\ given = [c \in Calls |-> None] /\ seen = {}

Mail == {mail[i] : i \in 1..Len(mail)}

Accept(m) ==
  /\ m \notin Mail
  /\ mail' = Append(mail, m)
  /\ UNCHANGED <<given, seen>>

\* Given again and again, as long as the agent is not done with it.
Give(c) ==
  /\ mail # <<>>
  /\ given' = [given EXCEPT ![c] = Head(mail)]
  /\ UNCHANGED <<mail, seen>>

\* A request the agent has done with through another call is not seen again.
Reach(c) ==
  /\ given[c] # None
  /\ seen' = seen \cup ({given[c]} \cap Mail)
  /\ given' = [given EXCEPT ![c] = None]
  /\ UNCHANGED mail

\* The call is cancelled under way.
Miss(c) ==
  /\ given[c] # None
  /\ given' = [given EXCEPT ![c] = None]
  /\ UNCHANGED <<mail, seen>>

Finish ==
  /\ mail # <<>> /\ Head(mail) \in seen
  /\ mail' = Tail(mail)
  /\ seen' = seen \ {Head(mail)}
  /\ UNCHANGED given

\* The others keep their order, whether or not the agent has seen it.
Withdraw(i) ==
  /\ OutOfTurn
  /\ i \in 1..Len(mail)
  /\ mail' = RemoveAt(mail, i)
  /\ seen' = seen \ {mail[i]}
  /\ UNCHANGED given

Next ==
  \/ \E m \in Msgs : Accept(m)
  \/ \E c \in Calls : Give(c) \/ Reach(c) \/ Miss(c)
  \/ Finish
  \/ \E i \in 1..Len(mail) : Withdraw(i)

Spec == Init /\ [][Next]_vars
=============================================================================
