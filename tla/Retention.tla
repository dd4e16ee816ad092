----------------------------- MODULE Retention -----------------------------
(***************************************************************************)
(* What an adapter promises of the answers it has received: they wait in   *)
(* the order of their arrival, an await is given the oldest one that does  *)
(* not count as read, an answer counts as read from the time it is given   *)
(* until the latest call it was given to is cancelled, and the list gives  *)
(* up an answer that counts as read before one that does not.              *)
(***************************************************************************)
EXTENDS Naturals, Sequences, SequencesExt

CONSTANTS Reqs, Calls, None, MaxRetained

VARIABLES
  answers,   \* requests whose answers are retained, oldest first
  read,      \* answers that count as read
  carried,   \* carried[c]: the answer that call c carries to the agent, or None
  latest,    \* latest[r]: the call that r was given to last, while it carries r
  told       \* answers that have reached the agent

vars == <<answers, read, carried, latest, told>>

Init ==
  /\ answers = <<>> /\ read = {} /\ told = {}
  /\ carried = [c \in Calls |-> None]
  /\ latest = [r \in Reqs |-> None]

Retained == {answers[i] : i \in 1..Len(answers)}

\* i is the place of the first element of s in T.
FirstAt(s, T, i) ==
  i \in 1..Len(s) /\ s[i] \in T /\ \A j \in 1..Len(s) : s[j] \in T => i <= j

\* Nothing is left of the answers of R.
Clear(R) ==
  /\ read' = read \ R /\ told' = told \ R
  /\ carried' = [c \in Calls |-> IF carried[c] \in R THEN None ELSE carried[c]]
  /\ latest' = [r \in Reqs |-> IF r \in R THEN None ELSE latest[r]]

\* A new answer; one too many pushes out the oldest that counts as read, or else
\* the oldest.
Keep(r) ==
  /\ r \notin Retained
  /\ \/ /\ Len(answers) < MaxRetained
        /\ answers' = Append(answers, r)
        /\ UNCHANGED <<read, carried, latest, told>>
     \/ LET s == Append(answers, r)
        IN \E i \in 1..Len(s) :
             /\ Len(s) > MaxRetained
             /\ FirstAt(s, read, i) \/ (i = 1 /\ Retained \cap read = {})
             /\ answers' = RemoveAt(s, i)
             /\ Clear({s[i]})

\* The request is cancelled or expires, or its delivery fails after all.
Drop(i) ==
  /\ i \in 1..Len(answers)
  /\ answers' = RemoveAt(answers, i)
  /\ Clear({answers[i]})

Give(c, r) ==
  /\ carried[c] = None
  /\ carried' = [carried EXCEPT ![c] = r]
  /\ latest' = [latest EXCEPT ![r] = c]
  /\ read' = read \cup {r}
  /\ UNCHANGED <<answers, told>>

\* An await for whatever there is.
GiveOldest(c) == \E i \in 1..Len(answers) : FirstAt(answers, Reqs \ read, i) /\ Give(c, answers[i])

\* An await for r, or a poll.
GiveAsked(c, r) == r \in Retained /\ Give(c, r)

\* The same by a call that is cancelled already.
Skip(r) ==
  /\ r \in Retained
  /\ read' = read \ {r}
  /\ latest' = [latest EXCEPT ![r] = None]
  /\ UNCHANGED <<answers, carried, told>>

\* The call c is over: whoever was the latest to be given its answer is not.
Over(c) ==
  /\ carried[c] # None
  /\ carried' = [carried EXCEPT ![c] = None]
  /\ latest' = [latest EXCEPT ![carried[c]] = IF @ = c THEN None ELSE @]
  /\ UNCHANGED answers

Reach(c) == Over(c) /\ told' = told \cup {carried[c]} /\ UNCHANGED read

Miss(c) ==
  /\ Over(c)
  /\ read' = IF latest[carried[c]] = c THEN read \ {carried[c]} ELSE read
  /\ UNCHANGED told

Next ==
  \/ \E r \in Reqs : Keep(r) \/ Skip(r)
  \/ \E i \in 1..Len(answers) : Drop(i)
  \/ \E c \in Calls : GiveOldest(c) \/ Reach(c) \/ Miss(c)
  \/ \E c \in Calls, r \in Reqs : GiveAsked(c, r)

Spec == Init /\ [][Next]_vars
=============================================================================
