------------------------------ MODULE Exchange ------------------------------
(***************************************************************************)
(* What two agents promise each other about a request, whatever becomes    *)
(* of their connections.  A request is taken at most once; its sender      *)
(* believes it delivered only if it was taken; it is answered only after   *)
(* that, by whoever took it; and its recipient is done with it only when   *)
(* its sender does not wait for it any more, or has an excuse.             *)
(***************************************************************************)
CONSTANT Reqs

VARIABLES
  ask,         \* the sender: nothing, sending, "open" once confirmed, or answered
  held,        \* requests the recipient has taken and is not done with
  questions,   \* requests on their way
  answers,     \* requests with an answer on its way
  excused      \* requests their recipient lost, or found without a sender

vars == <<ask, held, questions, answers, excused>>

Init ==
  /\ ask = [r \in Reqs |-> "none"]
  /\ held = {} /\ questions = {} /\ answers = {} /\ excused = {}

\* What becomes of r in a step.
Becomes(r, s) == ask'[r] = s
Same(r, S) == r \in S' <=> r \in S
MayFade(r, S) == r \in S' => r \in S

Ask(r) ==
  /\ ask[r] = "none" /\ r \notin held \cup questions \cup answers
  /\ Becomes(r, "sending") /\ r \in questions' /\ r \notin excused'
  /\ Same(r, held) /\ Same(r, answers)

Take(r) ==
  /\ r \in questions \ held
  /\ r \in held' /\ r \notin questions'
  /\ Becomes(r, ask[r]) /\ Same(r, answers) /\ Same(r, excused)

Confirm(r) ==
  /\ ask[r] = "sending" /\ r \in held \cup excused
  /\ Becomes(r, "open")
  /\ Same(r, held) /\ Same(r, questions) /\ Same(r, answers) /\ Same(r, excused)

Reply(r) ==
  /\ r \in held
  /\ r \in answers'
  /\ Becomes(r, ask[r]) /\ Same(r, held) /\ Same(r, questions) /\ Same(r, excused)

\* The answer arrives.
Answer(r) ==
  /\ ask[r] = "open" /\ r \in answers
  /\ Becomes(r, "done") /\ MayFade(r, answers)
  /\ Same(r, held) /\ Same(r, questions) /\ Same(r, excused)

\* The sender is not interested any more.
Drop(r) ==
  /\ ask[r] # "none"
  /\ Becomes(r, "none") /\ MayFade(r, questions) /\ MayFade(r, answers)
  /\ Same(r, held) /\ Same(r, excused)

\* The recipient is done: nobody waits for an answer.
Settle(r) ==
  /\ r \in held /\ ask[r] \notin {"sending", "open"}
  /\ r \notin held' /\ MayFade(r, answers)
  /\ Becomes(r, ask[r]) /\ Same(r, questions) /\ Same(r, excused)

\* The recipient is done without an answer, and has an excuse.
GiveUp(r) ==
  /\ r \in held
  /\ r \notin held' /\ r \in excused' /\ MayFade(r, answers)
  /\ Becomes(r, ask[r]) /\ Same(r, questions)

\* Nothing happens to r, or what is on its way is lost.
Miss(r) ==
  /\ MayFade(r, questions) /\ MayFade(r, answers)
  /\ Becomes(r, ask[r]) /\ Same(r, held) /\ Same(r, excused)

\* One step may be a step of several requests: a crash takes all at once.
Next ==
  /\ DOMAIN ask' = Reqs
  /\ \A r \in Reqs :
       \/ Ask(r) \/ Take(r) \/ Confirm(r) \/ Reply(r) \/ Answer(r)
       \/ Drop(r) \/ Settle(r) \/ GiveUp(r) \/ Miss(r)

Spec == Init /\ [][Next]_vars
=============================================================================
