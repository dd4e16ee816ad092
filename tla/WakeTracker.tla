----------------------------- MODULE WakeTracker ----------------------------
(***************************************************************************)
(* The wake tracker of one adapter (src/src/relayWakeTracker.ts): the      *)
(* episodes in which undelivered work is announced to the host, the cap on *)
(* the attempts of an episode, and the token budget that spans episodes.   *)
(*                                                                         *)
(* Tokens are counted in units of 1/Hour, so that the refill of            *)
(* consumeToken is exact.  The clock never runs backwards here.            *)
(***************************************************************************)
EXTENDS Integers

CONSTANTS
  Episodes,        \* episode ids (recycled once the tracker and the host have dropped them)
  AttemptCap,      \* attemptCap
  Budget,          \* budgetPerHour
  Hour,            \* HOUR_MS, in clock units
  MaxUndelivered,  \* bound on the counts update is called with
  MaxTime,         \* bound on the clock
  None

AckStates == {"armed", "held", "emitted", "retrying", "exhausted", "dropped"}

Tier1 == [state : AckStates, for : Episodes]

ASSUME WakeConstants ==
  /\ AttemptCap \in Nat /\ Budget \in Nat /\ Hour \in Nat \ {0}
  /\ MaxUndelivered \in Nat /\ MaxTime \in Nat
  /\ None \notin Episodes \cup Tier1

VARIABLES
  clock,        \* the clock, in units of which Hour make an hour
  undelivered,  \* the count of the last update
  episode,      \* episodeId
  attempts,     \* wakes of this episode
  tokens,       \* the budget left, Hour units to a wake
  lastRefill,   \* when the budget was last refilled
  timer,        \* whether a re-fire is scheduled
  tier1,        \* the recorded state: what, and for which episode
  closed,       \* history: close has been called
  bridge,       \* the episode ids the host learnt, from a wake or a snapshot, and may report on
  windowStart,  \* history: an observer's window opened then, and so many wakes
  windowFired   \* have been sent since

vars == <<clock, undelivered, episode, attempts, tokens, lastRefill, timer,
          tier1, closed, bridge, windowStart, windowFired>>

TypeOK ==
  /\ clock \in Nat /\ undelivered \in Nat
  /\ episode \in Episodes \cup {None} /\ bridge \subseteq Episodes
  /\ attempts \in 0..AttemptCap
  /\ tokens \in 0..(Budget * Hour)
  /\ lastRefill \in 0..clock /\ windowStart \in 0..clock
  /\ timer \in BOOLEAN /\ closed \in BOOLEAN
  /\ tier1 \in Tier1 \cup {None}
  /\ windowFired \in Nat

Init ==
  /\ clock = 0 /\ undelivered = 0 /\ episode = None /\ attempts = 0
  /\ tokens = Budget * Hour /\ lastRefill = 0 /\ timer = FALSE
  /\ tier1 = None /\ bridge = {} /\ closed = FALSE
  /\ windowStart = 0 /\ windowFired = 0

-----------------------------------------------------------------------------
\* Fault: the refill is not capped at one hour's budget.
Refilled_Uncapped == tokens + (clock - lastRefill) * Budget

\* consumeToken: the budget refilled at its hourly rate, up to an hour's worth.
Refilled ==
  LET topped == tokens + (clock - lastRefill) * Budget
  IN IF topped < Budget * Hour THEN topped ELSE Budget * Hour

\* Fault: a spent episode leaves no trace of having stopped.
GoQuiet_Silent(e, recorded) == tier1' = recorded /\ timer' = FALSE

\* Fault: a spent episode keeps its timer, to try again when the budget refills.
GoQuiet_TriesAgain(e, recorded) ==
  /\ tier1' = IF recorded # None /\ recorded.state = "dropped" THEN recorded
              ELSE [state |-> "exhausted", for |-> e]
  /\ timer' = TRUE

\* goQuiet: the episode stops re-firing and says so, unless it was dropped.
GoQuiet(e, recorded) ==
  /\ tier1' = IF recorded # None /\ recorded.state = "dropped" THEN recorded
              ELSE [state |-> "exhausted", for |-> e]
  /\ timer' = FALSE

\* Fault: the first wake of an episode is free.
Fire_FreshBudget(e, made, recorded) ==
  \/ /\ made >= AttemptCap \/ (made > 0 /\ Refilled < Hour)
     /\ GoQuiet(e, recorded)
     /\ attempts' = made
     /\ UNCHANGED <<tokens, lastRefill, bridge, windowFired>>
  \/ /\ made < AttemptCap /\ (made = 0 \/ Refilled >= Hour)
     /\ tokens' = IF made = 0 THEN Refilled ELSE Refilled - Hour
     /\ lastRefill' = clock /\ attempts' = made + 1
     /\ bridge' = bridge \cup {e} /\ windowFired' = windowFired + 1
     /\ tier1' = recorded /\ timer' = TRUE

\* fire: a wake of episode e after made attempts, with the tier-1 state
\* recorded, if the cap and the budget allow one; otherwise goQuiet.
Fire(e, made, recorded) ==
  \/ /\ made >= AttemptCap
     /\ GoQuiet(e, recorded)
     /\ attempts' = made
     /\ UNCHANGED <<tokens, lastRefill, bridge, windowFired>>
  \/ /\ made < AttemptCap /\ Refilled < Hour
     /\ tokens' = Refilled /\ lastRefill' = clock
     /\ GoQuiet(e, recorded)
     /\ attempts' = made
     /\ UNCHANGED <<bridge, windowFired>>
  \/ /\ made < AttemptCap /\ Refilled >= Hour
     /\ tokens' = Refilled - Hour /\ lastRefill' = clock
     /\ attempts' = made + 1
     /\ bridge' = bridge \cup {e} /\ windowFired' = windowFired + 1
     /\ tier1' = recorded /\ timer' = TRUE

\* Fault: the re-fire of a drained episode stays scheduled.
EndEpisode_TimerKept ==
  /\ episode' = None /\ attempts' = 0 /\ tier1' = None
  /\ UNCHANGED <<timer, tokens, lastRefill, bridge, windowFired>>

EndEpisode ==
  /\ episode' = None /\ attempts' = 0 /\ tier1' = None /\ timer' = FALSE
  /\ UNCHANGED <<tokens, lastRefill, bridge, windowFired>>

\* update: no work ends the episode, the first work starts one, with a fresh
\* id, and fires it; anything between changes only the count.
Update(n) ==
  /\ undelivered' = n
  /\ \/ n = 0 /\ EndEpisode
     \/ /\ n > 0 /\ episode = None
        /\ \E e \in Episodes \ bridge : episode' = e /\ Fire(e, 0, None)
     \/ /\ n > 0 /\ episode # None
        /\ UNCHANGED <<episode, attempts, tokens, lastRefill, timer, tier1, bridge, windowFired>>
  /\ UNCHANGED <<clock, closed, windowStart>>

\* The grace period after a wake ends.
TimerFires ==
  /\ timer
  /\ IF episode = None \/ undelivered = 0
       THEN timer' = FALSE /\ UNCHANGED <<attempts, tokens, lastRefill, tier1, bridge, windowFired>>
       ELSE Fire(episode, attempts, tier1)
  /\ UNCHANGED <<clock, undelivered, episode, closed, windowStart>>

\* Fault: an ack is taken for whatever episode is current.
Acknowledge_AnyEpisode(id) == episode # None

\* ack accepts only the id of the episode that is current.
Acknowledge(id) == episode # None /\ id = episode

\* ack: the host reports what it did about an episode it heard of, perhaps long
\* ago.  The lease it is granted is left out: the report and its time determine
\* it, and the tracker never reads it.
Ack(id, state) ==
  /\ id \in bridge
  /\ Acknowledge(id)
  /\ tier1' = [state |-> state, for |-> id]
  /\ UNCHANGED <<clock, undelivered, episode, attempts, tokens, lastRefill, timer,
                 closed, bridge, windowStart, windowFired>>

\* snapshot, read by the host through relay/wake-state.
Snapshot ==
  /\ bridge' = bridge \cup ({episode} \cap Episodes)
  /\ UNCHANGED <<clock, undelivered, episode, attempts, tokens, lastRefill, timer,
                 tier1, closed, windowStart, windowFired>>

\* The host is done with an episode: it reports on it no more.
HostForgets(id) ==
  /\ id \in bridge /\ bridge' = bridge \ {id}
  /\ UNCHANGED <<clock, undelivered, episode, attempts, tokens, lastRefill, timer,
                 tier1, closed, windowStart, windowFired>>

\* close: nothing more is scheduled, though a late update still counts.
Close ==
  /\ timer' = FALSE /\ closed' = TRUE
  /\ UNCHANGED <<clock, undelivered, episode, attempts, tokens, lastRefill, tier1,
                 bridge, windowStart, windowFired>>

\* Time passes (Date.now).
Tick ==
  /\ clock < MaxTime
  /\ clock' = clock + 1
  /\ UNCHANGED <<undelivered, episode, attempts, tokens, lastRefill, timer, tier1,
                 closed, bridge, windowStart, windowFired>>

\* An observer starts counting wakes now.
OpenWindow ==
  /\ windowStart' = clock /\ windowFired' = 0
  /\ UNCHANGED <<clock, undelivered, episode, attempts, tokens, lastRefill, timer,
                 tier1, closed, bridge>>

Next ==
  \/ \E n \in 0..MaxUndelivered : Update(n)
  \/ TimerFires
  \/ \E id \in bridge, state \in AckStates : Ack(id, state)
  \/ \E id \in bridge : HostForgets(id)
  \/ Snapshot \/ Close \/ Tick \/ OpenWindow

Spec == Init /\ [][Next]_vars

\* The timer is an interval timer of the event loop: it fires.
TimerSpec == Spec /\ WF_vars(TimerFires)

-----------------------------------------------------------------------------
\* The budget spans episodes: in any stretch of time the wakes sent are at
\* most an hour's budget plus what the stretch refills, however the work
\* drains and refills (consumeToken; a fresh episode never resets tokens).
BudgetHolds == windowFired * Hour <= Budget * (Hour + (clock - windowStart))

\* An episode spans one stretch of undelivered work, and only a running one
\* has a re-fire scheduled.
EpisodeSpansWork ==
  /\ episode # None <=> undelivered > 0
  /\ timer => episode # None

\* An episode that will not be announced again shows a tier-1 state, so the
\* host can see it stalled instead of waiting for a wake that never comes.
QuietIsMarked == episode # None /\ ~timer /\ ~closed => tier1 # None

\* The tier-1 state on show was acknowledged for, or recorded by, the episode
\* on show: a late host cannot revive state for work that drained.
TierMatchesEpisode == tier1 # None => tier1.for = episode

\* Nudges stop: an episode is drained or falls quiet.
NudgesStop == \A e \in Episodes : episode = e /\ timer ~> (episode # e \/ ~timer)
=============================================================================
