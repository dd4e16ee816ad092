-------------------------- MODULE WakeTrackerProofs -------------------------
(* Theorems about WakeTracker, for every value of its constants.            *)
EXTENDS WakeTracker, TLAPS

-----------------------------------------------------------------------------
(* Type correctness *)

\* What a refill leaves is never more than an hour's budget.
LEMMA RefilledType ==
  ASSUME TypeOK
  PROVE  Refilled \in 0..(Budget * Hour)
<1>1. Budget \in Nat /\ Hour \in Nat /\ Budget * Hour \in Nat
  BY WakeConstants
<1>2. clock - lastRefill \in Nat /\ tokens \in Nat
  BY <1>1 DEF TypeOK
<1>3. (clock - lastRefill) * Budget \in Nat
  BY <1>1, <1>2
<1> QED
  BY <1>1, <1>2, <1>3 DEF Refilled

LEMMA FireType ==
  ASSUME TypeOK, NEW e \in Episodes, NEW made \in 0..AttemptCap,
         NEW recorded \in Tier1 \cup {None},
         Fire(e, made, recorded)
  PROVE  /\ attempts' \in 0..AttemptCap /\ tokens' \in 0..(Budget * Hour)
         /\ lastRefill' \in 0..clock /\ timer' \in BOOLEAN
         /\ tier1' \in Tier1 \cup {None}
         /\ bridge' \subseteq Episodes /\ windowFired' \in Nat
<1>1. Refilled \in 0..(Budget * Hour)
  BY RefilledType
<1>2. AttemptCap \in Nat /\ Hour \in Nat /\ Budget * Hour \in Nat /\ Hour > 0
  BY WakeConstants
<1>3. clock \in Nat /\ windowFired \in Nat /\ bridge \subseteq Episodes
  BY DEF TypeOK
<1>4. ASSUME GoQuiet(e, recorded)
      PROVE  tier1' \in Tier1 \cup {None} /\ timer' \in BOOLEAN
  BY <1>3, <1>4 DEF GoQuiet, Tier1, AckStates
<1>5. CASE made >= AttemptCap /\ GoQuiet(e, recorded) /\ attempts' = made
           /\ UNCHANGED <<tokens, lastRefill, bridge, windowFired>>
  BY <1>4, <1>5 DEF TypeOK
<1>6. CASE /\ tokens' = Refilled /\ lastRefill' = clock
           /\ GoQuiet(e, recorded) /\ attempts' = made
           /\ UNCHANGED <<bridge, windowFired>>
  BY <1>1, <1>3, <1>4, <1>6 DEF TypeOK
<1>7. CASE /\ made < AttemptCap /\ Refilled >= Hour
           /\ tokens' = Refilled - Hour /\ lastRefill' = clock
           /\ attempts' = made + 1 /\ bridge' = bridge \cup {e}
           /\ windowFired' = windowFired + 1
           /\ tier1' = recorded /\ timer' = TRUE
  BY <1>1, <1>2, <1>3, <1>7
<1> QED
  BY <1>5, <1>6, <1>7 DEF Fire

\* Every variable keeps its type; in particular the budget is never
\* overdrawn and never holds more than an hour's worth (consumeToken), and no
\* episode is announced more than attemptCap times.
THEOREM TypeCorrect == Spec => []TypeOK
<1>1. Init => TypeOK
  <2>1. AttemptCap \in Nat /\ Budget * Hour \in Nat
    BY WakeConstants
  <2> SUFFICES ASSUME Init PROVE TypeOK
    OBVIOUS
  <2>2. timer \in BOOLEAN /\ closed \in BOOLEAN
    BY DEF Init
  <2>3. tokens \in 0..(Budget * Hour)
    BY <2>1 DEF Init
  <2>4. attempts \in 0..AttemptCap /\ lastRefill \in 0..clock /\ windowStart \in 0..clock
    BY <2>1 DEF Init
  <2> QED
    BY <2>2, <2>3, <2>4 DEF Init, TypeOK
<1>2. TypeOK /\ [Next]_vars => TypeOK'
  <2> SUFFICES ASSUME TypeOK, [Next]_vars PROVE TypeOK'
    OBVIOUS
  <2>0. AttemptCap \in Nat /\ MaxUndelivered \in Nat
    BY WakeConstants
  <2>1. ASSUME NEW n \in 0..MaxUndelivered, Update(n) PROVE TypeOK'
    <3>1. n \in Nat /\ undelivered' = n /\ clock' = clock /\ windowStart' = windowStart /\ closed' = closed
      BY <2>0, <2>1 DEF Update
    <3>2. CASE n = 0 /\ EndEpisode
      <4>1. timer' \in BOOLEAN /\ closed' \in BOOLEAN
        BY <3>1, <3>2 DEF EndEpisode, TypeOK
      <4>2. attempts' \in 0..AttemptCap
        BY <2>0, <3>2 DEF EndEpisode
      <4> QED
        BY <3>1, <3>2, <4>1, <4>2 DEF EndEpisode, TypeOK
    <3>3. ASSUME NEW e \in Episodes, episode' = e, Fire(e, 0, None) PROVE TypeOK'
      <4>1. 0 \in 0..AttemptCap /\ None \in Tier1 \cup {None}
        BY <2>0
      <4>2. /\ attempts' \in 0..AttemptCap /\ tokens' \in 0..(Budget * Hour)
            /\ lastRefill' \in 0..clock /\ timer' \in BOOLEAN
            /\ tier1' \in Tier1 \cup {None}
            /\ bridge' \subseteq Episodes /\ windowFired' \in Nat
        BY <3>3, <4>1, FireType
      <4> QED
        BY <3>1, <3>3, <4>2 DEF TypeOK
    <3>4. CASE UNCHANGED <<episode, attempts, tokens, lastRefill, timer, tier1, bridge, windowFired>>
      BY <3>1, <3>4 DEF TypeOK
    <3> QED
      BY <2>1, <3>2, <3>3, <3>4 DEF Update
  <2>2. CASE TimerFires
    <3>1. CASE episode = None \/ undelivered = 0
      BY <2>2, <3>1 DEF TimerFires, TypeOK
    <3>2. CASE ~(episode = None \/ undelivered = 0)
      <4>1. Fire(episode, attempts, tier1) /\ UNCHANGED <<clock, undelivered, episode, closed, windowStart>>
        BY <2>2, <3>2 DEF TimerFires
      <4>2. episode \in Episodes /\ attempts \in 0..AttemptCap /\ tier1 \in Tier1 \cup {None}
        BY <3>2 DEF TypeOK
      <4>3. /\ attempts' \in 0..AttemptCap /\ tokens' \in 0..(Budget * Hour)
            /\ lastRefill' \in 0..clock /\ timer' \in BOOLEAN
            /\ tier1' \in Tier1 \cup {None}
            /\ bridge' \subseteq Episodes /\ windowFired' \in Nat
        BY <4>1, <4>2, FireType
      <4> QED
        BY <4>1, <4>3 DEF TypeOK
    <3> QED
      BY <3>1, <3>2
  <2>3. ASSUME NEW id \in bridge, NEW state \in AckStates, Ack(id, state) PROVE TypeOK'
    <3>1. id \in Episodes
      BY <2>3 DEF Ack, TypeOK
    <3>2. tier1' \in Tier1
      BY <2>3, <3>1 DEF Ack, Tier1
    <3> QED
      BY <2>3, <3>2 DEF Ack, TypeOK
  <2>4. CASE Snapshot \/ \E id \in bridge : HostForgets(id)
    <3>1. bridge' \subseteq Episodes
      BY <2>4 DEF Snapshot, HostForgets, TypeOK
    <3> QED
      BY <2>4, <3>1 DEF Snapshot, HostForgets, TypeOK
  <2>5. CASE Close
    BY <2>5 DEF Close, TypeOK
  <2>6. CASE Tick
    BY <2>6 DEF Tick, TypeOK
  <2>7. CASE OpenWindow
    BY <2>7 DEF OpenWindow, TypeOK
  <2>8. CASE UNCHANGED vars
    BY <2>8 DEF vars, TypeOK
  <2> QED
    BY <2>1, <2>2, <2>3, <2>4, <2>5, <2>6, <2>7, <2>8 DEF Next
<1> QED
  BY <1>1, <1>2, PTL DEF Spec

-----------------------------------------------------------------------------
(* The budget *)

\* Once a wake was sent in the window, what was sent and what is left were
\* together paid for by an hour's budget and the refills since it opened.
BudgetInv ==
  windowFired = 0 \/
    /\ windowStart <= lastRefill
    /\ windowFired * Hour + tokens <= Budget * Hour + Budget * (lastRefill - windowStart)

LEMMA RefilledBounds ==
  ASSUME TypeOK
  PROVE  /\ Refilled <= Budget * Hour
         /\ Refilled <= tokens + Budget * (clock - lastRefill)
<1>1. /\ Budget \in Nat /\ Hour \in Nat /\ Budget * Hour \in Nat
      /\ tokens \in Nat /\ clock - lastRefill \in Nat
  BY WakeConstants DEF TypeOK
<1>2. (clock - lastRefill) * Budget = Budget * (clock - lastRefill)
  BY <1>1
<1>3. (clock - lastRefill) * Budget \in Nat
  BY <1>1
<1> QED
  BY <1>1, <1>2, <1>3 DEF Refilled

\* A refill up to the present clock preserves the accounting, and so does a
\* wake that is paid for out of it.
LEMMA FireBudget ==
  ASSUME TypeOK, BudgetInv, NEW e, NEW made, NEW recorded,
         Fire(e, made, recorded), windowStart' = windowStart
  PROVE  BudgetInv'
<1> DEFINE BH == Budget * Hour
           Since == Budget * (lastRefill - windowStart)
           Until == Budget * (clock - lastRefill)
           Spent == windowFired * Hour
<1>1. /\ Budget \in Nat /\ Hour \in Nat /\ clock \in Nat /\ windowFired \in Nat
      /\ windowStart \in 0..clock /\ lastRefill \in 0..clock /\ tokens \in Nat
  BY WakeConstants DEF TypeOK
<1>2. BH \in Nat /\ Spent \in Nat /\ Until \in Nat /\ Since \in Int
  BY <1>1
<1>3. Refilled <= BH /\ Refilled <= tokens + Until /\ Refilled \in Int
  BY RefilledBounds, RefilledType
<1>4. Budget * (clock - windowStart) = Since + Until
  BY <1>1
<1>5. Budget * (clock - windowStart) \in Nat
  BY <1>1
<1>6. (windowFired + 1) * Hour = Spent + Hour
  BY <1>1
<1>7. CASE UNCHANGED <<tokens, lastRefill, windowFired>>
  BY <1>7 DEF BudgetInv
<1>8. CASE tokens' = Refilled /\ lastRefill' = clock /\ windowFired' = windowFired
  <2>1. CASE windowFired = 0
    BY <1>8, <2>1 DEF BudgetInv
  <2>2. CASE windowFired # 0
    <3>1. Spent + tokens <= BH + Since
      BY <2>2 DEF BudgetInv
    <3>2. Spent + Refilled <= BH + (Since + Until)
      BY <1>1, <1>2, <1>3, <3>1
    <3>3. windowFired' * Hour + tokens' <= Budget * Hour + Budget * (lastRefill' - windowStart')
      BY <1>4, <1>8, <3>2
    <3>4. windowStart' <= lastRefill'
      BY <1>1, <1>8
    <3> QED
      BY <3>3, <3>4 DEF BudgetInv
  <2> QED
    BY <2>1, <2>2
<1>9. CASE tokens' = Refilled - Hour /\ lastRefill' = clock /\ windowFired' = windowFired + 1
  <2>1. Spent + Refilled <= BH + (Since + Until)
    <3>1. CASE windowFired = 0
      <4>1. Spent = 0
        BY <1>1, <3>1
      <4> QED
        BY <1>2, <1>3, <1>4, <1>5, <4>1
    <3>2. CASE windowFired # 0
      <4>1. Spent + tokens <= BH + Since
        BY <3>2 DEF BudgetInv
      <4> QED
        BY <1>1, <1>2, <1>3, <4>1
    <3> QED
      BY <3>1, <3>2
  <2>2. (Spent + Hour) + (Refilled - Hour) <= BH + (Since + Until)
    BY <1>1, <1>2, <1>3, <2>1
  <2>3. windowFired' * Hour + tokens' <= Budget * Hour + Budget * (lastRefill' - windowStart')
    BY <1>4, <1>6, <1>9, <2>2
  <2>4. windowStart' <= lastRefill'
    BY <1>1, <1>9
  <2> QED
    BY <2>3, <2>4 DEF BudgetInv
<1> QED
  BY <1>7, <1>8, <1>9 DEF Fire

\* The budget spans episodes: however work drains and refills, the wakes sent
\* in any stretch of time are at most an hour's budget and what the stretch
\* refills (update, fire, consumeToken).
THEOREM BudgetCorrect == Spec => []BudgetHolds
<1>1. Init => BudgetInv
  BY DEF Init, BudgetInv
<1>2. TypeOK /\ BudgetInv /\ [Next]_vars => BudgetInv'
  <2> SUFFICES ASSUME TypeOK, BudgetInv, [Next]_vars PROVE BudgetInv'
    OBVIOUS
  <2>1. ASSUME NEW n \in 0..MaxUndelivered, Update(n) PROVE BudgetInv'
    <3>1. CASE n > 0 /\ episode = None
      <4>1. PICK e \in Episodes \ bridge : Fire(e, 0, None)
        BY <2>1, <3>1 DEF Update, EndEpisode
      <4> QED
        BY <2>1, <4>1, FireBudget DEF Update
    <3>2. CASE ~(n > 0 /\ episode = None)
      BY <2>1, <3>2 DEF Update, EndEpisode, BudgetInv
    <3> QED
      BY <3>1, <3>2
  <2>2. CASE TimerFires
    <3>1. CASE episode = None \/ undelivered = 0
      BY <2>2, <3>1 DEF TimerFires, BudgetInv
    <3>2. CASE Fire(episode, attempts, tier1)
      BY <2>2, <3>2, FireBudget DEF TimerFires
    <3> QED
      BY <2>2, <3>1, <3>2 DEF TimerFires
  <2>3. CASE UNCHANGED <<tokens, lastRefill, windowStart, windowFired>>
    BY <2>3 DEF BudgetInv
  <2>4. CASE OpenWindow
    BY <2>4 DEF OpenWindow, BudgetInv
  <2> QED
    BY <2>1, <2>2, <2>3, <2>4 DEF Next, Ack, Snapshot, HostForgets, Close, Tick, vars
<1>3. TypeOK /\ BudgetInv => BudgetHolds
  <2> SUFFICES ASSUME TypeOK, BudgetInv PROVE BudgetHolds
    OBVIOUS
  <2>1. /\ Budget \in Nat /\ Hour \in Nat /\ clock \in Nat /\ windowFired \in Nat
        /\ windowStart \in 0..clock /\ lastRefill \in 0..clock /\ tokens \in Nat
    BY WakeConstants DEF TypeOK
  <2>2. Budget * (Hour + (clock - windowStart)) = Budget * Hour + Budget * (clock - windowStart)
    BY <2>1
  <2>3. Budget * (clock - windowStart) \in Nat /\ Budget * Hour \in Nat
    BY <2>1
  <2>4. CASE windowFired = 0
    BY <2>1, <2>2, <2>3, <2>4 DEF BudgetHolds
  <2>5. CASE windowFired # 0
    <3>1. windowFired * Hour + tokens <= Budget * Hour + Budget * (lastRefill - windowStart)
      BY <2>5 DEF BudgetInv
    <3>2. Budget * (clock - windowStart)
            = Budget * (lastRefill - windowStart) + Budget * (clock - lastRefill)
      BY <2>1
    <3>3. Budget * (clock - lastRefill) \in Nat /\ Budget * (lastRefill - windowStart) \in Int
      BY <2>1
    <3>4. windowFired * Hour \in Nat
      BY <2>1
    <3> QED
      BY <2>1, <2>2, <2>3, <3>1, <3>2, <3>3, <3>4 DEF BudgetHolds
  <2> QED
    BY <2>4, <2>5
<1> QED
  BY <1>1, <1>2, <1>3, TypeCorrect, PTL DEF Spec

-----------------------------------------------------------------------------
(* Episodes *)

\* What holds of an episode, its timer and its tier-1 state taken together:
\* none of the three is inductive without the others.
EpisodeInv == EpisodeSpansWork /\ TierMatchesEpisode /\ QuietIsMarked

LEMMA FireEpisode ==
  ASSUME TypeOK, NEW e \in Episodes, NEW made,
         NEW recorded \in Tier1 \cup {None},
         recorded # None => recorded.for = e,
         Fire(e, made, recorded)
  PROVE  /\ tier1' # None => tier1'.for = e
         /\ timer' \/ tier1' # None
<1>1. ASSUME GoQuiet(e, recorded)
      PROVE  (tier1' # None => tier1'.for = e) /\ tier1' # None
  <2>1. CASE recorded # None /\ recorded.state = "dropped"
    BY <1>1, <2>1 DEF GoQuiet
  <2>2. CASE ~(recorded # None /\ recorded.state = "dropped")
    <3>1. tier1' = [state |-> "exhausted", for |-> e]
      BY <1>1, <2>2 DEF GoQuiet
    <3>2. tier1' \in Tier1
      BY <3>1 DEF Tier1, AckStates, TypeOK
    <3> QED
      BY <3>1, <3>2, WakeConstants
  <2> QED
    BY <2>1, <2>2
<1>2. CASE tier1' = recorded /\ timer' = TRUE
  BY <1>2
<1> QED
  BY <1>1, <1>2 DEF Fire

\* Episodes, re-fires and tier-1 states stay together: an episode spans one
\* stretch of undelivered work and only a running one re-fires; the state on
\* show belongs to the episode on show; and an episode that fell quiet shows
\* one (update, ack, endEpisode, fire, goQuiet).
THEOREM EpisodesCorrect ==
  Spec => [](EpisodeSpansWork /\ TierMatchesEpisode /\ QuietIsMarked)
<1>1. Init => EpisodeInv
  BY DEF Init, EpisodeInv, EpisodeSpansWork, TierMatchesEpisode, QuietIsMarked
<1>2. TypeOK /\ EpisodeInv /\ [Next]_vars => EpisodeInv'
  <2> SUFFICES ASSUME TypeOK, EpisodeInv, [Next]_vars PROVE EpisodeInv'
    OBVIOUS
  <2> USE DEF EpisodeInv, EpisodeSpansWork, TierMatchesEpisode, QuietIsMarked
  <2>1. ASSUME NEW n \in 0..MaxUndelivered, Update(n) PROVE EpisodeInv'
    <3>1. n \in Nat /\ undelivered' = n /\ closed' = closed /\ undelivered \in Nat
      BY <2>1, WakeConstants DEF Update, TypeOK
    <3>2. CASE n = 0 /\ EndEpisode
      BY <3>1, <3>2 DEF EndEpisode
    <3>3. ASSUME n > 0, NEW e \in Episodes, episode' = e, Fire(e, 0, None)
          PROVE  EpisodeInv'
      <4>1. (tier1' # None => tier1'.for = e) /\ (timer' \/ tier1' # None)
        BY <3>3, FireEpisode
      <4>2. e # None
        BY WakeConstants
      <4> QED
        BY <3>1, <3>3, <4>1, <4>2
    <3>4. CASE n > 0 /\ episode # None /\ UNCHANGED <<episode, timer, tier1>>
      BY <3>1, <3>4
    <3> QED
      BY <2>1, <3>2, <3>3, <3>4 DEF Update
  <2>2. CASE TimerFires
    <3>1. episode # None /\ ~(undelivered = 0)
      BY <2>2 DEF TimerFires, TypeOK
    <3>2. Fire(episode, attempts, tier1) /\ UNCHANGED <<undelivered, episode, closed>>
      BY <2>2, <3>1 DEF TimerFires
    <3>3. episode \in Episodes /\ tier1 \in Tier1 \cup {None}
      BY <3>1 DEF TypeOK
    <3>4. (tier1' # None => tier1'.for = episode) /\ (timer' \/ tier1' # None)
      BY <3>2, <3>3, FireEpisode
    <3> QED
      BY <3>1, <3>2, <3>4
  <2>3. ASSUME NEW id \in bridge, NEW state \in AckStates, Ack(id, state) PROVE EpisodeInv'
    <3>1. id = episode /\ episode \in Episodes
      BY <2>3 DEF Ack, Acknowledge, TypeOK
    <3>2. tier1' \in Tier1 /\ tier1'.for = episode
      BY <2>3, <3>1 DEF Ack, Tier1
    <3>3. tier1' # None
      BY <3>2, WakeConstants
    <3> QED
      BY <2>3, <3>2, <3>3 DEF Ack
  <2>4. CASE Close
    BY <2>4 DEF Close
  <2>5. CASE UNCHANGED <<undelivered, episode, timer, tier1, closed>>
    BY <2>5
  <2> QED
    BY <2>1, <2>2, <2>3, <2>4, <2>5 DEF Next, Snapshot, HostForgets, Tick, OpenWindow, vars
<1> QED
  BY <1>1, <1>2, TypeCorrect, PTL DEF Spec, EpisodeInv

\* No late acknowledgement shows on a newer episode (ack, goQuiet).
THEOREM TiersMatch == Spec => []TierMatchesEpisode
BY EpisodesCorrect, PTL
=============================================================================
