# modula-relay in TLA+

A TLA+ development of [modula-relay](../src/README.md), the peer-to-peer relay
through which coding agents send each other requests and answers. Agents on one
machine each run a relay server (an MCP server); servers find each other through
registry files and exchange one JSON line each way over a local socket.

The modules are translated from the TypeScript source. TLC checks them on small
instances, TLAPS proves some of their properties for every value of the
constants, and `PROJECT.json` ties each definition to the lines it stands for,
each run to the properties it checks, and each property to a plausible bug in
the code that would break it.

## 1. The system

| Component | Source | State | Operations |
| --- | --- | --- | --- |
| Mailbox, inbound | `src/relayAdapter.ts` | `inbound`, `inboundQueue`, `deliveringInbound`, `activeInbound`, `activeUnseen`, `handSeq`, `inboundWaiter`, `awaitingInbound` | `receivePrompt`, `awaitInbound`, `handInbound`, `reclaimInbound`, `respond`, `abandonInbound`, `forgetInbound`, `senderQuotaReached` |
| Mailbox, outbound | `src/relayAdapter.ts` | `pending`, `outbound`, `completed`, `observed`, `replyReads`, `reclaimListeners`, expiry timers | `send`, `receiveResponse`, `get`, `awaitReply`, `takeCompletedReply`, `markReplyRead`, `armReclaimAt`, `cancel`, `armExpiry`, `forgetPending` |
| Relay server | `src/relayServer.ts` | one abort signal per tool call | `relay_dispatch`, `relay_await`, `relay_poll`, `relay_reply`, `relay_cancel`, `relay_roster`; `classifySeen`; the host notifications `relay/wake-state`, ack |
| Wake tracker | `src/relayWakeTracker.ts` | count, episode id, attempts, token budget, re-fire timer, tier-1 state | `update`, `fire`, `ack`, `snapshot`, `close` |
| Registry and names | `src/relayAdapter.ts`, `src/relayWire.ts` | one file per agent: empty while a name is reserved, then a JSON entry | `reserveName`, `writeRegistry`, `deregister`, `loseOwnership`, `pruneDeadEntries`, `reclaimInvalidRegistryFile` |
| Endpoint | `src/relayAdapter.ts`, `src/relayEndpoint.ts` | the bound socket and its identity | `bind`, `clearStaleEndpoint`, `ensureBound`, `releaseServer`, `close` |
| Transport | `src/relayTransport.ts` | a connection, a deadline | `withTimeout`, `sendEnvelope`, `readLine` |
| Wire | `src/relayWire.ts` | none | `parseEnvelope`, `parseTransportReply`, registry entry parsing |
| Credential | `src/agentTurnProtocol.ts` | one key file per state directory, a temporary file per process | `initSessionCredentialKey`, `clearSessionCredentialKey`; HMAC |
| Context usage | `src/contextUsage.ts` | none | freshness of the published usage |
| Wake hosts | `examples/*.sh` | none of their own | read the registry entry and nudge the agent |
| Setup, CLI, logger, contract | `src/cli.ts`, `src/setup.ts`, `src/host.ts`, `src/relayContract.ts` | client configuration files | sequential input and output |

How they interact. A tool call of the relay server calls the mailbox and may
wait there; a socket line from another adapter calls `receivePrompt` or
`receiveResponse`, which may resolve such a wait. Every change of the
undelivered count calls the wake tracker, whose callback sends the host a wake;
the host acknowledges by notification. The adapter publishes its name, socket
and tier-1 state in the registry, from which other adapters resolve recipients
and senders' sessions.

What is hard about it. The process is a single event loop, but a tool call
spans several turns of it: between a promise's resolution and its continuation,
and between the result of a call and its publication to the client, prompts
arrive, timers fire, other calls run and the client cancels. What was taken off
the queue for a call the client has given up on must come back, exactly once.
Across processes there is no lock at all: files and sockets are checked, then
acted on; the two ends of a connection give up at different times.
`PROJECT.json` lists these hazards one by one, at their lines.

What makes each part correct.

- Inbound: an accepted request is never lost, duplicated or stuck behind a
  cancelled call; a parked await never sleeps through work; one sender cannot
  fill the mailbox.
- Outbound: a recipient's slot is held by exactly its open request and is
  freed on every path; an answer is retained until it expires, and counts as
  read only if an agent saw it or still may.
- Wake tracker: wakes are bounded per episode and per hour, an episode is one
  stretch of undelivered work, and an episode that stops nudging is visible.
- Registry: a name has one live owner; a loser notices; a live owner is listed;
  nothing that was never finished holds a name for ever.
- Endpoint: no adapter unlinks a socket that it saw another one listen on (what
  came after it looked is not protected: a finding); an adapter that believes it
  is bound is reached, unless it misread its own identity; a close and a
  surrender are final; an owner whose endpoint was taken binds again or
  surrenders.
- Delivery: a request that its recipient has accepted is held there until it is
  answered, refused or its sender is gone, and no longer; no late failure of a
  delivery takes an answer with it; it is accepted once, and a sender that takes
  it for delivered is right.
- Credential: servers of one state directory end with the same key, and a
  restart does not change it.

## 2. Modules

| Module | Role |
| --- | --- |
| `RelayInbound` | State and private methods of the receiving half, as operators |
| `RelayOutbound` | State and private methods of the sending half; extends `RelayInbound` |
| `RelayAdapter` | Composes both with the tool calls: one action per handler, timer and tool-call step, all properties, the fairness |
| `Mailbox` | What the receiving half promises an agent; `RelayAdapter` implements it |
| `Retention` | What the sending half promises of the answers it keeps; `RelayAdapter` implements it |
| `MCRelayAdapter` | Instance for TLC |
| `RelayOutboundProofs` | Proofs about the methods of `RelayOutbound`, and about the lists they use |
| `RelayAdapterProofs` | Proofs about `RelayAdapter`: its inductive invariant and what follows from it |
| `RelayMailboxProofs` | Proofs about `RelayAdapter`, on top of that invariant: the sender quota, the wake count, that nothing given to a cancelled call is lost, and that it implements `Mailbox` and `Retention` |
| `WakeTracker` | The wake tracker by itself, with a clock and a host |
| `WakeTrackerProofs` | Proofs about `WakeTracker` |
| `RelayRegistry` | One name of the registry: its files, and the processes that reserve, write, lose, prune, reclaim and give it up |
| `RegistryHistory` | `RelayRegistry` with a history variable, and what it promises until a process crashes |
| `NameLock` | A name as a lock; `RegistryHistory` implements it |
| `MCRelayRegistry` | Its instance for TLC |
| `RelayRegistryProofs` | Proofs about `RegistryHistory` |
| `RelayEndpoint` | One endpoint path, the adapters that bind it, and those who clean up there |
| `RelayEndpointProofs` | Proofs about `RelayEndpoint` |
| `RelayDelivery` | Requests and answers between adapters: both ends, and the connections between |
| `Exchange` | What the two ends promise each other about a request; `RelayDelivery` implements it |
| `MCRelayDelivery` | Its instance for TLC |
| `RelayDeliveryProofs` | Proofs about `RelayDelivery` |
| `CredentialKey` | The key file of a state directory, and the servers that publish or adopt it |
| `MCCredentialKey` | Its instance for TLC |
| `CredentialKeyProofs` | Proofs about `CredentialKey` |

Some definitions have a companion `Name_Something`, marked `Fault:`. It is the
same operator with a plausible bug, never used by the specification; it is put
in place of `Name` to see that the property listed with it notices.

### RelayAdapter

| Variable | In the code |
| --- | --- |
| `inbound`, `queue`, `delivering`, `active`, `unseen` | `inbound`, `inboundQueue`, `deliveringInbound`, `activeInbound`, `activeUnseen` |
| `hand` | `handSeq`: instead of a number, the call that holds the latest generation. The code only compares a call's own generation with the latest one, and a call is handed at most one request, so the identity decides the same comparison |
| `wakeCount` | the argument of the last `WakeTracker.update` |
| `pend` | `pending`: no entry, an entry without a response, or with one |
| `flight` | deliveries of `send` whose promise has not settled |
| `expiry` | requests with an armed expiry timer |
| `reader`, `listeners` | `replyReads` and `reclaimListeners`, generations as for `hand`; `None` in `listeners[r]` is a closure whose signal can no longer fire |
| `pc`, `arg`, `aborted` | how far each tool call is, the id it waits for or holds, and the abort signals that have fired |
| `waiter` | `inboundWaiter` |
| `seenRequest`, `seenReply` | history: what really reached the client |

*Steps.* A handler that awaits nothing is one action, with everything it calls.
A tool call is cut at its awaits. A bare `relay_await` is `AwaitInbound` (up to
its first wait), then `parked`, `woken` by a prompt, an answer, the timeout or
its abort signal, and `Resume` (the continuation), which hands something over,
returns, or parks again. What it returned is `handed` or `read` until `Publish`
(the client gets it) or `Abort` (the client cancelled: `classifySeen` of
`relayServer.ts` reclaims it). A signal that has already fired when the result
is there reclaims at once, in the same step. The two wake updates of that step,
for the hand-off and for its reclaim, are merged into the second: nothing else
in this module reads the count in between.

*Turns.* `Settled` is run-to-completion: a socket line, a timer or the end of a
delivery starts only when no resolved promise has a continuation to run. Tool
calls and aborts may come in between. That is more than the event loop allows
in some cases, and the safety properties hold anyway.

*Data.* A message is its id, a sender session and a hop count. Ids are
recycled once nothing in the adapter mentions them (`Forgotten`), which stands
for fresh random ids without an unbounded supply. Eviction in
`receiveResponse` is a loop in the code; it runs at most once, as the list was
within its bound before. `CancelOpen` leaves the retained list alone, because
open requests are not in it. `SendFailed` may follow a response, as it may in
the code: a peer may answer before it acknowledges, and drop the connection.

*Hosts.* With `AnswerQueued = FALSE` a host answers and abandons only requests
it has been handed; with `TRUE`, any accepted one that is in the queue or active.
One that a resolved wait is about to carry to its continuation is not among
them: it arrived in the same turn of the event loop, no one but the adapter has
heard its id, and what could answer it runs after the continuation.

*The abstract mailbox.* `Mailbox` knows no queue, waiter, latch or generation:
requests are in one list, a call is only ever given the first of them, and the
first stays there until it has reached the agent and the agent is done with it.
`RelayAdapter` maps to it by `MailOf(AtFront)`: the active request, or the one
that a resolved wait carries, and then the queue; `given` is what calls hold
that have not returned, `seen` is `seenRequest`. Every step of the adapter is
one step of the mailbox or none. A host that answers what it was never handed
(`AnswerQueued = TRUE`) breaks the order by itself; the mailbox allows it to
withdraw a request (`OutOfTurn`), which must leave the others in their order.

*The abstract retention.* `Retention` knows no pending table, timer, waiter,
abort signal or closure: answers are in a list in the order of their arrival, an
await is given the oldest that does not count as read, and an answer counts as
read from the time it is given until the *latest* call it was given to is
cancelled. A list that is full gives up the oldest answer that counts as read,
or else the oldest. `RelayAdapter` maps to it by taking only what concerns
answers: `completed`, the marks of `observed` on answered requests, the calls
that hold one, `seenReply`, and as `latest` the call whose read generation is
current and whose reclaim closure is still registered. That the code spreads
this over `observed`, `replyReads` and `reclaimListeners`, three maps that six
methods clear, is the reason for stating it.

### WakeTracker

Tokens are counted in units of 1/`Hour`, so the code's fractional refill is
exact. The host is the variable `bridge`, the episode ids it heard of, from wakes
or from snapshots, and may still report on: `Ack` is whatever it reports of any
of them, so that a late report on an old episode may come while it knows the
current one. `HostForgets` ends that, after which the id may be used again, as a
fresh one. The lease that an ack is granted follows from the report and its
time and is never read by the tracker; it is left out. The timer
is independent of the clock: it may fire at any time while scheduled, early or
late. The clock does not step back. `windowStart` and `windowFired` are an
observer who may begin to count wakes at any moment.

### RelayRegistry

`dir` says what file each of `<name>.json`, its `.tmp` and its `.reclaim` is;
`fd` what file a process is writing. A file has no name of its own but the first
place that refers to it (`Disk`), so that two states that differ only in the
identity of a file are one. Its content is an entry of a session, the entry of a
process that has ended (`Gone`, for which `kill(pid, 0)` fails), or nothing valid
(`Invalid`: empty, cut or torn). `old` is what `statSync` finds older than the
grace window. `phase` and `op` are how far a session and its current operation
are.

*Steps.* The functions are synchronous, but they run in different processes:
each action is one file-system call, with the decision taken on what it read.
`writeRegistry` is `WriteRegistry` (the ownership check), `OpenTmp`, `FillTmp`
(the file is cut, then written), `Publish` (the rename); `reclaimInvalidRegistryFile`
is `ReadEntry`, `StatEntry`, `Claim`, `ReadHeld`, `StatHeld`, `Restore`, `DropClaim`.
`Look` outside a start stands for every other use of the registry (roster,
dispatch, a sender's quota), all of which prune. `updateModel` and
`updateContextUsage` write like a heartbeat. A surrender gives the entry up like
`close`; why it happens belongs to the endpoint. A session whose name is taken
goes on under the next suffix and is then `elsewhere`.

*The lock.* `RegistryHistory` adds `crashed`, whether a process has ended in the
middle of its work. `NameLock` is the promise until then: a session acquires the
name when no session has it, and only its own release ends that. `Holders` are
the sessions between their reservation (`Create`) and the end of their close or
of a failed start, of which there must not be two. `HolderWhileCalm` says only
that no two sessions serve the name; the lock says in addition that nobody takes
it from a session that is still binding its endpoint, where the file is empty
and its age alone protects it.

*What is left out.* Other names, the socket of a pruned entry (`reapEndpoint`,
which is in `RelayEndpoint`), and the wake host: nothing here depends on what
the host does when it hears of a loss.

### RelayEndpoint

The path is a function of the session id, so the adapters that compete for it
are processes of one session (a respawned agent, a second server), one after
the other or at once. The code tells objects apart by device and inode, and
compares what it remembers only with what is at the path now. All that is kept
of an identity is therefore whether it is `Here`, at the path, or `Gone`; what
leaves the path turns from one to the other in every variable at once. Reuse of
an inode number is not in the model: the code cannot see it, and a reused number
at the same path would defeat every comparison it makes.

| Variable | In the code |
| --- | --- |
| `path` | what is at `endpoint`: nothing, a socket, or some other file |
| `server`, `ident` | the object that `server` listens on; `socketIdentity` |
| `judged` | the adapters whose last look at the path, before something they are about to remove, was at what is there now: `judged` of `clearStaleEndpoint`, and the comparison in `releaseServer` |
| `phase`, `step` | how far start and close are (`started`, `closed`); what the bind under way does next (`rebinding`) |
| `surrendered` | `ownershipSurrendered` |
| `listed`, `beat` | the adapters with a registry entry; those whose last `heartbeat_at` is later than the binding of what is there now |
| `dead`, `reap` | the same for an entry whose process has ended; how far `reapEndpoint` is, and what of its verdict is still true of what is there |
| `mistaken` | history: the adapters that took the identity of something else for their own |

*Steps.* Each action is one system call, with the decision taken on what it
returned, and any other process may act between two of them. A bind is `Judge`
(`statSync`), `Probe` (the connection), `Contended` or `Stale` (the comparison
after a probe that found nobody), `Unlink` (`rmSync`), `Listen`, `Identify` (the
`stat` for `socketIdentity`) and, in a start, `Started` (the entry). A rebind is
`EnsureBound` or `Heartbeat` up to the comparison of `releaseServer`, then
`RebindShut` (the close of the listener, which unlinks by path), for a heartbeat
`HeartbeatWrites`, and a bind. `close` is `Close` (up to its wait for a rebind),
`CloseRelease`, `CloseShut`, `Deregister`. A pruner is `ReapRead`, `ReapJudge`,
`ReapCheck`, `ReapRemove`. Handlers of the *same* process come in between only
where the code awaits (`Yields`). `Erring` are adapters whose probe may fail
though somebody listens (`socketAlive` takes any error for death), or find
somebody who leaves before it is over. A process may end anywhere and start
again; `Meddle` deletes the endpoint or puts something else there.

The registry fence of `clearStaleEndpoint` looks for an entry of another session
with this endpoint; the endpoint being a function of the session there is none,
so the probe alone decides. Entries of dead processes that are older than what
is at the path reap nothing, and are left out.

*Exceptions.* The code compares, and then acts in another system call, in four
places (`clearStaleEndpoint`, `releaseServer`, `bind`, `reapEndpoint`), and has
no protection in between, as a path offers none. `LiveSocketKept` therefore
names who may take the path from a live listener: an adapter whose own probe
erred (`Evicts`); one whose last look at the path was before the listener came
(`Overtaken`); one that closes what it misread as its own (`Misreads`); a pruner
that was overtaken in the same way, or whose verdict, which goes by the age of
the socket, was about one that a live process had bound before the dead peer's
last heartbeat (`Reaps`). What remains, and is checked, is that nobody removes
the listener it saw and then compared. That the code does remove others is the
run `endpoint_race`, in which the directory is left alone (`QuietSpec`).
`PresentMeansReached` and `Heals` except the adapter
that is `mistaken` while what it took for its own is there: a rebind is never
due for it.

### RelayDelivery

`pend` and `inbound` are the two ends' tables, `conn[l]` the connection of
envelope `l` (the prompt or the answer of a request) from the point of view of
the end that dialed it, `stray` the envelopes that are still to be read although
their sender has given them up. `lost` and `deserted` are history: what a crash
or `abandonInbound` took from a recipient, and what `respond` forgot because the
sender was unreachable.

*Steps.* A delivery is `Send` or `Respond` (dial), `Connect`, the handler of the
other end (`ReceivePrompt`, `ReceiveResponse`, or `Unread` when its deadline
passes first), and `Delivered` or `Responded` with one of four outcomes: the ack,
the nack, unreachable, or any other failure, which may come at any point: that
is the deadline of either end. Handlers read, decide, change the table and write
their reply in one step, as the code does.

*Order.* `ReceiveResponse` waits while the ack of the prompt is there to be
read. The recipient writes the ack in the step that accepts the prompt, before
any agent can answer it; the answer then takes a connection of its own, which
the sender accepts and reads in later iterations of its event loop than the ack.

*The abstract exchange.* `Exchange` knows no connection, deadline, endpoint or
process: a request is asked, taken, confirmed, answered, and settled or given up,
and what is on its way may be lost. A sender's open request counts as `sending`
until its delivery is over, and as confirmed after that; an envelope is on its
way while it may still be read, also when its sender has given it up. One step
of the code may be a step of several requests, as a crash is. What the code must
get right for this is that a prompt is never written twice, that only an ack
leaves the request open, and that the recipient forgets a request only on a
verdict or an excuse.

*What is left out.* Capacity, quota and hop checks are one nondeterministic
refusal (`RelayAdapter` has them). Several attempts to answer one request at
once are one connection and strays. Which line of an envelope is too long or
malformed is a failure like any other.

### CredentialKey

A server is its pid, which is used again, together with the name of its
temporary file, after it ends; `linked` says whose temporary file is another
name of the key file, as it is between `linkSync` and `rmSync`, and after a crash
between them. `Catch` is the catch block with its second read, `CleanUp` the
finally block, which may fail. `trusted` is history: the keys that servers
published or adopted.

## 3. Runs

| Run | Question | Instance |
| --- | --- | --- |
| `core` | Do requests, awaits, slots, answers, the quota and the wake count stay consistent under every interleaving, is the mailbox what `Mailbox` promises, and what becomes of answers what `Retention` promises? | 3 prompts (one registered and two made-up senders, one prompt out of hops), quota 1, limit 2, 2 requests to one recipient, 2 calls, 1 retained answer |
| `host` | Is it still the mailbox with a host that answers what it was never handed, and three overlapping calls? Does an accepted request reach an agent that stays in its loop? | 2 prompts, 3 calls |
| `loop` | Does every open request leave its slot? Does an answer reach an agent that stays in its loop, once requests stop coming in? | 1 prompt (recurring), 1 request, 2 calls |
| `reply_starved` | And while they keep coming? No: a finding | 1 prompt (recurring), 1 request, 1 call |
| `keyed_cancel` | Does a cancelled request leave nothing behind? No: a finding | 1 request, 1 call |
| `wake` | Are wakes bounded, episodes exact, quiet ones marked, and does every episode stop nudging? | 2 episodes, cap 2, budget 2 per 3 units, clock to 6 |
| `registry` | Do reservation and ownership check keep a name to one session, as a lock does, until a process crashes? Whatever a race has left: do all holders but one notice, is a holder listed again, and does a reservation that was never written give the name back? | 2 sessions, crashes |
| `registry_race` | And does a name have one holder when processes crash? No: a finding | 2 sessions |
| `endpoint` | With other processes between any two system calls: is no listener removed that was seen and compared, is who believes it is bound reached, are close and surrender final, and does a live owner heal? | 2 adapters, one whose probes may fail; crashes, reaping, meddling |
| `endpoint_race` | And is what a starter removes what it judged? No: a finding | 2 adapters, no probe fails, nobody meddles |
| `delivery` | Does an answer survive the delivery of its request, is a delivered request held, does every accepted request end, and is this what `Exchange` promises? | 2 requests from one agent to another; crashes, restarts, deadlines |
| `key` | Do all servers end with one key that never changes? | 3 pids, 5 keys |

*Bounds.* The races the properties are about take one message in the middle and
two calls around it (a hand-off cancelled after a newer one, a read superseded
by another), plus a second message for order and for eviction; ids recycle, so
runs are unbounded in length. Three overlapping calls are in `host`;
that the latest hand-off is told from any other, whatever their number, is the
theorem `HandoffsKept`. One retained answer makes every second answer
overflow; which of several is given or given up first is the theorem
`RetentionImplemented`. In `wake` two episode ids suffice since an id is compared only with
the current one, and the clock runs over two budget windows. In the registry a
session starts anew after it ends, so two sessions are any number of agents of a
name of which two run at a time; the judge, the judged and a successor take two.
At the endpoint, likewise, the prober, the owner and its successor are
two processes, one of which may come back; the identity of what is at a path
needs two values only. Two requests compete for one slot in `delivery`; a third
would be a copy of one of them, since no connection of a request touches another
request. `Stalls = FALSE` lets ten seconds pass only while no
operation is under way, as the operations take less than a millisecond; `TRUE`,
a process that is suspended in the middle of one, is in the model and in no run
yet. Five keys are enough for three servers: a key is minted anew only when
nothing mentions it.

*Symmetry* is used only where no liveness is checked, for calls and requests,
sessions of `RelayRegistry`, pids and keys. Nothing distinguishes them: the
constants that depend on a request (`Target`) give all the same value, and
`SetToSeq` in `HealedQueue`, which picks an order by `CHOOSE`, is over prompts,
which are not permuted.

*Deadlock* is checked in every run.

*Fairness.* `EventLoop` is what Node gives: the continuation of a resolved
promise runs (weak), and a due timer or a readable socket gets its turn however
often other callbacks come first (strong, as such a callback is disabled while
continuations are pending). A delivery ends by its connect and ack deadlines.
`ExpiryTimers`, the retention timers, is a premise of `SlotFreed` alone.
`AgentLoop` is what `SPEC.md` asks of an agent (stay in the await loop, answer
what it is given) and of its client (not to cancel for ever every call that
carries one message). Elsewhere the expiry timers are unfair on purpose:
`ReplySeenInQuiet` is about the retention window, in which they have not fired.
`TimerSpec` assumes the wake tracker's interval timer. `FairSpec` of
`RelayRegistry` assumes that a process goes on with the operation it is in
unless it crashes (weak), that the bind ends and the heartbeat fires between
other operations (strong), and that time passes (strong: whenever there is a
pause, again and again). Its liveness properties have `Apart` as a premise: in
the long run no two operations overlap. Heartbeats are 30 seconds apart and an
operation takes less than a millisecond, so overlap is an accident; without the
premise two sessions could remove and rewrite each other's entry in step for
ever. `NameNotStuck` also supposes that agents of the name go on starting, since
only a start reclaims.

In `RelayEndpoint` what is under way goes on (weak), and heartbeats fire (strong,
as a bind of the same process has stretches in which no timer fires). `Heals` has
`Calm` as a premise: in the long run nobody meddles with the directory, no
process of the session ends, and no probe misses a listener; without it the path
could be taken each time just after it was bound. It is not a premise that
processes stay out of each other's windows: a race leaves one of them without
the path, and that one heals. `EveryRequestEnds` supposes of the request it
is about that deadlines fire (weak), that the agent goes on answering what it
holds, and that not every one of its attempts is late on the way (strong): a
transport that fails every attempt for ever keeps the request, as the code means
it to. It supposes nothing of the sender, which may have given up, or be gone.

## 4. Findings

1. `keyed_cancel`. `cancel` of an acknowledged request resolves an await keyed
   on it; the continuation then marks the forgotten id as read and registers a
   reclaim closure that nothing will remove.
2. `reply_starved`. `SPEC.md` promises that staying in the await loop is
   sufficient; requests outrank answers at every await, so steady inbound
   traffic keeps an answer unread until it expires.
3. `registry_race`. `pruneDeadEntries` removes the path it judged, where a live
   successor may have written since; the name is then free and served twice. The
   first server notices at its next heartbeat (`registry`).
4. `endpoint_race`. `clearStaleEndpoint` looks at the path and removes what is
   there in two system calls. Of two starters that judged the same corpse, the
   first removes it and binds, and the second removes the first one's live
   socket. The first notices at its next heartbeat, and heals or surrenders
   (`endpoint`).

Known and not in a run of its own:

- Abandoning or answering a request that is still queued takes it off the queue
  without telling the wake tracker (`relayAdapter.ts:569` does so for the active
  request alone), whose episode runs on, although an episode is to span "one
  empty->non-empty stretch of undelivered work" (`relayWakeTracker.ts:6`). The
  step is in the model, and `WakeCountFresh` leaves such hosts out.
- The other places where the endpoint is compared and then acted upon:
  `releaseServer` closes, which unlinks by path, after it has compared
  (`relayAdapter.ts:261-264`); `reapEndpoint` removes after its second `lstat`
  (`relayWire.ts:65-67`), and its verdict, by age, may be about a socket whose
  new owner has not registered yet; `bind` reads the identity of its socket after
  `listen` (`relayAdapter.ts:598-599`), and takes what another process has put
  there by then for its own, for as long as that stays. All three are in the
  model, and named exceptions of `LiveSocketKept` and `PresentMeansReached`.
- `socketAlive` (`relayAdapter.ts:821`) takes every error of its connection for
  the death of the listener, where `connect` of the transport tells absence from
  other errors. A full backlog is such an error on Linux (`EAGAIN`), and so is
  the prober's own descriptor limit. The registry fence that should come first
  never applies to a process of the same session, so a second one unlinks the
  first one's socket, against the comment at line 608. `LiveSocketKept` has this
  as one of its exceptions (`Evicts`), and `Heals` shows that the owner notices.
- `connect` (`relayTransport.ts:19`) reports a dial that is not answered in time
  as an absent endpoint, and `respond` then forgets the request, although the
  comment at line 23 says that only absence proves the peer is gone. It takes a
  busy pipe on Windows, or a dialing process that is blocked for a second.
  `DeliveredIsHeld` has this as an exception (`deserted`).
- All reclaimers of a name rename to one path, so a late second one may replace
  what the first has validated, and what the first then removes is a live entry
  (three sessions; the heartbeat heals it).
- With `ReadsFail`, a key file that cannot be read once is overwritten through a
  temporary name that a crash has left; this is why the theorems about the key
  exclude it.

## 5. Proofs

| Theorem | Module | States |
| --- | --- | --- |
| `TypeCorrect` | `RelayAdapterProofs` | `TypeOK` |
| `RequestsReachable` | `RelayAdapterProofs` | `EveryRequestReachable` |
| `AwaitsAwake` | `RelayAdapterProofs` | `NoSleepThrough` |
| `SlotsCorrect` | `RelayAdapterProofs` | `SlotsMatchPending` |
| `RetainedCorrect` | `RelayAdapterProofs` | `RetainedExactly` |
| `PendingTimed` | `RelayAdapterProofs` | `EveryPendingTimed` |
| `HandoffsKept` | `RelayMailboxProofs` | `NoLostHandoff` |
| `RepliesKept` | `RelayMailboxProofs` | `NoLostReply` |
| `SendersShare` | `RelayMailboxProofs` | `SendersBounded` |
| `CountFresh` | `RelayMailboxProofs` | `WakeCountFresh`, for hosts that answer what they were handed |
| `MailboxImplemented` | `RelayMailboxProofs` | `ImplementsMailbox`, whatever the host answers |
| `RetentionImplemented` | `RelayMailboxProofs` | `ImplementsRetention` |
| `TypeCorrect` | `RelayRegistryProofs` | `TypeOK` of `RelayRegistry` |
| `NameIsKept` | `RelayRegistryProofs` | `HolderWhileCalm`, where nobody stalls past the grace window |
| `LockImplemented` | `RelayRegistryProofs` | `ImplementsNameLock`, where nobody stalls past the grace window |
| `TypeCorrect` | `RelayEndpointProofs` | `TypeOK` of `RelayEndpoint` |
| `PresenceIsReachability` | `RelayEndpointProofs` | `PresentMeansReached`, with its exception |
| `CloseIsFinal` | `RelayEndpointProofs` | `ClosedIsGone` |
| `SurrenderIsFinal` | `RelayEndpointProofs` | `SurrenderIsSilent` |
| `OwnersKeepTheirSockets` | `RelayEndpointProofs` | `LiveSocketKept`, with the exceptions it names |
| `TypeCorrect` | `RelayDeliveryProofs` | `TypeOK` of `RelayDelivery` |
| `AnswersOutliveDelivery` | `RelayDeliveryProofs` | `AnswerAfterAck` |
| `DeliveredStaysHeld` | `RelayDeliveryProofs` | `DeliveredIsHeld` |
| `ExchangeImplemented` | `RelayDeliveryProofs` | `ImplementsExchange` |
| `TypeCorrect` | `WakeTrackerProofs` | `TypeOK` of `WakeTracker` |
| `BudgetCorrect` | `WakeTrackerProofs` | `BudgetHolds` |
| `EpisodesCorrect` | `WakeTrackerProofs` | `EpisodeSpansWork`, `TierMatchesEpisode`, `QuietIsMarked` |
| `TiersMatch` | `WakeTrackerProofs` | `TierMatchesEpisode` by itself |
| `TypeCorrect` | `CredentialKeyProofs` | `TypeOK` of `CredentialKey`, where files can be read |
| `CredentialsCorrect` | `CredentialKeyProofs` | `CredentialsSurvive`, where files can be read |
| `KeyFixed` | `CredentialKeyProofs` | `PublishedKeyFixed`, where files can be read |

*Assumptions.* The constants' assumptions only: sessions, hops and recipients
are functions of the ids, limits are naturals (where the code's constant is
positive, positive), ids of prompts, requests and calls are different things,
and `None` is none of them. Sets of ids, peers and calls may be infinite.

*The mailbox.* `Inv` in `RelayAdapterProofs` is inductive. Besides the
properties themselves it needs

- `ArgsFit`: the kind of id a call carries, by its state. Without it `Hand` and
  `ReclaimReply` could be given anything.
- `OneBareAwait`: the latch and the waiter field. At most one bare await is in
  flight; while it is parked it is the registered waiter; and while it is
  parked, or a request is on its way to it, no request is active. The last part
  is what makes the hand-over safe: `handInbound` overwrites `activeInbound`
  without looking, so a request resolved into a wait must find it empty.
- `EveryRequestReachable` itself. It implies that the self-heal of
  `awaitInbound` finds nothing to heal (`HealsNothing`), which in turn is what
  keeps its reordering out of every other argument.
- `OutboundInv`, about the sending half alone. `RelayOutboundProofs` has one
  lemma per method, for any caller; `RelayAdapterProofs` applies them per
  action. Eviction is why `RetainedExactly` must be part of it: the victim is
  picked by position, and only because the list is exactly the answered
  requests does dropping it from the table restore the bound.
- `NoSleepThrough`, last, with both halves as hypotheses: everything that
  queues a prompt, keeps an answer or un-reads one wakes the waiter.

`RelayMailboxProofs` adds two invariants on top of `Inv`. Both rest on
`ResultsKept`: a call that has a result keeps it until it is published or
cancelled. A hand-off is then lost only if another call overwrote its
generation, and that call holds it. For answers, `ReplyInv` adds that an open
request is unread and that a call holds the outcome of a request only once that
is no longer open: otherwise the arrival of an answer, which leaves the read
marks alone, could make an old mark count.

*The wake tracker.* `BudgetInv` weighs the wakes of the window and the tokens
left against one hour's budget and the refills since the window opened; the
three episode properties are inductive only together.

*The key file.* `Inv` of `CredentialKeyProofs`: once there is a key file it holds
the one key in use (`OneKey`), and a process whose temporary file is the key
file is never about to write it (`KeyFits`). The second is what hard links and
reused pids could break; it holds because a process that finds the key does not
mint one, which is also why it fails when a read fails, and why the
theorems have `~ReadsFail` as a hypothesis.

*The refinement of the mailbox.* `MailboxImplemented` needs `Inv` and `GivenAway`: what calls
hold, and what has been seen, is not in the queue as long as it is held at all.
`MailboxSteps` sorts the steps of the adapter by what they do to the mailbox
(nothing, accept, hand over, reclaim, forget), `Box_Finish` tells a request that
is finished at the front from one that is withdrawn from behind it, `MailIs` says that at most one
request is in front of the queue, and `BoxSteps` maps each kind to one action of
`Mailbox` or to a stutter. `CountFresh` goes through the same kinds of steps, and
`SendersShare` is a count: what `Accepts` adds belongs to one bucket, which held
less than the quota at the time of the check.

*The refinement of retention.* `ShelfInv` is `ReplyInv` and `ToldRetained`, that
what has reached an agent and is still answered is marked as read. Everything
that forgets a request (`forgetPending` on cancel, expiry, a failed delivery, and
eviction) goes through `ShelfClears`: what a step drops from the table it drops
from the marks, the closures and the calls' results alike, so that the abstract
state loses exactly the answers of that set. `ShelfStays` is the frame for the
steps that touch no answer, and there is one lemma for each way an answer
changes hands (`Keep_Shelf`, `Give_Shelf`, `GiveOldest_Shelf`, `Skip_Shelf`,
`Over_Shelf`); `ShelfSteps` is the case split over the actions. Eviction is where
`ReplyInv` is needed: the code picks its victim by the marks of the list with
the new answer on it, and the new answer must not be the one that looks read.

*The registry.* `Inv` of `RelayRegistryProofs` holds always: files that names or
open descriptors refer to have contents (`DiskTypeOK`), an operation fits the
phase of its session (`CourseOK`), and only a session in the middle of a write
has a file open (`WritersOnly`). Since a file has no name but the first place
that refers to it, every call renames files; `DiskEffect` says once what stays
true through that, and the lemmas after it what each call does to the contents
that names and descriptors lead to. `Calm` holds until a process crashes: one
session at most has the name (`Sole`), its entry is there, its own or still
empty (`HoldersEntry`), who writes holds the temporary file (`WritersTmp`), a
file that is not valid is young (`Young`), no entry is of a dead
process (`Alive`), and nothing is being pruned or reclaimed. The point of `Calm`
is its last conjunct, which is not a premise but a consequence: as no entry is
dead and no invalid one is old, every judgement of a pruner or reclaimer ends in
leaving the file alone, so the check-then-act windows of the findings are never
opened. It takes a crash, or a stall, to open one. `~Stalls` is a hypothesis of both theorems
because the code has it as one: the grace window of ten seconds
(`relayAdapter.ts:828`) is to cover the gap between a reservation and its first
write.

*The endpoint.* `IInv` of `RelayEndpointProofs`: what is known of the object at
the path is known of one that is there (`HereIsThere`), the path has one listener
and an adapter's `socketIdentity`, when current, is its own unless it is
`mistaken` (`OneOwner`), the phase and step of an adapter bound what it has
(`Course`), and whoever is about to clear the path, having last looked at what
is there now, looked at nobody's listener but its own (`Cleared`). The last is
what the comparison with `judged` after the probe is for; it holds for adapters
whose probe does not err and who did not misread their identity, which is why
these are exceptions of the theorem. No premise keeps other processes out
between two system calls.

*The delivery.* `IInv` of `RelayDeliveryProofs` ties a request's table entry to
where its two envelopes are: an answer exists only after its request was
accepted, and what was accepted was acknowledged in the same step, so that by
the order of reads an answered request has no delivery left. An open delivered
request has been accepted, and its recipient keeps it unless `respond` is told
that its sender is gone. `ExchangeImplemented` shows of each action, with one
lemma per action, which step of the exchange it is for each request: the one of
the request it is about, and for the others that nothing becomes of them
(`Elsewhere`) or that they lose what was on its way (`Missed`). That a prompt
still to be read has not been taken, though its sender gave it up and the
connection is gone, is the part of `Course` that only this theorem needs.

*Only proved.* The type invariants of `RelayDelivery` and `CredentialKey` are
theorems and no run checks them.

*Only model-checked.* The liveness properties (`SlotFreed`,
`RequestSeen`, `ReplySeenInQuiet`, `NudgesStop`, `LoserNotices`, `HolderListed`,
`NameNotStuck`, `Heals`, `EveryRequestEnds`): they rest on fairness and `ENABLED`,
which the prover does not support. What the findings refute is refuted by TLC.

## 6. Not modelled, and the plan

| Not modelled | Why, or where it belongs |
| --- | --- |
| Derivation of the endpoint path, modes of its directory (`relayEndpoint.ts`) | pure functions and checks of the file system |
| Reuse of an inode number at one path | the code has no protection against it |
| Startup and shutdown of the relay server, `relay_roster` | its steps are those of the adapter; a ping carries no state |
| A clock that steps back | extension of `WakeTracker` |
| Wire parsing, context usage | pure checks of data; operators checked against a definition, where the properties tell cases apart |
| CLI, setup, logger, contract | sequential input and output, or constants |
| Timing, text of messages, log lines | no property is about them |

In order:

1. `RelayWake`: adapter and tracker together, `wakeCount` being the tracker's
   input, with the stop hook and the watcher as readers of the published entry.
2. Runs: the reclaimers' shared path with three sessions, stalled processes, an
   unreadable key file, three overlapping readers of two answers.
3. A clock that steps back, in `WakeTracker`.
