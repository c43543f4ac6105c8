# Crewbot: verification of the harness

Crewbot's harness (`server/`) is one Node process that runs AI bots for people.
People send messages to a bot's threads and to rooms of several bots; a bot that
is busy gets the words later, as a follow-up turn, or at once, by *steering* the
turn that runs. Accepted words must survive restarts without being run twice.
Bots hand work to one another and wait for it or do not, routines and webhooks
start work nobody watches, and one process at a time owns the files in which all
of this is kept.
This directory holds TLA+ models of that machinery, their TLC instances, and
TLAPS proofs. The models are written from the source; every definition that
stands for code is listed with its file and lines in `PROJECT.json` under `map`.

To check: `tlc -config SteerQueue_core.cfg MCSteerQueue` (each run is a row of
the table below), and `tlapm` on each module whose name ends in `Proofs`, and on
`QueueLemmas.tla`.

## Inventory

| Component | State | Operations | Talks to | What makes it correct |
|---|---|---|---|---|
| Bot follow-up queue, `steer-queue.ts` | map thread → waiting words, in insertion order; held queues | queue, cancel, drain, hold, restore, settle, restore at boot | journal, turn start, steer route | accepted words wait in exactly one place, run at most once, in order; freed slots go to the thread that waited longest |
| Follow-up journal, `message-db.ts` | `chat_followups`: one row per accepted word with a status | save, settle, list, look for a tombstone, delete a thread | SQLite | a claimed row is never pending again; a row goes only with its words in the transcript |
| Direct routes and turns, `index.ts` | busy projections, dispatch claims, turns by generation | send, cancel, steer, open a thread, start, complete, stall, fail | both queues, drivers | one turn per thread, at most `maxConcurrentBotThreads` per bot, none while a room holds the bot |
| Room follow-up queue, `channel-queue.ts` | map thread → waiting words, per room | queue, cancel, drain the head, hold, restore, settle the head | room operation | one follow-up at a time, none stranded in an idle room |
| Room operations, `index.ts` | `groupTurnOperations`, `groupQueues`, `busyBotId`, `groupSpeakers` | begin, member speaks, ends, hangs, is released, finish | channel queue, drivers | one speaker at a time; an idle room has no queue |
| Send idempotency, `send-idempotency.ts` | in-flight sends by key | run once per sendId | routes | a retried send is recorded once |
| Delegations, `delegations.ts` | `pendingDelegations` by source thread, on disk; receipts; drains, watches, parked wakes, wake budget | queue, drain, hold, approve, expire, discard, acknowledge, wake, reload | direct turns, people who approve | one start per hand-over and restart, a receipt for each, nothing waits for ever |
| Room handoffs, `room-handoffs.ts` | trees of nodes with status, windows and executions, rewritten at every publish | enqueue, tick (expire, report, resume, dispatch), settle, Stop, prune, load | direct turns, room operations, transcripts | a parent resumes once all children are final and reported; results are said once; a restart replays nothing; trees end |
| Room continuations, `room-continuations.ts` | parked coordination of a room | park, resume, drop | room handoffs | a parked thread goes on once |
| Routines, `routines.ts` | routines, runs, webhook receipts in one file; the tick that runs | update, remove, run now, deliver, tick in three passes, cancel, events of the turn, restart | direct turns, delegations, providers | a run goes forward only, no turn outlives its run, every run ends |
| Webhooks, `webhooks.ts`, `webhook-ingress.ts` | triggers, pending deliveries | verify, accept, retry | routines | one pending run per delivery |
| Data directory lease, `electron/data-dir-lease.mjs` | lease files of owner and child, election records of reapers | acquire, retire a dead owner, delegate, release | every process that would serve | one live holder per lease; a dead one is succeeded |
| Turn dispatch guard, `turn-dispatch-guard.ts` | retired turn ids, generations, cancelled handshakes | retire, bind, cancel, quarantine | drivers | events of an abandoned turn never count for its successor |
| Watchdog and deadlines, `turn-watchdog.ts`, `room-turn-timeout.ts` | last activity by thread | watch, note, settle, stall | turns, rooms | a hung turn lets go in the end, once |
| Turn resources, leases, `turn-resources.ts`, `local-vm-lease.ts`, `auto-vm-claims.ts` | claims by generation | claim, release, reap | turns | a machine is never reaped from under a turn |
| Goal runs and room budget, `group-goal-run.ts`, `room-post-budget.ts` | turn count, posts by actor | coordinate, wait, finish | room operations | bounded turns and posts |
| Approvals, box journals | cards, write-ahead records | resolve, recover | turns | one resolution per card, one box per request |
| Sessions, store, drivers, shutdown, skills, desktop and web clients | records and I/O | CRUD, protocols | all of the above | outside the models, except where they appear below |

`PROJECT.json` lists all of them with a status.

**Hard behaviours.** JavaScript handlers do not interleave except at an
`await`, so the interesting orders are between handlers: a steer that is
answered after its turn ended, after the thread was deleted, or after another
drain; a completion that arrives before the dispatch it answers was
acknowledged; a retry of a send whose words were meanwhile queued, cancelled,
drained or recovered; a room whose operation ends before its hung member lets
go. The other source is the crash: a drain commits a claim, a transcript line
and the start of a turn one after the other, and recovery itself commits
several times for a row. The timers add a third: a tick that expires, reports and
starts work goes on with a list it made before the last event, and time limits
race with answers. The lease adds the fourth: processes that share nothing but
files and pids. `PROJECT.json` has every such place with its line
under `hazards` and the properties aimed at it.

## Modules

- **`FollowupLedger`**, the abstract promise. An accepted word has a fate:
  waiting, then claimed, recorded, cancelled or dropped with its thread. It is
  cancelled only while it waits, claimed once, and recorded only if the
  transcript says it.
- **`SteerQueue`**, one bot: its threads, the queue map with its insertion order,
  the journal, the routes (send with live steer, queue steer, cancel, opened
  thread, thread and bot deletion), the turn of each thread from dispatch claim
  to completion, stall or failed dispatch, the room that may hold the bot,
  messages parked behind delegated work, crash, recovery and restore.
  `MCSteerQueue` instantiates it.
- **`ChannelQueue`**, one room: its threads and members, the queue map, the list of
  operations that run one after the other, the member that speaks or hangs, the
  drain and the second drain it leaves in the microtask queue, the routes, crash
  and recovery. `MCChannelQueue` instantiates it.
- **`RoomHandoffs`**, the trees of addressed work: direct conversations and rooms
  whose turns hand work on, the node of the turn and those of its requests, the
  tick step by step, the windows (queue window, runway, lifetime, hard cap),
  Stop, deletion, withdrawn routes, pruning, restart. `MCRoomHandoffs`.
- **`Delegations`**, work that is handed over and not waited for: the queue of each
  source, the drain with its snapshot and the approval it may wait for, what is
  held for a busy target, receipts, the watch on a launched turn, the wake of the
  source. `MCDelegations`.
- **`Routines`**, one bot's routines and deliveries: definitions and their edits,
  runs, the tick in its three passes, the turn of each run and the work it handed
  out. `MCRoutines`.
- **`DataDirLease`**, the processes that would own the data directory, each at its
  step in the protocol. `MCDataDirLease`.
- **`QueueLemmas`**, what appending, joining, removing and taking the tail do to a
  queue's elements, to its being free of repetitions, to its rising order and to
  who stands before whom: the lemmas both queues are proved from.
- **`SteerQueueProofs`** (claims and turns), **`SteerQueueJournalProofs`** on top of
  it (the journal, the order, the transcript and the line), **`ChannelQueueProofs`**, **`RoomHandoffsProofs`**,
  **`DelegationsProofs`**, **`RoutinesProofs`**, **`DataDirLeaseProofs`**: the
  theorems about the module each is named after.

The modules meet at the turn: each has the turn of a conversation in the detail
it needs (claimed, working, settling, asking) and the others as an environment
that may take the bot. A handoff is an `OtherOperation` to `ChannelQueue`;
delegated work of a routine's turn is `out` in `Routines`, whose steps are what
`Delegations` promises of it (it ends, and its source is woken or not). What all
of them assume, that no other process writes their files, is `DataDirLease`.

Both queue modules are shown to implement the ledger (`LedgerKept`), with the
same refinement mapping: the fate of an id is read off its journal row and its
thread.

### How state and actions correspond to the code

- *A handler is its synchronous part.* The code between two `await`s is one
  action, for instance `HoldForSteer` (steer route up to `adapter.steer`) and
  `SteerContinues` (after it). Between them anything else may happen.
- *A crash may fall between two commits.* The journal, the transcript and the
  records are written synchronously, so a handler that writes several times is a
  chain of steps; `frame` says where it stands, and no other handler may run
  until it is `"idle"` again (`Serving`). `Crash` can happen at every step and
  erases all that is in memory. The model is of a process crash: what was
  written stays written.
- *Maps with an order.* `queue` is a JavaScript `Map`; `line` is its key order. A
  key that is set again keeps its place, one that is deleted and set moves to
  the end (`InLine`, `Without`). The drains walk that order.
- *Ids.* A queue id is the row's ordinal, so the order of ids is that of
  acceptance. A word is one sendId; a retry is the same word again.
- *Engines.* `EngineTakes` and `EngineAnswers` allow every answer the
  `SteerOutcome` contract allows: "refused" only for words the engine does not
  have, "indeterminate" in every case, and answers after the turn has ended
  (`"late"`).
- *Microtasks.* A drain of delegations, the retry for a released bot and the wakes
  it causes run between two events. `Quiet` says none is left, and the actions of
  people and engines that set off new ones wait for it where the code cannot be
  entered in between. They are interleaved in any order: more orders than the
  microtask queue has, never fewer.
- *Ticks.* A tick is a chain of steps over what it found: `tick` says where it is
  (`AtNode`, `todo`), and only a step at which the code awaits lets others in.
  Handoff ticks are cut at every publish, since a restart may fall there.
- *Time.* No clocks. That a window has elapsed is a flag an action raises at any
  time (`Elapse`, `Grow`, `ComesDue`, `ReceiptExpires`); what the code does about it
  is the model's business. A routine's tick chooses the runs past their limit when
  it begins.
- *Processes.* In `DataDirLease` a process is the token it draws, `step` names the
  file operation or the look at another process that comes next, and between
  two such steps anybody else may act, die or be started with a free pid. An
  election record is named by the generation of the election instead of the
  digest of the dead reaper's token: the chain is the same.
- *Deleted threads.* `gone` grows only. Deletion removes the rows; a bot and a
  room are saved without their threads before the rows are purged (`Purge`).
- *Parked messages.* A person may choose (`parks`) that messages to a thread wait
  while work delegated there is not settled (`parksBehindCoordination`).
  `awaiting` is what `SteerQueue` keeps of the handoff trees: the threads with an
  open direct node, however many nodes there are. Each change of such a node
  drains (the `changed` hook), so `HandoffOpens`, `HandoffSettles` and
  `HandoffRuns` begin a walk; a tick that runs a node publishes first and asks
  `startTurn` when the walk has returned (`HandoffStarts`), and a `DELETE` of a
  thread cancels its nodes first and removes the rows when the walk of that has
  returned (`DeleteEnds`): `AfterWalk` says where the handler goes on. A handler
  that settles several threads one after the other is as many steps.
  `HandoffRuns` has the weaker of the two `busy` tests of the host, that of a
  resume, so it may start more than the code.
- *Edits of a routine.* `update` is three actions: another schedule, or the switch
  on (`SetSchedule`), an edit that leaves the schedule alone and keeps due work
  (`EditDefinition`), and any edit that switches off (`Pause`). Each may give the
  routine any definition. Only `Pause` cancels what waits in the queue; a run keeps
  the time limit it was made with (`limit`), while the window and the overlap are
  read from the definition as it is now. A one-time schedule whose time has passed
  is due at once, also for the tick that is waiting (`LongDue`). An interval that
  has ended is one that does not come due again; its switch is left on.
- *History.* `claimed` and `folded` are not in the program. They count claims by
  a drain and record what a running turn took in.
- *Mutants.* An operator with the comment "mutant of X" is a plausible wrong
  version of the definition X that follows it. No specification uses it; the
  table `mutants` of `PROJECT.json` names the property that catches it.

## Runs

| Run | Instance | Shows |
|---|---|---|
| `steer_core` | 2 threads, 3 words, 1 slot, 1 delegation that may resume its thread, parking on, 2 crashes, fairness | no line or notice twice, retries included; capacity; the line for the slot is served; accepted words do not wait for ever |
| `steer_all` | 2 threads, 3 words (one opens its thread), a steer, the room, 1 delegation, parking switched on and off, deletion of both threads, 1 crash | the inductive invariant (types included); no second claim; never in two places; pending rows are exactly what can be reached; order; the ledger, with everybody at work |
| `channel_all` | 1 thread, 2 members that may hang, a handoff, a steer, room deletion, 1 crash | types; no second claim; one person's message at work at a time; pending rows can be reached; the ledger |
| `channel_live` | 2 threads, 1 member, a handoff, deletion of one thread, 1 crash, fairness | an idle room has no queue; nobody overtakes; accepted words get their turn |
| `handoffs` | 3 bots, 1 conversation, 1 room, trees of up to 3 nodes, 1 restart, fairness | types; a node rests while its work goes on and is complete only after it; results said once; a resumed parent is informed; outcomes are final; a runner keeps its runway; every parent goes on; the hard cap ends every tree |
| `delegations` | 2 bots with 2 slots, one reviewed, 2 hand-overs, 1 restart, fairness | types; one start per life of the process; slots; every hand-over is known; what is over stays over; nothing waits for ever |
| `routines` | 1 routine whose definition may change at any time, 1 delivery, 2 runs, 2 slots, 1 restart, fairness | types; runs go forward only; no orphan turn; scheduled runs take turns; one pending run per delivery; every run ends |
| `lease` | 3 processes, 3 pids that are used again, 1 reboot, fairness | one live holder per lease; no chain of deaths bricks the directory |
| `steer_bothways` | violation | finding 1 |
| `steer_roomstrand` | violation | finding 2 |
| `channel_strand` | violation | finding 3 |
| `handoff_prune` | violation | finding 4 |

**Bounds.** `MaxId` bounds the words ever queued, `MaxCrashes` the crashes,
`MaxOps` the operations in line, `MaxOther` the handoffs of a room; counters of
lines and claims stop at 2, since the properties tell only "never", "once" and
"more often" apart. Two ids are the least for order and for a drain that meets
words queued during a hold; two threads are the least for the line; two crashes
are needed for a crash inside the recovery of an earlier one. Three words on two
threads (`steer_core`) let one thread have words that run and words that wait
while the other stands in the line behind it. `MaxHandoffs` bounds the
delegations that are opened; one is enough for a thread that is idle, parked and
first in the line while a drain looks further. The two finding runs of the
direct queue have none. At `MaxId` the instances accept no more words for the queue, as if people fell
silent; nothing else is refused because of a bound, except that a room begins no
further handoff.

In `handoffs`, three nodes are a root, a child and a grandchild, or a root with
two children: enough for a descendant that outlives its parent's window and for
a parent that is resumed after the first of two children. One slot makes targets
busy; two executions are one resume and the refusal of the next. `HistoryLimit`
is beyond the nodes there are, so nothing is pruned in it; `handoff_prune` has the
limit at three and four nodes. `MaxTurns`, `MaxRevoked` and `MaxRestarts` bound what
people do. In `delegations`, two bots are each other's source and target and
one of them asks a person first, so that a drain waits while the other runs; two
hand-overs are the least for a snapshot that leaves one out; `WakeLimit` 1 lets a
budget run out; `MaxQueued` is not reached with two hand-overs, its refusal is a
guard only. In `routines`, two runs are one at work and one in line, which is all
that `ScheduledInTurn` and `DeliveryOnce` compare; the routine is a queueing
one, one with a window or a one-time one, and may become another at any time; all
have a limit, since a run that has one need not reach it. Two runs in line
(below) are in it, a third that would join them is not: the theorem has any
number. In `lease`, three processes are a dead owner with two contenders,
or with a dead reaper and its successor, or a desktop with two children; the
generations of reapers (3) are more than three processes use up, so the refusal
after `MAX_REAPER_GENERATIONS` (128 in the code) does not occur in this run, and
`Recovers` is about chains shorter than that; the theorems hold for any number.

All runs set `CHECK_DEADLOCK FALSE`: once the words are said, the bounded events
have happened and nobody sends, nothing needs to happen.

**Fairness.** A handler that has begun runs to its end, and the supervisor
restarts the process: weak fairness on `Handler`, since nothing else is enabled
in between except a crash, and crashes are bounded. Events that wait for the
event loop may be delayed by other handlers: strong fairness on turn ends (a
result, Stop or the watchdog ends every turn), dispatch acknowledgements, steer
answers (adapters time out) and the room's progress. In `ChannelQueue` an
operation has finitely many members, which justifies that it ends in the end;
handoffs are finitely many in a behaviour, since the handoff graph has limits of
its own. That the delegated work of a thread settles (`HandoffSettles`) is what
the hard cap sees to: `HardCapEnds` of `RoomHandoffs`, checked in `handoffs`. It
is asked once for all threads, since `awaiting` only shrinks when `MaxHandoffs` is
reached. No fairness is asked of people or of deletions.

In `RoomHandoffs` the 250 ms timer fires for ever and a tick runs to its end
(`TickFairness`); no turn is assumed to end, the windows do the work. In
`Delegations` microtasks run, and while turns run or an approval is open one of
them ends (`Arrives`: results, the watchdog, the timeout of an approval). In
`Routines` the 10 second timer fires and awaits return, a turn that is not asking
a person starts and ends (the watchdog ends it if nothing else does), handed-out
work comes back (`Delegations` shows that it does) and other work leaves the bot.
In `DataDirLease` a process in the middle of an acquisition goes on, since it is
straight-line synchronous code; it may also die. Where liveness is meant to hold
again and again under restarts it is stated as `[]<>`.

`channel_live` assumes that members do not hang, and takes no steers, because
with either the code does leave a queue in an idle room: finding 3, and the
indeterminate steer in the hazards. `steer_core` leaves the room out because of
finding 2.

## Findings

1. **The same words both ways** (`steer_bothways`). The queue-steer route puts
   the queue back when the bot is no longer busy, also if the engine said
   "steered": the ended turn has the words, and the drain runs them again. The
   comment above the hold says "never both for the same words"; the send route
   answers 409 in this case. A restart in that window does the same, since the
   rows of a held queue stay pending until the steer is answered.
2. **Opened thread stranded by a room** (`steer_roomstrand`). Words that
   `startOrQueueOpenedThread` queues while a room holds the bot are skipped by
   the drain at the room turn's end, because the operation still holds the bot;
   the end of the operation drains only the room queue.
3. **Room queue stranded by a timeout** (`channel_strand`). When a member times
   out or stalls, its operation finishes first and its drain skips the room,
   which still names the member. The release six seconds later drains the direct
   queue only. The room is idle with a queue, and the next message passes it.
4. **Pruning takes what runs** (`handoff_prune`). Stop settles the root of a tree
   and leaves a teammate at work below it. A settled root is history to
   `enqueue`, which at its limit deletes the tree, the running node included,
   against "without evicting active requests". The result is reported to nobody.

More behaviours were met while modelling. No run stands for them: for most, no
line of the repository promises the contrary in so many words; the first is a
second way into what the room findings show, words that are not run.

- *Stop gives up the parked words.* `Stop` on an idle thread that awaits delegated
  work settles its nodes (`index.ts:1099`); the hook drains and starts a turn with
  the parked words; and the same handler goes on to `cancelDirectTurnDispatch`
  (1102), which takes that turn for the one to stop and fails its setup. The words
  are in the transcript, their rows are retired, and nobody ran them, although
  `steer-queue.ts:15-19` and `index.ts:5385-5388` promise that an interrupted turn's
  words run. In the model: `HandoffSettles`, the drain, `DispatchFailed`.
- *Parking switched off.* A `PATCH` that turns `parkDirectMessages` off drains nothing
  (`SetParking`). The words wait for the next event, and a message sent before it
  finds the thread neither busy nor parked and starts ahead of them.
- *A start before the removal.* The `DELETE` of a thread cancels its handoffs while
  the thread still exists, so that its parked words may start a turn just before
  `deleteTask` removes it; the setup of that turn then finds its thread gone.
- *Two scheduled runs in line.* A one-time routine whose run is still in the queue
  may be given another time; the tick exempts one-time schedules from the overlap
  check (`routines.ts:1407`) and queues a second. If it is then made recurring, a
  recurring routine has two scheduled runs in line, whatever its overlap setting
  says. They run one after the other (1483), and no third joins them:
  `ScheduledInTurn` says this much.
- *Two leases, one directory.* A starter looks for a live delegated child first and
  asks for the primary lease afterwards. If a desktop dies just after its child
  has confirmed it and before the starter retires its lease, and the child took
  its lease after the starter's look, both the child and the starter serve the
  same directory. Each lease by itself has one holder (`OneHolder`); that both
  together have is what `DataDirLease` does not satisfy.
- *Early drains.* A drain of delegations that ends sets off another for whatever is
  queued outside its snapshot (`delegations.ts:474`), also for what a turn of that
  thread has queued and still runs for. The peer then starts before its source
  has settled; a Stop of that turn no longer drops the work.

## Proofs

Every invariant and every action property that a passing run checks, and both
refinements, are proved for all values of the constants; liveness is left to
TLC. Threads, words, bots, steerers, routines, processes may be any sets, bounds
any naturals. The assumptions on constants are the named ASSUMEs of the modules.
Those that are more than a type: requests of people and of steers are different
things, each word has a thread; a delivery is not a routine
(`DeliveriesAssumption`); a bot has at least one slot (`Slots > 0`, which
`config.ts:427` sees to). Some theorems hold under a condition, which they state
and which the sections below explain.

One way of proof serves all of them. A property speaks of the end of a story and
is seldom inductive; the invariant adds what every step on the way must know.
Each action is a lemma of its own; actions that touch little go by a few lemmas
about "calm" steps, and what a step does to an operator is a lemma cited by name.
`tlapm` cannot do induction over data here. Where a recursive function is needed
it is shown to exist as a least fixed point (`RoomHandoffsProofs`), and what holds
along a chain is shown by taking the least element that breaks it (`Least`).

### The direct queue

`SteerQueueProofs`: `Soundness` (`[]IInv`), `TypeCorrect`, `ClaimedOnceHolds`.
`ClaimedOnce` is not inductive: it says nothing of words that a drain or a
restart may claim next. `IInv` adds that what waits in the map (`QueueSound`) or
in a hold (`HeldSound`) is unclaimed, is on the thread it is filed under and is
in one place only, so that a claim is the first and leaves no second copy; that
a row the journal calls pending is unclaimed (`JournalSound`), so that what
recovery restores is unclaimed too; and that recovery runs with no steer in
flight (`BootSound`), so that a restored word cannot also be in a hold. `IInv`
itself is an invariant of `steer_all`.

The same module proves `NeverInTwoPlacesHolds` and `WithinCapacityHolds`.
A drain looks at the room and at the slots when it claims and starts the turn
two commits later; `TurnInv` therefore says that between the two (`frame` is
`"append"` or `"start"`) the room does not hold the bot and a slot is free. It
also says that the busy threads are a finite set, which the number of threads
need not be. Two lemmas do the work: a step that starts nothing keeps `TurnInv`,
and so does one that starts one turn in a free slot.

`SteerQueueJournalProofs`: `JournalSoundness` (`[]JInv`), and from it, without a
condition, `PendingIsReachableHolds` and `JournalKeepsTheLedger`, the refinement of
`FollowupLedger`. `JInv` says where the words of every pending row wait: in their
queue, in a hold, or in the batch that a running turn took in and that is being
settled (`WordsSound`). It says what each handler between two commits has in
hand, so that a drain settles what it claimed and a fold what it wrote
(`BatchSound`), that a turn retires rows whose words are in the transcript
(`TurnSound`), that recovery marks and retires a row of a thread that exists
(`RecoverSound`), what the stages of a restart leave empty (`StagesSound`), and
that the key order of the map is the queues that are not empty (`LineSound`).
The refinement then takes the actions one by one: each keeps every fate
(`LedgerStutters`) or changes those of one kind (`LedgerSays`, `LedgerRecords`,
`LedgerDrops`).

The other three hold under a condition.

- `WordsWaitInOrder`: while no two steers of one thread overlap
  (`OneHoldPerThread`), what waits is in the order of acceptance. With at most one
  steerer there is no condition (`OneSteererKeepsOrder`). `OrderSound` says that
  queues and holds rise, that a hold is older than what was queued behind it, and
  that what a boot has restored is older than what it has yet to restore.
- `WordsAreSaidOnce`: without steers. `UsedOnce` says that words have one queue id,
  or were said at once, or their send still waits for its answer: this is what
  the checks of a retried send add up to. `SettledSound` says that a row settles
  only with its words in the transcript, which is where a retry finds them, and
  `FreshSound` that nothing pending has been said, so that a drain or a recovery
  says it the first time. With steers the last is false: a fold writes the line
  and settles the row in two commits, and a crash between them leaves a pending
  row that was said; and a retried send does not see words that a steer holds.
- `TheLineIsServed`: without steers. A drain passes a thread only if it is busy,
  deleted or parked. `NobodyJumpsTheLine` says that a thread gets
  before another only by being taken out of the line and put back, and
  `WalkSound` that a drain visits whoever stands before a thread first, or found
  that it cannot start. With steers the property is false as stated: the hold
  takes a thread out of the line, and a steer that is declined or refused puts it
  back at the end. TLC shows the counterexamples to this and to the one before.

### The room queue

`ChannelQueueProofs`: `RoomQueueSound` (`[]CInv`), `RoomQueueTyped`,
`FollowupsClaimedOnce`, `PeopleTakeTurns`, `PendingRowsAreHeld`.
`CInv` says of every id where it may be. It waits in a queue, in a hold or
as the head that a running turn took in (`WordsSound`), or it was claimed and is
started, at work or about to be settled (`LaunchSound`), or recovery has it
(`RecoverSound`). `LineSound` says that the key order of the map is the queues
that are not empty, so that a drain passes none of them by; `WalkSound`, that a
drain begins a thread only if its queue has not been emptied since; `OnePerson`,
that a second operation of a person waits for the first one's end.

Four more properties hold under a condition. Each condition is needed; TLC shows
the counterexample without it.

- `PendingRowsAreInOrder`: while no two steers of one thread overlap
  (`OneHoldPerThread`), the pending rows are in their queue in the order in which
  they were accepted. With at most one steerer there is no condition
  (`OneSteererKeepsOrder`). `OrderSound` says that each queue and hold rises and
  that a hold is older than what was queued behind it.
- `RoomKeepsTheLedger`: the journal with the transcript implements
  `FollowupLedger`, step by step, if no task is deleted under a steer of it
  (`HoldsKeepTheirThread`). With one task, without deletion or without steers there
  is no condition (`OneTaskKeepsTheLedger`). `LedgerSound` says what each fate
  knows of the transcript.
- `IdleRoomsHaveNoQueue` and `NobodyIsOvertaken`, for rooms whose members do not
  hang and that nobody steers: finding 3 and hazard `index.ts:14270` are what
  happens otherwise. `SpeakerSound` says whom the room names at each stage of an
  operation, `IdleSound` that words wait only while there is an operation or a
  drain to come.

### Handoffs, delegations, routines

`RoomHandoffsProofs` proves `RInv` and from it `HandoffsTyped`, `ParentsWait`,
`ResultsSaidOnce`, `ParentsAreTold`, `OutcomesKept` and `RunwaysKept`. A node is made
under an older one of its tree (`InSequence`, `Descent`), so that lines of
ancestors end and the recursive functions that follow them exist. The author of
open work has not completed and waits once the work has begun (`InOrder`); a turn
that settles counts its children, and `Counted` says that those it had already
found are not open again, so that equal counts mean nothing was added meanwhile.
`ReportsSaid`, `Saying` and `Resumes` follow a result from the row to the mark and
from there to the resume. `RunwaysKept` needs no invariant but the shape of the
tree: whatever the expiry takes it takes with its subtree, and a runner in its
runway shields all its ancestors.

`DelegationsProofs` proves `DInv` and from it `DelegationsTyped`, `HandoffsStartOnce`,
`BotsKeepToSlots`, `HandoffsAreKnown` and `HandoffsStayOver`. A drain works on the
oldest item of its snapshot, which others may end while it waits (`Snapshots`). An
item starts once in a life of the process because between the start and the
removal from the queue it is at the head of the one drain that started it
(`Begun`, `StartsBound`); what is removed has a receipt, a watched turn, or was cut
short by a restart (`Told`, `Watched`).

`RoutinesProofs` proves `RunInv` and from it `RoutinesTyped`, `RunsGoForward`,
`NoTurnIsOrphaned`, `ScheduledRunsTakeTurns` and `DeliveriesRunOnce`. The properties
count runs with `Cardinality`; the invariant says instead that two such runs are
the same run (`OneAtWork`, `OnePending`), and that ids are given
without gaps (`InSequence`), so that no new run lies over an old one. The line of a
routine has no invariant, since edits may leave it longer than one;
`ScheduledRunsTakeTurns` therefore speaks of steps, and each action is shown not
to lengthen it (`LineHeld`). What a tick
noted before others acted is looked at again at each step, which is why nothing
needs to be said of its lists but that they are finite.

### The lease

`DataDirLeaseProofs`, for every number of processes, pids, generations and boots,
on platforms that see a pid reused and on those that do not: `LeaseInvHolds`,
`OneHolderHolds`. Every removal goes by the path, so a reaper that
stands before `Unlink` could remove the file of somebody who linked after its
last look. `LeaseInv` says why it cannot. A record names a process that was
started and, if its owner lives, was written in this boot (`BootKnown`,
`RecordsKnown`), so that whoever looks dead is dead (`SeemsDeadIsDead`) and stays
so. Who retires an owner knows it is dead (`TargetDead`), and so are the reapers of
all earlier generations of that election (`ReapersDead`), while its own record is
the one of its generation (`Recorded`). Hence at most one live process acts on a
dead owner (`OneReaper`), and the file cannot change under it between its second
read and the unlink (`Aimed`): it names a dead process, which does not release,
and nobody else may retire it. Steps that leave the files alone go by three
lemmas (`CalmStep`, `QuietStep`, `GuardSteps`); the others have one each.

### What the proofs brought to light

Both hold in the instances above and fail in slightly larger ones, which TLC
confirms.

- *Two steers at once turn a queue around.* A first steer holds word 1, word 2 is
  queued, a second steer of the same thread holds word 2. The first is refused
  and puts 1 back; the second is refused and puts 2 back in front of it. The
  comments say that words queued while the hold was open "keep their place behind
  the restored items" (`channel-queue.ts:116`; `steer-queue.ts` restores the same
  way). Hence the condition of `PendingRowsAreInOrder` and of `WordsWaitInOrder`.
- *A line for a deleted task.* An indeterminate steer that returns after its task
  was deleted records the held head all the same (`index.ts:14270` asks only whether
  the head is there). Its row went with the task, so the ledger has dropped it: the
  line belongs to nothing. Hence the condition of `RoomKeepsTheLedger`.

### Only model-checked

Liveness under fairness, which is outside the prover's reach: `WordsGetTheirTurn`
of both queues, `ParentGoesOn`, `HardCapEnds`, `NothingWaits`, `EveryRunEnds`,
`Recovers`. `SaidOnce` and `LineIsServed` are neither checked nor proved together
with steers, for the reasons given with their theorems.

## Not modelled

- *Provider protocols, prompts, titles, attachments, replies*: data that no
  property tells apart. A refusal to start is a step that changes nothing but
  the transcript's error lines, which are left out.
- *The send sequencer*: two sends of one sendId run one after the other in the
  models, which is what it provides.
- *Stop*: a turn may end at any time, and an operation wherever its code looks at
  `cancelled`. The extra drains of the interrupt route are not separate steps.
- *Approval cards and goal runs* in a room, chained mentions. In `SteerQueue` the
  handoff trees are the set of threads that await them; `RoomHandoffs` has the
  trees. `DELETE` of a bot stops its threads first; those stops are earlier
  `TurnCompleted` and `HandoffSettles` steps.
- *Steers and retries at once*: `steer_core`, which checks `SaidOnce` and
  `LineIsServed`, has no steers.
- *In `RoomHandoffs`*: the request keys of repeated calls, the approval of a request,
  the text of results.
- *In `Delegations`*: rooms as source, routine runs as source, provider reloads and
  changes of the company connection, waiting chips, mirrors into channels. A start
  may be refused for any reason; a thread is opened for one item only. The code
  renews the budget of wakes with time as well (`delegations.ts:933`); in the model
  only a person's turn clears it (`index.ts:5769`). `Launch` leaves out the look at the slots that `startTurn` takes once
  more (`index.ts:5748-5752`), so the model starts no less than the code.
- *In `Routines`*: room goals, results threads, repeated requests by key, cron
  arithmetic, pruning of old runs, the pending cap of a trigger. `ScheduledInTurn`
  is about the status of runs: a stopped run's turn may still be stopping.
  `EveryRunEnds` excuses a queued run whose interval need never allow it again;
  nothing is assumed of when a window opens.
- *In `DataDirLease`*: candidate files (nobody else opens them), owners on other
  machines and corrupt records (refused without a change), the move of an older
  directory, the uptime signal of records without a boot id. A release that is
  refused goes back to holding the lease; any primary holder may fork, though
  only a desktop does. A Windows process whose creation time cannot be read is
  the case without `SeesReuse`. With `SeesReuse` the model takes the look at the
  owner's identity as exact. The code compares the creation time of the process
  with the `createdAt` of the lease (`data-dir-lease.mjs:227`), two times of the
  wall clock, which may be set in between; the comment at 40-43 says that nothing
  is derived from it. The theorems for platforms that see a reused pid rest on
  that; no run uses the case.
- *Writes that fail*: a full disk. `PROJECT.json` names one place where it would
  matter (`routines.ts:1328`).
- *Power loss*: what a write without FULL sync may lose.
- *Turn dispatch guard, room continuations, goal runs, turn resources, approvals,
  computer control*: state machines of their own, left for want of room, not of
  need. The two box journals use an election of reapers like that of
  `DataDirLease`; the rest of them is calls to a provider.
- *Everything else*: most of the repository is web, phone and desktop clients,
  provider protocols, and the text and layout of prompts and cards, which have no
  state that the properties here tell apart. The map therefore covers a few
  percent of all lines: about half of those of the queues, the delegations and
  the lease, three quarters of the handoffs, a third of the routines, and the
  routes and hooks of `index.ts` that drive them.
- Components marked `not_modelled` in `PROJECT.json`.

## Plan

No safety property of a passing run is left unproved. Worth proving next are
the conditions themselves where they can be made weaker: `NobodyIsOvertaken` and
`IdleRoomsHaveNoQueue` for a room that is steered but whose steers are never
indeterminate, and a `SaidOnce` for the direct queue with steers that excepts the
ids a crash caught between a fold's line and its settlement.

Modules to be proved about declare no recursive operator and name their
assumptions. If the models grow again: the turn dispatch guard with drivers that
reorder events, then room continuations on top of `RoomHandoffs`.
