---------------------------- MODULE Delegations ----------------------------
(***************************************************************************)
(* Work that a bot hands to another and does not wait for                   *)
(* (server/delegations.ts), with its callers in server/index.ts.            *)
(*                                                                         *)
(* A turn queues handoffs on its thread; they are drained when it completes. *)
(* A drain takes a snapshot and launches, holds, drops or expires its items  *)
(* one after the other; it may wait minutes for a person's approval.  An     *)
(* item found with a busy target is held until that bot is released.  The    *)
(* queue, with every mark on its items, and the receipts are on disk; drains, *)
(* watches and parked wakes are in memory.                                   *)
(*                                                                         *)
(* Between two events the process runs microtasks to the end: the steps of   *)
(* drains, the retries of released bots and the wakes they cause.            *)
(***************************************************************************)
EXTENDS Naturals, FiniteSets

CONSTANTS
  Bots,         \* bots, each with the conversation named after it
  Reviewed,     \* bots whose handoffs a person approves (approvePeerComms)
  Slots,        \* maxConcurrentBotThreads
  MaxQueued,    \* MAX_QUEUED_PER_THREAD
  WakeLimit,    \* DELEGATION_WAKE_MAX_PER_WINDOW
  MaxItems,     \* bound: handoffs ever queued
  MaxTurns,     \* bound: turns started by persons
  MaxBarred,    \* bound: handoffs whose route is withdrawn
  MaxCrashes    \* bound: restarts of the server

Ids    == 1 .. MaxItems
Places == Bots \cup Ids   \* conversations: a bot's own, and one opened for an item
Nothing == 0

ASSUME BotsAssumption == Reviewed \subseteq Bots /\ Bots \cap Nat = {}
ASSUME BoundsAssumption ==   \* a bot has at least one slot: config.ts:427
  /\ {Slots, MaxQueued, WakeLimit, MaxItems, MaxTurns, MaxBarred, MaxCrashes} \subseteq Nat
  /\ Slots > 0

VARIABLES
  item,      \* the handoffs; state "pending" while in pendingDelegations
  drain,     \* the drain of each source thread
  redrain,   \* queuedRedrains
  retry,     \* delegationRetryBots: bots whose release is a microtask away
  turn,      \* the turn of each conversation
  watch,     \* delegationWatch: the item whose turn runs in a conversation
  receipt,   \* the receipt of each item
  wakes,     \* pendingDelegationWakes: sources that wait to be resumed
  waking,    \* sources that are about to be resumed
  budget,    \* wakes of each source in its current window
  starts,    \* turns started for each item
  barred,    \* items that lost their route, thread, sender or target
  turns, crashes

vars == <<item, drain, redrain, retry, turn, watch, receipt, wakes, waking, budget,
          starts, barred, turns, crashes>>

NoItem   == [state |-> "none", from |-> "none", to |-> "none", opened |-> FALSE,
             held |-> FALSE, granted |-> FALSE, late |-> FALSE, fresh |-> FALSE]
Idle     == [phase |-> "idle", todo |-> {}, seen |-> {}]
Verdicts == {"done", "failed", "dropped", "stopped", "denied", "expired"}

TypeOK ==
  /\ item \in [Ids -> [state : {"none", "pending", "gone"}, from : Bots \cup {"none"},
                       to : Bots \cup {"none"}, opened : BOOLEAN, held : BOOLEAN,
                       granted : BOOLEAN, late : BOOLEAN, fresh : BOOLEAN]]
  /\ drain \in [Bots -> [phase : {"idle", "ready", "asking", "settled", "launched"},
                         todo : SUBSET Ids, seen : SUBSET Ids]]
  /\ redrain \subseteq Bots /\ retry \subseteq Bots
  /\ turn \in [Places -> {"none", "own", "wake", "job", "settling"}]
  /\ watch \in [Places -> 0 .. MaxItems]
  /\ receipt \in [Ids -> Verdicts \cup {"none"}]
  /\ wakes \subseteq Bots /\ waking \subseteq Bots
  /\ budget \in [Bots -> 0 .. WakeLimit]
  /\ starts \in [Ids -> Nat]
  /\ barred \subseteq Ids
  /\ turns \in 0 .. MaxTurns /\ crashes \in 0 .. MaxCrashes

-----------------------------------------------------------------------------
Pending(b) == {i \in Ids : item[i].state = "pending" /\ item[i].from = b}
Place(i)   == IF item[i].opened THEN i ELSE item[i].to
BotOf(p)   == IF p \in Bots THEN p ELSE item[p].to
Busy(b)    == {p \in Places : turn[p] # "none" /\ BotOf(p) = b}

(* A classic handoff needs the whole bot, a fresh thread a free slot.  *)
CanTake(i) ==
  IF item[i].opened THEN Cardinality(Busy(item[i].to)) < Slots ELSE Busy(item[i].to) = {}

(* An event waits until no microtask is left. *)
Quiet == /\ \A b \in Bots : drain[b].phase \in {"idle", "asking"}
         /\ retry = {} /\ waking = {}

(* drainDelegations on the threads S, whose queues are now as in it: where a *)
(* drain runs the request is remembered, elsewhere a snapshot is taken.       *)
QueueIn(it, b) == {i \in Ids : it[i].state = "pending" /\ it[i].from = b}
Snapshot(it, b) ==
  IF QueueIn(it, b) = {} THEN Idle
  ELSE [phase |-> "ready", todo |-> QueueIn(it, b), seen |-> QueueIn(it, b)]
Drained(it, S) ==
  [b \in Bots |-> IF b \in S /\ drain[b].phase = "idle" THEN Snapshot(it, b) ELSE drain[b]]
Redrains(S) == redrain \cup {b \in S : drain[b].phase # "idle"}

(* finalizeDelegationWatch: the receipt of the item watched in p, if any, *)
(* and its source.                                                         *)
Finalized(p, ok) ==
  IF watch[p] = Nothing THEN receipt
  ELSE [receipt EXCEPT ![watch[p]] = IF ok /\ watch[p] \notin barred THEN "done" ELSE "failed"]
Source(p) == IF watch[p] = Nothing THEN {} ELSE {item[watch[p]].from}

(* discardDelegations: the whole queue of the thread goes, whichever turn    *)
(* queued it.                                                                *)
Discarded(b) == [i \in Ids |-> IF i \in Pending(b) THEN [item[i] EXCEPT !.state = "gone"] ELSE item[i]]
Stopped(r, b) == [i \in Ids |-> IF i \in Pending(b) THEN "stopped" ELSE r[i]]

(* The turn in p is over: what it queued is no longer fresh. *)
Settle(it, p) == [i \in Ids |-> IF p \in Bots /\ it[i].from = p THEN [it[i] EXCEPT !.fresh = FALSE] ELSE it[i]]

-----------------------------------------------------------------------------
(* Turns of persons, and what they hand out. *)

StartTurn(b) ==
  /\ Quiet /\ turns < MaxTurns /\ turn[b] = "none" /\ Cardinality(Busy(b)) < Slots
  /\ turn' = [turn EXCEPT ![b] = "own"]
  /\ budget' = [budget EXCEPT ![b] = 0]
  /\ turns' = turns + 1
  /\ UNCHANGED <<item, drain, redrain, retry, watch, receipt, wakes, waking, starts, barred, crashes>>

NextId == Cardinality({i \in Ids : item[i].state # "none"}) + 1

(* queueDelegation, and start_thread on a peer: turns that themselves run for *)
(* a handoff are at the depth limit.                                          *)
Queue(b, to, opened) ==
  LET i == NextId
  IN  /\ Quiet /\ i \in Ids /\ turn[b] \in {"own", "wake"}
      /\ to # b /\ Cardinality(Pending(b)) < MaxQueued
      /\ item' = [item EXCEPT ![i] = [NoItem EXCEPT !.state = "pending", !.from = b, !.to = to,
                                                    !.opened = opened, !.fresh = TRUE]]
      /\ UNCHANGED <<drain, redrain, retry, turn, watch, receipt, wakes, waking, budget,
                     starts, barred, turns, crashes>>

(* turn.completed, a Stop and the stall watchdog included: the watch is       *)
(* settled, the thread's handoffs are drained or dropped, and whatever waits  *)
(* for this bot is retried.  A turn that used a screen stays busy a while.    *)
Completed(p, ok, lingers) ==
  LET b  == BotOf(p)
      it == Settle(IF ok \/ p \notin Bots THEN item ELSE Discarded(p), p)
  IN  /\ Quiet /\ turn[p] \in {"own", "wake", "job"}
      /\ item' = it
      /\ receipt' = IF ok \/ p \notin Bots THEN Finalized(p, ok) ELSE Stopped(Finalized(p, ok), p)
      /\ turn' = [turn EXCEPT ![p] = IF lingers THEN "settling" ELSE "none"]
      /\ watch' = [watch EXCEPT ![p] = Nothing]
      /\ IF ok /\ p \in Bots
         THEN drain' = Drained(it, {p}) /\ redrain' = Redrains({p})
         ELSE UNCHANGED <<drain, redrain>>
      /\ retry' = retry \cup {b}
      /\ waking' = waking \cup Source(p) \cup wakes
      /\ wakes' = {}
      /\ UNCHANGED <<budget, starts, barred, turns, crashes>>

(* The last frame of the screen is taken, and the bot is released. *)
Released(p) ==
  /\ Quiet /\ turn[p] = "settling"
  /\ turn' = [turn EXCEPT ![p] = "none"]
  /\ retry' = retry \cup {BotOf(p)}
  /\ waking' = waking \cup wakes /\ wakes' = {}
  /\ UNCHANGED <<item, drain, redrain, watch, receipt, budget, starts, barred, turns, crashes>>

(* The setup of a turn fails: no turn.completed follows, nothing of the       *)
(* thread is drained or dropped, but the bot is released.                     *)
(* mutant of SetupFailed: leaves out the retry hook *)
SetupFailedQuietly(p) ==
  /\ Quiet /\ turn[p] \in {"own", "wake", "job"}
  /\ p \in Bots => \A i \in Ids : item[i].from = p => ~item[i].fresh
  /\ turn' = [turn EXCEPT ![p] = "none"]
  /\ receipt' = Finalized(p, FALSE)
  /\ watch' = [watch EXCEPT ![p] = Nothing]
  /\ waking' = waking \cup Source(p) \cup wakes /\ wakes' = {}
  /\ UNCHANGED <<item, drain, redrain, retry, budget, starts, barred, turns, crashes>>
SetupFailed(p) ==
  /\ Quiet /\ turn[p] \in {"own", "wake", "job"}
  /\ p \in Bots => \A i \in Ids : item[i].from = p => ~item[i].fresh
  /\ turn' = [turn EXCEPT ![p] = "none"]
  /\ receipt' = Finalized(p, FALSE)
  /\ watch' = [watch EXCEPT ![p] = Nothing]
  /\ retry' = retry \cup {BotOf(p)}
  /\ waking' = waking \cup Source(p) \cup wakes /\ wakes' = {}
  /\ UNCHANGED <<item, drain, redrain, budget, starts, barred, turns, crashes>>

(* A section, a peer list, a thread or a bot changes: item i has no route. *)
Bar(i) ==
  /\ Quiet /\ i \notin barred /\ Cardinality(barred) < MaxBarred
  /\ item[i].state = "pending" \/ \E p \in Places : watch[p] = i
  /\ barred' = barred \cup {i}
  /\ UNCHANGED <<item, drain, redrain, retry, turn, watch, receipt, wakes, waking, budget,
                 starts, turns, crashes>>

(* Twenty-four hours pass for an item that waits. *)
Elapse(i) ==
  /\ Quiet /\ item[i].state = "pending" /\ ~item[i].late
  /\ item[i].held \/ drain[item[i].from].phase = "asking"
  /\ item' = [item EXCEPT ![i].late = TRUE]
  /\ UNCHANGED <<drain, redrain, retry, turn, watch, receipt, wakes, waking, budget,
                 starts, barred, turns, crashes>>

(* expireStaleDelegations, hourly: overdue items whose target still cannot    *)
(* take them, on threads that no drain works on.                              *)
Stale == {i \in Ids : /\ item[i].state = "pending" /\ item[i].late /\ ~CanTake(i)
                      /\ drain[item[i].from].phase = "idle"}
Sweep ==
  /\ Quiet /\ Stale # {}
  /\ item' = [i \in Ids |-> IF i \in Stale THEN [item[i] EXCEPT !.state = "gone"] ELSE item[i]]
  /\ receipt' = [i \in Ids |-> IF i \in Stale THEN "expired" ELSE receipt[i]]
  /\ waking' = waking \cup {item[i].from : i \in Stale}
  /\ UNCHANGED <<drain, redrain, retry, turn, watch, wakes, budget, starts, barred, turns, crashes>>

-----------------------------------------------------------------------------
(* The steps of the drain of thread b. *)

Oldest(S) == CHOOSE i \in S : \A j \in S : i <= j
Due(b)    == Oldest(drain[b].todo)
To(b, phase) == drain' = [drain EXCEPT ![b].phase = phase]
Pass(b)      == drain' = [drain EXCEPT ![b].phase = "ready", ![b].todo = @ \ {Due(b)}]

(* The item ends without a turn. *)
Ends(b, i, verdict) ==
  /\ receipt' = [receipt EXCEPT ![i] = verdict]
  /\ To(b, "settled")
  /\ UNCHANGED <<item, turn, watch, starts>>

(* The target is busy: an overdue item expires, another one is held. *)
Waits(b, i) ==
  \/ item[i].late /\ Ends(b, i, "expired")
  \/ /\ ~item[i].late /\ Pass(b)
     /\ item' = [item EXCEPT ![i].held = TRUE]
     /\ UNCHANGED <<receipt, turn, watch, starts>>

(* mutant of Launch: nobody watches the turn *)
LaunchUnwatched(b, i, it) ==
  /\ item' = it /\ To(b, "launched")
  /\ turn' = [turn EXCEPT ![Place(i)] = "job"]
  /\ starts' = [starts EXCEPT ![i] = @ + 1]
  /\ UNCHANGED <<receipt, watch>>
(* runTarget: the watch is set, and the turn starts or is refused. *)
Launch(b, i, it) ==
  /\ item' = it /\ To(b, "launched")
  /\ \/ /\ turn' = [turn EXCEPT ![Place(i)] = "job"]
        /\ watch' = [watch EXCEPT ![Place(i)] = i]
        /\ starts' = [starts EXCEPT ![i] = @ + 1]
        /\ UNCHANGED receipt
     \/ /\ receipt' = [receipt EXCEPT ![i] = "failed"]
        /\ UNCHANGED <<turn, watch, starts>>

(* One item of the snapshot, up to the first wait. *)
DrainItem(b) ==
  LET i == Due(b)
      unheld == [item EXCEPT ![i].held = FALSE]
  IN  /\ drain[b].phase = "ready" /\ drain[b].todo # {}
      /\ \/ /\ item[i].state # "pending"
            /\ Pass(b) /\ UNCHANGED <<item, receipt, turn, watch, starts>>
         \/ /\ item[i].state = "pending" /\ i \in barred
            /\ Ends(b, i, "dropped")
         \/ /\ item[i].state = "pending" /\ i \notin barred /\ ~CanTake(i)
            /\ Waits(b, i)
         \/ /\ item[i].state = "pending" /\ i \notin barred /\ CanTake(i)
            /\ IF b \in Reviewed /\ ~item[i].granted
               THEN item' = unheld /\ To(b, "asking") /\ UNCHANGED <<receipt, turn, watch, starts>>
               ELSE Launch(b, i, unheld)
      /\ UNCHANGED <<redrain, retry, wakes, waking, budget, barred, turns, crashes>>

(* The person answers, or fifteen minutes pass; everything is looked at again. *)
(* mutant of Verdict: goes on with the item as it was before the wait *)
VerdictStale(b, allow) ==
  LET i == Due(b)
      granted == [item EXCEPT ![i].granted = TRUE]
  IN  /\ Quiet /\ drain[b].phase = "asking"
      /\ \/ ~allow /\ Ends(b, i, "denied")
         \/ allow /\ Launch(b, i, granted)
      /\ UNCHANGED <<redrain, retry, wakes, waking, budget, barred, turns, crashes>>
(* mutant of Verdict: does not look whether the target is still free *)
VerdictUnchecked(b, allow) ==
  LET i == Due(b)
      granted == [item EXCEPT ![i].granted = TRUE]
  IN  /\ Quiet /\ drain[b].phase = "asking"
      /\ \/ /\ item[i].state # "pending"
            /\ To(b, "settled") /\ UNCHANGED <<item, receipt, turn, watch, starts>>
         \/ item[i].state = "pending" /\ i \in barred /\ Ends(b, i, "dropped")
         \/ item[i].state = "pending" /\ i \notin barred /\ ~allow /\ Ends(b, i, "denied")
         \/ item[i].state = "pending" /\ i \notin barred /\ allow /\ Launch(b, i, granted)
      /\ UNCHANGED <<redrain, retry, wakes, waking, budget, barred, turns, crashes>>
Verdict(b, allow) ==
  LET i == Due(b)
      granted == [item EXCEPT ![i].granted = TRUE]
      answered == item[i].state = "pending" /\ i \notin barred
  IN  /\ Quiet /\ drain[b].phase = "asking"
      /\ \/ /\ item[i].state # "pending"
            /\ To(b, "settled") /\ UNCHANGED <<item, receipt, turn, watch, starts>>
         \/ item[i].state = "pending" /\ i \in barred /\ Ends(b, i, "dropped")
         \/ answered /\ ~allow /\ Ends(b, i, "denied")
         \/ answered /\ allow /\ CanTake(i) /\ Launch(b, i, granted)
         \/ /\ answered /\ allow /\ ~CanTake(i)
            /\ IF item[i].late
               THEN /\ item' = granted /\ receipt' = [receipt EXCEPT ![i] = "expired"]
                    /\ To(b, "settled") /\ UNCHANGED <<turn, watch, starts>>
               ELSE /\ item' = [granted EXCEPT ![i].held = TRUE]
                    /\ Pass(b) /\ UNCHANGED <<receipt, turn, watch, starts>>
      /\ UNCHANGED <<redrain, retry, wakes, waking, budget, barred, turns, crashes>>

(* acknowledgeDelegation; the source of an item that ended without a turn, or *)
(* whose turn was refused, is resumed, unless the item had gone meanwhile.    *)
Resumes(b, i) ==
  item[i].state = "pending" /\ (drain[b].phase = "settled" \/ watch[Place(i)] # i)
(* mutant of Acknowledge: a launched item stays in the queue *)
AcknowledgeSettled(b) ==
  LET i == Due(b)
  IN  /\ drain[b].phase \in {"settled", "launched"}
      /\ item' = IF drain[b].phase = "settled" THEN [item EXCEPT ![i].state = "gone"] ELSE item
      /\ waking' = IF Resumes(b, i) THEN waking \cup {b} ELSE waking
      /\ Pass(b)
      /\ UNCHANGED <<redrain, retry, turn, watch, receipt, wakes, budget, starts, barred, turns, crashes>>
Acknowledge(b) ==
  LET i == Due(b)
  IN  /\ drain[b].phase \in {"settled", "launched"}
      /\ item' = [item EXCEPT ![i].state = "gone"]
      /\ waking' = IF Resumes(b, i) THEN waking \cup {b} ELSE waking
      /\ Pass(b)
      /\ UNCHANGED <<redrain, retry, turn, watch, receipt, wakes, budget, starts, barred, turns, crashes>>

(* The drain is over: it is run again if that was asked for meanwhile, or if  *)
(* the queue holds items it has not seen.                                     *)
DrainEnd(b) ==
  /\ drain[b].phase = "ready" /\ drain[b].todo = {}
  /\ drain' = [drain EXCEPT ![b] = IF b \in redrain \/ ~(Pending(b) \subseteq drain[b].seen)
                                   THEN Snapshot(item, b) ELSE Idle]
  /\ redrain' = redrain \ {b}
  /\ UNCHANGED <<item, retry, turn, watch, receipt, wakes, waking, budget, starts, barred, turns, crashes>>

(* retryDelegationsWaitingOn: a bot that is idle again releases all that is   *)
(* held for it, one with a free slot the fresh threads, and the queues of the *)
(* released items are drained.                                                *)
Retry(b) ==
  LET free == {i \in Ids : /\ item[i].state = "pending" /\ item[i].to = b /\ item[i].held
                           /\ Busy(b) = {} \/ (item[i].opened /\ Cardinality(Busy(b)) < Slots)}
      S    == {item[i].from : i \in free}
      it   == [i \in Ids |-> IF i \in free THEN [item[i] EXCEPT !.held = FALSE] ELSE item[i]]
  IN  /\ b \in retry
      /\ retry' = retry \ {b}
      /\ item' = it /\ drain' = Drained(it, S) /\ redrain' = Redrains(S)
      /\ waking' = waking \cup wakes /\ wakes' = {}
      /\ UNCHANGED <<turn, watch, receipt, budget, starts, barred, turns, crashes>>

(* wakeDelegationSource: the source is resumed now, or parked while it is     *)
(* busy; wakes beyond the budget of the window are given up.                  *)
(* mutant of Wake: does not keep to the budget *)
WakeUnbounded(b) ==
  /\ b \in waking
  /\ waking' = waking \ {b}
  /\ \/ /\ turn[b] # "none" \/ Cardinality(Busy(b)) >= Slots
        /\ wakes' = wakes \cup {b} /\ UNCHANGED <<turn, budget>>
     \/ /\ turn[b] = "none" /\ Cardinality(Busy(b)) < Slots
        /\ turn' = [turn EXCEPT ![b] = "wake"]
        /\ budget' = [budget EXCEPT ![b] = @ + 1] /\ UNCHANGED wakes
  /\ UNCHANGED <<item, drain, redrain, retry, watch, receipt, starts, barred, turns, crashes>>
Wake(b) ==
  /\ b \in waking
  /\ waking' = waking \ {b}
  /\ \/ /\ turn[b] # "none" \/ Cardinality(Busy(b)) >= Slots
        /\ wakes' = wakes \cup {b} /\ UNCHANGED <<turn, budget>>
     \/ /\ turn[b] = "none" /\ Cardinality(Busy(b)) < Slots /\ budget[b] < WakeLimit
        /\ turn' = [turn EXCEPT ![b] = "wake"]
        /\ budget' = [budget EXCEPT ![b] = @ + 1] /\ UNCHANGED wakes
     \/ /\ turn[b] = "none" /\ Cardinality(Busy(b)) < Slots /\ budget[b] >= WakeLimit
        /\ UNCHANGED <<turn, budget, wakes>>
  /\ UNCHANGED <<item, drain, redrain, retry, watch, receipt, starts, barred, turns, crashes>>

Microtask ==
  \E b \in Bots : DrainItem(b) \/ Acknowledge(b) \/ DrainEnd(b) \/ Retry(b) \/ Wake(b)

-----------------------------------------------------------------------------
(* The process ends, at any step, and starts again: the queue is read back,   *)
(* elapsed windows are renewed, and every thread with a queue is drained.     *)
Renewed == [i \in Ids |-> [item[i] EXCEPT !.late = FALSE, !.fresh = FALSE]]
Restart ==
  /\ crashes < MaxCrashes
  /\ item' = Renewed
  /\ drain' = [b \in Bots |-> Snapshot(Renewed, b)]
  /\ redrain' = {} /\ retry' = {} /\ wakes' = {} /\ waking' = {}
  /\ turn' = [p \in Places |-> "none"]
  /\ watch' = [p \in Places |-> Nothing]
  /\ budget' = [b \in Bots |-> 0]
  /\ crashes' = crashes + 1
  /\ UNCHANGED <<receipt, starts, barred, turns>>

Init ==
  /\ item = [i \in Ids |-> NoItem]
  /\ drain = [b \in Bots |-> Idle]
  /\ redrain = {} /\ retry = {} /\ wakes = {} /\ waking = {}
  /\ turn = [p \in Places |-> "none"]
  /\ watch = [p \in Places |-> Nothing]
  /\ receipt = [i \in Ids |-> "none"]
  /\ budget = [b \in Bots |-> 0]
  /\ starts = [i \in Ids |-> 0]
  /\ barred = {} /\ turns = 0 /\ crashes = 0

Next ==
  \/ \E b \in Bots : StartTurn(b) \/ \E to \in Bots, opened \in BOOLEAN : Queue(b, to, opened)
  \/ \E p \in Places : \/ \E ok, lingers \in BOOLEAN : Completed(p, ok, lingers)
                       \/ Released(p) \/ SetupFailed(p)
  \/ \E i \in Ids : Bar(i) \/ Elapse(i)
  \/ \E b \in Bots, allow \in BOOLEAN : Verdict(b, allow)
  \/ Sweep \/ Microtask \/ Restart

Spec == Init /\ [][Next]_vars

(* Microtasks run, and while turns run or approvals are open one of them     *)
(* ends: a turn by its result, a Stop or the stall watchdog, a last frame and *)
(* an approval by their timeouts.                                             *)
Arrives ==
  \/ \E p \in Places : Released(p) \/ \E ok, lingers \in BOOLEAN : Completed(p, ok, lingers)
  \/ \E b \in Bots, allow \in BOOLEAN : Verdict(b, allow)
Fairness == WF_vars(Microtask) /\ WF_vars(Arrives)
FairSpec == Spec /\ Fairness

-----------------------------------------------------------------------------
(* Properties. *)

(* No handoff is started twice in the life of the process, and once more at   *)
(* most after each restart (acknowledgeDelegation, 455, follows runTarget, 745).*)
StartsOnce == \A i \in Ids : starts[i] <= 1 + crashes

(* A bot never has more turns than slots, although a drain that waited for an *)
(* approval goes on minutes after it looked (processOne, 718-727).            *)
WithinSlots == \A b \in Bots : Cardinality(Busy(b)) <= Slots

(* check_delegation always knows a handoff: it waits, it runs, or it has its  *)
(* receipt (finalizeDelegationWatch, index.ts:5083).  Only a turn a restart    *)
(* cut short leaves none.                                                     *)
Known ==
  \A i \in Ids : item[i].state = "gone" =>
    \/ receipt[i] # "none"
    \/ \E p \in Places : watch[p] = i /\ turn[p] = "job"
    \/ starts[i] > 0 /\ crashes > 0

Over(i) == item[i].state = "gone" /\ receipt[i] # "none" /\ \A p \in Places : watch[p] # i
StaysOver(i) ==
  Over(i) => receipt'[i] = receipt[i] /\ starts'[i] = starts[i] /\ item'[i].state = "gone"
(* What has left the queue with a receipt, and does not run, is over, across  *)
(* restarts too: a snapshot or an approval that outlived a Stop is no         *)
(* authority to run it (drainDelegations, 410; processOne, 675).              *)
OverIsOver == [][\A i \in Ids : StaysOver(i)]_vars

(* Nothing waits for ever: a handoff runs or ends, and a source that is owed  *)
(* a wake gets it or its budget is spent (retryDelegationsWaitingOn,          *)
(* index.ts:5339; drainDelegationWakes, 5009).                               *)
NothingWaits == []<>(wakes = {} /\ \A i \in Ids : item[i].state # "pending")

=============================================================================
