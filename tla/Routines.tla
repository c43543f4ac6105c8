------------------------------- MODULE Routines -------------------------------
(***************************************************************************)
(* Work that a bot does on a schedule, on request or for a webhook           *)
(* (RoutineManager, server/routines.ts), with its callers in server/index.ts. *)
(*                                                                         *)
(* A routine that is due, a "run now" or a delivery makes a run.  The ticks   *)
(* of one scheduler start queued runs, each in a conversation of its own, and *)
(* stop runs that passed their limit; a tick awaits the provider while it     *)
(* stops one, and no second tick starts meanwhile.  Events of the provider,   *)
(* delegated work and people move a run on.                                   *)
(*                                                                         *)
(* Routines, runs and receipts are one file, replaced as a whole; ticks, time *)
(* limits, turns and watched delegations are in memory.                       *)
(***************************************************************************)
EXTENDS Naturals, FiniteSets

CONSTANTS
  Routines,     \* numbered routines of one bot, in the order of the file
  Kinds,        \* what definitions a routine may have: a "once" schedule (others recur),
                \* overlap "queue" (others skip), an interval with a "window", a time "limit"
  Deliveries,   \* ids that senders give to webhook deliveries
  Slots,        \* maxConcurrentBotThreads
  MaxRuns,      \* bound: runs ever made
  MaxHandouts,  \* bound: times that turns hand out work
  MaxOthers,    \* bound: times that other work takes the whole bot
  MaxCrashes    \* bound: restarts of the server

Ids == 1 .. MaxRuns

ASSUME KindsAssumption ==
  /\ Routines \subseteq Nat
  /\ Kinds \subseteq SUBSET {"once", "queue", "window", "limit"}
ASSUME DeliveriesAssumption == Deliveries \cap Routines = {}
ASSUME BoundsAssumption == {Slots, MaxRuns, MaxHandouts, MaxOthers, MaxCrashes} \subseteq Nat

VARIABLES
  kind,      \* the definition of each routine
  enabled,   \* routines that are switched on
  removed,   \* routines that are deleted
  due,       \* routines whose nextRunAt has passed
  run,       \* the runs: status, what they are of, what triggered them, and whether they
             \* were given a time limit
  receipt,   \* webhookRunReceipts: the run of a delivery inside the retry window
  turn,      \* the turn in the conversation of each run
  out,       \* the work it handed out: queued, away, or back with its wake parked
  tick,      \* the tick that runs: where it is, and what it found when it began
  taken,     \* other work keeps the bot from starting anything
  botGone,   \* the bot is deleted
  handouts, others, crashes

vars == <<kind, enabled, removed, due, run, receipt, turn, out, tick, taken, botGone,
          handouts, others, crashes>>

NoRun   == [status |-> "none", of |-> 0, by |-> "none", limit |-> FALSE]
NoTick  == [phase |-> "idle", over |-> {}, due |-> {}, todo |-> {}]
Waits   == {"queued", "running", "waiting"}
Over    == {"completed", "failed", "cancelled", "missed"}

TypeOK ==
  /\ kind \in [Routines -> Kinds]
  /\ enabled \subseteq Routines /\ removed \subseteq Routines /\ due \subseteq Routines
  /\ run \in [Ids -> [status : Waits \cup Over \cup {"none"}, of : Routines \cup Deliveries \cup {0},
                      by : {"none", "schedule", "manual", "webhook"}, limit : BOOLEAN]]
  /\ receipt \in [Deliveries -> 0 .. MaxRuns]
  /\ turn \in [Ids -> {"none", "setup", "working", "asking", "stopping"}]
  /\ out \in [Ids -> {"none", "queued", "away", "parked"}]
  /\ tick \in [phase : {"idle", "limits", "awaiting", "dispatching"},
               over : SUBSET Ids, due : SUBSET Routines, todo : SUBSET Ids]
  /\ taken \in BOOLEAN /\ botGone \in BOOLEAN
  /\ handouts \in 0 .. MaxHandouts /\ others \in 0 .. MaxOthers /\ crashes \in 0 .. MaxCrashes

-----------------------------------------------------------------------------
Is(k)      == {r \in Routines : k \in kind[r]}
Pending(i) == run[i].status \in Waits
Working(i) == run[i].status \in {"running", "waiting"}
Made       == {i \in Ids : run[i].status # "none"}
NextId     == Cardinality(Made) + 1
Of(r)      == {i \in Ids : run[i].of = r /\ run[i].by \in {"schedule", "manual"}}
Scheduled(i) == run[i].by = "schedule"
Line(r)    == {i \in Of(r) : Scheduled(i) /\ run[i].status = "queued"}
AtWork(r)  == {i \in Of(r) : Scheduled(i) /\ Working(i)}

(* Bound: an id is kept back for every routine that is due. *)
Room == Cardinality(Made) + Cardinality(due) < MaxRuns

(* unattendedDispatchState *)
Busy == taken \/ Cardinality({i \in Ids : turn[i] # "none"}) >= Slots

Now(i, s) == [run EXCEPT ![i].status = s]

(* mutant of Cancelled: the word of goalStatus in place of that of status *)
StoppedRuns(S) == [i \in Ids |-> IF i \in S THEN [run[i] EXCEPT !.status = "stopped"] ELSE run[i]]

Cancelled(S) == [i \in Ids |-> IF i \in S THEN [run[i] EXCEPT !.status = "cancelled"] ELSE run[i]]
QueuedOf(r) == {i \in Of(r) : run[i].status = "queued"}

(* discardDelegations and the parked wake of the conversation; a teammate    *)
(* that is at work already goes on.                                           *)
Dropped(S) == [i \in Ids |-> IF i \in S /\ out[i] # "away" THEN "none" ELSE out[i]]

(* interruptTurn: a turn stays busy until its provider has stopped. *)
Interrupted(S) == [i \in Ids |-> IF i \in S /\ turn[i] # "none" THEN "stopping" ELSE turn[i]]

(* failRun, and missQueuedRun, with onRunFailed. *)
Fail(i) == run' = Now(i, "failed") /\ out' = Dropped({i})

-----------------------------------------------------------------------------
(* Definitions, and the clock. *)

ComesDue(r) ==
  /\ r \in enabled \ due /\ Room
  /\ due' = due \cup {r}
  /\ UNCHANGED <<kind, enabled, removed, run, receipt, turn, out, tick, taken, botGone, handouts, others, crashes>>

(* The tick that runs compares with the time at which it began: what is      *)
(* scheduled anew during its awaits is not due for it, except at a single     *)
(* time that had passed by then (initialOccurrence).                          *)
NotDue(r) == due' = due \ {r} /\ tick' = [tick EXCEPT !.due = @ \ {r}]
LongDue(r) ==
  /\ r \in due \/ Room
  /\ due' = due \cup {r}
  /\ tick' = IF tick.phase \in {"limits", "awaiting"} THEN [tick EXCEPT !.due = @ \cup {r}] ELSE tick

Define(r, k) == r \notin removed /\ ~botGone /\ kind' = [kind EXCEPT ![r] = k]

(* update: given another schedule, or switched on.  What waits in the queue   *)
(* stays there.                                                               *)
SetSchedule(r, k) ==
  /\ Define(r, k)
  /\ enabled' \in {enabled, enabled \cup {r}}
  /\ NotDue(r) \/ (r \in enabled' /\ "once" \in k /\ LongDue(r))
  /\ UNCHANGED <<removed, run, receipt, turn, out, taken, botGone, handouts, others, crashes>>

(* update of the definition only, which keeps due work. *)
EditDefinition(r, k) ==
  /\ Define(r, k) /\ k \cap {"once", "window"} = kind[r] \cap {"once", "window"}
  /\ UNCHANGED <<enabled, removed, due, run, receipt, turn, out, tick, taken, botGone, handouts, others, crashes>>

(* update that switches off, whatever else it changes. *)
Pause(r, k) ==
  /\ Define(r, k)
  /\ enabled' = enabled \ {r} /\ NotDue(r)
  /\ run' = Cancelled(QueuedOf(r))
  /\ UNCHANGED <<removed, receipt, turn, out, taken, botGone, handouts, others, crashes>>

Remove(r) ==
  /\ r \notin removed
  /\ removed' = removed \cup {r} /\ enabled' = enabled \ {r} /\ NotDue(r)
  /\ run' = Cancelled(QueuedOf(r))
  /\ UNCHANGED <<kind, receipt, turn, out, taken, botGone, handouts, others, crashes>>

(* The bot is deleted: disableForBot of routines and webhooks. *)
DisableForBot ==
  LET all == {i \in Ids : Pending(i)}
  IN  /\ ~botGone
      /\ botGone' = TRUE /\ enabled' = {}
      /\ due' = {}
      /\ tick' = [tick EXCEPT !.due = {}]
      /\ run' = Cancelled(all) /\ turn' = Interrupted(all) /\ out' = Dropped(all)
      /\ UNCHANGED <<kind, removed, receipt, taken, handouts, others, crashes>>

-----------------------------------------------------------------------------
(* Requests. *)

RunNow(r) ==
  /\ r \notin removed /\ Room
  /\ run' = [run EXCEPT ![NextId] = [status |-> "queued", of |-> r, by |-> "manual",
                                       limit |-> r \in Is("limit")]]
  /\ UNCHANGED <<kind, enabled, removed, due, receipt, turn, out, tick, taken, botGone, handouts, others, crashes>>

(* mutant of EnqueueWebhook: only the receipts are asked *)
EnqueueWithoutReceipt(d) ==
  /\ ~botGone /\ Room /\ receipt[d] = 0
  /\ run' = [run EXCEPT ![NextId] = [status |-> "queued", of |-> d, by |-> "webhook", limit |-> FALSE]]
  /\ receipt' = [receipt EXCEPT ![d] = NextId]
  /\ UNCHANGED <<kind, enabled, removed, due, turn, out, tick, taken, botGone, handouts, others, crashes>>

(* enqueueWebhook: a delivery that has a receipt, or a run that is not over,  *)
(* is a duplicate and changes nothing.                                        *)
EnqueueWebhook(d) ==
  /\ ~botGone /\ Room
  /\ receipt[d] = 0 /\ \A i \in Ids : run[i].of = d => ~Pending(i)
  /\ run' = [run EXCEPT ![NextId] = [status |-> "queued", of |-> d, by |-> "webhook", limit |-> FALSE]]
  /\ receipt' = [receipt EXCEPT ![d] = NextId]
  /\ UNCHANGED <<kind, enabled, removed, due, turn, out, tick, taken, botGone, handouts, others, crashes>>

(* WEBHOOK_RETRY_WINDOW_MS has passed since the delivery was accepted. *)
ReceiptExpires(d) ==
  /\ receipt[d] # 0
  /\ receipt' = [receipt EXCEPT ![d] = 0]
  /\ UNCHANGED <<kind, enabled, removed, due, run, turn, out, tick, taken, botGone, handouts, others, crashes>>

(* The webhook is paused or deleted. *)
CancelQueuedWebhook ==
  /\ run' = Cancelled({i \in Ids : run[i].by = "webhook" /\ run[i].status = "queued"})
  /\ run' # run
  /\ UNCHANGED <<kind, enabled, removed, due, receipt, turn, out, tick, taken, botGone, handouts, others, crashes>>

(* mutant of CancelRun: a run that waits is not interrupted *)
CancelRunning(i) ==
  /\ Pending(i)
  /\ run' = Cancelled({i})
  /\ IF run[i].status # "running" THEN UNCHANGED <<turn, out>>
     ELSE turn' = Interrupted({i}) /\ out' = Dropped({i})
  /\ UNCHANGED <<kind, enabled, removed, due, receipt, tick, taken, botGone, handouts, others, crashes>>

CancelRun(i) ==
  /\ Pending(i)
  /\ run' = Cancelled({i})
  /\ IF run[i].status = "queued" THEN UNCHANGED <<turn, out>>
     ELSE turn' = Interrupted({i}) /\ out' = Dropped({i})
  /\ UNCHANGED <<kind, enabled, removed, due, receipt, tick, taken, botGone, handouts, others, crashes>>

-----------------------------------------------------------------------------
(* A tick.  It begins by the timer, or a microtask after a request or an end; *)
(* one that would find nothing to do is left out.  Any run that has a limit   *)
(* may be past it by then.                                                    *)

TickBegin(overlong) ==
  /\ tick.phase = "idle"
  /\ \A i \in overlong : Working(i) /\ run[i].limit
  /\ overlong # {} \/ due # {} \/ \E i \in Ids : run[i].status = "queued"
  /\ tick' = [phase |-> "limits", over |-> overlong, due |-> due, todo |-> {}]
  /\ UNCHANGED <<kind, enabled, removed, due, run, receipt, turn, out, taken, botGone, handouts, others, crashes>>

(* Runs past their limit, in the order of the file; one that ended during an *)
(* await is passed over.                                                      *)
StopOverlong(i) ==
  /\ tick.phase = "limits" /\ i \in tick.over /\ \A j \in tick.over : i <= j
  /\ IF Working(i)
     THEN /\ Fail(i) /\ turn' = Interrupted({i})
          /\ tick' = [tick EXCEPT !.over = @ \ {i}, !.phase = "awaiting"]
     ELSE /\ tick' = [tick EXCEPT !.over = @ \ {i}]
          /\ UNCHANGED <<run, turn, out>>
  /\ UNCHANGED <<kind, enabled, removed, due, receipt, taken, botGone, handouts, others, crashes>>

InterruptReturns ==
  /\ tick.phase = "awaiting"
  /\ tick' = [tick EXCEPT !.phase = "limits"]
  /\ UNCHANGED <<kind, enabled, removed, due, run, receipt, turn, out, taken, botGone, handouts, others, crashes>>

(* The routines that are due, in one write: each makes a run, unless one of   *)
(* its runs is still pending; "queue" keeps one scheduled run in line.  A run  *)
(* more than 12 hours late is only recorded.  Then the queued runs are taken   *)
(* down.                                                                       *)
Overlapping(r)     == r \notin Is("once") /\ \E i \in Of(r) : Pending(i)
ScheduledQueued(r) == \E i \in QueuedOf(r) : Scheduled(i)
MakesRun(r)        == ~Overlapping(r) \/ (r \in Is("queue") /\ ~ScheduledQueued(r))

Plan(late) ==
  LET found  == tick.due \cap enabled
      makers == {r \in found : MakesRun(r)}
      id(r)  == NextId + Cardinality({q \in makers : q < r})
      New(i) == {r \in makers : id(r) = i}
  IN  /\ tick.phase = "limits" /\ tick.over = {} /\ late \subseteq makers
      /\ run' = [i \in Ids |->
                   IF New(i) = {} THEN run[i]
                   ELSE [status |-> IF New(i) \subseteq late THEN "missed" ELSE "queued",
                         of |-> CHOOSE r \in New(i) : TRUE, by |-> "schedule",
                         limit |-> New(i) \subseteq Is("limit")]]
      /\ due' = due \ found
      /\ enabled' = enabled \ (found \cap Is("once"))
      /\ tick' = [NoTick EXCEPT !.phase = "dispatching",
                                !.todo = {i \in Ids : run'[i].status = "queued"}]
      /\ UNCHANGED <<kind, removed, receipt, turn, out, taken, botGone, handouts, others, crashes>>

(* The oldest run that was taken down; it may have been cancelled meanwhile. *)
At(i) ==
  /\ tick.phase = "dispatching" /\ i \in tick.todo /\ \A j \in tick.todo : i <= j
  /\ tick' = [tick EXCEPT !.todo = @ \ {i}]

Gated(i)     == Scheduled(i) /\ run[i].of \in Is("window")
(* mutant of BehindOwn: a run that waits for delegated work does not count *)
BehindRunning(i) ==
  Scheduled(i) /\ \E j \in Of(run[i].of) \ {i} : run[j].status = "running"

BehindOwn(i) == Scheduled(i) /\ \E j \in Of(run[i].of) \ {i} : Working(j)

PassOver(i) ==
  /\ At(i)
  /\ run[i].status # "queued" \/ Gated(i) \/ BehindOwn(i) \/ (Busy /\ ~botGone)
  /\ UNCHANGED <<kind, enabled, removed, due, run, receipt, turn, out, taken, botGone, handouts, others, crashes>>

(* The interval ended while the run waited for its window. *)
Miss(i) ==
  /\ At(i) /\ run[i].status = "queued" /\ Gated(i)
  /\ run' = Now(i, "missed")
  /\ UNCHANGED <<kind, enabled, removed, due, receipt, turn, out, taken, botGone, handouts, others, crashes>>

(* The bot is gone, no conversation could be made, or startTurn refused. *)
Refuse(i) ==
  /\ At(i) /\ run[i].status = "queued" /\ ~BehindOwn(i) /\ (botGone \/ ~Busy)
  /\ Fail(i)
  /\ UNCHANGED <<kind, enabled, removed, due, receipt, turn, taken, botGone, handouts, others, crashes>>

Launch(i) ==
  /\ At(i) /\ run[i].status = "queued" /\ ~BehindOwn(i) /\ ~botGone /\ ~Busy
  /\ run' = Now(i, "running")
  /\ turn' = [turn EXCEPT ![i] = "setup"]
  /\ UNCHANGED <<kind, enabled, removed, due, receipt, out, taken, botGone, handouts, others, crashes>>

TickEnd ==
  /\ tick.phase = "dispatching" /\ tick.todo = {}
  /\ tick' = NoTick
  /\ UNCHANGED <<kind, enabled, removed, due, run, receipt, turn, out, taken, botGone, handouts, others, crashes>>

TickStep ==
  \/ InterruptReturns \/ TickEnd
  \/ \E S \in SUBSET Ids : TickBegin(S)
  \/ \E S \in SUBSET Routines : Plan(S)
  \/ \E i \in Ids : StopOverlong(i) \/ PassOver(i) \/ Miss(i) \/ Refuse(i) \/ Launch(i)

-----------------------------------------------------------------------------
(* Turns.  handleRuntimeEvent moves only a run that is running or waiting.   *)

Starts(i) ==
  /\ turn[i] = "setup"
  /\ turn' = [turn EXCEPT ![i] = "working"]
  /\ run' = IF Working(i) THEN Now(i, "running") ELSE run
  /\ UNCHANGED <<kind, enabled, removed, due, receipt, out, tick, taken, botGone, handouts, others, crashes>>

(* onDispatchError, failThread; startTurn adds it for a run that is resumed. *)
SetupFails(i) ==
  /\ turn[i] = "setup"
  /\ turn' = [turn EXCEPT ![i] = "none"]
  /\ IF Working(i) THEN Fail(i) ELSE UNCHANGED <<run, out>>
  /\ UNCHANGED <<kind, enabled, removed, due, receipt, tick, taken, botGone, handouts, others, crashes>>

(* request.opened, request.resolved *)
Asks(i) ==
  /\ turn[i] = "working"
  /\ turn' = [turn EXCEPT ![i] = "asking"]
  /\ run' = IF Working(i) THEN Now(i, "waiting") ELSE run
  /\ UNCHANGED <<kind, enabled, removed, due, receipt, out, tick, taken, botGone, handouts, others, crashes>>

Answered(i) ==
  /\ turn[i] = "asking"
  /\ turn' = [turn EXCEPT ![i] = "working"]
  /\ run' = IF Working(i) THEN Now(i, "running") ELSE run
  /\ UNCHANGED <<kind, enabled, removed, due, receipt, out, tick, taken, botGone, handouts, others, crashes>>

HandOut(i) ==
  /\ turn[i] = "working" /\ out[i] = "none" /\ handouts < MaxHandouts
  /\ out' = [out EXCEPT ![i] = "queued"]
  /\ handouts' = handouts + 1
  /\ UNCHANGED <<kind, enabled, removed, due, run, receipt, turn, tick, taken, botGone, others, crashes>>

(* turn.completed: after a good turn the run waits for what was handed out.  *)
Ends(i, ok) ==
  /\ turn[i] \in {"working", "asking", "stopping"}
  /\ turn' = [turn EXCEPT ![i] = "none"]
  /\ IF ~Working(i) THEN UNCHANGED <<run, out>>
     ELSE IF ~ok THEN Fail(i)
     ELSE run' = Now(i, IF out[i] = "none" THEN "completed" ELSE "waiting") /\ UNCHANGED out
  /\ UNCHANGED <<kind, enabled, removed, due, receipt, tick, taken, botGone, handouts, others, crashes>>

(* The turn watchdog, which leaves a turn that waits for a person alone. *)
Stalls(i) ==
  /\ turn[i] = "working" /\ Working(i)
  /\ Fail(i) /\ turn' = Interrupted({i})
  /\ UNCHANGED <<kind, enabled, removed, due, receipt, tick, taken, botGone, handouts, others, crashes>>

-----------------------------------------------------------------------------
(* Work that was handed out.  It leaves after the turn that queued it, comes *)
(* back done, failed or expired, and resumes the run, at once or when the bot *)
(* is free: routineDelegationCanResume, dispatchDelegationWake.               *)

Leaves(i) ==
  /\ out[i] = "queued" /\ turn[i] = "none"
  /\ out' = [out EXCEPT ![i] = "away"]
  /\ UNCHANGED <<kind, enabled, removed, due, run, receipt, turn, tick, taken, botGone, handouts, others, crashes>>

(* mutant of Returns: a wake that finds its source busy is not parked *)
ReturnsOrLost(i) ==
  /\ out[i] = "away" \/ (out[i] = "queued" /\ turn[i] = "none")
  /\ out' = [out EXCEPT ![i] = IF Working(i) /\ turn[i] = "none" /\ ~Busy THEN "parked" ELSE "none"]
  /\ UNCHANGED <<kind, enabled, removed, due, run, receipt, turn, tick, taken, botGone, handouts, others, crashes>>

Returns(i) ==
  /\ out[i] = "away" \/ (out[i] = "queued" /\ turn[i] = "none")
  /\ out' = [out EXCEPT ![i] = IF Working(i) THEN "parked" ELSE "none"]
  /\ UNCHANGED <<kind, enabled, removed, due, run, receipt, turn, tick, taken, botGone, handouts, others, crashes>>

Wake(i) ==
  /\ out[i] = "parked" /\ turn[i] = "none" /\ Working(i) /\ ~Busy
  /\ out' = [out EXCEPT ![i] = "none"]
  /\ turn' = [turn EXCEPT ![i] = "setup"]
  /\ UNCHANGED <<kind, enabled, removed, due, run, receipt, tick, taken, botGone, handouts, others, crashes>>

(* The budget of wakes is used up, or startTurn refuses. *)
WakeFails(i) ==
  /\ out[i] = "parked" /\ turn[i] = "none" /\ Working(i) /\ ~Busy
  /\ Fail(i)
  /\ UNCHANGED <<kind, enabled, removed, due, receipt, turn, tick, taken, botGone, handouts, others, crashes>>

-----------------------------------------------------------------------------
(* Turns of other conversations and rooms fill the bot. *)
OthersTake ==
  /\ ~taken /\ others < MaxOthers
  /\ taken' = TRUE /\ others' = others + 1
  /\ UNCHANGED <<kind, enabled, removed, due, run, receipt, turn, out, tick, botGone, handouts, crashes>>

OthersLeave ==
  /\ taken /\ taken' = FALSE
  /\ UNCHANGED <<kind, enabled, removed, due, run, receipt, turn, out, tick, botGone, handouts, others, crashes>>

(* mutant of Restart: interrupted runs are put back in the queue *)
RestartRequeues ==
  /\ crashes < MaxCrashes /\ crashes' = crashes + 1
  /\ run' = [i \in Ids |-> IF Working(i) THEN [run[i] EXCEPT !.status = "queued"] ELSE run[i]]
  /\ turn' = [i \in Ids |-> "none"] /\ out' = [i \in Ids |-> "none"]
  /\ tick' = NoTick /\ taken' = FALSE
  /\ UNCHANGED <<kind, enabled, removed, due, receipt, botGone, handouts, others>>

(* The process ends, at any step, and starts again: turns and watches are     *)
(* lost, runs that worked have failed, queued ones are kept.                  *)
Restart ==
  /\ crashes < MaxCrashes /\ crashes' = crashes + 1
  /\ run' = [i \in Ids |-> IF Working(i) THEN [run[i] EXCEPT !.status = "failed"] ELSE run[i]]
  /\ turn' = [i \in Ids |-> "none"] /\ out' = [i \in Ids |-> "none"]
  /\ tick' = NoTick /\ taken' = FALSE
  /\ UNCHANGED <<kind, enabled, removed, due, receipt, botGone, handouts, others>>

Init ==
  /\ kind \in [Routines -> Kinds]
  /\ enabled = Routines /\ removed = {} /\ due = {}
  /\ run = [i \in Ids |-> NoRun] /\ receipt = [d \in Deliveries |-> 0]
  /\ turn = [i \in Ids |-> "none"] /\ out = [i \in Ids |-> "none"]
  /\ tick = NoTick /\ taken = FALSE /\ botGone = FALSE
  /\ handouts = 0 /\ others = 0 /\ crashes = 0

TurnStep == \E i \in Ids : Starts(i) \/ SetupFails(i) \/ (\E ok \in BOOLEAN : Ends(i, ok))
WorkStep == \E i \in Ids : Leaves(i) \/ Returns(i) \/ Wake(i) \/ WakeFails(i)

Next ==
  \/ \E r \in Routines : ComesDue(r) \/ Remove(r) \/ RunNow(r)
  \/ \E r \in Routines, k \in Kinds : SetSchedule(r, k) \/ EditDefinition(r, k) \/ Pause(r, k)
  \/ \E d \in Deliveries : EnqueueWebhook(d) \/ ReceiptExpires(d)
  \/ \E i \in Ids : CancelRun(i) \/ Asks(i) \/ Answered(i) \/ HandOut(i) \/ Stalls(i)
  \/ DisableForBot \/ CancelQueuedWebhook
  \/ TickStep \/ TurnStep \/ WorkStep
  \/ OthersTake \/ OthersLeave \/ Restart

Spec == Init /\ [][Next]_vars

(* The timer fires every 10 seconds and the awaits of a tick return; a turn  *)
(* that is not waiting for a person starts and ends, if need be by the        *)
(* watchdog; handed-out work returns, if need be by expiry; other turns end.  *)
Fairness ==
  /\ WF_vars(TickStep) /\ WF_vars(WorkStep) /\ WF_vars(OthersLeave)
  /\ WF_vars(\E i \in Ids : turn[i] # "asking"
               /\ (Starts(i) \/ SetupFails(i) \/ Stalls(i) \/ \E ok \in BOOLEAN : Ends(i, ok)))
FairSpec == Spec /\ Fairness

-----------------------------------------------------------------------------
(* Properties. *)

GoesForward(i) ==
  run'[i].status # run[i].status => /\ run[i].status \notin Over
                                    /\ run'[i].status = "queued" => run[i].status = "none"
(* A run only goes forward: it leaves the queue once, so that its work is     *)
(* begun at most once whatever ticks and restarts there are, and once over it *)
(* stays as it is, whatever was under way (tick 1467-1530, the status guards   *)
(* of cancelRun 1323, handleRuntimeEvent 1567 and failThread 1624, and the     *)
(* recovery of the constructor 841-849).                                       *)
OnlyForward == [][\A i \in Ids : GoesForward(i)]_vars

(* No turn goes on for a run that is over: a Stop, a time limit, a stall, a   *)
(* deleted bot and late teammates all leave it stopped or never resumed       *)
(* (cancelRun 1331, tick 1389, disableForBot 1139, index.ts:4867-4873).        *)
NoOrphanTurn ==
  \A i \in Ids : turn[i] \in {"setup", "working", "asking"} => Working(i)

(* A routine has at most one scheduled run at work, delegated work included,  *)
(* and the scheduled line of a recurring one never grows past one run: "the    *)
(* queued scheduled run waits for the same routine to finish, including        *)
(* delegated work" (docs/verification/routines.md:150; tick 1407-1412, 1483).   *)
(* A line may be longer, since a one-time routine that is given another time   *)
(* joins its own line again and may then be made recurring; it only shrinks,   *)
(* and its runs are at work one after the other.                               *)
InTurn(r) ==
  /\ Cardinality(AtWork(r)') <= 1
  /\ r \in Is("once") \/ Line(r)' \subseteq Line(r) \/ Cardinality(Line(r)') <= 1
ScheduledInTurn == [][\A r \in Routines : InTurn(r)]_vars

(* However often a delivery is sent again, also after its retry window, at    *)
(* most one run of it is pending (webhookRunReceipt, 1204-1213).               *)
DeliveryOnce == \A d \in Deliveries : Cardinality({i \in Ids : run[i].of = d /\ Pending(i)}) <= 1

(* Every run ends, unless a person is asked or it is queued and the interval  *)
(* of its routine allows nothing:                                              *)
(* no busy bot, dropped tick, cancelled turn or lost teammate strands it       *)
(* (tick 1448-1558, hasPendingDelegations at 1611, failThread 1623).           *)
EveryRunEnds ==
  []<>(\/ \E i \in Ids : turn[i] = "asking"
       \/ \A i \in Ids : Pending(i) => run[i].status = "queued" /\ Gated(i))

=============================================================================
