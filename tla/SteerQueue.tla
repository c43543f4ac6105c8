----------------------------- MODULE SteerQueue -----------------------------
(***************************************************************************)
(* The follow-up queue of one bot's direct threads (server/steer-queue.ts) *)
(* with the journal it keeps in SQLite (server/message-db.ts), the HTTP    *)
(* routes that feed, cancel and steer it, the part of the turn lifecycle   *)
(* that drains it, and the recovery the harness runs when it boots         *)
(* (server/index.ts).                                                      *)
(*                                                                         *)
(* The harness is one JavaScript process: a handler runs to its next await *)
(* without interruption, so an action is a handler's synchronous part.     *)
(* Only a crash can fall inside one, between two commits to disk; a        *)
(* handler that commits more than once is therefore several steps, and     *)
(* `frame' names the step the process is in the middle of.                 *)
(***************************************************************************)
EXTENDS Naturals, FiniteSets, SequencesExt

CONSTANTS
  Threads,    \* the bot's direct threads ("tasks")
  Words,      \* what somebody wants to say; a person's word is one sendId
  Opened,     \* the words with which the bot opens a thread on itself
  Home,       \* the thread each word is meant for
  Steerers,   \* concurrent requests to steer a queue into the running turn
  LiveEngine, \* the engine can take words into a running turn
  HasRooms,   \* the bot is also a member of a room
  Deletable,  \* the threads somebody may delete
  Capacity,   \* maxConcurrentBotThreads
  Settings,   \* the values parkDirectMessages may be given
  Delegating, \* the threads on which work is delegated
  Resumable,  \* the threads on which a handoff runs turns of its own
  MaxId,      \* bound on the queue ids a behaviour may issue
  MaxCrashes, \* bound on the crashes of a behaviour
  MaxHandoffs \* bound on the delegations a behaviour opens on idle threads

ASSUME SteerQueueAssumption ==
  /\ Home \in [Words -> Threads]
  /\ Words # {}
  /\ Opened \subseteq Words
  /\ Words \cap Steerers = {}
  /\ LiveEngine \in BOOLEAN
  /\ HasRooms \in BOOLEAN
  /\ Deletable \subseteq Threads
  /\ Capacity \in Nat \ {0}
  /\ MaxId \in Nat \ {0}
  /\ MaxCrashes \in Nat
  /\ Settings # {} /\ Settings \subseteq BOOLEAN
  /\ Delegating \subseteq Threads
  /\ Resumable \subseteq Delegating
  /\ MaxHandoffs \in Nat

VARIABLES
  \* on disk
  status,   \* chat_followups: what the journal says of each queue id
  word,     \* the words each queue id carries
  nextId,   \* the next queue id; rowid order is the order of ids
  lines,    \* user lines in the transcript that carry a queueId
  notices,  \* "interrupted by restart" notices in the transcript
  direct,   \* user lines in the transcript that never had a queue id
  gone,     \* the threads that were deleted
  parks,    \* the bot's parkDirectMessages
  \* in the process
  up,       \* "down", "booting" or "serving"
  frame,    \* where the running handler stands between two commits
  visit,    \* the threads the running drain has yet to visit
  batch,    \* the ids the running handler is recording
  done,     \* how many lines of the batch are recorded
  queue,    \* the map of waiting sends
  line,     \* the insertion order of that map's keys
  turn,     \* the turn of each thread
  turnIds,  \* the ids a thread's turn will retire when it settles
  phase,    \* how far each live steer has come
  held,     \* the queue each steer request has lifted out of the map
  room,     \* what the bot is doing in its room
  awaiting, \* the threads with a direct handoff that is not settled
  deleting, \* the thread a DELETE is about to remove when its drain returns
  waking,   \* the thread a handoff is about to start when its drain returns
  handoffs,
  crashes,
  \* history
  claimed,  \* how often a drain claimed an id for a follow-up turn
  folded    \* the ids a running turn took in through a live steer

disk    == <<status, word, nextId, lines, notices, direct, gone>>
work    == <<frame, visit, batch, done>>
waiting == <<queue, line>>
turns   == <<turn, turnIds>>
calls   == <<phase, held>>
history == <<claimed, folded>>
coordination == <<parks, awaiting, deleting, waking, handoffs>>
vars    == <<disk, up, work, waiting, turns, calls, room, crashes, coordination, history>>

Ids      == 1..MaxId
Callers  == Words \cup Steerers
Statuses == {"absent", "pending", "dispatching", "interrupted", "cancelled"}
Turns    == {"idle", "dispatching", "running", "closing"}
Phases   == {"idle", "asked", "late", "taken", "steered", "refused", "indeterminate"}
Frames   == {"idle", "visit", "append", "start", "fold", "settle",
             "mark", "recoverLine", "recoverNotice", "retire", "restore", "purge",
             "delete", "handoff"}

(* Counters that tell only never, once and more often apart. *)
Bump(n) == IF n < 2 THEN n + 1 ELSE 2

Thread(i) == Home[word[i]]

Serving == up = "serving" /\ frame = "idle"

(* store.projectBotForTask(...).busy *)
Live(t) == turn[t] \in {"dispatching", "running"}

(* threadBusy: busy, or a dispatch claim the provider has not acknowledged *)
ThreadBusy(t) == turn[t] # "idle"

(* botAtThreadCapacity counts the threads the bot still has *)
AtCapacity == Cardinality({t \in Threads \ gone : ThreadBusy(t)}) >= Capacity

(* parksBehindCoordination *)
Parked(t) == parks /\ t \in awaiting

(* mutant of Blocked: the drain looks at the thread but not at the slots *)
BlockedIgnoringSlots(t) == ThreadBusy(t) \/ room # "none" \/ Parked(t)

(* What the drain passes as isBlocked *)
Blocked(t) == ThreadBusy(t) \/ AtCapacity \/ room # "none" \/ Parked(t)

Answered(c) == phase[c] \in {"steered", "refused", "indeterminate"}

ThreadOfCall(c) == IF c \in Words THEN Home[c] ELSE Thread(held[c][1])

(* cancelledChatFollowup: the tombstone of a cancelled send *)
Tombstone(w) == \E i \in Ids : i < nextId /\ word[i] = w /\ status[i] = "cancelled"

(* mutant of Said: lines that once waited in the queue are not matched *)
SaidDirectly(w) == direct[w] > 0

(* acceptedSendMatch: the transcript already has this sendId *)
Said(w) == direct[w] > 0 \/ \E i \in Ids : i < nextId /\ word[i] = w /\ lines[i] > 0

(* queuedSteeredMessage: the receipt of a send that still waits in the map *)
Waiting(w) == \E i \in ToSet(queue[Home[w]]) : word[i] = w

Without(s, x) == IF x \in ToSet(s)
                 THEN RemoveAt(s, CHOOSE k \in DOMAIN s : s[k] = x)
                 ELSE s

(* mutant of InLine: every new entry goes to the front *)
InLineFront(t) == <<t>> \o Without(line, t)

(* Map.set keeps the place of a key that is there and appends a new one *)
InLine(t) == IF t \in ToSet(line) THEN line ELSE Append(line, t)

SetStatus(S, st) == [i \in Ids |-> IF i \in S THEN st ELSE status[i]]

TypeOK ==
  /\ status \in [Ids -> Statuses]
  /\ word \in [Ids -> Words]
  /\ nextId \in 1..(MaxId + 1)
  /\ lines \in [Ids -> 0..2]
  /\ notices \in [Ids -> 0..2]
  /\ direct \in [Words -> 0..2]
  /\ gone \subseteq Threads
  /\ up \in {"down", "booting", "serving"}
  /\ frame \in Frames
  /\ visit \in Seq(Threads)
  /\ batch \in Seq(Ids)
  /\ done \in Nat
  /\ queue \in [Threads -> Seq(Ids)]
  /\ line \in Seq(Threads)
  /\ turn \in [Threads -> Turns]
  /\ turnIds \in [Threads -> SUBSET Ids]
  /\ phase \in [Callers -> Phases]
  /\ held \in [Steerers -> Seq(Ids)]
  /\ room \in {"none", "speaking", "ending"}
  /\ parks \in BOOLEAN
  /\ awaiting \subseteq Threads
  /\ deleting \subseteq Threads
  /\ waking \subseteq Threads
  /\ handoffs \in 0..MaxHandoffs
  /\ crashes \in 0..MaxCrashes
  /\ claimed \in [Ids -> 0..2]
  /\ folded \subseteq Ids

-----------------------------------------------------------------------------
(* A process that has just started knows only what is on disk. *)
Init ==
  /\ status = [i \in Ids |-> "absent"]
  /\ word = [i \in Ids |-> CHOOSE w \in Words : TRUE]
  /\ nextId = 1
  /\ lines = [i \in Ids |-> 0]
  /\ notices = [i \in Ids |-> 0]
  /\ direct = [w \in Words |-> 0]
  /\ gone = {}
  /\ up = "serving"
  /\ frame = "idle"
  /\ visit = <<>>
  /\ batch = <<>>
  /\ done = 0
  /\ queue = [t \in Threads |-> <<>>]
  /\ line = <<>>
  /\ turn = [t \in Threads |-> "idle"]
  /\ turnIds = [t \in Threads |-> {}]
  /\ phase = [c \in Callers |-> "idle"]
  /\ held = [s \in Steerers |-> <<>>]
  /\ room = "none"
  /\ parks \in Settings
  /\ awaiting = {}
  /\ deleting = {}
  /\ waking = {}
  /\ handoffs = 0
  /\ crashes = 0
  /\ claimed = [i \in Ids |-> 0]
  /\ folded = {}

(* drainQueuedSends: one synchronous walk over the map *)
DrainAll == frame' = "visit" /\ visit' = line /\ UNCHANGED <<batch, done>>

(* queueSteeredMessage: the row is durable before the map has the item *)
Enqueue(w) ==
  LET t == Home[w] IN
  /\ nextId <= MaxId
  /\ status' = [status EXCEPT ![nextId] = "pending"]
  /\ word' = [word EXCEPT ![nextId] = w]
  /\ nextId' = nextId + 1
  /\ queue' = [queue EXCEPT ![t] = Append(@, nextId)]
  /\ line' = InLine(t)
  /\ UNCHANGED <<lines, notices, direct, gone, up, work, turns, held, room,
                 crashes, coordination, history>>

(* startTurn for words that were never queued: the line and busy together *)
StartDirect(w) ==
  /\ turn' = [turn EXCEPT ![Home[w]] = "dispatching"]
  /\ turnIds' = [turnIds EXCEPT ![Home[w]] = {}]
  /\ direct' = [direct EXCEPT ![w] = Bump(@)]
  /\ UNCHANGED <<status, word, nextId, lines, notices, gone, up, work, waiting,
                 held, room, crashes, coordination, history>>

Decline == UNCHANGED <<disk, up, work, waiting, turns, held, room, crashes,
                       coordination, history>>

(* mutant of StartOrQueue: a direct turn may start while the room has the bot *)
StartOrQueueInRoom(w) ==
  IF AtCapacity \/ ThreadBusy(Home[w]) \/ Parked(Home[w]) THEN Enqueue(w) ELSE StartDirect(w)

(* startOrQueueDirectMessage. startTurn itself refuses a bot that is in a   *)
(* room, and refuses for reasons outside this model (spend cap, provider).  *)
StartOrQueue(w) ==
  IF AtCapacity \/ ThreadBusy(Home[w]) \/ Parked(Home[w])
  THEN Enqueue(w)
  ELSE \/ room = "none" /\ StartDirect(w)
       \/ Decline

(* POST /api/bots/:id/messages, up to the await of a live steer *)
Send(w) ==
  /\ Serving
  /\ w \notin Opened
  /\ phase[w] = "idle"
  /\ Home[w] \notin gone
  /\ ~Tombstone(w) /\ ~Said(w) /\ ~Waiting(w)
  /\ IF Live(Home[w])
     THEN \/ Enqueue(w) /\ UNCHANGED phase
          \/ /\ LiveEngine
             /\ phase' = [phase EXCEPT ![w] = "asked"]
             /\ Decline
     ELSE StartOrQueue(w) /\ UNCHANGED phase

(* ... and from the adapter's answer to the receipt *)
SendContinues(w) ==
  /\ Serving
  /\ w \in Words
  /\ Answered(w)
  /\ phase' = [phase EXCEPT ![w] = "idle"]
  /\ \/ /\ \/ Home[w] \in gone
           \/ phase[w] = "steered" /\ ~Live(Home[w])
        /\ Decline
     \/ /\ Home[w] \notin gone
        /\ phase[w] = "indeterminate" \/ (phase[w] = "steered" /\ Live(Home[w]))
        /\ direct' = [direct EXCEPT ![w] = Bump(@)]
        /\ UNCHANGED <<status, word, nextId, lines, notices, gone, up, work,
                       waiting, turns, held, room, crashes, coordination, history>>
     \/ /\ Home[w] \notin gone
        /\ phase[w] = "refused"
        /\ IF Live(Home[w]) THEN Enqueue(w) ELSE StartOrQueue(w)

(* startOrQueueOpenedThread, called by a turn of the bot itself *)
OpenThread(w) ==
  /\ Serving
  /\ w \in Opened
  /\ room = "speaking" \/ \E t \in Threads : Live(t)
  /\ Home[w] \notin gone
  /\ turn[Home[w]] = "idle"
  /\ direct[w] = 0 /\ \A i \in Ids : i < nextId => word[i] # w
  /\ UNCHANGED phase
  /\ IF AtCapacity \/ room # "none" THEN Enqueue(w) ELSE StartDirect(w) \/ Decline

(* mutant of Cancel: the whole entry leaves the map with one of its words *)
CancelEntry(i) ==
  /\ Serving
  /\ i < nextId
  /\ Thread(i) \notin gone /\ i \in ToSet(queue[Thread(i)])
  /\ queue' = [queue EXCEPT ![Thread(i)] = <<>>]
  /\ line' = Without(line, Thread(i))
  /\ status' = [status EXCEPT ![i] = "cancelled"]
  /\ UNCHANGED <<word, nextId, lines, notices, direct, gone, up, work, turns,
                 calls, room, crashes, coordination, history>>

(* DELETE /api/bots/:id/queue/:queueId *)
Cancel(i) ==
  /\ Serving
  /\ i < nextId
  /\ LET t == Thread(i) IN
     /\ t \notin gone
     /\ i \in ToSet(queue[t])
     /\ queue' = [queue EXCEPT ![t] = Without(@, i)]
     /\ line' = IF Len(queue[t]) = 1 THEN Without(line, t) ELSE line
  /\ status' = [status EXCEPT ![i] = "cancelled"]
  /\ UNCHANGED <<word, nextId, lines, notices, direct, gone, up, work, turns,
                 calls, room, crashes, coordination, history>>

-----------------------------------------------------------------------------
(* drainSteeredMessages, one visit per thread of the map *)

(* where the handler that called the drain goes on when the walk is over *)
AfterWalk == IF deleting # {} THEN "delete" ELSE IF waking # {} THEN "handoff" ELSE "idle"

Skip(t) ==
  /\ t \notin gone
  /\ Blocked(t)
  /\ frame' = IF Len(visit) = 1 THEN AfterWalk ELSE "visit"
  /\ visit' = Tail(visit)
  /\ UNCHANGED <<disk, batch, done, waiting, history>>

(* the bot or task was deleted while messages waited *)
DropGone(t) ==
  /\ t \in gone
  /\ status' = SetStatus({i \in ToSet(queue[t]) : status[i] # "absent"}, "cancelled")
  /\ queue' = [queue EXCEPT ![t] = <<>>]
  /\ line' = Without(line, t)
  /\ frame' = IF Len(visit) = 1 THEN AfterWalk ELSE "visit"
  /\ visit' = Tail(visit)
  /\ UNCHANGED <<word, nextId, lines, notices, direct, gone, batch, done, history>>

(* mutant of Claim: the claim is not written to the journal *)
ClaimInMemory(t) ==
  /\ t \notin gone
  /\ queue[t] # <<>> /\ ~Blocked(t)
  /\ claimed' = [i \in Ids |-> IF i \in ToSet(queue[t]) THEN Bump(claimed[i]) ELSE claimed[i]]
  /\ queue' = [queue EXCEPT ![t] = <<>>]
  /\ line' = Without(line, t)
  /\ frame' = "append"
  /\ visit' = Tail(visit)
  /\ batch' = queue[t]
  /\ done' = 0
  /\ UNCHANGED <<status, word, nextId, lines, notices, direct, gone, folded>>

(* the claim reaches the disk before the entry's words go anywhere *)
Claim(t) ==
  /\ t \notin gone
  /\ queue[t] # <<>> /\ ~Blocked(t)
  /\ status' = SetStatus(ToSet(queue[t]), "dispatching")
  /\ claimed' = [i \in Ids |-> IF i \in ToSet(queue[t]) THEN Bump(claimed[i]) ELSE claimed[i]]
  /\ queue' = [queue EXCEPT ![t] = <<>>]
  /\ line' = Without(line, t)
  /\ frame' = "append"
  /\ visit' = Tail(visit)
  /\ batch' = queue[t]
  /\ done' = 0
  /\ UNCHANGED <<word, nextId, lines, notices, direct, gone, folded>>

DrainVisit ==
  /\ frame = "visit" /\ visit # <<>>
  /\ LET t == Head(visit) IN Skip(t) \/ DropGone(t) \/ Claim(t)
  /\ UNCHANGED <<up, turns, calls, room, crashes, coordination>>

DrainEnds ==
  /\ frame = "visit" /\ visit = <<>>
  /\ frame' = AfterWalk
  /\ UNCHANGED <<disk, up, visit, batch, done, waiting, turns, calls, room,
                 crashes, coordination, history>>

(* one user line per claimed item, each a commit of its own *)
DrainAppend ==
  /\ frame = "append"
  /\ done < Len(batch)
  /\ lines' = [lines EXCEPT ![batch[done + 1]] = Bump(@)]
  /\ done' = done + 1
  /\ frame' = IF done + 1 = Len(batch) THEN "start" ELSE "append"
  /\ UNCHANGED <<status, word, nextId, notices, direct, gone, up, visit, batch,
                 waiting, turns, calls, room, crashes, coordination, history>>

(* run: the turn starts, is refused with an error line in the transcript   *)
(* (the rows retire), or even that line cannot be written (the promise     *)
(* rejects and the rows are left for the next boot)                        *)
DrainStart ==
  LET t == Thread(batch[1]) IN
  /\ frame = "start"
  /\ frame' = IF visit = <<>> THEN AfterWalk ELSE "visit"
  /\ batch' = <<>>
  /\ done' = 0
  /\ \/ /\ turn' = [turn EXCEPT ![t] = "dispatching"]
        /\ turnIds' = [turnIds EXCEPT ![t] = ToSet(batch)]
        /\ UNCHANGED status
     \/ /\ \E st \in {"absent", "interrupted"} : status' = SetStatus(ToSet(batch), st)
        /\ UNCHANGED turns
  /\ UNCHANGED <<word, nextId, lines, notices, direct, gone, up, visit, waiting,
                 calls, room, crashes, coordination, history>>

-----------------------------------------------------------------------------
(* The turn of a thread, as far as the queue depends on it. Completion may *)
(* arrive before the provider has acknowledged the dispatch ("closing").   *)

(* A steer in flight when its turn ends: words the turn took in are         *)
(* indeterminate, words it did not take can no longer be accepted.          *)
EndCalls(t) ==
  phase' = [c \in Callers |->
             IF phase[c] = "asked" /\ ThreadOfCall(c) = t THEN "late"
             ELSE IF phase[c] = "taken" /\ ThreadOfCall(c) = t THEN "indeterminate"
             ELSE phase[c]]

Retire(t) == status' = SetStatus(turnIds[t], "absent") /\ turnIds' = [turnIds EXCEPT ![t] = {}]

(* turn.completed, whatever ended the turn: result, Stop or watchdog *)
TurnCompleted(t) ==
  /\ Serving
  /\ Live(t)
  /\ EndCalls(t)
  /\ IF turn[t] = "running"
     THEN turn' = [turn EXCEPT ![t] = "idle"] /\ Retire(t)
     ELSE turn' = [turn EXCEPT ![t] = "closing"] /\ UNCHANGED <<status, turnIds>>
  /\ DrainAll
  /\ UNCHANGED <<word, nextId, lines, notices, direct, gone, up, waiting, held,
                 room, crashes, coordination, history>>

(* the stall watchdog gives the follow-up up before the engine lets go *)
TurnStalled(t) ==
  /\ Serving
  /\ Live(t)
  /\ Retire(t)
  /\ UNCHANGED <<word, nextId, lines, notices, direct, gone, up, work, waiting, turn,
                 calls, room, crashes, coordination, history>>

(* sendTurn resolves and the dispatch claim is released *)
DispatchAcknowledged(t) ==
  /\ Serving
  /\ \/ /\ turn[t] = "dispatching"
        /\ turn' = [turn EXCEPT ![t] = "running"]
        /\ UNCHANGED <<status, turnIds, work>>
     \/ /\ turn[t] = "closing"
        /\ turn' = [turn EXCEPT ![t] = "idle"]
        /\ Retire(t)
        /\ DrainAll
  /\ UNCHANGED <<word, nextId, lines, notices, direct, gone, up, waiting, calls,
                 room, crashes, coordination, history>>

(* mutant of DispatchFailed: the queue is not drained *)
DispatchFailedQuietly(t) ==
  /\ Serving
  /\ turn[t] \in {"dispatching", "closing"}
  /\ \A c \in Callers : phase[c] \in {"taken", "steered"} => ThreadOfCall(c) # t
  /\ turn' = [turn EXCEPT ![t] = "idle"]
  /\ Retire(t)
  /\ EndCalls(t)
  /\ UNCHANGED <<word, nextId, lines, notices, direct, gone, up, work, waiting, held,
                 room, crashes, coordination, history>>

(* sendTurn rejects: no turn.completed follows, so the handler drains. A    *)
(* dispatch that fails had no live turn that could have taken words in.     *)
DispatchFailed(t) ==
  /\ Serving
  /\ turn[t] \in {"dispatching", "closing"}
  /\ \A c \in Callers : phase[c] \in {"taken", "steered"} => ThreadOfCall(c) # t
  /\ turn' = [turn EXCEPT ![t] = "idle"]
  /\ Retire(t)
  /\ EndCalls(t)
  /\ DrainAll
  /\ UNCHANGED <<word, nextId, lines, notices, direct, gone, up, waiting, held,
                 room, crashes, coordination, history>>

-----------------------------------------------------------------------------
(* The bot's turns in a room. The operation that holds the bot outlives    *)
(* the speaker's turn.completed and ends without a drain of this queue.    *)

RoomSpeaks ==
  /\ Serving /\ HasRooms
  /\ room = "none" /\ \A t \in Threads : ~Live(t)
  /\ room' = "speaking"
  /\ UNCHANGED <<disk, up, work, waiting, turns, calls, crashes, coordination,
                 history>>

RoomTurnCompleted ==
  /\ Serving
  /\ room = "speaking"
  /\ room' = "ending"
  /\ DrainAll
  /\ UNCHANGED <<disk, up, waiting, turns, calls, crashes, coordination, history>>

RoomOperationFinished ==
  /\ Serving
  /\ room = "ending"
  /\ room' = "none"
  /\ UNCHANGED <<disk, up, work, waiting, turns, calls, crashes, coordination,
                 history>>

-----------------------------------------------------------------------------
(* POST /api/bots/:id/queue/:queueId/steer *)

(* holdSteeredQueue, then the await of adapter.steer *)
HoldForSteer(s, t) ==
  /\ Serving
  /\ phase[s] = "idle"
  /\ t \notin gone
  /\ queue[t] # <<>>
  /\ LiveEngine /\ Live(t)
  /\ held' = [held EXCEPT ![s] = queue[t]]
  /\ phase' = [phase EXCEPT ![s] = "asked"]
  /\ queue' = [queue EXCEPT ![t] = <<>>]
  /\ line' = Without(line, t)
  /\ UNCHANGED <<disk, up, work, turns, room, crashes, coordination, history>>

(* nothing to await: no live turn, an engine that cannot steer, or words   *)
(* that carry images. The entry is put back, now last in the map; only the *)
(* image case returns without looking at whether the bot is idle.          *)
SteerDeclined(t) ==
  /\ Serving
  /\ Steerers # {}
  /\ t \notin gone
  /\ queue[t] # <<>>
  /\ line' = Append(Without(line, t), t)
  /\ \/ UNCHANGED work
     \/ ~Live(t) /\ frame' = "visit" /\ visit' = line' /\ UNCHANGED <<batch, done>>
  /\ UNCHANGED <<disk, up, queue, turns, calls, room, crashes, coordination,
                 history>>

(* the engine takes the words into the running turn (adapter.steer) *)
EngineTakes(c) ==
  /\ Serving
  /\ phase[c] = "asked"
  /\ Live(ThreadOfCall(c))
  /\ phase' = [phase EXCEPT ![c] = "taken"]
  /\ folded' = IF c \in Steerers THEN folded \cup ToSet(held[c]) ELSE folded
  /\ UNCHANGED <<disk, up, work, waiting, turns, held, room, crashes, coordination, claimed>>

(* SteerOutcome: "refused" only for words the engine provably has not *)
EngineAnswers(c) ==
  /\ Serving
  /\ \E outcome \in {"steered", "refused", "indeterminate"} :
       /\ outcome = "steered" => phase[c] = "taken"
       /\ outcome = "refused" => phase[c] \in {"asked", "late"}
       /\ outcome = "indeterminate" => phase[c] \in {"asked", "late", "taken"}
       /\ phase' = [phase EXCEPT ![c] = outcome]
  /\ UNCHANGED <<disk, up, work, waiting, turns, held, room, crashes,
                 coordination, history>>

(* the answer is in: record the words, drop them, or put them back *)
SteerContinues(s) ==
  LET t == ThreadOfCall(s) IN
  /\ Serving
  /\ s \in Steerers
  /\ Answered(s)
  /\ phase' = [phase EXCEPT ![s] = "idle"]
  /\ held' = [held EXCEPT ![s] = <<>>]
  /\ \/ /\ t \notin gone
        /\ phase[s] = "indeterminate" \/ (phase[s] = "steered" /\ Live(t))
        /\ frame' = "fold"
        /\ batch' = held[s]
        /\ done' = 0
        /\ UNCHANGED <<status, visit, waiting>>
     \/ /\ t \in gone /\ phase[s] = "indeterminate"
        /\ status' = SetStatus(ToSet(held[s]), "absent")
        /\ UNCHANGED <<work, waiting>>
     \/ /\ phase[s] = "refused" \/ (phase[s] = "steered" /\ (t \in gone \/ ~Live(t)))
        /\ queue' = [queue EXCEPT ![t] = held[s] \o @]
        /\ line' = InLine(t)
        /\ IF t \notin gone /\ ~Live(t)
           THEN frame' = "visit" /\ visit' = line' /\ UNCHANGED <<batch, done>>
           ELSE UNCHANGED work
        /\ UNCHANGED status
  /\ UNCHANGED <<word, nextId, lines, notices, direct, gone, up, turns, room,
                 crashes, coordination, history>>

FoldAppend ==
  /\ frame = "fold"
  /\ done < Len(batch)
  /\ lines' = [lines EXCEPT ![batch[done + 1]] = Bump(@)]
  /\ done' = done + 1
  /\ frame' = IF done + 1 = Len(batch) THEN "settle" ELSE "fold"
  /\ UNCHANGED <<status, word, nextId, notices, direct, gone, up, visit, batch,
                 waiting, turns, calls, room, crashes, coordination, history>>

(* settleHeldSteeredQueue *)
FoldSettle ==
  /\ frame = "settle"
  /\ status' = SetStatus(ToSet(batch), "absent")
  /\ frame' = "idle"
  /\ batch' = <<>>
  /\ done' = 0
  /\ UNCHANGED <<word, nextId, lines, notices, direct, gone, up, visit, waiting,
                 turns, calls, room, crashes, coordination, history>>

-----------------------------------------------------------------------------
(* Delegated work. A thread is awaited while it is the source or the       *)
(* target of a direct handoff that is not settled (room-handoffs.ts). Each *)
(* change of such a node runs the `changed' hook, which drains.            *)

(* PATCH parkDirectMessages: saved, and nothing is drained *)
SetParking ==
  /\ Serving
  /\ \E setting \in Settings \ {parks} : parks' = setting
  /\ UNCHANGED <<disk, up, work, waiting, turns, calls, room, crashes, awaiting,
                 deleting, waking, handoffs, history>>

(* enqueue *)
HandoffOpens(t) ==
  /\ Serving
  /\ t \in Delegating \ (gone \cup awaiting)
  /\ handoffs < MaxHandoffs
  /\ handoffs' = handoffs + 1
  /\ awaiting' = awaiting \cup {t}
  /\ DrainAll
  /\ UNCHANGED <<disk, up, waiting, turns, calls, room, crashes, parks, deleting,
                 waking, history>>

(* the thread's last open node completes, fails, or is cancelled by a Stop *)
HandoffSettles(t) ==
  /\ Serving
  /\ t \in awaiting
  /\ awaiting' = awaiting \ {t}
  /\ DrainAll
  /\ UNCHANGED <<disk, up, waiting, turns, calls, room, crashes, parks, deleting,
                 waking, handoffs, history>>

(* tick: a node that may run is marked and published, which drains, ...    *)
HandoffRuns(t) ==
  /\ Serving
  /\ t \in awaiting \cap Resumable
  /\ ~ThreadBusy(t) /\ ~AtCapacity
  /\ waking' = {t}
  /\ DrainAll
  /\ UNCHANGED <<disk, up, waiting, turns, calls, room, crashes, parks, awaiting,
                 deleting, handoffs, history>>

(* ... and only then asks startTurn, which may refuse; the node then fails *)
HandoffStarts ==
  /\ frame = "handoff"
  /\ \E t \in waking :
       \/ /\ t \notin gone /\ ~ThreadBusy(t) /\ ~AtCapacity /\ room = "none"
          /\ turn' = [turn EXCEPT ![t] = "dispatching"]
          /\ turnIds' = [turnIds EXCEPT ![t] = {}]
          /\ frame' = "idle"
          /\ UNCHANGED <<visit, batch, done, awaiting>>
       \/ /\ awaiting' = awaiting \ {t}
          /\ DrainAll
          /\ UNCHANGED turns
  /\ waking' = {}
  /\ UNCHANGED <<disk, up, waiting, calls, room, crashes, parks, deleting,
                 handoffs, history>>

-----------------------------------------------------------------------------
(* Deleting a thread first cancels its handoffs, which drains while the    *)
(* thread still exists, and then removes its rows; deleting the bot first  *)
(* saves the bots without it and then removes the rows of every thread.    *)

DeleteTask(t) ==
  /\ Serving
  /\ t \in Deletable \ gone
  /\ ~ThreadBusy(t)
  /\ deleting' = {t}
  /\ IF t \in awaiting
     THEN awaiting' = awaiting \ {t} /\ DrainAll
     ELSE frame' = "delete" /\ UNCHANGED <<visit, batch, done, awaiting>>
  /\ UNCHANGED <<disk, up, waiting, turns, calls, room, crashes, parks, waking,
                 handoffs, history>>

(* deleteTask; a turn the drain just started on the thread is given up in  *)
(* its setup, which finds that its claim is not current any more           *)
DeleteEnds ==
  /\ frame = "delete"
  /\ frame' = "idle"
  /\ deleting' = {}
  /\ \E t \in deleting :
       /\ gone' = gone \cup {t}
       /\ status' = SetStatus({i \in Ids : i < nextId /\ Thread(i) = t}, "absent")
       /\ turn' = [turn EXCEPT ![t] = IF ThreadBusy(t) THEN "closing" ELSE "idle"]
       /\ turnIds' = [turnIds EXCEPT ![t] = {}]
  /\ UNCHANGED <<word, nextId, lines, notices, direct, up, visit, batch, done,
                 waiting, calls, room, crashes, parks, awaiting, waking, handoffs, history>>

DeleteBot ==
  /\ Serving
  /\ Deletable = Threads /\ gone # Threads
  /\ room = "none"
  /\ \A t \in Threads : ~ThreadBusy(t)
  /\ gone' = Threads
  /\ frame' = "purge"
  /\ UNCHANGED <<status, word, nextId, lines, notices, direct, up, visit, batch,
                 done, waiting, turns, calls, room, crashes, coordination, history>>

Purge ==
  /\ frame = "purge"
  /\ status' = [i \in Ids |-> "absent"]
  /\ frame' = "idle"
  /\ UNCHANGED <<word, nextId, lines, notices, direct, gone, up, visit, batch,
                 done, waiting, turns, calls, room, crashes, coordination, history>>

-----------------------------------------------------------------------------
(* A crash, and the boot that follows it. *)

Crash ==
  /\ up # "down"
  /\ crashes < MaxCrashes
  /\ crashes' = crashes + 1
  /\ up' = "down"
  /\ frame' = "idle"
  /\ visit' = <<>>
  /\ batch' = <<>>
  /\ done' = 0
  /\ queue' = [t \in Threads |-> <<>>]
  /\ line' = <<>>
  /\ turn' = [t \in Threads |-> "idle"]
  /\ turnIds' = [t \in Threads |-> {}]
  /\ phase' = [c \in Callers |-> "idle"]
  /\ held' = [s \in Steerers |-> <<>>]
  /\ room' = "none"
  /\ deleting' = {}
  /\ waking' = {}
  /\ UNCHANGED <<disk, history, parks, awaiting, handoffs>>

(* the constructor of RoomHandoffs fails every node that was open *)
Boot ==
  /\ up = "down"
  /\ up' = "booting"
  /\ frame' = "mark"
  /\ awaiting' = {}
  /\ UNCHANGED <<disk, visit, batch, done, waiting, turns, calls, room, crashes, parks,
                 deleting, waking, handoffs, history>>

Unfinished == {i \in Ids : status[i] \in {"dispatching", "interrupted"}}

(* mutant of RecoverMark: the row is retired without its line and notice *)
RecoverMarkOnly ==
  /\ frame = "mark"
  /\ \E i \in Unfinished :
       /\ \A j \in Unfinished : i <= j
       /\ status' = [status EXCEPT ![i] = "interrupted"]
       /\ frame' = "retire"
       /\ batch' = <<i>>
  /\ UNCHANGED <<word, nextId, lines, notices, direct, gone, up, visit, done,
                 waiting, turns, calls, room, crashes, coordination, history>>

(* the next row, in rowid order, whose outcome the crash left unknown *)
RecoverMark ==
  /\ frame = "mark"
  /\ \E i \in Unfinished :
       /\ \A j \in Unfinished : i <= j
       /\ IF Thread(i) \in gone
          THEN status' = [status EXCEPT ![i] = "cancelled"] /\ UNCHANGED <<frame, batch>>
          ELSE /\ status' = [status EXCEPT ![i] = "interrupted"]
               /\ frame' = "recoverLine"
               /\ batch' = <<i>>
  /\ UNCHANGED <<word, nextId, lines, notices, direct, gone, up, visit, done,
                 waiting, turns, calls, room, crashes, coordination, history>>

RecoverLine ==
  /\ frame = "recoverLine"
  /\ lines' = IF lines[batch[1]] = 0 THEN [lines EXCEPT ![batch[1]] = Bump(@)] ELSE lines
  /\ frame' = "recoverNotice"
  /\ UNCHANGED <<status, word, nextId, notices, direct, gone, up, visit, batch,
                 done, waiting, turns, calls, room, crashes, coordination, history>>

(* the notice to review them, unless an earlier recovery had written it *)
RecoverNotice ==
  /\ frame = "recoverNotice"
  /\ notices' = IF notices[batch[1]] = 0 THEN [notices EXCEPT ![batch[1]] = Bump(@)] ELSE notices
  /\ frame' = "retire"
  /\ UNCHANGED <<status, word, nextId, lines, direct, gone, up, visit, batch,
                 done, waiting, turns, calls, room, crashes, coordination, history>>

RecoverRetire ==
  /\ frame = "retire"
  /\ status' = [status EXCEPT ![batch[1]] = "absent"]
  /\ frame' = "mark"
  /\ batch' = <<>>
  /\ UNCHANGED <<word, nextId, lines, notices, direct, gone, up, visit, done,
                 waiting, turns, calls, room, crashes, coordination, history>>

RecoverEnds ==
  /\ frame = "mark"
  /\ Unfinished = {}
  /\ frame' = "restore"
  /\ UNCHANGED <<disk, up, visit, batch, done, waiting, turns, calls, room,
                 crashes, coordination, history>>

Unrestored == {i \in Ids : status[i] = "pending" /\ i \notin ToSet(queue[Thread(i)])}

(* mutant of RestoreRow: the newest row first *)
RestoreNewestFirst ==
  /\ frame = "restore"
  /\ \E i \in Unrestored :
       /\ \A j \in Unrestored : i >= j
       /\ queue' = [queue EXCEPT ![Thread(i)] = Append(@, i)]
       /\ line' = InLine(Thread(i))
  /\ UNCHANGED <<disk, up, work, turns, calls, room, crashes, coordination,
                 history>>

(* restoreSteeredMessages, one pending row after the other *)
RestoreRow ==
  /\ frame = "restore"
  /\ \E i \in Unrestored :
       /\ \A j \in Unrestored : i <= j
       /\ queue' = [queue EXCEPT ![Thread(i)] = Append(@, i)]
       /\ line' = InLine(Thread(i))
  /\ UNCHANGED <<disk, up, work, turns, calls, room, crashes, coordination,
                 history>>

(* the server listens and drains once *)
Listen ==
  /\ frame = "restore"
  /\ Unrestored = {}
  /\ up' = "serving"
  /\ DrainAll
  /\ UNCHANGED <<disk, waiting, turns, calls, room, crashes, coordination, history>>

-----------------------------------------------------------------------------
Requests == \/ \E w \in Words : Send(w) \/ SendContinues(w) \/ OpenThread(w)
            \/ \E i \in Ids : Cancel(i)
            \/ \E t \in Threads : DeleteTask(t) \/ SteerDeclined(t)
            \/ \E s \in Steerers : SteerContinues(s) \/ \E t \in Threads : HoldForSteer(s, t)
            \/ DeleteBot \/ SetParking

Handler == \/ DrainVisit \/ DrainEnds \/ DrainAppend \/ DrainStart
           \/ FoldAppend \/ FoldSettle \/ Purge \/ DeleteEnds \/ HandoffStarts
           \/ Boot \/ RecoverMark \/ RecoverLine \/ RecoverNotice \/ RecoverRetire
           \/ RecoverEnds \/ RestoreRow \/ Listen

(* The drain runs on every turn.completed, those of other bots included. *)
OtherTurnCompleted ==
  /\ Serving
  /\ line # <<>>
  /\ DrainAll
  /\ UNCHANGED <<disk, up, waiting, turns, calls, room, crashes, coordination,
                 history>>

Engine == \/ \E t \in Threads : TurnCompleted(t) \/ DispatchAcknowledged(t) \/ DispatchFailed(t)
                                \/ TurnStalled(t)
                                \/ HandoffOpens(t) \/ HandoffSettles(t) \/ HandoffRuns(t)
          \/ \E c \in Callers : EngineTakes(c) \/ EngineAnswers(c)
          \/ RoomSpeaks \/ RoomTurnCompleted \/ RoomOperationFinished
          \/ OtherTurnCompleted

Next == Requests \/ Handler \/ Engine \/ Crash

Spec == Init /\ [][Next]_vars

Continues == (\E w \in Words : SendContinues(w)) \/ (\E s \in Steerers : SteerContinues(s))

(* A handler that has begun runs on and the supervisor restarts the        *)
(* process (weak: nothing else can run meanwhile). The event loop reaches  *)
(* every event that waits, though another handler may run first (strong):  *)
(* a provider acknowledges its dispatch, a turn ends (result, Stop or the  *)
(* stall watchdog), a steer is answered (the adapter's timeout), a handoff *)
(* settles (its hard cap). People owe nothing.                             *)
Fairness ==
  /\ WF_vars(Handler)
  /\ \A t \in Threads : SF_vars(TurnCompleted(t)) /\ SF_vars(DispatchAcknowledged(t))
  /\ SF_vars(\E c \in Callers : EngineAnswers(c))
  /\ SF_vars(Continues)
  /\ SF_vars(RoomTurnCompleted \/ RoomOperationFinished)
  /\ SF_vars(\E t \in Threads : HandoffSettles(t))

FairSpec == Spec /\ Fairness

-----------------------------------------------------------------------------
(* Properties *)

Issued == {i \in Ids : i < nextId /\ Thread(i) \notin gone}

InHold(i) == \E s \in Steerers : i \in ToSet(held[s])

(* No two settles, restarts or drains hand the same queued words to a      *)
(* follow-up turn: an id is claimed at most once in the life of its row    *)
(* (drainSteeredMessages, restoreSteeredMessages, boot recovery).          *)
ClaimedOnce == \A i \in Ids : claimed[i] <= 1

(* While no handler is in progress, the rows the journal calls pending are *)
(* exactly the words in the map or in the hands of a live steer, each in   *)
(* one place once, and the walk of a drain meets every thread with words:  *)
(* nothing waits on disk that no drain will ever reach.                    *)
PendingIsReachable ==
  Serving =>
    /\ \A i \in Issued : status[i] = "pending" <=> i \in ToSet(queue[Thread(i)]) \/ InHold(i)
    /\ \A t \in Threads : IsInjective(queue[t])
    /\ \A s \in Steerers : IsInjective(held[s]) /\ \A i \in ToSet(held[s]) :
         /\ i \notin ToSet(queue[Thread(i)])
         /\ \A r \in Steerers \ {s} : i \notin ToSet(held[r])
    /\ IsInjective(line) /\ ToSet(line) = {t \in Threads : queue[t] # <<>>}

LineOnce == \A i \in Ids : lines[i] <= 1 /\ notices[i] <= 1

(* However often a send is retried, with whatever crashes in between, its  *)
(* words are in the transcript at most once (the sendId checks of the      *)
(* route against transcript, queue and tombstones); and recovery, which     *)
(* repeats after a crash inside recovery, writes the line and the notice of *)
(* a row once (index.ts boot loop).                                         *)
SaidOnce ==
  /\ \A w \in Words :
       direct[w] + Cardinality({i \in Ids : i < nextId /\ word[i] = w /\ lines[i] > 0}) <= 1
  /\ LineOnce

(* Words wait in the order they were accepted, also across a hold that is  *)
(* put back and across a restart (restoreHeldSteeredQueue).                *)
QueueInOrder ==
  \A t \in Threads : \A a, b \in DOMAIN queue[t] : a < b => queue[t][a] < queue[t][b]

(* The same words are never both folded into a live turn and run again as  *)
(* a follow-up (the steer route).                                          *)
NotBothWays == \A i \in folded : claimed[i] = 0

(* The bot never runs a direct turn while its room operation holds it.     *)
NeverInTwoPlaces == room # "none" => \A t \in Threads : ~Live(t)

(* Drains, sends and opened threads together never start more turns than   *)
(* the bot has slots, claims not yet acknowledged included.                *)
WithinCapacity == Cardinality({t \in Threads \ gone : ThreadBusy(t)}) <= Capacity

Before(l, a, b) == \E j, k \in DOMAIN l : j < k /\ l[j] = a /\ l[k] = b

(* The line for a free slot is fair: no thread gets ahead of one that was  *)
(* already waiting, and a drain claims a thread's words only when every    *)
(* thread before it is itself busy, deleted, or parked behind its handoffs *)
(* by its person's wish ("insertion order is the line").                   *)
LineIsServed ==
  [][/\ \A a \in ToSet(line), b \in Threads : Before(line', b, a) => Before(line, b, a)
     /\ frame = "visit" /\ frame' = "append" =>
          \A a \in Threads : Before(line, a, Head(visit)) =>
             ThreadBusy(a) \/ a \in gone \/ Parked(a)]_vars

Fate(i) == IF i >= nextId THEN "none"
           ELSE IF Thread(i) \in gone THEN "dropped"
           ELSE CASE status[i] = "pending" -> "waiting"
                  [] status[i] \in {"dispatching", "interrupted"} -> "claimed"
                  [] status[i] = "cancelled" -> "cancelled"
                  [] status[i] = "absent" -> "recorded"

Ledger == INSTANCE FollowupLedger WITH fate <- [i \in Ids |-> Fate(i)],
                                       said <- [i \in Ids |-> lines[i] > 0]

(* The journal and the transcript keep the promise of the ledger: a row    *)
(* never goes back to pending once claimed, cancelled or retired, it is    *)
(* cancelled only while it waits, and it leaves the journal only with its  *)
(* words in the transcript or its thread deleted, whichever step of a      *)
(* drain, a live steer or a recovery the process dies in.                  *)
LedgerKept == Ledger!Spec

(* What the proofs need beside it to show ClaimedOnce inductive: what waits *)
(* in the map or in a hold is on its own thread, unclaimed, in one place;  *)
(* what the journal calls pending is unclaimed, so that recovery may put   *)
(* it back; and recovery has the process, with nothing held, to itself.    *)
QueueSound ==
  \A t \in Threads : \A i \in ToSet(queue[t]) :
    i < nextId /\ Thread(i) = t /\ claimed[i] = 0

HeldSound ==
  \A s \in Steerers :
    /\ phase[s] = "idle" <=> held[s] = <<>>
    /\ \A i \in ToSet(held[s]) :
         /\ i < nextId /\ Thread(i) = Thread(held[s][1]) /\ claimed[i] = 0
         /\ i \notin ToSet(queue[Thread(i)])
         /\ \A r \in Steerers \ {s} : i \notin ToSet(held[r])

JournalSound ==
  \A i \in Ids :
    /\ status[i] = "pending" => i < nextId /\ claimed[i] = 0
    /\ i >= nextId => claimed[i] = 0

BootFrames == {"mark", "recoverLine", "recoverNotice", "retire", "restore"}

BootSound ==
  /\ up = "booting" <=> frame \in BootFrames
  /\ up = "down" => frame = "idle"
  /\ up # "serving" => \A s \in Steerers : held[s] = <<>>

(* Queued words are in one place and unclaimed wherever they wait, and no  *)
(* row that was claimed is pending again (steer-queue.ts: an entry leaves  *)
(* the map before anything runs). Inductive.                               *)
IInv == TypeOK /\ QueueSound /\ HeldSound /\ JournalSound /\ BootSound /\ ClaimedOnce

(* Accepted words do not wait for ever: they run, are folded into a turn,  *)
(* are cancelled, or go with their thread.                                 *)
WordsGetTheirTurn == []<>(\A i \in Ids : status[i] # "pending")
=============================================================================
