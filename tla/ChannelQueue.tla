---------------------------- MODULE ChannelQueue ----------------------------
(***************************************************************************)
(* The follow-up queue of one room's threads (server/channel-queue.ts),    *)
(* the room operation that makes the room busy, and the drain that starts  *)
(* one follow-up at a time (server/index.ts).                              *)
(*                                                                         *)
(* Two things hold a room: an operation (groupTurnOperations), which runs  *)
(* its members one after the other, and the member that speaks (busyBotId, *)
(* groupSpeakers). A member that hangs keeps the room after its operation  *)
(* has finished, until a timer releases it.                                *)
(***************************************************************************)
EXTENDS Naturals, FiniteSets, SequencesExt

CONSTANTS
  Threads,      \* the room's threads
  Words,        \* what people want to say; one sendId each
  Home,         \* the thread each word is meant for
  Bots,         \* the room's members
  Nobody,
  Steerers,     \* concurrent requests to steer a queue's head
  Hangs,        \* a member's turn may time out or stall
  MaxOther,     \* bound on the room's handoffs and continuations
  Deletable,    \* the threads somebody may delete
  MaxId,        \* bound on the queue ids a behaviour may issue
  MaxOps,       \* bound on the operations in line at a time
  MaxCrashes    \* bound on the crashes of a behaviour

ASSUME ChannelQueueAssumption ==
  /\ Home \in [Words -> Threads]
  /\ Threads # {} /\ Words # {}
  /\ Nobody \notin Bots
  /\ Hangs \in BOOLEAN
  /\ MaxOther \in Nat
  /\ Deletable \subseteq Threads
  /\ MaxId \in Nat \ {0} /\ MaxOps \in Nat \ {0} /\ MaxCrashes \in Nat

VARIABLES
  \* on disk
  status,   \* chat_followups: what the journal says of each queue id
  word,     \* the words each queue id carries
  nextId,   \* the next queue id
  lines,    \* user lines in the transcript that carry a queueId
  direct,   \* user lines in the transcript that never had a queue id
  gone,     \* the threads that were deleted
  active,   \* the room's current thread
  \* in the process
  up,       \* "down", "booting" or "serving"
  frame,    \* where the running handler stands between two commits
  item,     \* the id the running handler is at
  visit,    \* the threads the running drain has yet to visit
  redrain,  \* a drain waits in the microtask queue
  settling, \* ids whose promise has settled, to be retired in that order
  queue,    \* the map of waiting sends
  line,     \* the insertion order of that map's keys
  ops,      \* groupTurnOperations, in the order groupQueues runs them
  stage,    \* where the first of them is
  busy,     \* the room's busyBotId
  speaker,  \* groupSpeakers
  phase,    \* how far each live steer has come
  asked,    \* the member each steer was addressed to
  held,     \* the queue each steer has lifted out of the map
  crashes,
  others,   \* how many handoffs and continuations have begun
  \* history
  claimed,  \* how often a drain claimed an id
  folded    \* the ids a running turn took in through a live steer

journal == <<status, word, nextId>>
disk    == <<journal, lines, direct, gone, active>>
work    == <<frame, item, visit, redrain, settling>>
waiting == <<queue, line>>
turns   == <<ops, stage, busy, speaker>>
steers  == <<phase, asked, held>>
history == <<claimed, folded>>
bounds  == <<crashes, others>>
vars    == <<disk, up, work, waiting, turns, steers, bounds, history>>

Ids      == 1..MaxId
Statuses == {"absent", "pending", "dispatching", "interrupted", "cancelled"}
Phases   == {"idle", "asked", "late", "taken", "steered", "refused", "indeterminate"}
Frames   == {"idle", "visit", "start", "settle", "fold", "foldSettle", "purge",
             "mark", "recoverLine", "retire", "restore"}

(* An operation of a follow-up carries its id; a person's that ran at once *)
(* and the room's other work carry 0.                                      *)
Operations == [thread : Threads, id : Ids \cup {0}, person : BOOLEAN]

Bump(n) == IF n < 2 THEN n + 1 ELSE 2

Thread(i) == Home[word[i]]

Serving == up = "serving" /\ frame = "idle"

RoomThere == gone # Threads

(* mutant of Working: an operation alone does not make the room busy *)
WorkingIfSpoken == busy # Nobody

(* groupIsWorking *)
Working == busy # Nobody \/ ops # <<>>

(* the member a steer of this thread reaches *)
SpeakerOf(t) == IF speaker[t] # Nobody THEN speaker[t]
                ELSE IF t = active THEN busy ELSE Nobody

(* cancelledChatFollowup, acceptedSendMatch, queuedChannelMessage *)
Tombstone(w) == \E i \in Ids : i < nextId /\ word[i] = w /\ status[i] = "cancelled"

Said(w) == direct[w] > 0 \/ \E i \in Ids : i < nextId /\ word[i] = w /\ lines[i] > 0

Waiting(w) == \E i \in ToSet(queue[Home[w]]) : word[i] = w

Without(s, x) == IF x \in ToSet(s)
                 THEN RemoveAt(s, CHOOSE k \in DOMAIN s : s[k] = x)
                 ELSE s

(* Map.set keeps the place of a key that is there and appends a new one *)
InLine(t) == IF t \in ToSet(line) THEN line ELSE Append(line, t)

(* mutant of SetStatus: a state the schema does not know *)
SetStatusUnchecked(S, st) == [i \in Ids |-> IF i \in S THEN "settled" ELSE status[i]]

(* settleChatFollowups writes the rows that exist *)
SetStatus(S, st) == [i \in Ids |-> IF i \in S /\ status[i] # "absent" THEN st ELSE status[i]]

TypeOK ==
  /\ status \in [Ids -> Statuses]
  /\ word \in [Ids -> Words]
  /\ nextId \in 1..(MaxId + 1)
  /\ lines \in [Ids -> 0..2]
  /\ direct \in [Words -> 0..2]
  /\ gone \subseteq Threads
  /\ active \in Threads
  /\ up \in {"down", "booting", "serving"}
  /\ frame \in Frames
  /\ item \in Ids
  /\ visit \in Seq(Threads)
  /\ redrain \in BOOLEAN
  /\ settling \in Seq(Ids)
  /\ queue \in [Threads -> Seq(Ids)]
  /\ line \in Seq(Threads)
  /\ ops \in Seq(Operations)
  /\ stage \in {"none", "starting", "speaking", "between"}
  /\ busy \in Bots \cup {Nobody}
  /\ speaker \in [Threads -> Bots \cup {Nobody}]
  /\ phase \in [Steerers -> Phases]
  /\ asked \in [Steerers -> Bots \cup {Nobody}]
  /\ held \in [Steerers -> Seq(Ids)]
  /\ crashes \in 0..MaxCrashes
  /\ others \in 0..MaxOther
  /\ claimed \in [Ids -> 0..2]
  /\ folded \subseteq Ids

-----------------------------------------------------------------------------
Init ==
  /\ status = [i \in Ids |-> "absent"]
  /\ word = [i \in Ids |-> CHOOSE w \in Words : TRUE]
  /\ nextId = 1
  /\ lines = [i \in Ids |-> 0]
  /\ direct = [w \in Words |-> 0]
  /\ gone = {}
  /\ active = CHOOSE t \in Threads : TRUE
  /\ up = "serving"
  /\ frame = "idle"
  /\ item = 1
  /\ visit = <<>>
  /\ redrain = FALSE
  /\ settling = <<>>
  /\ queue = [t \in Threads |-> <<>>]
  /\ line = <<>>
  /\ ops = <<>>
  /\ stage = "none"
  /\ busy = Nobody
  /\ speaker = [t \in Threads |-> Nobody]
  /\ phase = [s \in Steerers |-> "idle"]
  /\ asked = [s \in Steerers |-> Nobody]
  /\ held = [s \in Steerers |-> <<>>]
  /\ crashes = 0
  /\ others = 0
  /\ claimed = [i \in Ids |-> 0]
  /\ folded = {}

(* beginGroupTurnOperation, and its place behind the room's other work *)
Begin(op) == /\ ops' = Append(ops, op)
             /\ stage' = IF ops = <<>> THEN "starting" ELSE stage
             /\ UNCHANGED <<busy, speaker>>

(* drainQueuedChannelSends as the last thing a handler does *)
DrainAll == frame' = "visit" /\ visit' = line' /\ redrain' = FALSE /\ UNCHANGED item

(* queueChannelMessage *)
Enqueue(w) ==
  LET t == Home[w] IN
  /\ nextId <= MaxId
  /\ status' = [status EXCEPT ![nextId] = "pending"]
  /\ word' = [word EXCEPT ![nextId] = w]
  /\ nextId' = nextId + 1
  /\ queue' = [queue EXCEPT ![t] = Append(@, nextId)]
  /\ line' = InLine(t)
  /\ UNCHANGED <<lines, direct, turns>>

(* startGroupTurn for words that were never queued; without an eligible    *)
(* responder it writes the line and begins no operation                    *)
StartNow(w) ==
  /\ direct' = [direct EXCEPT ![w] = Bump(@)]
  /\ Begin([thread |-> Home[w], id |-> 0, person |-> TRUE]) \/ UNCHANGED turns
  /\ UNCHANGED <<journal, lines, waiting>>

(* POST /api/groups/:id/messages *)
Post(w) ==
  /\ Serving
  /\ RoomThere /\ Home[w] = active
  /\ ~Tombstone(w) /\ ~Said(w) /\ ~Waiting(w)
  /\ IF Working THEN Enqueue(w) ELSE StartNow(w)
  /\ UNCHANGED <<gone, active, up, work, steers, bounds, history>>

(* DELETE /api/groups/:id/queue/:queueId *)
Cancel(i) ==
  /\ Serving
  /\ RoomThere
  /\ i < nextId /\ i \in ToSet(queue[Thread(i)])
  /\ queue' = [queue EXCEPT ![Thread(i)] = Without(@, i)]
  /\ line' = IF Len(queue[Thread(i)]) = 1 THEN Without(line, Thread(i)) ELSE line
  /\ status' = SetStatus({i}, "cancelled")
  /\ UNCHANGED <<word, nextId, lines, direct, gone, active, up, work, turns, steers,
                 bounds, history>>

-----------------------------------------------------------------------------
(* drainChannelMessages *)

Skip == /\ RoomThere /\ Working
        /\ visit' = Tail(visit)
        /\ UNCHANGED <<status, queue, line, frame, item, claimed>>

(* mutant of Claim: the claim is not written to the journal *)
ClaimInMemory ==
  LET t == Head(visit)
      i == Head(queue[t])
  IN /\ ~(RoomThere /\ Working)
     /\ queue' = [queue EXCEPT ![t] = Tail(@)]
     /\ line' = IF Len(queue[t]) = 1 THEN Without(line, t) ELSE line
     /\ claimed' = [claimed EXCEPT ![i] = Bump(@)]
     /\ frame' = "start"
     /\ item' = i
     /\ visit' = Tail(visit)
     /\ UNCHANGED status

(* only the first word of the thread, and only once per idle room *)
Claim ==
  LET t == Head(visit)
      i == Head(queue[t])
  IN /\ ~(RoomThere /\ Working)
     /\ status' = SetStatus({i}, "dispatching")
     /\ queue' = [queue EXCEPT ![t] = Tail(@)]
     /\ line' = IF Len(queue[t]) = 1 THEN Without(line, t) ELSE line
     /\ claimed' = [claimed EXCEPT ![i] = Bump(@)]
     /\ frame' = "start"
     /\ item' = i
     /\ visit' = Tail(visit)

DrainVisit ==
  /\ frame = "visit" /\ visit # <<>>
  /\ Skip \/ Claim
  /\ UNCHANGED <<word, nextId, lines, direct, gone, active, up, redrain, settling,
                 turns, steers, bounds, folded>>

(* A deleted thread starts nothing and asks for no second drain. *)
StartGone ==
  /\ Thread(item) \in gone
  /\ settling' = Append(settling, item)
  /\ UNCHANGED <<lines, redrain, turns>>

(* mutant of StartFollowup: no second drain after words nobody answers *)
StartFollowupOnce ==
  /\ Thread(item) \notin gone
  /\ lines' = [lines EXCEPT ![item] = Bump(@)]
  /\ \/ /\ Begin([thread |-> Thread(item), id |-> item, person |-> TRUE])
        /\ UNCHANGED settling
     \/ settling' = Append(settling, item) /\ UNCHANGED turns
  /\ UNCHANGED redrain

(* startGroupTurn, or the error line of one that cannot start *)
StartFollowup ==
  /\ Thread(item) \notin gone
  /\ lines' = [lines EXCEPT ![item] = Bump(@)]
  /\ redrain' = TRUE
  /\ \/ /\ Begin([thread |-> Thread(item), id |-> item, person |-> TRUE])
        /\ UNCHANGED settling
     \/ settling' = Append(settling, item) /\ UNCHANGED turns

DrainStart ==
  /\ frame = "start"
  /\ StartGone \/ StartFollowup
  /\ frame' = "visit"
  /\ UNCHANGED <<journal, direct, gone, active, up, item, visit, waiting, steers,
                 bounds, history>>

(* then the microtasks: a second drain, and the settled promises *)
DrainEnds ==
  /\ frame = "visit" /\ visit = <<>>
  /\ IF redrain
     THEN visit' = line /\ redrain' = FALSE /\ UNCHANGED frame
     ELSE frame' = (IF settling = <<>> THEN "idle" ELSE "settle") /\ UNCHANGED <<visit, redrain>>
  /\ UNCHANGED <<disk, up, item, settling, waiting, turns, steers, bounds, history>>

DrainSettle ==
  /\ frame = "settle"
  /\ status' = SetStatus({Head(settling)}, "absent")
  /\ settling' = Tail(settling)
  /\ frame' = IF Len(settling) = 1 THEN "idle" ELSE "settle"
  /\ UNCHANGED <<word, nextId, lines, direct, gone, active, up, item, visit, redrain,
                 waiting, turns, steers, bounds, history>>

-----------------------------------------------------------------------------
(* The room's operations. Stop cancels an operation: it ends at the next   *)
(* place where it may end, which is what OperationFinished allows.         *)

(* a handoff, or a continuation after an answered card *)
OtherOperation(t) ==
  /\ Serving
  /\ others < MaxOther /\ t \notin gone
  /\ others' = others + 1
  /\ Len(ops) < MaxOps
  /\ Begin([thread |-> t, id |-> 0, person |-> FALSE])
  /\ UNCHANGED <<disk, up, work, waiting, steers, crashes, history>>

(* runGroupMemberTurn claims the room. A person's operation that finds it  *)
(* held by somebody who is still stopping is not dispatched at all.        *)
MemberSpeaks(b) ==
  /\ Serving
  /\ ops # <<>>
  /\ stage \in {"starting", "between"}
  /\ Head(ops).thread \notin gone
  /\ Head(ops).person /\ stage = "starting" => busy = Nobody
  /\ \A t \in Threads : speaker[t] # b
  /\ busy' = b
  /\ speaker' = [speaker EXCEPT ![Head(ops).thread] = b]
  /\ stage' = "speaking"
  /\ UNCHANGED <<disk, up, work, waiting, ops, steers, bounds, history>>

(* A steer in flight when its turn ends: words the turn took in are        *)
(* indeterminate, words it did not take can no longer be accepted.         *)
EndSteers(t) ==
  phase' = [s \in Steerers |->
             IF held[s] # <<>> /\ Thread(held[s][1]) = t
             THEN CASE phase[s] = "asked" -> "late"
                    [] phase[s] = "taken" -> "indeterminate"
                    [] OTHER -> phase[s]
             ELSE phase[s]]

Unspeak(t) ==
  IF busy = speaker[t]
  THEN busy' = Nobody /\ speaker' = [speaker EXCEPT ![t] = Nobody]
  ELSE UNCHANGED <<busy, speaker>>

(* turn.completed, a rejected dispatch or a cancelled one *)
MemberTurnEnds ==
  /\ Serving
  /\ stage = "speaking"
  /\ Unspeak(Head(ops).thread)
  /\ EndSteers(Head(ops).thread)
  /\ stage' = "between"
  /\ UNCHANGED <<disk, up, work, waiting, ops, asked, held, bounds, history>>

(* mutant of Finish: the queue is not drained *)
FinishQuietly ==
  /\ ops' = Tail(ops)
  /\ stage' = IF Len(ops) = 1 THEN "none" ELSE "starting"
  /\ settling' = IF Head(ops).id = 0 THEN <<>> ELSE <<Head(ops).id>>
  /\ frame' = IF Head(ops).id = 0 THEN "idle" ELSE "settle"
  /\ visit' = <<>> /\ redrain' = FALSE
  /\ UNCHANGED <<line, item>>

(* finishGroupTurnOperation drains; then the promise the drain tracks      *)
(* settles and retires the row                                             *)
Finish ==
  /\ ops' = Tail(ops)
  /\ stage' = IF Len(ops) = 1 THEN "none" ELSE "starting"
  /\ settling' = IF Head(ops).id = 0 THEN <<>> ELSE <<Head(ops).id>>
  /\ UNCHANGED line
  /\ DrainAll

OperationFinished ==
  /\ Serving
  /\ ops # <<>> /\ stage \in {"starting", "between"}
  /\ Finish
  /\ UNCHANGED <<disk, up, queue, busy, speaker, steers, bounds, history>>

(* The member's turn times out or stalls: the operation ends, the room     *)
(* stays with the member until its process has been stopped.               *)
MemberTurnAbandoned ==
  /\ Serving
  /\ Hangs /\ stage = "speaking"
  /\ Finish
  /\ UNCHANGED <<disk, up, queue, busy, speaker, steers, bounds, history>>

(* releaseOwnership, six seconds later; turn.completed was retired *)
OwnershipReleased(t) ==
  /\ Serving
  /\ speaker[t] # Nobody /\ busy = speaker[t]
  /\ stage = "speaking" => Head(ops).thread # t
  /\ Unspeak(t)
  /\ EndSteers(t)
  /\ UNCHANGED <<disk, up, work, waiting, ops, stage, asked, held, bounds, history>>

-----------------------------------------------------------------------------
(* POST /api/groups/:id/queue/:queueId/steer: the head, into the speaker *)

HoldForSteer(s, t) ==
  /\ Serving
  /\ phase[s] = "idle"
  /\ t \notin gone
  /\ queue[t] # <<>>
  /\ SpeakerOf(t) # Nobody
  /\ phase' = [phase EXCEPT ![s] = "asked"]
  /\ asked' = [asked EXCEPT ![s] = SpeakerOf(t)]
  /\ held' = [held EXCEPT ![s] = queue[t]]
  /\ queue' = [queue EXCEPT ![t] = <<>>]
  /\ line' = Without(line, t)
  /\ UNCHANGED <<disk, up, work, turns, bounds, history>>

(* nobody speaks, or an engine that cannot steer: the queue is put back *)
SteerDeclined(t) ==
  /\ Serving
  /\ Steerers # {}
  /\ t \notin gone
  /\ queue[t] # <<>>
  /\ line' = Append(Without(line, t), t)
  /\ UNCHANGED <<disk, up, work, queue, turns, steers, bounds, history>>

EngineTakes(s) ==
  /\ Serving
  /\ phase[s] = "asked"
  /\ speaker[Thread(held[s][1])] # Nobody
  /\ phase' = [phase EXCEPT ![s] = "taken"]
  /\ folded' = folded \cup {held[s][1]}
  /\ UNCHANGED <<disk, up, work, waiting, turns, asked, held, bounds, claimed>>

(* SteerOutcome: "refused" only for words the engine provably has not *)
EngineAnswers(s) ==
  /\ Serving
  /\ \E outcome \in {"steered", "refused", "indeterminate"} :
       /\ outcome = "steered" => phase[s] = "taken"
       /\ outcome = "refused" => phase[s] \in {"asked", "late"}
       /\ outcome = "indeterminate" => phase[s] \in {"asked", "late", "taken"}
       /\ phase' = [phase EXCEPT ![s] = outcome]
  /\ UNCHANGED <<disk, up, work, waiting, turns, asked, held, bounds, history>>

Requeue(t, words) ==
  IF words = <<>>
  THEN UNCHANGED waiting
  ELSE queue' = [queue EXCEPT ![t] = words \o @] /\ line' = InLine(t)

Release(s) == /\ phase' = [phase EXCEPT ![s] = "idle"]
              /\ asked' = [asked EXCEPT ![s] = Nobody]
              /\ held' = [held EXCEPT ![s] = <<>>]

(* record the head's words; the rest goes back for the room's own drain *)
SteerDelivered(s, t) ==
  /\ RoomThere
  /\ phase[s] = "indeterminate" \/ (phase[s] = "steered" /\ SpeakerOf(t) = asked[s])
  /\ Requeue(t, Tail(held[s]))
  /\ frame' = "fold"
  /\ item' = held[s][1]
  /\ UNCHANGED <<status, visit, redrain, settling>>

(* the room vanished while the answer was lost *)
SteerLost(s, t) ==
  /\ ~RoomThere /\ phase[s] = "indeterminate"
  /\ status' = SetStatus({held[s][1]}, "absent")
  /\ Requeue(t, Tail(held[s]))
  /\ UNCHANGED work

SteerRefused(s, t) ==
  /\ \/ phase[s] = "refused"
     \/ phase[s] = "steered" /\ (~RoomThere \/ SpeakerOf(t) # asked[s])
  /\ Requeue(t, held[s])
  /\ IF RoomThere /\ ~Working THEN DrainAll /\ UNCHANGED settling ELSE UNCHANGED work
  /\ UNCHANGED status

SteerContinues(s) ==
  /\ Serving
  /\ phase[s] \in {"steered", "refused", "indeterminate"}
  /\ LET t == Thread(held[s][1]) IN SteerDelivered(s, t) \/ SteerLost(s, t) \/ SteerRefused(s, t)
  /\ Release(s)
  /\ UNCHANGED <<word, nextId, lines, direct, gone, active, up, turns, bounds, history>>

FoldAppend ==
  /\ frame = "fold"
  /\ lines' = [lines EXCEPT ![item] = Bump(@)]
  /\ frame' = "foldSettle"
  /\ UNCHANGED <<journal, direct, gone, active, up, item, visit, redrain, settling,
                 waiting, turns, steers, bounds, history>>

(* mutant of FoldSettle: the head's row stays pending *)
FoldForgotten ==
  /\ frame = "foldSettle"
  /\ frame' = "idle"
  /\ UNCHANGED <<disk, up, item, visit, redrain, settling, waiting, turns, steers,
                 bounds, history>>

(* settleHeldChannelQueueHead *)
FoldSettle ==
  /\ frame = "foldSettle"
  /\ status' = SetStatus({item}, "absent")
  /\ frame' = "idle"
  /\ UNCHANGED <<word, nextId, lines, direct, gone, active, up, item, visit, redrain,
                 settling, waiting, turns, steers, bounds, history>>

-----------------------------------------------------------------------------
(* The room's threads. *)

SwitchTask(t) ==
  /\ Serving
  /\ t \notin gone /\ t # active
  /\ ~Working \/ \E op \in ToSet(ops) : op.thread = t
  /\ active' = t
  /\ UNCHANGED <<journal, lines, direct, gone, up, work, waiting, turns, steers,
                 bounds, history>>

DeleteTask(t) ==
  /\ Serving
  /\ t \in Deletable \ gone
  /\ ~Working
  /\ \E u \in Threads \ (gone \cup {t}) :
       active' = IF active = t THEN u ELSE active
  /\ gone' = gone \cup {t}
  /\ status' = SetStatus({i \in Ids : i < nextId /\ Thread(i) = t}, "absent")
  /\ UNCHANGED <<word, nextId, lines, direct, up, work, waiting, turns, steers,
                 bounds, history>>

(* the rooms are saved without it, then the rows of its threads go *)
DeleteRoom ==
  /\ Serving
  /\ RoomThere /\ Deletable = Threads
  /\ ~Working
  /\ gone' = Threads
  /\ frame' = "purge"
  /\ UNCHANGED <<journal, lines, direct, active, up, item, visit, redrain, settling,
                 waiting, turns, steers, bounds, history>>

Purge ==
  /\ frame = "purge"
  /\ status' = [i \in Ids |-> "absent"]
  /\ frame' = "idle"
  /\ UNCHANGED <<word, nextId, lines, direct, gone, active, up, item, visit, redrain,
                 settling, waiting, turns, steers, bounds, history>>

-----------------------------------------------------------------------------
(* A crash, and the boot that follows it. The notice that recovery writes  *)
(* beside the line is SteerQueue's subject; the loop is the same.          *)

Crash ==
  /\ up # "down"
  /\ crashes < MaxCrashes
  /\ crashes' = crashes + 1
  /\ up' = "down"
  /\ frame' = "idle"
  /\ visit' = <<>>
  /\ redrain' = FALSE
  /\ settling' = <<>>
  /\ queue' = [t \in Threads |-> <<>>]
  /\ line' = <<>>
  /\ ops' = <<>>
  /\ stage' = "none"
  /\ busy' = Nobody
  /\ speaker' = [t \in Threads |-> Nobody]
  /\ phase' = [s \in Steerers |-> "idle"]
  /\ asked' = [s \in Steerers |-> Nobody]
  /\ held' = [s \in Steerers |-> <<>>]
  /\ UNCHANGED <<disk, item, others, history>>

Boot ==
  /\ up = "down"
  /\ up' = "booting"
  /\ frame' = "mark"
  /\ UNCHANGED <<disk, item, visit, redrain, settling, waiting, turns, steers, bounds,
                 history>>

Unfinished == {i \in Ids : status[i] \in {"dispatching", "interrupted"}}

RecoverMark ==
  /\ frame = "mark"
  /\ \E i \in Unfinished :
       /\ \A j \in Unfinished : i <= j
       /\ IF Thread(i) \in gone
          THEN status' = [status EXCEPT ![i] = "cancelled"] /\ UNCHANGED <<frame, item>>
          ELSE /\ status' = [status EXCEPT ![i] = "interrupted"]
               /\ frame' = "recoverLine"
               /\ item' = i
  /\ UNCHANGED <<word, nextId, lines, direct, gone, active, up, visit, redrain, settling,
                 waiting, turns, steers, bounds, history>>

(* mutant of RecoverLine: the line is left to the client *)
RecoverNoLine ==
  /\ frame = "recoverLine"
  /\ frame' = "retire"
  /\ UNCHANGED <<disk, up, item, visit, redrain, settling, waiting, turns, steers,
                 bounds, history>>

RecoverLine ==
  /\ frame = "recoverLine"
  /\ lines' = IF lines[item] = 0 THEN [lines EXCEPT ![item] = Bump(@)] ELSE lines
  /\ frame' = "retire"
  /\ UNCHANGED <<journal, direct, gone, active, up, item, visit, redrain, settling,
                 waiting, turns, steers, bounds, history>>

RecoverRetire ==
  /\ frame = "retire"
  /\ status' = [status EXCEPT ![item] = "absent"]
  /\ frame' = "mark"
  /\ UNCHANGED <<word, nextId, lines, direct, gone, active, up, item, visit, redrain,
                 settling, waiting, turns, steers, bounds, history>>

RecoverEnds ==
  /\ frame = "mark"
  /\ Unfinished = {}
  /\ frame' = "restore"
  /\ UNCHANGED <<disk, up, item, visit, redrain, settling, waiting, turns, steers,
                 bounds, history>>

Unrestored == {i \in Ids : status[i] = "pending" /\ i \notin ToSet(queue[Thread(i)])}

(* restoreChannelMessages, one pending row after the other *)
RestoreRow ==
  /\ frame = "restore"
  /\ \E i \in Unrestored :
       /\ \A j \in Unrestored : i <= j
       /\ queue' = [queue EXCEPT ![Thread(i)] = Append(@, i)]
       /\ line' = InLine(Thread(i))
  /\ UNCHANGED <<disk, up, work, turns, steers, bounds, history>>

(* mutant of Listen: what was restored waits for the next operation *)
ListenQuietly ==
  /\ frame = "restore"
  /\ Unrestored = {}
  /\ up' = "serving"
  /\ frame' = "idle"
  /\ UNCHANGED <<disk, item, visit, redrain, settling, waiting, turns, steers, bounds,
                 history>>

Listen ==
  /\ frame = "restore"
  /\ Unrestored = {}
  /\ up' = "serving"
  /\ UNCHANGED waiting
  /\ DrainAll
  /\ UNCHANGED <<disk, settling, turns, steers, bounds, history>>

-----------------------------------------------------------------------------
Requests == \/ \E w \in Words : Post(w)
            \/ \E i \in Ids : Cancel(i)
            \/ \E t \in Threads : SteerDeclined(t) \/ SwitchTask(t) \/ DeleteTask(t)
            \/ \E s \in Steerers : SteerContinues(s) \/ \E t \in Threads : HoldForSteer(s, t)
            \/ DeleteRoom

Handler == \/ DrainVisit \/ DrainStart \/ DrainEnds \/ DrainSettle
           \/ FoldAppend \/ FoldSettle \/ Purge
           \/ Boot \/ RecoverMark \/ RecoverLine \/ RecoverRetire \/ RecoverEnds
           \/ RestoreRow \/ Listen

Room == \/ \E t \in Threads : OtherOperation(t) \/ OwnershipReleased(t)
        \/ \E b \in Bots : MemberSpeaks(b)
        \/ MemberTurnEnds \/ OperationFinished \/ MemberTurnAbandoned
        \/ \E s \in Steerers : EngineTakes(s) \/ EngineAnswers(s)

Next == Requests \/ Handler \/ Room \/ Crash

Spec == Init /\ [][Next]_vars

(* A handler that has begun runs on and the supervisor restarts the        *)
(* process (weak). An operation that can end does so in the end, since its *)
(* members are finitely many and each turn ends (strong: other handlers    *)
(* may run first).                                                         *)
Fairness ==
  /\ WF_vars(Handler)
  /\ SF_vars(MemberTurnEnds)
  /\ SF_vars(OperationFinished)

FairSpec == Spec /\ Fairness

-----------------------------------------------------------------------------
(* Properties *)

Issued == {i \in Ids : i < nextId /\ Thread(i) \notin gone}

InHold(i) == \E s \in Steerers : i \in ToSet(held[s])

(* A follow-up is claimed once, whatever the order of finished operations, *)
(* microtask drains and restarts (drainChannelMessages, "removing first    *)
(* makes repeated settle notifications harmless").                         *)
ClaimedOnce == \A i \in Ids : claimed[i] <= 1

(* At most one person's message is at work in the room at a time: however  *)
(* the drains overlap, a follow-up starts only in an idle room.            *)
OneAtATime ==
  /\ \A i, j \in DOMAIN ops : ops[i].person /\ ops[j].person => i = j
  /\ \A i \in DOMAIN ops : ops[i].id # 0 => status[ops[i].id] \in {"dispatching", "absent"}

(* While no handler is in progress, the rows the journal calls pending are *)
(* exactly the words in the map or held by a steer, each once and in the   *)
(* order of acceptance.                                                    *)
PendingIsReachable ==
  Serving =>
    /\ \A i \in Issued : status[i] = "pending" <=> i \in ToSet(queue[Thread(i)]) \/ InHold(i)
    /\ \A t \in Threads : \A a, b \in DOMAIN queue[t] : a < b => queue[t][a] < queue[t][b]
    /\ \A s \in Steerers : \A i \in ToSet(held[s]) : i \notin ToSet(queue[Thread(i)])
    /\ IsInjective(line) /\ ToSet(line) = {t \in Threads : queue[t] # <<>>}

(* Nothing waits in an idle room: between two handlers, words wait only    *)
(* while something works in the room (finishGroupTurnOperation "as soon as *)
(* the channel is truly idle").                                            *)
IdleRoomHasNoQueue ==
  Serving /\ ~Working => \A t \in Threads \ gone : queue[t] = <<>>

(* An accepted follow-up is not overtaken by words that were sent later    *)
(* and found the room idle (POST route against the drain).                 *)
NobodyOvertakes == [][direct' # direct => queue[active] = <<>>]_vars

Fate(i) == IF i >= nextId THEN "none"
           ELSE IF Thread(i) \in gone THEN "dropped"
           ELSE CASE status[i] = "pending" -> "waiting"
                  [] status[i] \in {"dispatching", "interrupted"} -> "claimed"
                  [] status[i] = "cancelled" -> "cancelled"
                  [] status[i] = "absent" -> "recorded"

Ledger == INSTANCE FollowupLedger WITH fate <- [i \in Ids |-> Fate(i)],
                                       said <- [i \in Ids |-> lines[i] > 0]

(* The journal and the transcript of the room keep the promise of the      *)
(* ledger, whichever step of a drain, a steer or a recovery the process    *)
(* dies in.                                                                *)
LedgerKept == Ledger!Spec

(* Accepted words do not wait for ever. *)
WordsGetTheirTurn == []<>(\A i \in Ids : status[i] # "pending")
=============================================================================
