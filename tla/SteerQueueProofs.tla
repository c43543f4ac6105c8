-------------------------- MODULE SteerQueueProofs --------------------------
(***************************************************************************)
(* What a bot has queued and where it works, for every set of threads,     *)
(* words and steerers and every bound: the types; that no queued words are *)
(* claimed by a follow-up turn twice (ClaimInv, with the two steps that    *)
(* move nothing as a common lemma, and the frames of recovery; NextIInv    *)
(* joins them); and that its turns keep to their place and number          *)
(* (TurnInv).                                                              *)
(***************************************************************************)
EXTENDS SteerQueue, QueueLemmas, FiniteSetTheorems, TLAPS

(* Removing an element leaves the others, and leaves it out if it was there *)
(* once.                                                                   *)
LEMMA WithoutElements ==
  ASSUME NEW S, NEW s \in Seq(S), NEW x
  PROVE  /\ Without(s, x) \in Seq(S)
         /\ ToSet(Without(s, x)) \subseteq ToSet(s)
         /\ IsInjective(s) => /\ ToSet(Without(s, x)) = ToSet(s) \ {x}
                              /\ IsInjective(Without(s, x))
         /\ Rising(s) => Rising(Without(s, x))
<1>1. Without(s, x) = Removed(s, x) BY DEF Without, Removed
<1>2. QED BY <1>1, RemovedElements

-----------------------------------------------------------------------------
(* Type correctness *)

(* A counter that is bumped stays within never, once and more often.       *)
LEMMA BumpType == \A n \in 0..2 : Bump(n) \in 0..2
BY DEF Bump

(* Moving a thread in the insertion order keeps it a sequence of threads.  *)
LEMMA InLineType ==
  ASSUME line \in Seq(Threads), NEW t \in Threads
  PROVE  InLine(t) \in Seq(Threads)
BY DEF InLine

(* Settling rows keeps the journal a function into the statuses.           *)
LEMMA SetStatusType ==
  ASSUME TypeOK, NEW S, NEW st \in Statuses
  PROVE  SetStatus(S, st) \in [Ids -> Statuses]
BY DEF TypeOK, SetStatus

(* The elements of a queue of ids are ids.                                 *)
LEMMA ToSetType ==
  ASSUME NEW S, NEW s \in Seq(S)
  PROVE  ToSet(s) \subseteq S /\ \A i \in ToSet(s) : \E k \in 1..Len(s) : s[k] = i
BY DEF ToSet

(* The thread of an id is one of the threads.                              *)
LEMMA ThreadType ==
  ASSUME TypeOK, NEW i \in Ids
  PROVE  Thread(i) \in Threads
BY SteerQueueAssumption DEF TypeOK, Thread

(* Accepting words keeps the types.                                        *)
LEMMA EnqueueType ==
  ASSUME TypeOK, NEW w \in Words, Enqueue(w), phase' \in [Callers -> Phases]
  PROVE  TypeOK'
<1>1. Home[w] \in Threads /\ nextId \in Ids /\ nextId + 1 \in 1..(MaxId + 1)
  BY SteerQueueAssumption DEF TypeOK, Enqueue, Ids
<1>2. queue' \in [Threads -> Seq(Ids)] BY <1>1, AppendElements DEF TypeOK, Enqueue
<1>3. line' \in Seq(Threads) BY <1>1, InLineType DEF TypeOK, Enqueue
<1>4. status' \in [Ids -> Statuses] BY <1>1 DEF TypeOK, Enqueue, Statuses
<1>5. word' \in [Ids -> Words] /\ nextId' \in 1..(MaxId + 1) BY <1>1 DEF TypeOK, Enqueue
<1>6. QED BY <1>2, <1>3, <1>4, <1>5 DEF TypeOK, Enqueue, work, turns, coordination, history

(* A turn that starts at once keeps the types.                             *)
LEMMA StartDirectType ==
  ASSUME TypeOK, NEW w \in Words, StartDirect(w), phase' \in [Callers -> Phases]
  PROVE  TypeOK'
<1>1. turn' \in [Threads -> Turns] /\ turnIds' \in [Threads -> SUBSET Ids]
  BY DEF TypeOK, StartDirect, Turns
<1>2. direct' \in [Words -> 0..2] BY BumpType DEF TypeOK, StartDirect
<1>3. QED BY <1>1, <1>2 DEF TypeOK, StartDirect, work, waiting, coordination, history

(* A request that changes nothing keeps the types.                         *)
LEMMA DeclineType ==
  ASSUME TypeOK, Decline, phase' \in [Callers -> Phases]
  PROVE  TypeOK'
BY DEF TypeOK, Decline, disk, work, waiting, turns, coordination, history

(* Both ways of a direct message keep the types.                           *)
LEMMA StartOrQueueType ==
  ASSUME TypeOK, NEW w \in Words, StartOrQueue(w), phase' \in [Callers -> Phases]
  PROVE  TypeOK'
BY EnqueueType, StartDirectType, DeclineType DEF StartOrQueue

(* Every request of a person, a bot or a deletion keeps the types.         *)
LEMMA RequestsType ==
  ASSUME TypeOK, HeldSound, Requests
  PROVE  TypeOK'
<1> USE DEF vars, disk, work, waiting, turns, calls, coordination, history
<1>1. ASSUME NEW w \in Words, Send(w) PROVE TypeOK'
  <2>1. phase' \in [Callers -> Phases]
    BY <1>1 DEF Send, TypeOK, Phases
  <2>2. Enqueue(w) \/ Decline \/ StartOrQueue(w) BY <1>1 DEF Send
  <2>3. QED BY <2>1, <2>2, EnqueueType, DeclineType, StartOrQueueType
<1>2. ASSUME NEW w \in Words, SendContinues(w) PROVE TypeOK'
  <2>1. phase' \in [Callers -> Phases]
    BY <1>2 DEF SendContinues, TypeOK, Phases
  <2>2. CASE direct' = [direct EXCEPT ![w] = Bump(@)] /\ UNCHANGED <<status, word,
               nextId, lines, notices, gone, up, work, waiting, turns, held, room, crashes, coordination, history>>
    <3>1. direct' \in [Words -> 0..2] BY <2>2, BumpType DEF TypeOK
    <3>2. QED BY <2>1, <2>2, <3>1 DEF TypeOK
  <2>3. CASE Decline \/ Enqueue(w) \/ StartOrQueue(w)
    BY <2>1, <2>3, EnqueueType, DeclineType, StartOrQueueType
  <2>4. QED BY <1>2, <2>2, <2>3 DEF SendContinues
<1>3. ASSUME NEW w \in Words, OpenThread(w) PROVE TypeOK'
  <2>1. phase' \in [Callers -> Phases] BY <1>3 DEF OpenThread, TypeOK
  <2>2. Enqueue(w) \/ StartDirect(w) \/ Decline BY <1>3 DEF OpenThread
  <2>3. QED BY <2>1, <2>2, EnqueueType, DeclineType, StartDirectType
<1>4. ASSUME NEW i \in Ids, Cancel(i) PROVE TypeOK'
  <2>1. queue' \in [Threads -> Seq(Ids)] BY <1>4, WithoutElements DEF TypeOK, Cancel
  <2>2. line' \in Seq(Threads) BY <1>4, WithoutElements DEF TypeOK, Cancel
  <2>3. QED BY <1>4, <2>1, <2>2 DEF TypeOK, Cancel, Statuses
<1>5. ASSUME NEW t \in Threads, DeleteTask(t) PROVE TypeOK'
  <2>1. /\ frame' \in Frames /\ visit' \in Seq(Threads)
        /\ awaiting' \subseteq Threads /\ deleting' \subseteq Threads
        /\ UNCHANGED <<batch, done>>
    BY <1>5, SteerQueueAssumption DEF TypeOK, DeleteTask, DrainAll, Frames
  <2>2. QED BY <1>5, <2>1 DEF TypeOK, DeleteTask
<1>6. ASSUME NEW t \in Threads, SteerDeclined(t) PROVE TypeOK'
  <2>1. line' \in Seq(Threads)
    BY <1>6, WithoutElements, AppendElements DEF TypeOK, SteerDeclined
  <2>2. QED BY <1>6, <2>1 DEF TypeOK, SteerDeclined, Frames
<1>7. ASSUME NEW s \in Steerers, NEW t \in Threads, HoldForSteer(s, t) PROVE TypeOK'
  <2>1. line' \in Seq(Threads) BY <1>7, WithoutElements DEF TypeOK, HoldForSteer
  <2>2. queue' \in [Threads -> Seq(Ids)] /\ held' \in [Steerers -> Seq(Ids)]
    BY <1>7 DEF TypeOK, HoldForSteer
  <2>3. phase' \in [Callers -> Phases] BY <1>7 DEF TypeOK, HoldForSteer, Phases
  <2>4. QED BY <1>7, <2>1, <2>2, <2>3 DEF TypeOK, HoldForSteer
<1>8. ASSUME NEW s \in Steerers, SteerContinues(s) PROVE TypeOK'
  <2> DEFINE t == ThreadOfCall(s)
  <2>1. held[s] # <<>> /\ held[s] \in Seq(Ids)
    BY <1>8 DEF TypeOK, HeldSound, SteerContinues, Answered
  <2>2. held[s][1] \in Ids BY <2>1
  <2>3. t \in Threads
    BY <2>2, ThreadType, SteerQueueAssumption DEF ThreadOfCall
  <2>4. /\ phase' \in [Callers -> Phases] /\ held' \in [Steerers -> Seq(Ids)]
        /\ UNCHANGED <<word, nextId, lines, notices, direct, gone, up, turns, room, crashes, coordination, history>>
    <3>1. /\ phase' = [phase EXCEPT ![s] = "idle"] /\ held' = [held EXCEPT ![s] = <<>>]
          /\ UNCHANGED <<word, nextId, lines, notices, direct, gone, up, turns, room, crashes, coordination, history>>
      BY <1>8 DEF SteerContinues
    <3>2. phase' \in [Callers -> Phases] BY <3>1 DEF TypeOK, Phases
    <3>3. held' \in [Steerers -> Seq(Ids)] BY <3>1 DEF TypeOK
    <3>4. QED BY <3>1, <3>2, <3>3
  <2> HIDE DEF t
  <2>5. CASE /\ frame' = "fold" /\ batch' = held[s] /\ done' = 0
             /\ UNCHANGED <<status, visit, waiting>>
    BY <2>1, <2>4, <2>5 DEF TypeOK, Frames
  <2>6. CASE status' = SetStatus(ToSet(held[s]), "absent") /\ UNCHANGED <<work, waiting>>
    <3>1. status' \in [Ids -> Statuses] BY <2>6, SetStatusType DEF Statuses
    <3>2. QED BY <2>4, <2>6, <3>1 DEF TypeOK
  <2>7. CASE /\ queue' = [queue EXCEPT ![t] = held[s] \o @] /\ line' = InLine(t)
             /\ IF t \notin gone /\ ~Live(t)
                THEN frame' = "visit" /\ visit' = line' /\ UNCHANGED <<batch, done>>
                ELSE UNCHANGED work
             /\ UNCHANGED status
    <3>1. queue' \in [Threads -> Seq(Ids)] BY <2>1, <2>3, <2>7, ConcatElements DEF TypeOK
    <3>2. line' \in Seq(Threads) BY <2>3, <2>7, InLineType DEF TypeOK
    <3>3. QED BY <2>4, <2>7, <3>1, <3>2 DEF TypeOK, Frames
  <2>8. QED BY <1>8, <2>5, <2>6, <2>7 DEF SteerContinues, t
<1>9. CASE DeleteBot BY <1>9 DEF TypeOK, DeleteBot, Frames
<1>10. CASE SetParking BY <1>10, SteerQueueAssumption DEF TypeOK, SetParking
<1>11. QED BY <1>1, <1>2, <1>3, <1>4, <1>5, <1>6, <1>7, <1>8, <1>9, <1>10 DEF Requests

(* Every commit of a running handler, recovery included, keeps the types.  *)
LEMMA HandlerType ==
  ASSUME TypeOK, Handler
  PROVE  TypeOK'
<1> USE DEF vars, disk, work, waiting, turns, calls, coordination, history
<1>1. CASE DrainVisit
  <2> DEFINE t == Head(visit)
  <2>1. t \in Threads /\ Tail(visit) \in Seq(Threads) BY <1>1 DEF TypeOK, DrainVisit
  <2>2. UNCHANGED <<up, turns, calls, room, crashes, coordination>> BY <1>1 DEF DrainVisit
  <2> HIDE DEF t
  <2>3. CASE Skip(t) BY <2>1, <2>2, <2>3 DEF TypeOK, Skip, AfterWalk, Frames
  <2>4. CASE DropGone(t)
    <3>1. status' \in [Ids -> Statuses] BY <2>4, SetStatusType DEF DropGone, Statuses
    <3>2. queue' \in [Threads -> Seq(Ids)] /\ line' \in Seq(Threads)
      BY <2>4, WithoutElements DEF TypeOK, DropGone
    <3>3. QED BY <2>1, <2>2, <2>4, <3>1, <3>2 DEF TypeOK, DropGone, AfterWalk, Frames
  <2>5. CASE Claim(t)
    <3>1. status' \in [Ids -> Statuses] BY <2>5, SetStatusType DEF Claim, Statuses
    <3>2. queue' \in [Threads -> Seq(Ids)] /\ line' \in Seq(Threads)
      <4>1. queue' = [queue EXCEPT ![t] = <<>>] /\ line' = Without(line, t)
        BY <2>5 DEF Claim
      <4>2. Without(line, t) \in Seq(Threads) BY WithoutElements DEF TypeOK
      <4>3. queue' \in [Threads -> Seq(Ids)]
        <5>1. queue \in [Threads -> Seq(Ids)] /\ <<>> \in Seq(Ids) BY DEF TypeOK
        <5>2. QED BY <5>1, <4>1
      <4>4. QED BY <4>1, <4>2, <4>3
    <3>3. claimed' \in [Ids -> 0..2] BY <2>5, BumpType DEF TypeOK, Claim
    <3>4. batch' \in Seq(Ids) BY <2>1, <2>5 DEF TypeOK, Claim
    <3>5. QED BY <2>1, <2>2, <2>5, <3>1, <3>2, <3>3, <3>4 DEF TypeOK, Claim, Frames
  <2>6. QED BY <1>1, <2>3, <2>4, <2>5 DEF DrainVisit, t
<1>2. CASE DrainEnds BY <1>2 DEF TypeOK, DrainEnds, AfterWalk, Frames
<1>3. CASE DrainAppend
  <2>1. batch[done + 1] \in Ids BY <1>3 DEF TypeOK, DrainAppend
  <2>2. lines' \in [Ids -> 0..2] BY <1>3, <2>1, BumpType DEF TypeOK, DrainAppend
  <2>3. QED BY <1>3, <2>2 DEF TypeOK, DrainAppend, Frames
<1>4. CASE DrainStart
  <2>1. /\ frame' \in Frames /\ batch' \in Seq(Ids) /\ done' \in Nat
        /\ UNCHANGED <<word, nextId, lines, notices, direct, gone, up, visit, waiting,
                       calls, room, crashes, coordination, history>>
    BY <1>4 DEF TypeOK, DrainStart, AfterWalk, Frames
  <2>2. status' \in [Ids -> Statuses]
    BY <1>4, SetStatusType DEF TypeOK, DrainStart, Statuses
  <2>3. ToSet(batch) \subseteq Ids BY ToSetType DEF TypeOK
  <2>4. turn' \in [Threads -> Turns] /\ turnIds' \in [Threads -> SUBSET Ids]
    BY ZenonT(20), <1>4, <2>3 DEF TypeOK, DrainStart, Turns
  <2>5. QED BY <2>1, <2>2, <2>4 DEF TypeOK
<1>5. CASE FoldAppend
  <2>1. batch[done + 1] \in Ids BY <1>5 DEF TypeOK, FoldAppend
  <2>2. lines' \in [Ids -> 0..2] BY <1>5, <2>1, BumpType DEF TypeOK, FoldAppend
  <2>3. QED BY <1>5, <2>2 DEF TypeOK, FoldAppend, Frames
<1>6. CASE FoldSettle
  <2>1. status' \in [Ids -> Statuses] BY <1>6, SetStatusType DEF FoldSettle, Statuses
  <2>2. QED BY <1>6, <2>1 DEF TypeOK, FoldSettle, Frames
<1>7. CASE Purge BY <1>7 DEF TypeOK, Purge, Frames, Statuses
<1>8. CASE Boot BY <1>8 DEF TypeOK, Boot, Frames
<1>9. CASE RecoverMark
  <2>1. PICK i \in Unfinished : RecoverMark!2!(i) BY <1>9 DEF RecoverMark
  <2>2. i \in Ids /\ <<i>> \in Seq(Ids) BY DEF Unfinished
  <2>3. QED BY <1>9, <2>1, <2>2 DEF TypeOK, RecoverMark, Frames, Statuses
<1>10. CASE RecoverLine
  <2>1. lines' \in [Ids -> 0..2] BY <1>10, BumpType DEF TypeOK, RecoverLine
  <2>2. QED BY <1>10, <2>1 DEF TypeOK, RecoverLine, Frames
<1>11. CASE RecoverNotice
  <2>1. notices' \in [Ids -> 0..2] BY <1>11, BumpType DEF TypeOK, RecoverNotice
  <2>2. QED BY <1>11, <2>1 DEF TypeOK, RecoverNotice, Frames
<1>12. CASE RecoverRetire
  <2>1. status' = [status EXCEPT ![batch[1]] = "absent"] BY <1>12 DEF RecoverRetire
  <2>2. status' \in [Ids -> Statuses] BY <2>1 DEF TypeOK, Statuses
  <2>3. QED BY <1>12, <2>2 DEF TypeOK, RecoverRetire, Frames
<1>13. CASE RecoverEnds BY <1>13 DEF TypeOK, RecoverEnds, Frames
<1>14. CASE RestoreRow
  <2>1. PICK i \in Unrestored : RestoreRow!2!(i) BY <1>14 DEF RestoreRow
  <2>2. i \in Ids /\ Thread(i) \in Threads BY ThreadType DEF Unrestored
  <2>3. queue' \in [Threads -> Seq(Ids)] BY <2>1, <2>2, AppendElements DEF TypeOK
  <2>4. line' \in Seq(Threads) BY <2>1, <2>2, InLineType DEF TypeOK
  <2>5. QED BY <1>14, <2>3, <2>4 DEF TypeOK, RestoreRow
<1>15. CASE Listen BY <1>15 DEF TypeOK, Listen, DrainAll, Frames
<1>16. CASE DeleteEnds
  <2>1. status' \in [Ids -> Statuses] BY <1>16, SetStatusType DEF DeleteEnds, Statuses
  <2>2. turn' \in [Threads -> Turns] /\ turnIds' \in [Threads -> SUBSET Ids]
    BY <1>16 DEF TypeOK, DeleteEnds, Turns
  <2>3. gone' \subseteq Threads BY <1>16 DEF TypeOK, DeleteEnds
  <2>4. QED BY <1>16, <2>1, <2>2, <2>3 DEF TypeOK, DeleteEnds, Frames
<1>17. CASE HandoffStarts
  <2>1. /\ frame' \in Frames /\ visit' \in Seq(Threads) /\ awaiting' \subseteq Threads
        /\ UNCHANGED <<batch, done>>
    BY <1>17 DEF TypeOK, HandoffStarts, DrainAll, Frames
  <2>2. turn' \in [Threads -> Turns] /\ turnIds' \in [Threads -> SUBSET Ids]
    BY <1>17 DEF TypeOK, HandoffStarts, Turns
  <2>3. QED BY <1>17, <2>1, <2>2 DEF TypeOK, HandoffStarts
<1>18. QED BY <1>1, <1>2, <1>3, <1>4, <1>5, <1>6, <1>7, <1>8, <1>9, <1>10, <1>11,
              <1>12, <1>13, <1>14, <1>15, <1>16, <1>17 DEF Handler

(* The phases of the live steers stay phases when a turn ends.             *)
LEMMA EndCallsType ==
  ASSUME TypeOK, NEW t, EndCalls(t)
  PROVE  phase' \in [Callers -> Phases] /\ \A c \in Callers : phase'[c] = "idle" <=> phase[c] = "idle"
BY DEF TypeOK, EndCalls, Phases

(* Retiring the rows of a settled turn keeps the types.                    *)
LEMMA RetireType ==
  ASSUME TypeOK, NEW t, Retire(t)
  PROVE  status' \in [Ids -> Statuses] /\ turnIds' \in [Threads -> SUBSET Ids]
<1>1. status' = SetStatus(turnIds[t], "absent") /\ turnIds' = [turnIds EXCEPT ![t] = {}]
  BY DEF Retire
<1>2. QED BY <1>1, SetStatusType DEF TypeOK, Statuses

(* Every event of the engine or a room keeps the types.                    *)
LEMMA EngineType ==
  ASSUME TypeOK, Engine
  PROVE  TypeOK'
<1> USE DEF vars, disk, work, waiting, turns, calls, coordination, history
<1>1. ASSUME NEW t \in Threads, TurnCompleted(t) PROVE TypeOK'
  <2>1. phase' \in [Callers -> Phases] BY <1>1, EndCallsType DEF TurnCompleted
  <2>2. status' \in [Ids -> Statuses] /\ turnIds' \in [Threads -> SUBSET Ids]
    BY <1>1, RetireType DEF TypeOK, TurnCompleted
  <2>3. turn' \in [Threads -> Turns] BY <1>1 DEF TypeOK, TurnCompleted, Turns
  <2>4. QED BY <1>1, <2>1, <2>2, <2>3 DEF TypeOK, TurnCompleted, DrainAll, Frames
<1>2. ASSUME NEW t \in Threads, DispatchAcknowledged(t) PROVE TypeOK'
  <2>1. status' \in [Ids -> Statuses] /\ turnIds' \in [Threads -> SUBSET Ids]
    BY <1>2, RetireType DEF TypeOK, DispatchAcknowledged
  <2>2. turn' \in [Threads -> Turns] BY <1>2 DEF TypeOK, DispatchAcknowledged, Turns
  <2>3. QED BY <1>2, <2>1, <2>2 DEF TypeOK, DispatchAcknowledged, DrainAll, Frames
<1>3. ASSUME NEW t \in Threads, DispatchFailed(t) PROVE TypeOK'
  <2>1. phase' \in [Callers -> Phases] BY <1>3, EndCallsType DEF DispatchFailed
  <2>2. status' \in [Ids -> Statuses] /\ turnIds' \in [Threads -> SUBSET Ids]
    BY <1>3, RetireType DEF TypeOK, DispatchFailed
  <2>3. turn' \in [Threads -> Turns] BY <1>3 DEF TypeOK, DispatchFailed, Turns
  <2>4. QED BY <1>3, <2>1, <2>2, <2>3 DEF TypeOK, DispatchFailed, DrainAll, Frames
<1>11. ASSUME NEW t \in Threads, TurnStalled(t) PROVE TypeOK'
  <2>1. status' \in [Ids -> Statuses] /\ turnIds' \in [Threads -> SUBSET Ids]
    BY <1>11, RetireType DEF TypeOK, TurnStalled
  <2>2. QED BY <1>11, <2>1 DEF TypeOK, TurnStalled
<1>4. ASSUME NEW c \in Callers, EngineTakes(c) PROVE TypeOK'
  <2>1. phase' \in [Callers -> Phases] BY <1>4 DEF TypeOK, EngineTakes, Phases
  <2>2. folded' \subseteq Ids BY <1>4, ToSetType DEF TypeOK, EngineTakes
  <2>3. QED BY <1>4, <2>1, <2>2 DEF TypeOK, EngineTakes
<1>5. ASSUME NEW c \in Callers, EngineAnswers(c) PROVE TypeOK'
  <2>1. phase' \in [Callers -> Phases] BY <1>5 DEF TypeOK, EngineAnswers, Phases
  <2>2. QED BY <1>5, <2>1 DEF TypeOK, EngineAnswers
<1>6. CASE RoomSpeaks BY <1>6 DEF TypeOK, RoomSpeaks
<1>7. CASE RoomTurnCompleted BY <1>7 DEF TypeOK, RoomTurnCompleted, DrainAll, Frames
<1>8. CASE RoomOperationFinished BY <1>8 DEF TypeOK, RoomOperationFinished
<1>9. CASE OtherTurnCompleted BY <1>9 DEF TypeOK, OtherTurnCompleted, DrainAll, Frames
<1>12. ASSUME NEW t \in Threads, HandoffOpens(t) \/ HandoffSettles(t) \/ HandoffRuns(t)
       PROVE  TypeOK'
  <2>1. handoffs' \in 0..MaxHandoffs
    BY <1>12, SteerQueueAssumption DEF TypeOK, HandoffOpens, HandoffSettles, HandoffRuns
  <2>2. QED BY <1>12, <2>1 DEF TypeOK, HandoffOpens, HandoffSettles, HandoffRuns, DrainAll, Frames
<1>13. QED BY <1>1, <1>2, <1>3, <1>4, <1>5, <1>6, <1>7, <1>8, <1>9, <1>11, <1>12 DEF Engine

(* A crash leaves the disk and an empty process.                           *)
LEMMA CrashType ==
  ASSUME TypeOK, Crash
  PROVE  TypeOK'
<1>1. crashes' \in 0..MaxCrashes BY SteerQueueAssumption DEF TypeOK, Crash
<1>2. QED BY <1>1 DEF TypeOK, Crash, disk, history, Frames, Turns, Phases

(* Every step keeps the types.                                             *)
LEMMA NextType ==
  ASSUME TypeOK, HeldSound, [Next]_vars
  PROVE  TypeOK'
<1>1. CASE Next BY <1>1, RequestsType, HandlerType, EngineType, CrashType DEF Next
<1>2. CASE UNCHANGED vars
  BY <1>2 DEF TypeOK, vars, disk, work, waiting, turns, calls, coordination, history
<1>3. QED BY <1>1, <1>2

-----------------------------------------------------------------------------
(* Words are claimed once *)

ClaimInv == QueueSound /\ HeldSound /\ JournalSound /\ ClaimedOnce

(* A step that only takes words away from the map and the holds, and makes *)
(* no row pending, keeps every claim sound.                                *)
LEMMA ShrinkStep ==
  ASSUME TypeOK, ClaimInv,
         UNCHANGED <<word, nextId, claimed>>,
         \A i \in Ids : status'[i] = "pending" => status[i] = "pending",
         \A t \in Threads : ToSet(queue'[t]) \subseteq ToSet(queue[t]),
         \A s \in Steerers : /\ held'[s] = held[s] \/ held'[s] = <<>>
                             /\ phase'[s] = "idle" <=> held'[s] = <<>>
  PROVE  ClaimInv'
<1>1. \A i : Thread(i)' = Thread(i) BY DEF Thread
<1>2. QueueSound' BY <1>1 DEF ClaimInv, QueueSound
<1>3. HeldSound'
  <2> SUFFICES ASSUME NEW s \in Steerers, NEW i \in ToSet(held'[s])
               PROVE  /\ i < nextId /\ Thread(i) = Home[word[held'[s][1]]] /\ claimed[i] = 0
                      /\ i \notin ToSet(queue'[Thread(i)])
                      /\ \A r \in Steerers \ {s} : i \notin ToSet(held'[r])
    BY <1>1 DEF HeldSound, Thread
  <2>1. ToSet(<<>>) = {} BY DEF ToSet
  <2>2. held'[s] = held[s] BY <2>1
  <2>3. /\ i < nextId /\ Thread(i) = Thread(held[s][1]) /\ claimed[i] = 0
        /\ i \notin ToSet(queue[Thread(i)])
        /\ \A r \in Steerers \ {s} : i \notin ToSet(held[r])
    BY <2>2 DEF ClaimInv, HeldSound
  <2>4. i \in Ids BY <2>2, ToSetType DEF TypeOK
  <2>5. Thread(i) \in Threads BY <2>4, ThreadType
  <2>6. \A r \in Steerers \ {s} : i \notin ToSet(held'[r]) BY <2>1, <2>3
  <2>7. Thread(held[s][1]) = Home[word[held'[s][1]]] BY <2>2 DEF Thread
  <2>8. QED BY <2>3, <2>5, <2>6, <2>7
<1>4. JournalSound' /\ ClaimedOnce' BY DEF ClaimInv, JournalSound, ClaimedOnce
<1>5. QED BY <1>2, <1>3, <1>4 DEF ClaimInv

(* A step that moves no words, and makes no row pending, is a case of it.  *)
LEMMA QuietStep ==
  ASSUME TypeOK, ClaimInv,
         UNCHANGED <<word, nextId, queue, held, claimed>>,
         \A i \in Ids : status'[i] = "pending" => status[i] = "pending",
         \A s \in Steerers : phase'[s] = "idle" <=> phase[s] = "idle"
  PROVE  ClaimInv'
<1>1. \A s \in Steerers : phase'[s] = "idle" <=> held'[s] = <<>> BY DEF ClaimInv, HeldSound
<1>2. QED BY <1>1, ShrinkStep

(* Settling rows makes none pending.                                       *)
LEMMA SettleIsQuiet ==
  ASSUME TypeOK, NEW S, NEW st \in Statuses \ {"pending"}, status' = SetStatus(S, st)
  PROVE  \A i \in Ids : status'[i] = "pending" => status[i] = "pending"
BY DEF SetStatus, Statuses

(* A new id is unclaimed, on its own thread, and nowhere else.             *)
LEMMA EnqueueClaims ==
  ASSUME TypeOK, ClaimInv, NEW w \in Words, Enqueue(w),
         \A s \in Steerers : phase'[s] = "idle" <=> phase[s] = "idle"
  PROVE  ClaimInv'
<1> DEFINE t == Home[w]
<1>1. /\ nextId \in Ids /\ t \in Threads
      /\ status' = [status EXCEPT ![nextId] = "pending"]
      /\ word' = [word EXCEPT ![nextId] = w]
      /\ nextId' = nextId + 1
      /\ queue' = [queue EXCEPT ![t] = Append(@, nextId)]
      /\ held' = held /\ claimed' = claimed
  BY SteerQueueAssumption DEF TypeOK, Enqueue, Ids, history
<1>2. \A i \in Ids : i # nextId => Thread(i)' = Thread(i) BY <1>1 DEF TypeOK, Thread
<1>3. \A i \in Ids : i = nextId => Thread(i)' = t BY <1>1 DEF TypeOK, Thread
<1>4. claimed[nextId] = 0 BY <1>1 DEF ClaimInv, JournalSound, TypeOK
<1>5. queue[t] \in Seq(Ids) /\ ToSet(Append(queue[t], nextId)) = ToSet(queue[t]) \cup {nextId}
  BY <1>1, AppendElements DEF TypeOK
<1>6. /\ ToSet(queue'[t]) = ToSet(queue[t]) \cup {nextId}
      /\ \A u \in Threads \ {t} : queue'[u] = queue[u]
  BY <1>1, <1>5 DEF TypeOK
<1>7. \A u \in Threads : ToSet(queue[u]) \subseteq Ids BY ToSetType DEF TypeOK
<1>8. \A s \in Steerers : ToSet(held[s]) \subseteq Ids BY ToSetType DEF TypeOK
<1> HIDE DEF t
<1>9. QueueSound'
  <2> SUFFICES ASSUME NEW u \in Threads, NEW i \in ToSet(queue'[u])
               PROVE  i < nextId' /\ Thread(i)' = u /\ claimed'[i] = 0
    BY DEF QueueSound
  <2>1. CASE i = nextId /\ u = t BY <2>1, <1>1, <1>3, <1>4 DEF TypeOK
  <2>2. CASE i \in ToSet(queue[u])
    <3>1. i < nextId /\ Thread(i) = u /\ claimed[i] = 0 /\ i \in Ids
      BY <2>2, <1>7 DEF ClaimInv, QueueSound
    <3>2. QED BY <3>1, <1>1, <1>2 DEF TypeOK, Ids
  <2>3. QED BY <2>1, <2>2, <1>6
<1>10. HeldSound'
  <2> SUFFICES ASSUME NEW s \in Steerers
               PROVE  /\ phase'[s] = "idle" <=> held'[s] = <<>>
                      /\ \A i \in ToSet(held'[s]) :
                           /\ i < nextId' /\ Thread(i)' = Thread(held[s][1])' /\ claimed'[i] = 0
                           /\ i \notin ToSet(queue'[Thread(i)'])
                           /\ \A r \in Steerers \ {s} : i \notin ToSet(held'[r])
    BY <1>1 DEF HeldSound
  <2>1. phase'[s] = "idle" <=> held'[s] = <<>> BY <1>1 DEF ClaimInv, HeldSound
  <2>2. ASSUME NEW i \in ToSet(held[s])
        PROVE  /\ i < nextId' /\ Thread(i)' = Thread(held[s][1])' /\ claimed'[i] = 0
               /\ i \notin ToSet(queue'[Thread(i)'])
               /\ \A r \in Steerers \ {s} : i \notin ToSet(held'[r])
    <3>1. /\ i \in Ids /\ i < nextId /\ Thread(i) = Thread(held[s][1]) /\ claimed[i] = 0
          /\ i \notin ToSet(queue[Thread(i)])
          /\ \A r \in Steerers \ {s} : i \notin ToSet(held[r])
      BY <1>8 DEF ClaimInv, HeldSound
    <3>2. held[s][1] \in ToSet(held[s]) BY DEF TypeOK, ToSet
    <3>3. held[s][1] \in Ids /\ held[s][1] < nextId BY <3>2, <1>8 DEF ClaimInv, HeldSound
    <3>4. Thread(i)' = Thread(i) /\ Thread(held[s][1])' = Thread(held[s][1])
      <4>1. held[s][1] # nextId /\ i # nextId BY <3>1, <3>3 DEF Ids, TypeOK
      <4>2. word'[i] = word[i] /\ word'[held[s][1]] = word[held[s][1]]
        BY <4>1, <3>1, <3>3, <1>1 DEF TypeOK
      <4>3. QED BY <4>2, <1>1 DEF Thread
    <3>5. Thread(i) \in Threads BY <3>1, ThreadType
    <3>6. i \notin ToSet(queue'[Thread(i)]) BY <3>1, <3>5, <1>1, <1>6 DEF Ids, TypeOK
    <3>7. QED BY <3>1, <3>4, <3>6, <1>1 DEF Ids, TypeOK
  <2>3. QED BY <2>1, <2>2, <1>1
<1>11. JournalSound' BY <1>1, <1>4 DEF ClaimInv, JournalSound, TypeOK, Ids
<1>12. ClaimedOnce' BY <1>1 DEF ClaimInv, ClaimedOnce
<1>13. QED BY <1>9, <1>10, <1>11, <1>12 DEF ClaimInv

(* Words that are waiting anywhere may be claimed: a hold lifts a whole    *)
(* queue out of the map, and each of its words keeps its one place.        *)
LEMMA HoldClaims ==
  ASSUME TypeOK, ClaimInv, NEW s \in Steerers, NEW t \in Threads, HoldForSteer(s, t)
  PROVE  ClaimInv'
<1>1. /\ phase[s] = "idle" /\ queue[t] # <<>>
      /\ held' = [held EXCEPT ![s] = queue[t]]
      /\ phase' = [phase EXCEPT ![s] = "asked"]
      /\ queue' = [queue EXCEPT ![t] = <<>>]
      /\ UNCHANGED <<status, word, nextId, claimed>>
  BY DEF HoldForSteer, disk, history
<1>2. \A i : Thread(i)' = Thread(i) BY <1>1 DEF Thread
<1>3. ToSet(<<>>) = {} BY DEF ToSet
<1>4. held[s] = <<>> BY <1>1 DEF ClaimInv, HeldSound
<1>5. /\ held'[s] = queue[t] /\ queue'[t] = <<>>
      /\ \A r \in Steerers \ {s} : held'[r] = held[r]
      /\ \A u \in Threads \ {t} : queue'[u] = queue[u]
  BY <1>1 DEF TypeOK
<1>6. QueueSound'
  <2> SUFFICES ASSUME NEW u \in Threads, NEW i \in ToSet(queue'[u])
               PROVE  i < nextId /\ Thread(i) = u /\ claimed[i] = 0
    BY <1>1, <1>2 DEF QueueSound
  <2>1. u # t BY <1>3, <1>5
  <2>2. QED BY <2>1, <1>5 DEF ClaimInv, QueueSound
<1>7. HeldSound'
  <2>1. \A r \in Steerers : phase'[r] = "idle" <=> held'[r] = <<>>
    BY <1>1, <1>5 DEF ClaimInv, HeldSound, TypeOK, Callers
  <2>2. ASSUME NEW r \in Steerers, NEW i \in ToSet(held'[r])
        PROVE  /\ i < nextId /\ Thread(i) = Home[word[held'[r][1]]] /\ claimed[i] = 0
               /\ i \notin ToSet(queue'[Thread(i)])
               /\ \A q \in Steerers \ {r} : i \notin ToSet(held'[q])
    <3>1. CASE r = s
      <4>1. i < nextId /\ Thread(i) = t /\ claimed[i] = 0
        BY <3>1, <1>5 DEF ClaimInv, QueueSound
      <4>2. held'[r][1] \in ToSet(queue[t]) BY <3>1, <1>1, <1>5 DEF TypeOK, ToSet
      <4>3. Home[word[held'[r][1]]] = t BY <4>2 DEF ClaimInv, QueueSound, Thread
      <4>4. i \notin ToSet(queue'[Thread(i)]) BY <4>1, <1>3, <1>5
      <4>5. ASSUME NEW q \in Steerers \ {r} PROVE i \notin ToSet(held'[q])
        <5>1. held'[q] = held[q] BY <3>1, <1>5
        <5>2. i \in ToSet(queue[t]) BY <3>1, <1>5
        <5>3. ASSUME i \in ToSet(held[q]) PROVE FALSE
          BY <5>2, <5>3, <4>1 DEF ClaimInv, HeldSound
        <5>4. QED BY <5>1, <5>3
      <4>6. QED BY <4>1, <4>3, <4>4, <4>5
    <3>2. CASE r # s
      <4>1. held'[r] = held[r] BY <3>2, <1>5
      <4>2. /\ i < nextId /\ Thread(i) = Thread(held[r][1]) /\ claimed[i] = 0
            /\ i \notin ToSet(queue[Thread(i)])
            /\ \A q \in Steerers \ {r} : i \notin ToSet(held[q])
        BY <4>1 DEF ClaimInv, HeldSound
      <4>3. i \in Ids BY <4>1, ToSetType DEF TypeOK
      <4>4. Thread(i) \in Threads BY <4>3, ThreadType
      <4>5. i \notin ToSet(queue'[Thread(i)]) BY <4>2, <4>4, <1>3, <1>5
      <4>6. i \notin ToSet(held'[s])
        <5>1. ASSUME i \in ToSet(queue[t]) PROVE FALSE
          BY <5>1, <4>2 DEF ClaimInv, QueueSound
        <5>2. QED BY <5>1, <1>5
      <4>7. \A q \in Steerers \ {r} : i \notin ToSet(held'[q]) BY <4>2, <4>6, <1>5
      <4>8. QED BY <4>1, <4>2, <4>5, <4>7 DEF Thread
    <3>3. QED BY <3>1, <3>2
  <2>3. QED BY <2>1, <2>2, <1>1, <1>2 DEF HeldSound, Thread
<1>8. JournalSound' /\ ClaimedOnce' BY <1>1 DEF ClaimInv, JournalSound, ClaimedOnce
<1>9. QED BY <1>6, <1>7, <1>8 DEF ClaimInv

(* A refused steer puts its words back in front of what waited meanwhile.  *)
LEMMA RestoreHeldClaims ==
  ASSUME TypeOK, ClaimInv, NEW s \in Steerers, NEW t \in Threads,
         held[s] # <<>>, t = Thread(held[s][1]),
         queue' = [queue EXCEPT ![t] = held[s] \o @],
         held' = [held EXCEPT ![s] = <<>>],
         phase' = [phase EXCEPT ![s] = "idle"],
         UNCHANGED <<status, word, nextId, claimed>>
  PROVE  ClaimInv'
<1>1. \A i : Thread(i)' = Thread(i) BY DEF Thread
<1>2. ToSet(<<>>) = {} BY DEF ToSet
<1>3. /\ held'[s] = <<>>
      /\ \A r \in Steerers \ {s} : held'[r] = held[r]
      /\ \A u \in Threads \ {t} : queue'[u] = queue[u]
  BY DEF TypeOK
<1>4. ToSet(queue'[t]) = ToSet(held[s]) \cup ToSet(queue[t])
  <2>1. queue'[t] = held[s] \o queue[t] BY DEF TypeOK
  <2>2. held[s] \in Seq(Ids) /\ queue[t] \in Seq(Ids) BY DEF TypeOK
  <2>3. ToSet(held[s] \o queue[t]) = ToSet(held[s]) \cup ToSet(queue[t])
    BY <2>2, ConcatElements
  <2>4. QED BY <2>1, <2>3
<1>5. QueueSound'
  <2> SUFFICES ASSUME NEW u \in Threads, NEW i \in ToSet(queue'[u])
               PROVE  i < nextId /\ Thread(i) = u /\ claimed[i] = 0
    BY <1>1 DEF QueueSound
  <2>1. CASE i \in ToSet(queue[u]) BY <2>1 DEF ClaimInv, QueueSound
  <2>2. CASE u = t /\ i \in ToSet(held[s]) BY <2>2 DEF ClaimInv, HeldSound
  <2>3. QED BY <2>1, <2>2, <1>3, <1>4
<1>6. HeldSound'
  <2>1. \A r \in Steerers : phase'[r] = "idle" <=> held'[r] = <<>>
    BY <1>3 DEF ClaimInv, HeldSound, TypeOK, Callers
  <2>2. ASSUME NEW r \in Steerers, NEW i \in ToSet(held'[r])
        PROVE  /\ i < nextId /\ Thread(i) = Home[word[held'[r][1]]] /\ claimed[i] = 0
               /\ i \notin ToSet(queue'[Thread(i)])
               /\ \A q \in Steerers \ {r} : i \notin ToSet(held'[q])
    <3>1. r # s /\ held'[r] = held[r] BY <1>2, <1>3
    <3>2. /\ i < nextId /\ Thread(i) = Thread(held[r][1]) /\ claimed[i] = 0
          /\ i \notin ToSet(queue[Thread(i)])
          /\ \A q \in Steerers \ {r} : i \notin ToSet(held[q])
      BY <3>1 DEF ClaimInv, HeldSound
    <3>3. i \in Ids BY <3>1, ToSetType DEF TypeOK
    <3>4. Thread(i) \in Threads BY <3>3, ThreadType
    <3>5. i \notin ToSet(queue'[Thread(i)]) BY <3>1, <3>2, <3>4, <1>3, <1>4
    <3>6. \A q \in Steerers \ {r} : i \notin ToSet(held'[q]) BY <3>2, <1>2, <1>3
    <3>7. QED BY <3>1, <3>2, <3>5, <3>6 DEF Thread
  <2>3. QED BY <2>1, <2>2, <1>1 DEF HeldSound, Thread
<1>7. JournalSound' /\ ClaimedOnce' BY DEF ClaimInv, JournalSound, ClaimedOnce
<1>8. QED BY <1>5, <1>6, <1>7 DEF ClaimInv

(* A restart puts back what was never claimed; nothing is held yet.        *)
LEMMA RestoreRowClaims ==
  ASSUME TypeOK, ClaimInv, NEW i \in Unrestored,
         \A s \in Steerers : held[s] = <<>>,
         queue' = [queue EXCEPT ![Thread(i)] = Append(@, i)],
         UNCHANGED <<status, word, nextId, claimed, phase, held>>
  PROVE  ClaimInv'
<1>1. \A j : Thread(j)' = Thread(j) BY DEF Thread
<1>2. i \in Ids /\ status[i] = "pending" BY DEF Unrestored
<1>3. Thread(i) \in Threads BY <1>2, ThreadType
<1>4. i < nextId /\ claimed[i] = 0 BY <1>2 DEF ClaimInv, JournalSound
<1>5. /\ ToSet(queue'[Thread(i)]) = ToSet(queue[Thread(i)]) \cup {i}
      /\ \A u \in Threads \ {Thread(i)} : queue'[u] = queue[u]
  <2>1. queue[Thread(i)] \in Seq(Ids) BY <1>3 DEF TypeOK
  <2>2. ToSet(Append(queue[Thread(i)], i)) = ToSet(queue[Thread(i)]) \cup {i}
    BY <2>1, <1>2, AppendElements
  <2>3. QED BY <2>2, <1>3 DEF TypeOK
<1>6. QueueSound' BY <1>1, <1>3, <1>4, <1>5 DEF ClaimInv, QueueSound
<1>7. HeldSound'
  <2>1. ToSet(<<>>) = {} BY DEF ToSet
  <2>2. QED BY <2>1 DEF ClaimInv, HeldSound
<1>8. JournalSound' /\ ClaimedOnce' BY DEF ClaimInv, JournalSound, ClaimedOnce
<1>9. QED BY <1>6, <1>7, <1>8 DEF ClaimInv

(* The claim of a drain: its words leave the map and the pending rows.     *)
LEMMA DrainClaims ==
  ASSUME TypeOK, ClaimInv, NEW t \in Threads, Claim(t),
         UNCHANGED <<phase, held>>
  PROVE  ClaimInv'
<1>1. /\ status' = SetStatus(ToSet(queue[t]), "dispatching")
      /\ claimed' = [i \in Ids |-> IF i \in ToSet(queue[t]) THEN Bump(claimed[i]) ELSE claimed[i]]
      /\ queue' = [queue EXCEPT ![t] = <<>>]
      /\ UNCHANGED <<word, nextId>>
  BY DEF Claim
<1>2. \A i : Thread(i)' = Thread(i) BY <1>1 DEF Thread
<1>3. ToSet(<<>>) = {} BY DEF ToSet
<1>4. queue'[t] = <<>> /\ \A u \in Threads \ {t} : queue'[u] = queue[u] BY <1>1 DEF TypeOK
<1>5. \A i \in Ids : /\ i \in ToSet(queue[t]) => claimed'[i] = Bump(0) /\ claimed[i] = 0
                     /\ i \notin ToSet(queue[t]) => claimed'[i] = claimed[i]
  BY <1>1 DEF ClaimInv, QueueSound
<1>6. Bump(0) = 1 BY DEF Bump
<1>7. QueueSound'
  <2> SUFFICES ASSUME NEW u \in Threads, NEW i \in ToSet(queue'[u])
               PROVE  i < nextId /\ Thread(i) = u /\ claimed'[i] = 0
    BY <1>1, <1>2 DEF QueueSound
  <2>1. u # t /\ i \in ToSet(queue[u]) BY <1>3, <1>4
  <2>2. i < nextId /\ Thread(i) = u /\ claimed[i] = 0 BY <2>1 DEF ClaimInv, QueueSound
  <2>3. i \in Ids BY <2>1, ToSetType DEF TypeOK
  <2>4. i \notin ToSet(queue[t]) BY <2>1, <2>2 DEF ClaimInv, QueueSound
  <2>5. QED BY <2>2, <2>3, <2>4, <1>5
<1>8. HeldSound'
  <2>1. ASSUME NEW s \in Steerers, NEW i \in ToSet(held[s])
        PROVE  claimed'[i] = 0 /\ i \notin ToSet(queue'[Thread(i)])
    <3>1. /\ claimed[i] = 0 /\ i \notin ToSet(queue[Thread(i)])
      BY DEF ClaimInv, HeldSound
    <3>2. i \in Ids BY ToSetType DEF TypeOK
    <3>3. i \notin ToSet(queue[t]) BY <3>1 DEF ClaimInv, QueueSound
    <3>4. Thread(i) \in Threads BY <3>2, ThreadType
    <3>5. QED BY <3>1, <3>2, <3>3, <3>4, <1>3, <1>4, <1>5
  <2>2. QED BY <2>1, <1>1, <1>2 DEF ClaimInv, HeldSound, Thread
<1>9. JournalSound'
  <2>1. ASSUME NEW i \in Ids, status'[i] = "pending"
        PROVE  i < nextId /\ claimed'[i] = 0
    <3>1. i \notin ToSet(queue[t]) /\ status[i] = "pending" BY <2>1, <1>1 DEF SetStatus
    <3>2. QED BY <3>1, <1>5 DEF ClaimInv, JournalSound
  <2>2. ASSUME NEW i \in Ids, i >= nextId
        PROVE  claimed'[i] = 0
    <3>1. i \notin ToSet(queue[t]) BY <2>2 DEF ClaimInv, QueueSound, TypeOK, Ids
    <3>2. QED BY <3>1, <2>2, <1>5 DEF ClaimInv, JournalSound
  <2>3. QED BY <2>1, <2>2, <1>1 DEF JournalSound
<1>10. ClaimedOnce' BY <1>5, <1>6 DEF ClaimInv, ClaimedOnce
<1>11. QED BY <1>7, <1>8, <1>9, <1>10 DEF ClaimInv

(* Every request keeps the claims sound.                                   *)
LEMMA RequestsClaims ==
  ASSUME TypeOK, ClaimInv, Requests
  PROVE  ClaimInv'
<1> USE DEF disk, work, waiting, turns, calls, coordination, history
<1>1. ASSUME NEW w \in Words, Send(w) \/ SendContinues(w) \/ OpenThread(w) PROVE ClaimInv'
  <2>1. \A s \in Steerers : phase'[s] = phase[s]
    <3>1. w \notin Steerers BY SteerQueueAssumption
    <3>2. \/ phase' = phase
          \/ phase' = [phase EXCEPT ![w] = "asked"]
          \/ phase' = [phase EXCEPT ![w] = "idle"]
      BY <1>1 DEF Send, SendContinues, OpenThread
    <3>3. QED BY <3>1, <3>2 DEF TypeOK, Callers
  <2>2. \/ Enqueue(w)
        \/ UNCHANGED <<word, nextId, queue, held, claimed, status>>
    BY <1>1 DEF Send, SendContinues, OpenThread, StartOrQueue, StartDirect, Decline
  <2>3. QED BY <2>1, <2>2, EnqueueClaims, QuietStep
<1>2. ASSUME NEW i \in Ids, Cancel(i) PROVE ClaimInv'
  <2>1. Thread(i) \in Threads BY ThreadType
  <2>2. /\ queue' = [queue EXCEPT ![Thread(i)] = Without(@, i)]
        /\ status' = [status EXCEPT ![i] = "cancelled"]
        /\ UNCHANGED <<word, nextId, claimed, held, phase>>
    BY <1>2 DEF Cancel
  <2>3. ToSet(Without(queue[Thread(i)], i)) \subseteq ToSet(queue[Thread(i)])
    BY <2>1, WithoutElements DEF TypeOK
  <2>4. \A t \in Threads : ToSet(queue'[t]) \subseteq ToSet(queue[t])
    BY <2>1, <2>2, <2>3 DEF TypeOK
  <2>5. \A j \in Ids : status'[j] = "pending" => status[j] = "pending"
    BY <2>2 DEF TypeOK
  <2>6. \A s \in Steerers : phase'[s] = "idle" <=> held'[s] = <<>>
    BY <2>2 DEF ClaimInv, HeldSound
  <2>7. QED BY <2>2, <2>4, <2>5, <2>6, ShrinkStep
<1>3. ASSUME NEW t \in Threads, DeleteTask(t) PROVE ClaimInv'
  BY <1>3, QuietStep DEF DeleteTask
<1>4. ASSUME NEW t \in Threads, SteerDeclined(t) PROVE ClaimInv'
  BY <1>4, QuietStep DEF SteerDeclined
<1>5. ASSUME NEW s \in Steerers, NEW t \in Threads, HoldForSteer(s, t) PROVE ClaimInv'
  BY <1>5, HoldClaims
<1>6. ASSUME NEW s \in Steerers, SteerContinues(s) PROVE ClaimInv'
  <2> DEFINE t == Thread(held[s][1])
  <2>1. held[s] # <<>> BY <1>6 DEF ClaimInv, HeldSound, SteerContinues, Answered
  <2>2. held[s][1] \in Ids BY <2>1 DEF TypeOK
  <2>3. t \in Threads BY <2>2, ThreadType
  <2>4. ThreadOfCall(s) = t BY SteerQueueAssumption DEF ThreadOfCall
  <2>5. /\ phase' = [phase EXCEPT ![s] = "idle"]
        /\ held' = [held EXCEPT ![s] = <<>>]
        /\ UNCHANGED <<word, nextId, claimed>>
    BY <1>6 DEF SteerContinues
  <2>6. \A r \in Steerers : /\ held'[r] = held[r] \/ held'[r] = <<>>
                            /\ phase'[r] = "idle" <=> held'[r] = <<>>
    BY <2>5 DEF TypeOK, Callers, ClaimInv, HeldSound
  <2> HIDE DEF t
  <2>7. \/ queue' = queue /\ status' = status
        \/ queue' = queue /\ status' = SetStatus(ToSet(held[s]), "absent")
        \/ queue' = [queue EXCEPT ![t] = held[s] \o @] /\ status' = status
    BY <1>6, <2>4 DEF SteerContinues
  <2>8. CASE queue' = queue /\ status' = status BY <2>5, <2>6, <2>8, ShrinkStep
  <2>9. CASE queue' = queue /\ status' = SetStatus(ToSet(held[s]), "absent")
    <3>1. \A i \in Ids : status'[i] = "pending" => status[i] = "pending"
      BY <2>9, SettleIsQuiet DEF Statuses
    <3>2. QED BY <2>5, <2>6, <2>9, <3>1, ShrinkStep
  <2>10. CASE queue' = [queue EXCEPT ![t] = held[s] \o @] /\ status' = status
    BY <2>1, <2>3, <2>5, <2>10, RestoreHeldClaims DEF t
  <2>11. QED BY <2>7, <2>8, <2>9, <2>10
<1>7. CASE DeleteBot BY <1>7, QuietStep DEF DeleteBot
<1>8. CASE SetParking BY <1>8, QuietStep DEF SetParking
<1>9. QED BY <1>1, <1>2, <1>3, <1>4, <1>5, <1>6, <1>7, <1>8 DEF Requests

(* Every commit of a running handler keeps the claims sound.               *)
LEMMA HandlerClaims ==
  ASSUME TypeOK, ClaimInv, BootSound, Handler
  PROVE  ClaimInv'
<1> USE DEF disk, work, waiting, turns, calls, coordination, history
<1>1. CASE DrainVisit
  <2> DEFINE t == Head(visit)
  <2>1. t \in Threads BY <1>1 DEF TypeOK, DrainVisit
  <2>2. UNCHANGED <<phase, held>> BY <1>1 DEF DrainVisit
  <2> HIDE DEF t
  <2>3. CASE Skip(t) BY <2>2, <2>3, QuietStep DEF Skip
  <2>4. CASE DropGone(t)
    <3>1. /\ queue' = [queue EXCEPT ![t] = <<>>]
          /\ UNCHANGED <<word, nextId, claimed>>
      BY <2>4 DEF DropGone
    <3>2. \A i \in Ids : status'[i] = "pending" => status[i] = "pending"
      BY <2>4, SettleIsQuiet DEF DropGone, Statuses
    <3>3. ToSet(<<>>) = {} BY DEF ToSet
    <3>4. \A u \in Threads : ToSet(queue'[u]) \subseteq ToSet(queue[u])
      BY <3>1, <3>3 DEF TypeOK
    <3>5. \A s \in Steerers : phase'[s] = "idle" <=> held'[s] = <<>>
      BY <2>2 DEF ClaimInv, HeldSound
    <3>6. QED BY <2>2, <3>1, <3>2, <3>4, <3>5, ShrinkStep
  <2>5. CASE Claim(t) BY <2>1, <2>2, <2>5, DrainClaims
  <2>6. QED BY <1>1, <2>3, <2>4, <2>5 DEF DrainVisit, t
<1>2. CASE DrainEnds BY <1>2, QuietStep DEF DrainEnds
<1>3. CASE DrainAppend BY <1>3, QuietStep DEF DrainAppend
<1>4. CASE DrainStart
  <2>1. \A i \in Ids : status'[i] = "pending" => status[i] = "pending"
    BY <1>4, SettleIsQuiet DEF DrainStart, Statuses
  <2>2. UNCHANGED <<word, nextId, queue, held, claimed, phase>> BY <1>4 DEF DrainStart
  <2>3. QED BY <2>1, <2>2, QuietStep
<1>5. CASE FoldAppend BY <1>5, QuietStep DEF FoldAppend
<1>6. CASE FoldSettle
  <2>1. \A i \in Ids : status'[i] = "pending" => status[i] = "pending"
    BY <1>6, SettleIsQuiet DEF FoldSettle, Statuses
  <2>2. QED BY <1>6, <2>1, QuietStep DEF FoldSettle
<1>7. CASE Purge BY <1>7, QuietStep DEF Purge
<1>8. CASE Boot BY <1>8, QuietStep DEF Boot
<1>9. CASE RecoverMark BY <1>9, QuietStep DEF RecoverMark, TypeOK
<1>10. CASE RecoverLine BY <1>10, QuietStep DEF RecoverLine
<1>11. CASE RecoverNotice BY <1>11, QuietStep DEF RecoverNotice
<1>12. CASE RecoverRetire BY <1>12, QuietStep DEF RecoverRetire, TypeOK
<1>13. CASE RecoverEnds BY <1>13, QuietStep DEF RecoverEnds
<1>14. CASE RestoreRow
  <2>1. \A s \in Steerers : held[s] = <<>>
    BY <1>14 DEF BootSound, BootFrames, RestoreRow
  <2>2. PICK i \in Unrestored : RestoreRow!2!(i) BY <1>14 DEF RestoreRow
  <2>3. UNCHANGED <<status, word, nextId, claimed, phase, held>> BY <1>14 DEF RestoreRow
  <2>4. QED BY <2>1, <2>2, <2>3, RestoreRowClaims
<1>15. CASE Listen BY <1>15, QuietStep DEF Listen
<1>16. CASE DeleteEnds
  <2>1. \A i \in Ids : status'[i] = "pending" => status[i] = "pending"
    BY <1>16, SettleIsQuiet DEF DeleteEnds, Statuses
  <2>2. QED BY <1>16, <2>1, QuietStep DEF DeleteEnds
<1>17. CASE HandoffStarts BY <1>17, QuietStep DEF HandoffStarts
<1>18. QED BY <1>1, <1>2, <1>3, <1>4, <1>5, <1>6, <1>7, <1>8, <1>9, <1>10, <1>11,
              <1>12, <1>13, <1>14, <1>15, <1>16, <1>17 DEF Handler

(* Every event of the engine or a room keeps the claims sound.             *)
LEMMA EngineClaims ==
  ASSUME TypeOK, ClaimInv, Engine
  PROVE  ClaimInv'
<1> USE DEF disk, work, waiting, turns, calls, coordination, history
<1>1. ASSUME NEW t \in Threads, TurnCompleted(t) \/ DispatchAcknowledged(t) \/ DispatchFailed(t)
                                 \/ TurnStalled(t)
      PROVE  ClaimInv'
  <2>1. UNCHANGED <<word, nextId, queue, held, claimed>>
    BY <1>1 DEF TurnCompleted, DispatchAcknowledged, DispatchFailed, TurnStalled
  <2>2. \A s \in Steerers : phase'[s] = "idle" <=> phase[s] = "idle"
    BY <1>1, EndCallsType DEF TurnCompleted, DispatchAcknowledged, DispatchFailed, TurnStalled, Callers
  <2>3. status' = status \/ status' = SetStatus(turnIds[t], "absent")
    BY <1>1 DEF TurnCompleted, DispatchAcknowledged, DispatchFailed, TurnStalled, Retire
  <2>4. \A i \in Ids : status'[i] = "pending" => status[i] = "pending"
    BY <2>3, SettleIsQuiet DEF Statuses
  <2>5. QED BY <2>1, <2>2, <2>4, QuietStep
<1>2. ASSUME NEW c \in Callers, EngineTakes(c) \/ EngineAnswers(c) PROVE ClaimInv'
  <2>1. UNCHANGED <<word, nextId, queue, held, claimed, status>>
    BY <1>2 DEF EngineTakes, EngineAnswers
  <2>2. \A s \in Steerers : phase'[s] = "idle" <=> phase[s] = "idle"
    BY <1>2 DEF EngineTakes, EngineAnswers, TypeOK, Callers
  <2>3. QED BY <2>1, <2>2, QuietStep
<1>3. CASE RoomSpeaks BY <1>3, QuietStep DEF RoomSpeaks
<1>4. CASE RoomTurnCompleted BY <1>4, QuietStep DEF RoomTurnCompleted
<1>5. CASE RoomOperationFinished BY <1>5, QuietStep DEF RoomOperationFinished
<1>6. CASE OtherTurnCompleted BY <1>6, QuietStep DEF OtherTurnCompleted
<1>7. ASSUME NEW t \in Threads, HandoffOpens(t) \/ HandoffSettles(t) \/ HandoffRuns(t)
      PROVE  ClaimInv'
  BY <1>7, QuietStep DEF HandoffOpens, HandoffSettles, HandoffRuns
<1>8. QED BY <1>1, <1>2, <1>3, <1>4, <1>5, <1>6, <1>7 DEF Engine

(* A crash empties the map and the holds; the journal keeps what waits.    *)
LEMMA CrashClaims ==
  ASSUME TypeOK, ClaimInv, Crash
  PROVE  ClaimInv'
<1>1. ToSet(<<>>) = {} BY DEF ToSet
<1>2. QED BY <1>1, ShrinkStep DEF Crash, disk, history, Callers

(* Recovery runs alone: what a serving process does begins with a request  *)
(* or an event, and those wait until the server listens.                   *)
LEMMA NextBoot ==
  ASSUME TypeOK, ClaimInv, BootSound, [Next]_vars
  PROVE  BootSound'
<1> USE DEF vars, disk, work, waiting, turns, calls, coordination, history
<1>1. CASE /\ up = "serving" /\ up' = "serving"
           /\ frame' \notin BootFrames
  BY <1>1 DEF BootSound
<1>2. CASE UNCHANGED <<up, frame, held>> BY <1>2 DEF BootSound
<1>3. CASE Requests
  <2>1. up = "serving" /\ up' = up /\ frame = "idle"
    BY ZenonT(20), <1>3 DEF Requests, Send, SendContinues, OpenThread, Cancel, DeleteTask, SteerDeclined,
                SteerContinues, HoldForSteer, DeleteBot, SetParking, Serving, StartOrQueue, Enqueue,
                StartDirect, Decline
  <2>2. frame' \in {"idle", "visit", "fold", "purge", "delete"}
    BY <1>3, <2>1 DEF Requests, Send, SendContinues, OpenThread, Cancel, DeleteTask, SteerDeclined,
                SteerContinues, HoldForSteer, DeleteBot, SetParking, StartOrQueue, Enqueue,
                StartDirect, Decline, DrainAll
  <2>3. QED BY <2>1, <2>2, <1>1 DEF BootFrames
<1>4. CASE DrainVisit
  <2>1. /\ frame' \in {"idle", "visit", "append", "delete", "handoff"} /\ frame = "visit"
        /\ UNCHANGED <<up, held>>
    BY <1>4 DEF DrainVisit, Skip, DropGone, Claim, AfterWalk
  <2>2. QED BY <2>1 DEF BootSound, BootFrames, TypeOK
<1>5. CASE DrainEnds \/ DrainAppend \/ DrainStart
  <2>1. /\ frame \in {"visit", "append", "start"}
        /\ frame' \in {"idle", "visit", "append", "start", "delete", "handoff"}
        /\ UNCHANGED <<up, held>>
    BY <1>5 DEF DrainEnds, DrainAppend, DrainStart, AfterWalk
  <2>2. QED BY <2>1 DEF BootSound, BootFrames, TypeOK
<1>6. CASE FoldAppend \/ FoldSettle \/ Purge \/ DeleteEnds \/ HandoffStarts
  <2>1. /\ frame \in {"fold", "settle", "purge", "delete", "handoff"}
        /\ frame' \in {"idle", "visit", "fold", "settle"}
        /\ UNCHANGED <<up, held>>
    BY <1>6 DEF FoldAppend, FoldSettle, Purge, DeleteEnds, HandoffStarts, DrainAll
  <2>2. QED BY <2>1 DEF BootSound, BootFrames, TypeOK
<1>7. CASE Boot BY <1>7 DEF Boot, BootSound, BootFrames
<1>8. CASE RecoverMark \/ RecoverLine \/ RecoverNotice \/ RecoverRetire \/ RecoverEnds \/ RestoreRow
  <2>1. frame \in BootFrames /\ frame' \in BootFrames /\ UNCHANGED <<up, held>>
    BY <1>8 DEF RecoverMark, RecoverLine, RecoverNotice, RecoverRetire, RecoverEnds,
                RestoreRow, BootFrames
  <2>2. QED BY <2>1 DEF BootSound, BootFrames
<1>9. CASE Listen BY <1>9 DEF Listen, DrainAll, BootSound, BootFrames
<1>10. CASE Engine
  <2>1. up = "serving" /\ up' = up /\ frame = "idle"
    BY <1>10 DEF Engine, TurnCompleted, DispatchAcknowledged, DispatchFailed, TurnStalled, EngineTakes,
                 EngineAnswers, RoomSpeaks, RoomTurnCompleted, RoomOperationFinished,
                 OtherTurnCompleted, HandoffOpens, HandoffSettles, HandoffRuns, Serving
  <2>2. frame' \in {"idle", "visit"}
    BY <1>10, <2>1 DEF Engine, TurnCompleted, DispatchAcknowledged, DispatchFailed, TurnStalled, EngineTakes,
                 EngineAnswers, RoomSpeaks, RoomTurnCompleted, RoomOperationFinished,
                 OtherTurnCompleted, HandoffOpens, HandoffSettles, HandoffRuns, DrainAll
  <2>3. QED BY <2>1, <2>2, <1>1 DEF BootFrames
<1>11. CASE Crash BY <1>11 DEF Crash, BootSound, BootFrames
<1>12. CASE UNCHANGED vars BY <1>2, <1>12
<1>13. QED BY <1>3, <1>4, <1>5, <1>6, <1>7, <1>8, <1>9, <1>10, <1>11, <1>12
           DEF Next, Handler

(* The initial state, with an empty journal and nothing running, is sound. *)
LEMMA InitIInv == Init => IInv
<1> SUFFICES ASSUME Init PROVE IInv OBVIOUS
<1>1. TypeOK
  <2>1. word \in [Ids -> Words] BY SteerQueueAssumption DEF Init
  <2>2. /\ 1 \in 1..(MaxId + 1) /\ 0 \in 0..MaxCrashes
        /\ 0 \in 0..MaxHandoffs /\ Settings \subseteq BOOLEAN
    BY SteerQueueAssumption
  <2>3. QED BY <2>1, <2>2 DEF Init, TypeOK, Statuses, Frames, Turns, Phases
<1>2. ToSet(<<>>) = {} BY DEF ToSet
<1>3. QueueSound /\ HeldSound BY <1>2 DEF Init, QueueSound, HeldSound, Callers
<1>4. JournalSound /\ BootSound /\ ClaimedOnce
  BY DEF Init, JournalSound, BootSound, BootFrames, ClaimedOnce
<1>5. QED BY <1>1, <1>3, <1>4 DEF IInv

(* Every step preserves the inductive invariant.                           *)
LEMMA NextIInv == IInv /\ [Next]_vars => IInv'
<1> SUFFICES ASSUME IInv, [Next]_vars PROVE IInv' OBVIOUS
<1>1. TypeOK /\ ClaimInv /\ HeldSound /\ BootSound BY DEF IInv, ClaimInv
<1>2. TypeOK' BY <1>1, NextType
<1>3. BootSound' BY <1>1, NextBoot
<1>4. ClaimInv'
  <2>1. CASE Next BY <1>1, <2>1, RequestsClaims, HandlerClaims, EngineClaims, CrashClaims DEF Next
  <2>2. CASE UNCHANGED vars
    BY <1>1, <2>2, QuietStep DEF vars, disk, work, waiting, turns, calls, coordination, history
  <2>3. QED BY <2>1, <2>2
<1>5. QED BY <1>2, <1>3, <1>4 DEF IInv, ClaimInv

(* The inductive invariant holds in every reachable state, for every set   *)
(* of threads, words and steerers and every bound.                         *)
THEOREM Soundness == Spec => []IInv
BY InitIInv, NextIInv, PTL DEF Spec

(* Type correctness of the queue, its journal and the turns that drain it. *)
THEOREM TypeCorrect == Spec => []TypeOK
<1>1. IInv => TypeOK BY DEF IInv
<1>2. QED BY Soundness, <1>1, PTL

(* No two settles, drains or restarts hand the same queued words to a      *)
(* follow-up turn (steer-queue.ts: entries leave the map before running;   *)
(* the claim is on disk before an entry's words go anywhere).              *)
THEOREM ClaimedOnceHolds == Spec => []ClaimedOnce
<1>1. IInv => ClaimedOnce BY DEF IInv
<1>2. QED BY Soundness, <1>1, PTL

-----------------------------------------------------------------------------
(***************************************************************************)
(* Where a bot works: its room operation and its direct turns exclude each *)
(* other, and direct turns keep to the bot's slots. Both rest on one       *)
(* invariant, TurnInv. A drain decides in one commit and starts the turn   *)
(* in a later one, so what it decided must still hold at the start.        *)
(***************************************************************************)
BusyThreads == {t \in Threads \ gone : ThreadBusy(t)}

TurnInv ==
  /\ NeverInTwoPlaces
  /\ IsFiniteSet(BusyThreads) /\ WithinCapacity
  /\ frame \in {"append", "start"} => room = "none" /\ ~AtCapacity

(* A step that starts no turn, leaves the room alone and claims nothing.   *)
LEMMA CalmStep ==
  ASSUME TypeOK, TurnInv,
         UNCHANGED room, gone \subseteq gone',
         \A t \in Threads : /\ ThreadBusy(t)' => ThreadBusy(t)
                            /\ Live(t)' => Live(t),
         frame' \in {"append", "start"} => frame \in {"append", "start"}
  PROVE  TurnInv'
<1>1. BusyThreads' \in SUBSET BusyThreads BY DEF BusyThreads
<1>2. /\ IsFiniteSet(BusyThreads')
      /\ Cardinality(BusyThreads') <= Cardinality(BusyThreads)
  BY <1>1, FS_Subset DEF TurnInv
<1>3. Cardinality(BusyThreads') \in Nat /\ Cardinality(BusyThreads) \in Nat
  BY <1>2, FS_CardinalityType DEF TurnInv
<1>4. WithinCapacity' BY <1>2, <1>3, SteerQueueAssumption DEF TurnInv, WithinCapacity, BusyThreads
<1>5. ~AtCapacity => ~AtCapacity' BY <1>2, <1>3, SteerQueueAssumption DEF AtCapacity, BusyThreads
<1>6. NeverInTwoPlaces' BY DEF TurnInv, NeverInTwoPlaces
<1>7. QED BY <1>2, <1>4, <1>5, <1>6 DEF TurnInv

(* A step that starts one turn, in a free slot and outside the room.       *)
LEMMA StartStep ==
  ASSUME TypeOK, TurnInv, NEW t,
         room = "none", ~AtCapacity, UNCHANGED <<room, gone>>,
         turn' = [turn EXCEPT ![t] = "dispatching"],
         frame' \notin {"append", "start"}
  PROVE  TurnInv'
<1>1. BusyThreads' \in SUBSET (BusyThreads \cup {t}) BY DEF BusyThreads, ThreadBusy, TypeOK
<1>2. /\ IsFiniteSet(BusyThreads \cup {t})
      /\ Cardinality(BusyThreads \cup {t}) <= Cardinality(BusyThreads) + 1
  <2>1. IsFiniteSet(BusyThreads) BY DEF TurnInv
  <2>2. Cardinality(BusyThreads) \in Nat BY <2>1, FS_CardinalityType
  <2> DEFINE B == BusyThreads
  <2>3. /\ IsFiniteSet(B \cup {t})
        /\ Cardinality(B \cup {t}) = IF t \in B THEN Cardinality(B) ELSE Cardinality(B) + 1
    <3> HIDE DEF B
    <3>1. IsFiniteSet(B) BY <2>1 DEF B
    <3>2. QED BY <3>1, FS_AddElement
  <2>4. QED BY <2>2, <2>3
<1>3. /\ IsFiniteSet(BusyThreads')
      /\ Cardinality(BusyThreads') <= Cardinality(BusyThreads \cup {t})
  BY <1>1, <1>2, FS_Subset
<1>4. /\ Cardinality(BusyThreads') \in Nat
      /\ Cardinality(BusyThreads \cup {t}) \in Nat
      /\ Cardinality(BusyThreads) \in Nat
  BY <1>2, <1>3, FS_CardinalityType DEF TurnInv
<1>5. Cardinality(BusyThreads) < Capacity
  BY <1>4, SteerQueueAssumption DEF AtCapacity, BusyThreads
<1>6. Cardinality(BusyThreads') <= Capacity
  BY <1>2, <1>3, <1>4, <1>5, SteerQueueAssumption
<1>7. WithinCapacity' BY <1>6 DEF WithinCapacity, BusyThreads
<1>8. QED BY <1>3, <1>7 DEF TurnInv, NeverInTwoPlaces

(* Requests start a turn only where startTurn and the capacity check let   *)
(* them.                                                                   *)
LEMMA RequestsTurns ==
  ASSUME TypeOK, TurnInv, Requests
  PROVE  TurnInv'
<1> USE DEF disk, work, turns, calls, coordination
<1>1. ASSUME NEW w \in Words, Send(w) \/ SendContinues(w) \/ OpenThread(w)
      PROVE  TurnInv'
  <2>1. frame = "idle" /\ UNCHANGED <<room, gone, frame>>
    BY <1>1 DEF Send, SendContinues, OpenThread, Serving, StartOrQueue, Enqueue, StartDirect, Decline
  <2>2. \/ UNCHANGED turn
        \/ /\ room = "none" /\ ~AtCapacity
           /\ turn' = [turn EXCEPT ![Home[w]] = "dispatching"]
    BY <1>1 DEF Send, SendContinues, OpenThread, StartOrQueue, Enqueue, StartDirect, Decline
  <2>3. CASE UNCHANGED turn BY <2>1, <2>3, CalmStep DEF ThreadBusy, Live
  <2>4. CASE /\ room = "none" /\ ~AtCapacity
             /\ turn' = [turn EXCEPT ![Home[w]] = "dispatching"]
    BY <2>1, <2>4, StartStep
  <2>5. QED BY <2>2, <2>3, <2>4
<1>2. ASSUME NEW i \in Ids, Cancel(i) PROVE TurnInv'
  BY <1>2, CalmStep DEF Cancel, ThreadBusy, Live
<1>3. ASSUME NEW t \in Threads, DeleteTask(t) \/ SteerDeclined(t) PROVE TurnInv'
  <2>1. UNCHANGED <<room, gone, turn>> /\ frame' \notin {"append", "start"}
    BY <1>3 DEF DeleteTask, SteerDeclined, DrainAll, Serving
  <2>2. QED BY <2>1, CalmStep DEF ThreadBusy, Live
<1>4. ASSUME NEW s \in Steerers, SteerContinues(s) \/ \E t \in Threads : HoldForSteer(s, t)
      PROVE  TurnInv'
  <2>1. UNCHANGED <<room, gone, turn>> /\ frame' \notin {"append", "start"}
    BY <1>4 DEF SteerContinues, HoldForSteer, Serving
  <2>2. QED BY <2>1, CalmStep DEF ThreadBusy, Live
<1>5. CASE DeleteBot BY <1>5, CalmStep DEF DeleteBot, TypeOK, ThreadBusy, Live
<1>6. CASE SetParking BY <1>6, CalmStep DEF SetParking, ThreadBusy, Live
<1>7. QED BY <1>1, <1>2, <1>3, <1>4, <1>5, <1>6 DEF Requests

(* A drain claims only outside the room and with a slot free, and nothing  *)
(* comes between its claim and the turn it starts.                         *)
LEMMA HandlerTurns ==
  ASSUME TypeOK, TurnInv, Handler
  PROVE  TurnInv'
<1> USE DEF disk, work, turns, calls, coordination
<1>1. CASE DrainVisit
  <2> DEFINE t == Head(visit)
  <2>1. UNCHANGED <<turn, room, gone>> BY <1>1 DEF DrainVisit, Skip, DropGone, Claim
  <2>2. \/ frame' \notin {"append", "start"}
        \/ ~Blocked(t)
    BY <1>1 DEF DrainVisit, Skip, DropGone, Claim, AfterWalk
  <2>3. CASE frame' \notin {"append", "start"} BY <2>1, <2>3, CalmStep DEF ThreadBusy, Live
  <2>4. CASE ~Blocked(t)
    BY <2>1, <2>4 DEF Blocked, TurnInv, NeverInTwoPlaces, WithinCapacity, AtCapacity,
                      BusyThreads, ThreadBusy, Live
  <2>5. QED BY <2>2, <2>3, <2>4
<1>2. CASE DrainStart
  <2>1. room = "none" /\ ~AtCapacity BY <1>2 DEF DrainStart, TurnInv
  <2>2. UNCHANGED <<room, gone>> /\ frame' \notin {"append", "start"}
    BY <1>2 DEF DrainStart, AfterWalk
  <2>3. \/ UNCHANGED turn
        \/ turn' = [turn EXCEPT ![Thread(batch[1])] = "dispatching"]
    BY <1>2 DEF DrainStart
  <2>4. CASE UNCHANGED turn BY <2>2, <2>4, CalmStep DEF ThreadBusy, Live
  <2>5. CASE turn' = [turn EXCEPT ![Thread(batch[1])] = "dispatching"]
    BY <2>1, <2>2, <2>5, StartStep
  <2>6. QED BY <2>3, <2>4, <2>5
<1>3. CASE DrainEnds \/ DrainAppend \/ FoldAppend \/ FoldSettle \/ Purge \/ Boot \/ Listen
  <2>1. UNCHANGED <<room, gone, turn>>
    BY <1>3 DEF DrainEnds, DrainAppend, FoldAppend, FoldSettle, Purge, Boot, Listen
  <2>2. frame' \in {"append", "start"} => frame \in {"append", "start"}
    BY <1>3 DEF DrainEnds, DrainAppend, FoldAppend, FoldSettle, Purge, Boot, Listen, DrainAll,
                AfterWalk
  <2>3. QED BY <2>1, <2>2, CalmStep DEF ThreadBusy, Live
<1>4. CASE RecoverMark \/ RecoverLine \/ RecoverNotice \/ RecoverRetire \/ RecoverEnds \/ RestoreRow
  <2>1. UNCHANGED <<room, gone, turn>>
    BY <1>4 DEF RecoverMark, RecoverLine, RecoverNotice, RecoverRetire, RecoverEnds, RestoreRow
  <2>2. frame' \in {"append", "start"} => frame \in {"append", "start"}
    BY <1>4 DEF RecoverMark, RecoverLine, RecoverNotice, RecoverRetire, RecoverEnds, RestoreRow
  <2>3. QED BY <2>1, <2>2, CalmStep DEF ThreadBusy, Live
<1>5. CASE DeleteEnds
  <2>1. UNCHANGED room /\ gone \subseteq gone' /\ frame' \notin {"append", "start"}
    BY <1>5 DEF DeleteEnds
  <2>2. PICK t \in deleting :
          turn' = [turn EXCEPT ![t] = IF ThreadBusy(t) THEN "closing" ELSE "idle"]
    BY <1>5 DEF DeleteEnds
  <2>3. \A u \in Threads : /\ ThreadBusy(u)' => ThreadBusy(u)
                           /\ Live(u)' => Live(u)
    BY <2>2 DEF ThreadBusy, Live, TypeOK
  <2>4. QED BY <2>1, <2>3, CalmStep
<1>6. CASE HandoffStarts
  <2>1. UNCHANGED <<room, gone>> /\ frame' \notin {"append", "start"}
    BY <1>6 DEF HandoffStarts, DrainAll
  <2>2. \/ UNCHANGED turn
        \/ \E t \in waking : /\ room = "none" /\ ~AtCapacity
                              /\ turn' = [turn EXCEPT ![t] = "dispatching"]
    BY <1>6 DEF HandoffStarts
  <2>3. CASE UNCHANGED turn BY <2>1, <2>3, CalmStep DEF ThreadBusy, Live
  <2>4. ASSUME NEW t \in waking, room = "none", ~AtCapacity,
               turn' = [turn EXCEPT ![t] = "dispatching"]
        PROVE  TurnInv'
    BY <2>1, <2>4, StartStep
  <2>5. QED BY <2>2, <2>3, <2>4
<1>7. QED BY <1>1, <1>2, <1>3, <1>4, <1>5, <1>6 DEF Handler

(* Turns end and are acknowledged, and the room takes the bot only while   *)
(* none of its turns is live.                                              *)
LEMMA EngineTurns ==
  ASSUME TypeOK, TurnInv, Engine
  PROVE  TurnInv'
<1> USE DEF disk, work, turns, calls, coordination
<1>1. ASSUME NEW t \in Threads, TurnCompleted(t) \/ DispatchAcknowledged(t) \/ DispatchFailed(t)
                                 \/ TurnStalled(t)
      PROVE  TurnInv'
  <2>1. UNCHANGED <<room, gone>> /\ frame' \notin {"append", "start"}
    BY <1>1 DEF TurnCompleted, DispatchAcknowledged, DispatchFailed, TurnStalled, Serving, DrainAll
  <2>2. \/ UNCHANGED turn
        \/ turn[t] # "idle" /\ turn' = [turn EXCEPT ![t] = "idle"]
        \/ Live(t) /\ turn' = [turn EXCEPT ![t] = "closing"]
        \/ Live(t) /\ turn' = [turn EXCEPT ![t] = "running"]
    BY <1>1 DEF TurnCompleted, DispatchAcknowledged, DispatchFailed, TurnStalled, Live
  <2>3. \A u \in Threads : /\ ThreadBusy(u)' => ThreadBusy(u)
                           /\ Live(u)' => Live(u)
    BY <2>2 DEF ThreadBusy, Live, TypeOK
  <2>4. QED BY <2>1, <2>3, CalmStep
<1>2. ASSUME NEW c \in Callers, EngineTakes(c) \/ EngineAnswers(c) PROVE TurnInv'
  <2>1. UNCHANGED <<room, gone, turn, frame>> BY <1>2 DEF EngineTakes, EngineAnswers
  <2>2. QED BY <2>1, CalmStep DEF ThreadBusy, Live
<1>3. CASE RoomSpeaks \/ RoomTurnCompleted \/ RoomOperationFinished
  <2>1. UNCHANGED <<gone, turn>> /\ frame' \notin {"append", "start"}
    BY <1>3 DEF RoomSpeaks, RoomTurnCompleted, RoomOperationFinished, Serving, DrainAll
  <2>2. room' # "none" => room # "none" \/ \A t \in Threads : ~Live(t)
    BY <1>3 DEF RoomSpeaks, RoomTurnCompleted, RoomOperationFinished
  <2>3. QED BY <2>1, <2>2 DEF TurnInv, NeverInTwoPlaces, WithinCapacity, BusyThreads,
                              ThreadBusy, Live
<1>4. CASE OtherTurnCompleted
  BY <1>4, CalmStep DEF OtherTurnCompleted, DrainAll, ThreadBusy, Live
<1>5. ASSUME NEW t \in Threads, HandoffOpens(t) \/ HandoffSettles(t) \/ HandoffRuns(t)
      PROVE  TurnInv'
  BY <1>5, CalmStep DEF HandoffOpens, HandoffSettles, HandoffRuns, DrainAll, ThreadBusy, Live
<1>6. QED BY <1>1, <1>2, <1>3, <1>4, <1>5 DEF Engine

(* No turn runs at first.                                                  *)
LEMMA InitTurns == Init => TurnInv
<1> SUFFICES ASSUME Init PROVE TurnInv OBVIOUS
<1>1. BusyThreads = {} BY DEF Init, BusyThreads, ThreadBusy
<1>2. WithinCapacity
  BY <1>1, FS_EmptySet, SteerQueueAssumption DEF WithinCapacity, BusyThreads
<1>3. QED BY <1>1, <1>2, FS_EmptySet DEF TurnInv, Init, NeverInTwoPlaces

(* Every step keeps the bot in one place and within its slots; a crash     *)
(* ends all its turns.                                                     *)
LEMMA NextTurns == TypeOK /\ TurnInv /\ [Next]_vars => TurnInv'
<1> SUFFICES ASSUME TypeOK, TurnInv, [Next]_vars PROVE TurnInv' OBVIOUS
<1>1. CASE Crash
  <2>1. \A t \in Threads : turn'[t] = "idle" BY <1>1 DEF Crash
  <2>2. BusyThreads' = {} BY <2>1 DEF BusyThreads, ThreadBusy
  <2>3. WithinCapacity'
    BY <2>2, FS_EmptySet, SteerQueueAssumption DEF WithinCapacity, BusyThreads
  <2>4. QED BY <1>1, <2>2, <2>3, FS_EmptySet DEF Crash, TurnInv, NeverInTwoPlaces
<1>2. CASE UNCHANGED vars
  BY <1>2, CalmStep DEF vars, disk, work, turns, ThreadBusy, Live
<1>3. QED BY <1>1, <1>2, RequestsTurns, HandlerTurns, EngineTurns DEF Next

(* The bot's room and its direct turns, at every capacity.                 *)
LEMMA TurnSoundness == Spec => []TurnInv
<1>1. Spec => []TypeOK BY TypeCorrect
<1>2. QED BY <1>1, InitTurns, NextTurns, PTL DEF Spec

(* The bot never runs a direct turn while its room operation holds it      *)
(* (startTurn's room check and the drain's isBlocked together).            *)
THEOREM NeverInTwoPlacesHolds == Spec => []NeverInTwoPlaces
<1>1. TurnInv => NeverInTwoPlaces BY DEF TurnInv
<1>2. QED BY TurnSoundness, <1>1, PTL

(* Sends, opened threads and drains together never start more turns than   *)
(* the bot has slots, dispatches not yet acknowledged included, however    *)
(* many threads the bot has.                                               *)
THEOREM WithinCapacityHolds == Spec => []WithinCapacity
<1>1. TurnInv => WithinCapacity BY DEF TurnInv
<1>2. QED BY TurnSoundness, <1>1, PTL
=============================================================================
