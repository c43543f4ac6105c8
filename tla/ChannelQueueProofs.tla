------------------------- MODULE ChannelQueueProofs -------------------------
(***************************************************************************)
(* The follow-up queue of a room, for every set of threads, words, members *)
(* and steerers and every bound: no follow-up is claimed twice, one at a   *)
(* time is at work, no pending row is out of reach, and the journal with   *)
(* the transcript implements the ledger. All of it rests on one inductive  *)
(* invariant, CInv, whose parts say of every queue id where it may be.     *)
(* OrderSound adds the order of the words while no two steers overlap,     *)
(* LedgerSound what each fate in the ledger knows of the transcript, and   *)
(* SpeakerSound with IdleSound that an idle room has no queue while        *)
(* nothing hangs or steers.                                                *)
(***************************************************************************)
EXTENDS ChannelQueue, QueueLemmas, TLAPS

BootFrames == {"mark", "recoverLine", "retire", "restore"}

(* What each stage of the process leaves empty *)
ProcessSound ==
  /\ up = "booting" <=> frame \in BootFrames
  /\ up = "down" => frame = "idle"
  /\ up # "serving" => settling = <<>> /\ ops = <<>> /\ \A s \in Steerers : phase[s] = "idle"
  /\ up # "serving" /\ frame # "restore" => \A t \in Threads : queue[t] = <<>>
  /\ settling # <<>> => frame \in {"visit", "start", "settle"}
  /\ frame = "settle" => settling # <<>>
  /\ frame = "purge" => gone = Threads
  /\ stage = "none" <=> ops = <<>>

(* An id that waits: accepted, never claimed, and pending in the journal   *)
(* unless its thread was deleted                                           *)
Unclaimed(i) ==
  /\ i < nextId /\ claimed[i] = 0
  /\ status[i] \in {"pending", "absent"}
  /\ Thread(i) \in gone \/ status[i] = "pending"

QueueSound ==
  \A t \in Threads :
    /\ IsInjective(queue[t])
    /\ \A i \in ToSet(queue[t]) : Thread(i) = t /\ Unclaimed(i)

HeldSound ==
  \A s \in Steerers :
    /\ phase[s] = "idle" <=> held[s] = <<>>
    /\ IsInjective(held[s])
    /\ \A i \in ToSet(held[s]) :
         /\ Thread(i) = Thread(held[s][1]) /\ Unclaimed(i)
         /\ i \notin ToSet(queue[Thread(i)])
         /\ \A r \in Steerers \ {s} : i \notin ToSet(held[r])

(* the head of a hold whose words a turn took in, until its row is settled *)
Folding(i) == frame \in {"fold", "foldSettle"} /\ item = i

FoldSound ==
  \A i \in Ids : Folding(i) =>
    /\ Unclaimed(i)
    /\ i \notin ToSet(queue[Thread(i)]) /\ ~InHold(i)
    /\ frame = "foldSettle" => lines[i] > 0

JournalSound ==
  \A i \in Ids :
    /\ i >= nextId => status[i] = "absent" /\ claimed[i] = 0 /\ lines[i] = 0
    /\ status[i] = "pending" => claimed[i] = 0
    /\ status[i] = "pending" /\ up = "serving" /\ Thread(i) \notin gone =>
         i \in ToSet(queue[Thread(i)]) \/ InHold(i) \/ Folding(i)

LineSound == IsInjective(line) /\ ToSet(line) = {t \in Threads : queue[t] # <<>>}

WalkSound ==
  frame \in {"visit", "start"} =>
    /\ IsInjective(visit)
    /\ \A t \in ToSet(visit) : queue[t] # <<>>

(* an id whose follow-up was claimed and whose row is not yet settled *)
Launched(i) == \/ frame = "start" /\ item = i
               \/ i \in ToSet(settling)
               \/ \E k \in DOMAIN ops : ops[k].id = i

LaunchSound ==
  /\ \A i \in Ids : Launched(i) =>
       /\ claimed[i] > 0 /\ status[i] \in {"dispatching", "absent"}
       /\ Thread(i) \in gone \/ (frame = "start" /\ item = i) \/ lines[i] > 0
  /\ frame = "start" => Thread(item) \in gone \/ ops = <<>>

RecoverSound ==
  frame \in {"recoverLine", "retire"} =>
    /\ item < nextId /\ status[item] = "interrupted" /\ Thread(item) \notin gone
    /\ frame = "retire" => lines[item] > 0

OnePerson == \A i, j \in DOMAIN ops : ops[i].person /\ ops[j].person => i = j

WordsSound == QueueSound /\ HeldSound /\ FoldSound /\ JournalSound

CInv == /\ TypeOK /\ ProcessSound /\ WordsSound /\ LineSound /\ WalkSound
        /\ LaunchSound /\ RecoverSound /\ OnePerson /\ ClaimedOnce

-----------------------------------------------------------------------------
(* Operators *)

(* Removing one element of a queue (Array.filter, Map.delete).             *)
LEMMA WithoutElements ==
  ASSUME NEW S, NEW s \in Seq(S), NEW x
  PROVE  /\ Without(s, x) \in Seq(S)
         /\ ToSet(Without(s, x)) \subseteq ToSet(s)
         /\ IsInjective(s) => /\ ToSet(Without(s, x)) = ToSet(s) \ {x}
                              /\ IsInjective(Without(s, x))
         /\ Rising(s) => Rising(Without(s, x))
<1>1. Without(s, x) = Removed(s, x) BY DEF Without, Removed
<1>2. QED BY <1>1, RemovedElements

(* A counter that is bumped stays in its range and is positive.            *)
LEMMA BumpType == \A n \in 0..2 : Bump(n) \in 0..2 /\ Bump(n) > 0 /\ (n = 0 => Bump(n) = 1)
BY DEF Bump

(* The place a thread takes in the line.                                   *)
LEMMA InLineElements ==
  ASSUME TypeOK, NEW t \in Threads
  PROVE  /\ InLine(t) \in Seq(Threads)
         /\ ToSet(InLine(t)) = ToSet(line) \cup {t}
         /\ IsInjective(line) => IsInjective(InLine(t))
BY AppendElements DEF InLine, TypeOK

(* Settling rows keeps the journal a function into the statuses.           *)
LEMMA SetStatusType ==
  ASSUME TypeOK, NEW S, NEW st \in Statuses
  PROVE  SetStatus(S, st) \in [Ids -> Statuses]
BY DEF TypeOK, SetStatus

(* The elements of a queue of ids are ids.                                 *)
LEMMA ToSetType ==
  ASSUME NEW S, NEW s \in Seq(S)
  PROVE  ToSet(s) \subseteq S /\ (s # <<>> => s[1] \in ToSet(s)) /\ (ToSet(s) = {} <=> s = <<>>)
BY DEF ToSet

(* The thread of an id is one of the threads.                              *)
LEMMA ThreadType ==
  ASSUME TypeOK, NEW i \in Ids
  PROVE  Thread(i) \in Threads
BY ChannelQueueAssumption DEF TypeOK, Thread

(* An operation is begun behind the others.                                *)
LEMMA BeginType ==
  ASSUME TypeOK, NEW op \in Operations, Begin(op)
  PROVE  /\ ops' \in Seq(Operations)
         /\ stage' \in {"none", "starting", "speaking", "between"}
         /\ busy' \in Bots \cup {Nobody} /\ speaker' \in [Threads -> Bots \cup {Nobody}]
BY DEF TypeOK, Begin

(* A member that stops speaking leaves the room to nobody.                 *)
LEMMA UnspeakType ==
  ASSUME TypeOK, NEW t \in Threads, Unspeak(t)
  PROVE  busy' \in Bots \cup {Nobody} /\ speaker' \in [Threads -> Bots \cup {Nobody}]
BY DEF TypeOK, Unspeak

(* An ended turn changes the phases of its steers within the phases.       *)
LEMMA EndSteersType ==
  ASSUME TypeOK, NEW t, EndSteers(t)
  PROVE  /\ phase' \in [Steerers -> Phases]
         /\ \A s \in Steerers : phase'[s] = "idle" <=> phase[s] = "idle"
BY DEF TypeOK, EndSteers, Phases

(* The first operation in line is an operation.                            *)
LEMMA HeadOpType ==
  ASSUME TypeOK, ops # <<>>
  PROVE  /\ Head(ops) \in Operations /\ Head(ops) = ops[1] /\ 1 \in DOMAIN ops
         /\ Head(ops).thread \in Threads
         /\ Head(ops).id \in Ids \cup {0}
         /\ Tail(ops) \in Seq(Operations)
<1>1. /\ Head(ops) = ops[1] /\ 1 \in DOMAIN ops /\ ops[1] \in Operations
      /\ Tail(ops) \in Seq(Operations)
  BY DEF TypeOK
<1>2. ops[1].thread \in Threads /\ ops[1].id \in Ids \cup {0} BY <1>1 DEF Operations
<1>3. QED BY <1>1, <1>2

-----------------------------------------------------------------------------
(* Types *)

(* Requests of people keep the types.                                      *)
LEMMA RequestsType ==
  ASSUME CInv, Requests
  PROVE  TypeOK'
<1> USE DEF vars, disk, journal, work, waiting, turns, steers, bounds, history
<1>0. TypeOK BY DEF CInv
<1>1. ASSUME NEW w \in Words, Post(w) PROVE TypeOK'
  <2>1. UNCHANGED <<gone, active, up, work, steers, bounds, history>> BY <1>1 DEF Post
  <2>2. Home[w] \in Threads BY ChannelQueueAssumption
  <2>3. CASE Enqueue(w)
    <3>1. nextId \in Ids /\ nextId + 1 \in 1..(MaxId + 1)
      BY <1>0, <2>3, ChannelQueueAssumption DEF TypeOK, Enqueue, Ids
    <3>2. queue' \in [Threads -> Seq(Ids)] BY <1>0, <2>2, <2>3, <3>1 DEF TypeOK, Enqueue
    <3>3. line' \in Seq(Threads) BY <1>0, <2>2, <2>3, InLineElements DEF Enqueue
    <3>4. status' \in [Ids -> Statuses] /\ word' \in [Ids -> Words] /\ nextId' \in 1..(MaxId + 1)
      BY <1>0, <2>3, <3>1 DEF TypeOK, Enqueue, Statuses
    <3>5. QED BY <1>0, <2>1, <2>3, <3>2, <3>3, <3>4 DEF TypeOK, Enqueue
  <2>4. CASE StartNow(w)
    <3> DEFINE op == [thread |-> Home[w], id |-> 0, person |-> TRUE]
    <3>1. op \in Operations BY <2>2 DEF Operations
    <3>2. direct' \in [Words -> 0..2] BY <1>0, <2>4, BumpType DEF TypeOK, StartNow
    <3>3. Begin(op) \/ UNCHANGED turns BY <2>4 DEF StartNow
    <3> HIDE DEF op
    <3>4. /\ ops' \in Seq(Operations)
          /\ stage' \in {"none", "starting", "speaking", "between"}
          /\ busy' \in Bots \cup {Nobody} /\ speaker' \in [Threads -> Bots \cup {Nobody}]
      BY <1>0, <3>1, <3>3, BeginType DEF TypeOK
    <3>5. QED BY <1>0, <2>1, <2>4, <3>2, <3>4 DEF TypeOK, StartNow
  <2>5. QED BY <1>1, <2>3, <2>4 DEF Post
<1>2. ASSUME NEW i \in Ids, Cancel(i) PROVE TypeOK'
  <2>1. status' \in [Ids -> Statuses] BY <1>0, <1>2, SetStatusType DEF Cancel, Statuses
  <2>2. queue' \in [Threads -> Seq(Ids)]
    BY <1>0, <1>2, ThreadType, WithoutElements DEF TypeOK, Cancel
  <2>3. line' \in Seq(Threads) BY <1>0, <1>2, WithoutElements DEF TypeOK, Cancel
  <2>4. QED BY <1>0, <1>2, <2>1, <2>2, <2>3 DEF TypeOK, Cancel
<1>3. ASSUME NEW t \in Threads, SteerDeclined(t) PROVE TypeOK'
  <2>1. line' \in Seq(Threads)
    BY <1>0, <1>3, WithoutElements, AppendElements DEF TypeOK, SteerDeclined
  <2>2. QED BY <1>0, <1>3, <2>1 DEF TypeOK, SteerDeclined
<1>4. ASSUME NEW t \in Threads, SwitchTask(t) PROVE TypeOK'
  BY <1>0, <1>4 DEF TypeOK, SwitchTask
<1>5. ASSUME NEW t \in Threads, DeleteTask(t) PROVE TypeOK'
  <2>1. status' \in [Ids -> Statuses] BY <1>0, <1>5, SetStatusType DEF DeleteTask, Statuses
  <2>2. gone' \subseteq Threads /\ active' \in Threads BY <1>0, <1>5 DEF TypeOK, DeleteTask
  <2>3. QED BY <1>0, <1>5, <2>1, <2>2 DEF TypeOK, DeleteTask
<1>6. ASSUME NEW s \in Steerers, NEW t \in Threads, HoldForSteer(s, t) PROVE TypeOK'
  <2>1. line' \in Seq(Threads) BY <1>0, <1>6, WithoutElements DEF TypeOK, HoldForSteer
  <2>2. queue' \in [Threads -> Seq(Ids)] /\ held' \in [Steerers -> Seq(Ids)]
    BY <1>0, <1>6 DEF TypeOK, HoldForSteer
  <2>3. SpeakerOf(t) \in Bots \cup {Nobody} BY <1>0 DEF TypeOK, SpeakerOf
  <2>4. phase' \in [Steerers -> Phases] /\ asked' \in [Steerers -> Bots \cup {Nobody}]
    BY <1>0, <1>6, <2>3 DEF TypeOK, HoldForSteer, Phases
  <2>5. QED BY <1>0, <1>6, <2>1, <2>2, <2>4 DEF TypeOK, HoldForSteer
<1>7. ASSUME NEW s \in Steerers, SteerContinues(s) PROVE TypeOK'
  <2> DEFINE t == Thread(held[s][1])
  <2>1. held[s] \in Seq(Ids) /\ held[s] # <<>>
    BY <1>0, <1>7 DEF TypeOK, CInv, WordsSound, HeldSound, SteerContinues
  <2>2. held[s][1] \in Ids /\ Tail(held[s]) \in Seq(Ids) BY <2>1
  <2>3. t \in Threads BY <1>0, <2>2, ThreadType
  <2>4. UNCHANGED <<word, nextId, lines, direct, gone, active, up, turns, bounds, history>>
    BY <1>7 DEF SteerContinues
  <2>5. /\ phase' \in [Steerers -> Phases] /\ asked' \in [Steerers -> Bots \cup {Nobody}]
        /\ held' \in [Steerers -> Seq(Ids)]
    BY <1>0, <1>7 DEF TypeOK, SteerContinues, Release, Phases
  <2>6. SteerDelivered(s, t) \/ SteerLost(s, t) \/ SteerRefused(s, t)
    BY <1>7 DEF SteerContinues
  <2> HIDE DEF t
  <2>7. ASSUME NEW q \in Seq(Ids), Requeue(t, q)
        PROVE  queue' \in [Threads -> Seq(Ids)] /\ line' \in Seq(Threads)
    <3>1. CASE q = <<>> BY <1>0, <2>7, <3>1 DEF Requeue, TypeOK
    <3>2. CASE q # <<>>
      <4>1. queue' = [queue EXCEPT ![t] = q \o @] /\ line' = InLine(t)
        BY <2>7, <3>2 DEF Requeue
      <4>2. q \o queue[t] \in Seq(Ids) BY <1>0, <2>3, ConcatElements DEF TypeOK
      <4>3. QED BY <1>0, <2>3, <4>1, <4>2, InLineElements DEF TypeOK
    <3>3. QED BY <3>1, <3>2
  <2>8. CASE SteerDelivered(s, t)
    <3>1. queue' \in [Threads -> Seq(Ids)] /\ line' \in Seq(Threads)
      BY <2>2, <2>7, <2>8 DEF SteerDelivered
    <3>2. QED BY <1>0, <2>2, <2>4, <2>5, <2>8, <3>1 DEF TypeOK, SteerDelivered, Frames
  <2>9. CASE SteerLost(s, t)
    <3>1. queue' \in [Threads -> Seq(Ids)] /\ line' \in Seq(Threads)
      BY <2>2, <2>7, <2>9 DEF SteerLost
    <3>2. status' \in [Ids -> Statuses] BY <1>0, <2>9, SetStatusType DEF SteerLost, Statuses
    <3>3. QED BY <1>0, <2>4, <2>5, <2>9, <3>1, <3>2 DEF TypeOK, SteerLost
  <2>10. CASE SteerRefused(s, t)
    <3>1. queue' \in [Threads -> Seq(Ids)] /\ line' \in Seq(Threads)
      BY <2>1, <2>7, <2>10 DEF SteerRefused
    <3>2. /\ frame' \in Frames /\ item' \in Ids /\ visit' \in Seq(Threads)
          /\ redrain' \in BOOLEAN /\ settling' \in Seq(Ids)
      BY <1>0, <2>10, <3>1 DEF TypeOK, SteerRefused, DrainAll, Frames
    <3>3. QED BY <1>0, <2>4, <2>5, <2>10, <3>1, <3>2 DEF TypeOK, SteerRefused
  <2>11. QED BY <2>6, <2>8, <2>9, <2>10
<1>8. CASE DeleteRoom BY <1>0, <1>8 DEF TypeOK, DeleteRoom, Frames
<1>9. QED BY <1>1, <1>2, <1>3, <1>4, <1>5, <1>6, <1>7, <1>8 DEF Requests

(* Every commit of a running handler, recovery included, keeps the types.  *)
LEMMA HandlerType ==
  ASSUME CInv, Handler
  PROVE  TypeOK'
<1> USE DEF vars, disk, journal, work, waiting, turns, steers, bounds, history
<1>0. TypeOK BY DEF CInv
<1>1. CASE DrainVisit
  <2> DEFINE t == Head(visit)
             i == Head(queue[t])
  <2>1. t \in Threads /\ Tail(visit) \in Seq(Threads) /\ t \in ToSet(visit)
    BY <1>0, <1>1, TailElements DEF TypeOK, DrainVisit
  <2>2. queue[t] \in Seq(Ids) /\ queue[t] # <<>>
    BY <1>0, <1>1, <2>1 DEF TypeOK, CInv, WalkSound, DrainVisit
  <2>3. i \in Ids /\ Tail(queue[t]) \in Seq(Ids) BY <2>2
  <2>4. /\ UNCHANGED <<word, nextId, lines, direct, gone, active, up, redrain, settling,
                       turns, steers, bounds, folded>>
        /\ Skip \/ Claim
    BY <1>1 DEF DrainVisit
  <2>5. CASE Skip BY <1>0, <2>1, <2>4, <2>5 DEF TypeOK, Skip
  <2>6. CASE Claim
    <3>1. /\ status' = SetStatus({i}, "dispatching")
          /\ queue' = [queue EXCEPT ![t] = Tail(@)]
          /\ line' = IF Len(queue[t]) = 1 THEN Without(line, t) ELSE line
          /\ claimed' = [claimed EXCEPT ![i] = Bump(@)]
          /\ frame' = "start" /\ item' = i /\ visit' = Tail(visit)
      BY <2>6 DEF Claim
    <3> HIDE DEF t, i
    <3>2. status' \in [Ids -> Statuses] BY <1>0, <3>1, SetStatusType DEF Statuses
    <3>3. queue' \in [Threads -> Seq(Ids)] BY <1>0, <2>3, <3>1 DEF TypeOK
    <3>4. line' \in Seq(Threads) BY <1>0, <3>1, WithoutElements DEF TypeOK
    <3>5. claimed' \in [Ids -> 0..2] BY <1>0, <2>3, <3>1, BumpType DEF TypeOK
    <3>6. QED BY <1>0, <2>1, <2>3, <2>4, <3>1, <3>2, <3>3, <3>4, <3>5 DEF TypeOK, Frames
  <2>7. QED BY <2>4, <2>5, <2>6
<1>2. CASE DrainStart
  <2> DEFINE op == [thread |-> Thread(item), id |-> item, person |-> TRUE]
  <2>1. item \in Ids /\ op \in Operations BY <1>0, ThreadType DEF TypeOK, Operations
  <2>2. /\ frame' = "visit"
        /\ UNCHANGED <<journal, direct, gone, active, up, item, visit, waiting, steers,
                       bounds, history>>
        /\ StartGone \/ StartFollowup
    BY <1>2 DEF DrainStart
  <2>3. /\ lines' = lines \/ lines' = [lines EXCEPT ![item] = Bump(@)]
        /\ settling' = settling \/ settling' = Append(settling, item)
        /\ redrain' \in BOOLEAN
        /\ Begin(op) \/ UNCHANGED turns
    BY <1>0, <2>2 DEF TypeOK, StartGone, StartFollowup
  <2>a. lines' \in [Ids -> 0..2]
    <3>1. lines \in [Ids -> 0..2] BY <1>0 DEF TypeOK
    <3>2. [lines EXCEPT ![item] = Bump(@)] \in [Ids -> 0..2] BY <2>1, <3>1, BumpType
    <3>3. QED BY <2>3, <3>1, <3>2
  <2>b. settling' \in Seq(Ids)
    <3>1. settling \in Seq(Ids) BY <1>0 DEF TypeOK
    <3>2. QED BY <2>1, <2>3, <3>1, AppendElements
  <2> HIDE DEF op
  <2>4. /\ ops' \in Seq(Operations)
        /\ stage' \in {"none", "starting", "speaking", "between"}
        /\ busy' \in Bots \cup {Nobody} /\ speaker' \in [Threads -> Bots \cup {Nobody}]
    BY <1>0, <2>1, <2>3, BeginType DEF TypeOK
  <2>5. QED BY <1>0, <2>2, <2>3, <2>a, <2>b, <2>4 DEF TypeOK, Frames
<1>3. CASE DrainEnds BY <1>0, <1>3 DEF TypeOK, DrainEnds, Frames
<1>4. CASE DrainSettle
  <2>1. settling # <<>> BY <1>4 DEF CInv, ProcessSound, DrainSettle
  <2>2. status' \in [Ids -> Statuses] BY <1>0, <1>4, SetStatusType DEF DrainSettle, Statuses
  <2>3. settling' \in Seq(Ids) BY <1>0, <1>4, <2>1 DEF TypeOK, DrainSettle
  <2>4. QED BY <1>0, <1>4, <2>2, <2>3 DEF TypeOK, DrainSettle, Frames
<1>5. CASE FoldAppend BY <1>0, <1>5, BumpType DEF TypeOK, FoldAppend, Frames
<1>6. CASE FoldSettle
  <2>1. status' \in [Ids -> Statuses] BY <1>0, <1>6, SetStatusType DEF FoldSettle, Statuses
  <2>2. QED BY <1>0, <1>6, <2>1 DEF TypeOK, FoldSettle, Frames
<1>7. CASE Purge BY <1>0, <1>7 DEF TypeOK, Purge, Frames, Statuses
<1>8. CASE Boot BY <1>0, <1>8 DEF TypeOK, Boot, Frames
<1>9. CASE RecoverMark
  <2>1. status' \in [Ids -> Statuses] /\ frame' \in Frames /\ item' \in Ids
    BY <1>0, <1>9 DEF TypeOK, RecoverMark, Unfinished, Statuses, Frames
  <2>2. QED BY <1>0, <1>9, <2>1 DEF TypeOK, RecoverMark
<1>10. CASE RecoverLine BY <1>0, <1>10, BumpType DEF TypeOK, RecoverLine, Frames
<1>11. CASE RecoverRetire BY <1>0, <1>11 DEF TypeOK, RecoverRetire, Frames, Statuses
<1>12. CASE RecoverEnds BY <1>0, <1>12 DEF TypeOK, RecoverEnds, Frames
<1>13. CASE RestoreRow
  <2>1. PICK i \in Unrestored : /\ queue' = [queue EXCEPT ![Thread(i)] = Append(@, i)]
                                /\ line' = InLine(Thread(i))
    BY <1>13 DEF RestoreRow
  <2>2. i \in Ids /\ Thread(i) \in Threads BY <1>0, ThreadType DEF Unrestored
  <2>3. queue' \in [Threads -> Seq(Ids)] /\ line' \in Seq(Threads)
    BY <1>0, <2>1, <2>2, InLineElements DEF TypeOK
  <2>4. QED BY <1>0, <1>13, <2>3 DEF TypeOK, RestoreRow
<1>14. CASE Listen BY <1>0, <1>14 DEF TypeOK, Listen, DrainAll, Frames
<1>15. QED BY <1>1, <1>2, <1>3, <1>4, <1>5, <1>6, <1>7, <1>8, <1>9, <1>10, <1>11, <1>12,
              <1>13, <1>14 DEF Handler

(* So does what the room does, and a crash.                                *)
LEMMA RoomType ==
  ASSUME CInv, Room \/ Crash
  PROVE  TypeOK'
<1> USE DEF vars, disk, journal, work, waiting, turns, steers, bounds, history
<1>0. TypeOK BY DEF CInv
<1>1. ASSUME NEW t \in Threads, OtherOperation(t) PROVE TypeOK'
  <2> DEFINE op == [thread |-> t, id |-> 0, person |-> FALSE]
  <2>1. op \in Operations /\ Begin(op) BY <1>1 DEF Operations, OtherOperation
  <2> HIDE DEF op
  <2>2. /\ ops' \in Seq(Operations)
        /\ stage' \in {"none", "starting", "speaking", "between"}
        /\ busy' \in Bots \cup {Nobody} /\ speaker' \in [Threads -> Bots \cup {Nobody}]
    BY <1>0, <2>1, BeginType
  <2>3. others' \in 0..MaxOther
    BY <1>0, <1>1, ChannelQueueAssumption DEF TypeOK, OtherOperation
  <2>4. QED BY <1>0, <1>1, <2>2, <2>3 DEF TypeOK, OtherOperation
<1>2. ASSUME NEW t \in Threads, OwnershipReleased(t) PROVE TypeOK'
  <2>1. busy' \in Bots \cup {Nobody} /\ speaker' \in [Threads -> Bots \cup {Nobody}]
    BY <1>0, <1>2, UnspeakType DEF OwnershipReleased
  <2>2. phase' \in [Steerers -> Phases] BY <1>0, <1>2, EndSteersType DEF OwnershipReleased
  <2>3. QED BY <1>0, <1>2, <2>1, <2>2 DEF TypeOK, OwnershipReleased
<1>3. ASSUME NEW b \in Bots, MemberSpeaks(b) PROVE TypeOK'
  <2>1. Head(ops).thread \in Threads BY <1>0, <1>3, HeadOpType DEF MemberSpeaks
  <2>2. QED BY <1>0, <1>3, <2>1 DEF TypeOK, MemberSpeaks
<1>4. CASE MemberTurnEnds
  <2>1. Head(ops).thread \in Threads
    BY <1>0, <1>4, HeadOpType DEF MemberTurnEnds, CInv, ProcessSound
  <2>2. busy' \in Bots \cup {Nobody} /\ speaker' \in [Threads -> Bots \cup {Nobody}]
    BY <1>0, <1>4, <2>1, UnspeakType DEF MemberTurnEnds
  <2>3. phase' \in [Steerers -> Phases] BY <1>0, <1>4, EndSteersType DEF MemberTurnEnds
  <2>4. QED BY <1>0, <1>4, <2>2, <2>3 DEF TypeOK, MemberTurnEnds
<1>5. ASSUME ops # <<>>, Finish PROVE /\ ops' \in Seq(Operations)
                                       /\ stage' \in {"none", "starting", "speaking", "between"}
                                       /\ settling' \in Seq(Ids) /\ line' \in Seq(Threads)
                                       /\ frame' \in Frames /\ visit' \in Seq(Threads)
                                       /\ redrain' \in BOOLEAN /\ item' \in Ids
  <2>1. /\ Head(ops).id \in Ids \cup {0} /\ Tail(ops) \in Seq(Operations)
    BY <1>0, <1>5, HeadOpType
  <2>2. settling' \in Seq(Ids)
    <3>1. CASE Head(ops).id = 0 BY <1>5, <3>1 DEF Finish
    <3>2. CASE Head(ops).id # 0
      <4>1. Head(ops).id \in Ids /\ settling' = <<Head(ops).id>> BY <1>5, <2>1, <3>2 DEF Finish
      <4>2. QED BY <4>1
    <3>3. QED BY <3>1, <3>2
  <2>3. QED BY <1>0, <1>5, <2>1, <2>2 DEF TypeOK, Finish, DrainAll, Frames
<1>6. CASE OperationFinished
  <2>1. ops # <<>> /\ Finish BY <1>6 DEF OperationFinished
  <2>2. QED BY <1>0, <1>5, <1>6, <2>1 DEF TypeOK, OperationFinished
<1>7. CASE MemberTurnAbandoned
  <2>1. ops # <<>> /\ Finish BY <1>7 DEF MemberTurnAbandoned, CInv, ProcessSound
  <2>2. QED BY <1>0, <1>5, <1>7, <2>1 DEF TypeOK, MemberTurnAbandoned
<1>8. ASSUME NEW s \in Steerers, EngineTakes(s) PROVE TypeOK'
  <2>1. held[s] \in Seq(Ids) /\ held[s] # <<>>
    BY <1>0, <1>8 DEF TypeOK, CInv, WordsSound, HeldSound, EngineTakes
  <2>2. held[s][1] \in Ids BY <2>1
  <2>3. QED BY <1>0, <1>8, <2>2 DEF TypeOK, EngineTakes, Phases
<1>9. ASSUME NEW s \in Steerers, EngineAnswers(s) PROVE TypeOK'
  BY <1>0, <1>9 DEF TypeOK, EngineAnswers, Phases
<1>10. CASE Crash
  <2>1. crashes' \in 0..MaxCrashes BY <1>0, <1>10, ChannelQueueAssumption DEF TypeOK, Crash
  <2>2. /\ up' = "down" /\ frame' = "idle" /\ visit' = <<>> /\ redrain' = FALSE
        /\ settling' = <<>> /\ queue' = [t \in Threads |-> <<>>] /\ line' = <<>>
        /\ UNCHANGED <<disk, item, others, history>>
    BY <1>10 DEF Crash
  <2>3. /\ ops' = <<>> /\ stage' = "none" /\ busy' = Nobody
        /\ speaker' = [t \in Threads |-> Nobody] /\ phase' = [s \in Steerers |-> "idle"]
        /\ asked' = [s \in Steerers |-> Nobody] /\ held' = [s \in Steerers |-> <<>>]
    BY <1>10 DEF Crash
  <2>4. ops' \in Seq(Operations) /\ held' \in [Steerers -> Seq(Ids)] BY <2>3
  <2>5. queue' \in [Threads -> Seq(Ids)] /\ line' \in Seq(Threads) /\ visit' \in Seq(Threads)
        /\ settling' \in Seq(Ids)
    BY <2>2
  <2>6. phase' \in [Steerers -> Phases] /\ asked' \in [Steerers -> Bots \cup {Nobody}]
        /\ speaker' \in [Threads -> Bots \cup {Nobody}]
    BY <2>3 DEF Phases
  <2>7. QED BY <1>0, <2>1, <2>2, <2>3, <2>4, <2>5, <2>6 DEF TypeOK, Frames
<1>11. QED BY <1>1, <1>2, <1>3, <1>4, <1>6, <1>7, <1>8, <1>9, <1>10 DEF Room

(* No step leaves the types.                                               *)
LEMMA NextType ==
  ASSUME CInv, [Next]_vars
  PROVE  TypeOK'
<1>1. CASE UNCHANGED vars
  BY <1>1 DEF CInv, TypeOK, vars, disk, journal, work, waiting, turns, steers, bounds, history
<1>2. QED BY <1>1, RequestsType, HandlerType, RoomType DEF Next

-----------------------------------------------------------------------------
(* The process *)

(* What a stage of the process leaves empty stays empty: a request, an     *)
(* answer of an engine and a turn run only between two handlers of a       *)
(* process that serves, and a boot finds nothing in memory.                *)
LEMMA NextProcess ==
  ASSUME CInv, [Next]_vars, TypeOK'
  PROVE  ProcessSound'
<1> USE DEF vars, disk, journal, work, waiting, turns, steers, bounds, history, BootFrames
<1>0. TypeOK /\ ProcessSound /\ WordsSound BY DEF CInv
<1>1. CASE UNCHANGED vars BY <1>0, <1>1 DEF ProcessSound
<1>2. ASSUME Serving, UNCHANGED <<up, frame, settling, ops, stage>>, gone \subseteq gone' PROVE ProcessSound'
  BY <1>0, <1>2, <1>2 DEF ProcessSound, Serving, TypeOK
<1>3. ASSUME NEW op, Begin(op) PROVE stage' # "none" /\ ops' # <<>>
  <2>1. ops \in Seq(Operations) /\ (ops = <<>> <=> stage = "none")
    BY <1>0 DEF ProcessSound, TypeOK
  <2>2. CASE ops = <<>> BY <1>3, <2>1, <2>2 DEF Begin
  <2>3. CASE ops # <<>> BY <1>3, <2>1, <2>3 DEF Begin
  <2>4. QED BY <2>2, <2>3
<1>4. CASE Requests
  <2>1. ASSUME NEW w \in Words, Post(w) PROVE ProcessSound'
    <3>1. Serving /\ UNCHANGED <<gone, up, work, steers>> BY <2>1 DEF Post
    <3>2. UNCHANGED turns \/ Begin([thread |-> Home[w], id |-> 0, person |-> TRUE])
      BY <2>1 DEF Post, Enqueue, StartNow
    <3>3. CASE UNCHANGED turns BY <1>2, <3>1, <3>3
    <3>4. CASE Begin([thread |-> Home[w], id |-> 0, person |-> TRUE])
      BY <1>0, <1>3, <3>1, <3>4 DEF ProcessSound, Serving
    <3>5. QED BY <3>2, <3>3, <3>4
  <2>2. ASSUME NEW i \in Ids, Cancel(i) PROVE ProcessSound'
    BY <1>2, <2>2 DEF Cancel
  <2>3. ASSUME NEW t \in Threads, SteerDeclined(t) \/ SwitchTask(t) \/ DeleteTask(t)
        PROVE  ProcessSound'
    BY <1>2, <2>3 DEF SteerDeclined, SwitchTask, DeleteTask
  <2>4. ASSUME NEW s \in Steerers, NEW t \in Threads, HoldForSteer(s, t) PROVE ProcessSound'
    BY <1>2, <2>4 DEF HoldForSteer
  <2>5. ASSUME NEW s \in Steerers, SteerContinues(s) PROVE ProcessSound'
    <3>1. /\ Serving /\ UNCHANGED <<up, turns, gone>>
          /\ UNCHANGED <<frame, settling>> \/ (frame' \in {"fold", "visit"} /\ UNCHANGED settling)
      BY <2>5 DEF SteerContinues, SteerDelivered, SteerLost, SteerRefused, DrainAll
    <3>2. CASE UNCHANGED <<frame, settling>> BY <1>2, <3>1, <3>2
    <3>3. CASE frame' \in {"fold", "visit"} /\ UNCHANGED settling
      BY <1>0, <3>1, <3>3 DEF ProcessSound, Serving
    <3>4. QED BY <3>1, <3>2, <3>3
  <2>6. CASE DeleteRoom
    BY <1>0, <2>6 DEF DeleteRoom, ProcessSound, Serving
  <2>7. QED BY <1>4, <2>1, <2>2, <2>3, <2>4, <2>5, <2>6 DEF Requests
<1>5. CASE Handler
  <2>1. CASE DrainVisit
    <3>1. frame = "visit" /\ frame' \in {"visit", "start"}
          /\ UNCHANGED <<up, gone, settling, turns>>
      BY <2>1 DEF DrainVisit, Skip, Claim
    <3>2. up = "serving" BY <1>0, <3>1 DEF ProcessSound, TypeOK
    <3>3. QED BY <1>0, <3>1, <3>2 DEF ProcessSound
  <2>2. CASE DrainStart
    <3>1. /\ frame = "start" /\ frame' = "visit" /\ UNCHANGED <<gone, up, steers>>
          /\ UNCHANGED turns \/ Begin([thread |-> Thread(item), id |-> item, person |-> TRUE])
      BY <2>2 DEF DrainStart, StartGone, StartFollowup
    <3>2. up = "serving" BY <1>0, <3>1 DEF ProcessSound, TypeOK
    <3>3. QED BY <1>0, <1>3, <3>1, <3>2 DEF ProcessSound
  <2>3. CASE DrainEnds BY <1>0, <2>3 DEF DrainEnds, ProcessSound
  <2>4. CASE DrainSettle
    <3>1. settling # <<>> /\ settling \in Seq(Ids)
      BY <1>0, <2>4 DEF DrainSettle, ProcessSound, TypeOK
    <3>a. Tail(settling) = <<>> <=> Len(settling) = 1 BY <3>1, TailElements
    <3>2. frame' = "idle" => settling' = <<>> BY <2>4, <3>a DEF DrainSettle
    <3>3. frame' = "settle" => settling' # <<>> BY <2>4, <3>a DEF DrainSettle
    <3>4. up = "serving" BY <1>0, <3>1 DEF ProcessSound, TypeOK
    <3>5. QED BY <1>0, <2>4, <3>2, <3>3, <3>4 DEF DrainSettle, ProcessSound
  <2>5. CASE FoldAppend \/ FoldSettle \/ Purge
    BY <1>0, <2>5 DEF FoldAppend, FoldSettle, Purge, ProcessSound, TypeOK
  <2>6. CASE Boot BY <1>0, <2>6 DEF Boot, ProcessSound, TypeOK
  <2>7. CASE RecoverMark \/ RecoverLine \/ RecoverRetire \/ RecoverEnds
    BY <1>0, <2>7 DEF RecoverMark, RecoverLine, RecoverRetire, RecoverEnds, ProcessSound, TypeOK
  <2>8. CASE RestoreRow BY <1>0, <2>8 DEF RestoreRow, ProcessSound
  <2>9. CASE Listen BY <1>0, <2>9 DEF Listen, DrainAll, ProcessSound
  <2>10. QED BY <1>5, <2>1, <2>2, <2>3, <2>4, <2>5, <2>6, <2>7, <2>8, <2>9 DEF Handler
<1>6. CASE Room
  <2>1. ASSUME NEW t \in Threads, OtherOperation(t) PROVE ProcessSound'
    BY <1>0, <1>3, <2>1 DEF OtherOperation, ProcessSound, Serving
  <2>2. ASSUME NEW t \in Threads, OwnershipReleased(t) PROVE ProcessSound'
    BY <1>2, <2>2 DEF OwnershipReleased
  <2>3. ASSUME NEW b \in Bots, MemberSpeaks(b) PROVE ProcessSound'
    BY <1>0, <2>3 DEF MemberSpeaks, ProcessSound, Serving
  <2>4. CASE MemberTurnEnds BY <1>0, <2>4 DEF MemberTurnEnds, ProcessSound, Serving
  <2>5. ASSUME Serving, ops # <<>>, Finish, UNCHANGED <<up, gone>> PROVE ProcessSound'
    <3>1. ops \in Seq(Operations) /\ ops' = Tail(ops) BY <1>0, <2>5 DEF Finish, TypeOK
    <3>2. ops' = <<>> <=> Len(ops) = 1 BY <2>5, <3>1, TailElements
    <3>3. stage' = "none" <=> ops' = <<>> BY <2>5, <3>2 DEF Finish
    <3>4. frame' = "visit" /\ UNCHANGED <<up, gone>> /\ up = "serving"
      BY <2>5 DEF Finish, DrainAll, Serving
    <3>5. QED BY <3>3, <3>4 DEF ProcessSound
  <2>6. CASE OperationFinished BY <2>5, <2>6 DEF OperationFinished
  <2>7. CASE MemberTurnAbandoned
    BY <1>0, <2>5, <2>7 DEF MemberTurnAbandoned, ProcessSound
  <2>8. ASSUME NEW s \in Steerers, EngineTakes(s) \/ EngineAnswers(s) PROVE ProcessSound'
    BY <1>2, <2>8 DEF EngineTakes, EngineAnswers
  <2>9. QED BY <1>6, <2>1, <2>2, <2>3, <2>4, <2>6, <2>7, <2>8 DEF Room
<1>7. CASE Crash BY <1>7 DEF Crash, ProcessSound
<1>8. QED BY <1>1, <1>4, <1>5, <1>6, <1>7 DEF Next

-----------------------------------------------------------------------------
(* Where the words are *)

Waits(i) == i \in ToSet(queue[Thread(i)]) \/ InHold(i) \/ Folding(i)

(* A step that moves no words keeps what is known of them, if it leaves    *)
(* the rows of those that wait alone, or takes them away with their        *)
(* thread, and makes no row pending.                                       *)
LEMMA CalmWords ==
  ASSUME TypeOK, TypeOK', WordsSound,
         UNCHANGED <<word, nextId, queue, held, claimed>>, gone \subseteq gone',
         \A s \in Steerers : phase'[s] = "idle" <=> phase[s] = "idle",
         \A i \in Ids : Folding(i)' => Folding(i) /\ (frame' = "foldSettle" => lines'[i] > 0),
         \A i \in Ids : Waits(i)' => \/ status'[i] = status[i]
                                     \/ status'[i] = "absent" /\ Thread(i) \in gone',
         \A i \in Ids : status'[i] = "pending" => status[i] = "pending",
         \A i \in Ids : i >= nextId => status'[i] = "absent" /\ lines'[i] = 0,
         \A i \in Ids : up' = "serving" /\ status'[i] = "pending" /\ Thread(i) \notin gone' =>
            (up = "serving" /\ (Folding(i) => Folding(i)')) \/ i \in ToSet(queue[Thread(i)])
  PROVE  WordsSound'
<1>1. \A i : Thread(i)' = Thread(i) BY DEF Thread
<1>2. \A i : InHold(i)' <=> InHold(i) BY DEF InHold
<1>3. \A i \in Ids : Unclaimed(i) /\ Waits(i)' => Unclaimed(i)' BY <1>1 DEF Unclaimed
<1>4. \A t \in Threads : ToSet(queue[t]) \subseteq Ids BY ToSetType DEF TypeOK
<1>5. \A s \in Steerers : ToSet(held[s]) \subseteq Ids BY ToSetType DEF TypeOK
<1>6. QueueSound'
  <2>1. SUFFICES ASSUME NEW t \in Threads
                 PROVE  /\ IsInjective(queue[t])
                        /\ \A i \in ToSet(queue[t]) : Thread(i) = t /\ Unclaimed(i)'
    BY <1>1 DEF QueueSound
  <2>2. \A i \in ToSet(queue[t]) : Thread(i) = t /\ Unclaimed(i) /\ Waits(i)'
    BY <1>1 DEF WordsSound, QueueSound, Waits
  <2>3. QED BY <1>3, <1>4, <2>2 DEF WordsSound, QueueSound
<1>7. HeldSound'
  <2>1. SUFFICES ASSUME NEW s \in Steerers, NEW i \in ToSet(held[s]) PROVE Unclaimed(i)'
    BY <1>1 DEF WordsSound, HeldSound
  <2>2. Unclaimed(i) /\ InHold(i) BY DEF WordsSound, HeldSound, InHold
  <2>3. QED BY <1>2, <1>3, <1>5, <2>2 DEF Waits
<1>8. FoldSound' BY <1>1, <1>2, <1>3 DEF WordsSound, FoldSound, Waits
<1>9. JournalSound' BY <1>1, <1>2 DEF WordsSound, JournalSound, Waits
<1>10. QED BY <1>6, <1>7, <1>8, <1>9 DEF WordsSound

(* Above all a step that does not touch the journal, and folds nothing.    *)
LEMMA StillWords ==
  ASSUME TypeOK, TypeOK', WordsSound,
         UNCHANGED <<status, word, nextId, queue, held, claimed, gone, up>>,
         \A s \in Steerers : phase'[s] = "idle" <=> phase[s] = "idle",
         frame \notin {"fold", "foldSettle"}, frame' \notin {"fold", "foldSettle"},
         \A i \in Ids : i >= nextId => lines'[i] = 0
  PROVE  WordsSound'
<1>1. \A i \in Ids : ~Folding(i) /\ ~Folding(i)' BY DEF Folding
<1>2. \A i \in Ids : i >= nextId => status[i] = "absent" BY DEF WordsSound, JournalSound
<1>3. QED BY <1>1, <1>2, CalmWords

(* One word leaves its queue: it is cancelled or claimed.                  *)
LEMMA TakeOutWords ==
  ASSUME TypeOK, TypeOK', WordsSound,
         UNCHANGED <<word, nextId, lines, held, phase, gone, up>>,
         frame \notin {"fold", "foldSettle"}, frame' \notin {"fold", "foldSettle"},
         NEW i \in Ids, i \in ToSet(queue[Thread(i)]), NEW q \in Seq(Ids),
         queue' = [queue EXCEPT ![Thread(i)] = q],
         IsInjective(q), ToSet(q) = ToSet(queue[Thread(i)]) \ {i},
         \A j \in Ids \ {i} : status'[j] = status[j] /\ claimed'[j] = claimed[j],
         status'[i] # "pending"
  PROVE  WordsSound'
<1>1. \A j : Thread(j)' = Thread(j) BY DEF Thread
<1>2. \A j : InHold(j)' <=> InHold(j) BY DEF InHold
<1>3. \A j \in Ids : ~Folding(j) /\ ~Folding(j)' BY DEF Folding
<1>4. Thread(i) \in Threads BY ThreadType
<1>5. \A t \in Threads : /\ t # Thread(i) => queue'[t] = queue[t]
                         /\ queue'[Thread(i)] = q
  BY <1>4 DEF TypeOK
<1>6. \A t \in Threads : ToSet(queue'[t]) = ToSet(queue[t]) \ {i}
  <2>1. ASSUME NEW t \in Threads, t = Thread(i) PROVE ToSet(queue'[t]) = ToSet(queue[t]) \ {i}
    <3>1. queue'[t] = q BY <1>5, <2>1
    <3>2. QED BY <3>1, <2>1
  <2>2. ASSUME NEW t \in Threads, t # Thread(i) PROVE ToSet(queue'[t]) = ToSet(queue[t]) \ {i}
    <3>1. queue'[t] = queue[t] BY <1>5, <2>2
    <3>2. i \notin ToSet(queue[t]) BY <2>2 DEF WordsSound, QueueSound
    <3>3. QED BY <3>1, <3>2
  <2>3. QED BY <2>1, <2>2
<1>7. \A j \in Ids \ {i} : Unclaimed(j)' <=> Unclaimed(j) BY <1>1 DEF Unclaimed
<1>8. \A t \in Threads : ToSet(queue[t]) \subseteq Ids BY ToSetType DEF TypeOK
<1>9. \A s \in Steerers : ToSet(held[s]) \subseteq Ids /\ i \notin ToSet(held[s])
  BY ToSetType DEF TypeOK, WordsSound, HeldSound
<1>10. QueueSound'
  <2>1. \A t \in Threads : IsInjective(queue'[t]) BY <1>4, <1>5 DEF WordsSound, QueueSound
  <2>2. \A t \in Threads : \A j \in ToSet(queue'[t]) : Thread(j)' = t /\ Unclaimed(j)'
    BY <1>1, <1>6, <1>7, <1>8 DEF WordsSound, QueueSound
  <2>3. QED BY <2>1, <2>2 DEF QueueSound
<1>11. \A j \in Ids : Thread(j) \in Threads BY ThreadType
<1>12. HeldSound'
  <2>1. ASSUME NEW s \in Steerers, NEW j \in ToSet(held[s])
        PROVE  Unclaimed(j)' /\ j \notin ToSet(queue'[Thread(j)])
    <3>1. j \in Ids /\ j # i /\ Unclaimed(j) /\ j \notin ToSet(queue[Thread(j)])
      BY <1>9 DEF WordsSound, HeldSound
    <3>2. QED BY <3>1, <1>6, <1>7, <1>11
  <2>2. QED BY <2>1, <1>1 DEF WordsSound, HeldSound
<1>13. FoldSound' BY <1>3 DEF FoldSound
<1>14. JournalSound'
  <2>1. i < nextId BY <1>4 DEF WordsSound, QueueSound, Unclaimed
  <2>2. ASSUME NEW j \in Ids, j # i, status[j] = "pending", up = "serving", Thread(j) \notin gone
        PROVE  j \in ToSet(queue'[Thread(j)]) \/ InHold(j)
    BY <2>2, <1>3, <1>6, <1>11 DEF WordsSound, JournalSound
  <2>3. nextId \in Nat /\ i \in Nat BY ChannelQueueAssumption DEF TypeOK, Ids
  <2>4. QED BY <1>1, <1>2, <2>1, <2>2, <2>3 DEF WordsSound, JournalSound
<1>15. QED BY <1>10, <1>12, <1>13, <1>14 DEF WordsSound

(* Words enter a queue behind what waits there: they are accepted, or      *)
(* restored at boot.                                                       *)
LEMMA PutInWords ==
  ASSUME TypeOK, TypeOK', WordsSound,
         UNCHANGED <<lines, held, phase, gone, up, claimed>>,
         frame \notin {"fold", "foldSettle"}, frame' \notin {"fold", "foldSettle"},
         nextId' >= nextId,
         NEW i \in Ids, \A j \in Ids \ {i} : word'[j] = word[j] /\ status'[j] = status[j],
         status'[i] = "pending", claimed[i] = 0, i < nextId', ~InHold(i),
         \A t \in Threads : i \notin ToSet(queue[t]),
         queue' = [queue EXCEPT ![Thread(i)'] = Append(@, i)]
  PROVE  WordsSound'
<1>1. \A j \in Ids \ {i} : Thread(j)' = Thread(j) BY DEF Thread
<1>2. \A j : InHold(j)' <=> InHold(j) BY DEF InHold
<1>3. \A j \in Ids : ~Folding(j) /\ ~Folding(j)' BY DEF Folding
<1>4. Thread(i)' \in Threads BY ChannelQueueAssumption DEF TypeOK, Thread
<1> DEFINE u == Thread(i)'
<1>5. u \in Threads /\ queue' = [queue EXCEPT ![u] = Append(@, i)] BY <1>4
<1>a. Thread(i)' = u OBVIOUS
<1> HIDE DEF u
<1>6. \A t \in Threads : queue'[t] = IF t = u THEN Append(queue[u], i) ELSE queue[t]
  BY <1>5 DEF TypeOK
<1>7. \A t \in Threads : ToSet(queue'[t]) = IF t = u THEN ToSet(queue[u]) \cup {i} ELSE ToSet(queue[t])
  <2>1. queue[u] \in Seq(Ids) BY <1>5 DEF TypeOK
  <2>2. ToSet(Append(queue[u], i)) = ToSet(queue[u]) \cup {i} BY <2>1, AppendElements
  <2>3. ASSUME NEW t \in Threads, t = u PROVE ToSet(queue'[t]) = ToSet(queue[u]) \cup {i}
    <3>1. queue'[t] = Append(queue[u], i) BY <1>6, <2>3
    <3>2. QED BY <2>2, <3>1
  <2>4. ASSUME NEW t \in Threads, t # u PROVE ToSet(queue'[t]) = ToSet(queue[t])
    <3>1. queue'[t] = queue[t] BY <1>6, <2>4
    <3>2. QED BY <3>1
  <2>5. QED BY <2>3, <2>4
<1>8. nextId \in Nat /\ nextId' \in Nat /\ Ids \subseteq Nat
  BY ChannelQueueAssumption DEF TypeOK, Ids
<1>9. \A j \in Ids \ {i} : Unclaimed(j) => Unclaimed(j)' BY <1>1, <1>8 DEF Unclaimed
<1>10. Unclaimed(i)' BY DEF Unclaimed
<1>11. \A t \in Threads : ToSet(queue[t]) \subseteq Ids BY ToSetType DEF TypeOK
<1>12. \A s \in Steerers : ToSet(held[s]) \subseteq Ids /\ i \notin ToSet(held[s])
  BY ToSetType DEF TypeOK, InHold
<1>13. QueueSound'
  <2>1. \A t \in Threads : IsInjective(queue'[t])
    <3>1. queue[u] \in Seq(Ids) BY <1>5 DEF TypeOK
    <3>2. IsInjective(queue[u]) /\ i \notin ToSet(queue[u]) BY <1>5 DEF WordsSound, QueueSound
    <3>3. IsInjective(Append(queue[u], i)) BY <3>1, <3>2, AppendElements
    <3>4. QED BY <1>6, <3>3 DEF WordsSound, QueueSound
  <2>2. ASSUME NEW t \in Threads, NEW j \in ToSet(queue'[t]) PROVE Thread(j)' = t /\ Unclaimed(j)'
    <3>1. CASE j = i
      <4>1. t = u BY <1>7, <3>1
      <4>2. QED BY <3>1, <4>1, <1>10, <1>a
    <3>2. CASE j # i
      <4>1. j \in ToSet(queue[t]) BY <1>7, <3>2
      <4>2. j \in Ids /\ Thread(j) = t /\ Unclaimed(j) BY <4>1, <1>11 DEF WordsSound, QueueSound
      <4>3. QED BY <3>2, <4>2, <1>1, <1>9
    <3>3. QED BY <3>1, <3>2
  <2>3. QED BY <2>1, <2>2 DEF QueueSound
<1>14. \A j \in Ids : Thread(j) \in Threads BY ThreadType
<1>15. HeldSound'
  <2>1. ASSUME NEW s \in Steerers, NEW j \in ToSet(held[s])
        PROVE  /\ Thread(j)' = Thread(j) /\ Thread(held[s][1])' = Thread(held[s][1])
               /\ Unclaimed(j)' /\ j \notin ToSet(queue'[Thread(j)])
    <3>1. /\ j \in Ids /\ j # i /\ Unclaimed(j) /\ j \notin ToSet(queue[Thread(j)])
          /\ held[s] \in Seq(Ids) /\ held[s] # <<>>
      <4>1. j \in Ids /\ j # i BY <1>12
      <4>2. Unclaimed(j) /\ j \notin ToSet(queue[Thread(j)]) BY DEF WordsSound, HeldSound
      <4>3. held[s] \in Seq(Ids) BY DEF TypeOK
      <4>4. held[s] # <<>> BY <4>3, ToSetType
      <4>5. QED BY <4>1, <4>2, <4>3, <4>4
    <3>2. held[s][1] \in ToSet(held[s]) BY <3>1, ToSetType
    <3>3. QED BY <3>1, <3>2, <1>1, <1>7, <1>9, <1>12, <1>14
  <2>2. QED BY <2>1 DEF WordsSound, HeldSound
<1>16. FoldSound' BY <1>3 DEF FoldSound
<1>17. JournalSound'
  <2>1. ASSUME NEW j \in Ids, j # i, status[j] = "pending", up = "serving", Thread(j) \notin gone
        PROVE  j \in ToSet(queue'[Thread(j)]) \/ InHold(j)
    BY <2>1, <1>3, <1>7, <1>14 DEF WordsSound, JournalSound
  <2>2. i \in ToSet(queue'[u]) BY <1>5, <1>7
  <2>3. \A j \in Ids : j >= nextId' => j >= nextId /\ j # i BY <1>8
  <2>4. QED BY <1>1, <1>2, <1>8, <1>a, <2>1, <2>2, <2>3 DEF WordsSound, JournalSound
<1>18. QED BY <1>13, <1>15, <1>16, <1>17 DEF WordsSound

(* A steer lifts the queue of its thread out of the map.                   *)
LEMMA HoldWords ==
  ASSUME TypeOK, TypeOK', WordsSound, NEW s \in Steerers, NEW t \in Threads, HoldForSteer(s, t)
  PROVE  WordsSound'
<1>1. /\ UNCHANGED <<status, word, nextId, lines, gone, up, frame, item, claimed>>
      /\ frame = "idle" /\ queue[t] # <<>> /\ phase[s] = "idle"
  BY DEF HoldForSteer, Serving, disk, journal, work, history
<1>2. /\ \A r \in Steerers : held'[r] = IF r = s THEN queue[t] ELSE held[r]
      /\ \A r \in Steerers : phase'[r] = IF r = s THEN "asked" ELSE phase[r]
      /\ \A u \in Threads : queue'[u] = IF u = t THEN <<>> ELSE queue[u]
  BY DEF HoldForSteer, TypeOK
<1>3. \A i : Thread(i)' = Thread(i) /\ (Unclaimed(i)' <=> Unclaimed(i)) BY <1>1 DEF Thread, Unclaimed
<1>4. \A i \in Ids : ~Folding(i) /\ ~Folding(i)' BY <1>1 DEF Folding
<1>5. held[s] = <<>> BY <1>1 DEF WordsSound, HeldSound
<1>6. \A i \in ToSet(queue[t]) : Thread(i) = t /\ Unclaimed(i) BY DEF WordsSound, QueueSound
<1>7. ToSet(<<>>) = {} /\ ToSet(held[s]) = {} BY <1>5 DEF ToSet
<1>8. QueueSound'
  <2>1. ASSUME NEW u \in Threads PROVE IsInjective(queue'[u]) /\ ToSet(queue'[u]) \subseteq ToSet(queue[u])
    <3>1. CASE u = t
      <4>1. queue'[u] = <<>> BY <1>2, <3>1
      <4>2. QED BY <4>1, <1>7 DEF IsInjective
    <3>2. CASE u # t
      <4>1. queue'[u] = queue[u] BY <1>2, <3>2
      <4>2. QED BY <4>1 DEF WordsSound, QueueSound
    <3>3. QED BY <3>1, <3>2
  <2>2. QED BY <1>3, <2>1 DEF WordsSound, QueueSound
<1>9. \A i \in ToSet(queue[t]) : \A r \in Steerers : i \notin ToSet(held[r])
  BY <1>6 DEF WordsSound, HeldSound
<1>10. HeldSound'
  <2>1. ASSUME NEW r \in Steerers
        PROVE  /\ phase'[r] = "idle" <=> held'[r] = <<>>
               /\ IsInjective(held'[r])
               /\ \A i \in ToSet(held'[r]) :
                    /\ Thread(i) = Thread(held'[r][1]) /\ Unclaimed(i)
                    /\ i \notin ToSet(queue'[Thread(i)])
                    /\ \A q \in Steerers \ {r} : i \notin ToSet(held'[q])
    <3>1. CASE r = s
      <4>1. held'[r] = queue[t] /\ phase'[r] = "asked" BY <1>2, <3>1
      <4>2. queue[t] \in Seq(Ids) BY DEF TypeOK
      <4>3. queue[t][1] \in ToSet(queue[t]) BY <1>1, <4>2, ToSetType
      <4>4. queue'[t] = <<>> BY <1>2
      <4>5. \A q \in Steerers \ {r} : held'[q] = held[q] BY <1>2, <3>1
      <4>6. IsInjective(queue[t]) BY DEF WordsSound, QueueSound
      <4>7. QED BY <1>1, <1>6, <1>7, <1>9, <4>1, <4>3, <4>4, <4>5, <4>6
    <3>2. CASE r # s
      <4>1. held'[r] = held[r] /\ phase'[r] = phase[r] BY <1>2, <3>2
      <4>2. ASSUME NEW i \in ToSet(held[r])
            PROVE  /\ i \notin ToSet(queue'[Thread(i)])
                   /\ \A q \in Steerers \ {r} : i \notin ToSet(held'[q])
        <5>1. i \in Ids /\ Thread(i) \in Threads BY <4>2, ToSetType, ThreadType DEF TypeOK
        <5>2. queue'[Thread(i)] = <<>> \/ queue'[Thread(i)] = queue[Thread(i)] BY <1>2, <5>1
        <5>3. i \notin ToSet(queue[Thread(i)]) BY <4>2 DEF WordsSound, HeldSound
        <5>4. i \notin ToSet(queue[t]) BY <1>9, <4>2
        <5>5. \A q \in Steerers \ {r} : held'[q] = queue[t] \/ held'[q] = held[q] BY <1>2
        <5>6. \A q \in Steerers \ {r} : i \notin ToSet(held[q]) BY <4>2 DEF WordsSound, HeldSound
        <5>7. QED BY <1>7, <5>2, <5>3, <5>4, <5>5, <5>6
      <4>3. QED BY <4>1, <4>2 DEF WordsSound, HeldSound
    <3>3. QED BY <3>1, <3>2
  <2>2. QED BY <1>3, <2>1 DEF HeldSound
<1>11. FoldSound' BY <1>4 DEF FoldSound
<1>12. JournalSound'
  <2>1. ASSUME NEW i \in Ids, status[i] = "pending", up = "serving", Thread(i) \notin gone
        PROVE  i \in ToSet(queue'[Thread(i)]) \/ InHold(i)'
    <3>1. i \in ToSet(queue[Thread(i)]) \/ InHold(i) BY <2>1, <1>4 DEF WordsSound, JournalSound
    <3>2. CASE i \in ToSet(queue[Thread(i)])
      <4>1. CASE Thread(i) = t
        <5>1. held'[s] = queue[t] BY <1>2
        <5>2. QED BY <5>1, <4>1, <3>2 DEF InHold
      <4>2. CASE Thread(i) # t
        <5>1. queue'[Thread(i)] = queue[Thread(i)] BY <1>2, <4>2, ThreadType
        <5>2. QED BY <5>1, <3>2
      <4>3. QED BY <4>1, <4>2
    <3>3. CASE InHold(i)
      <4>1. PICK r \in Steerers : i \in ToSet(held[r]) BY <3>3 DEF InHold
      <4>2. held'[r] = held[r] BY <1>2, <1>7, <4>1
      <4>3. QED BY <4>1, <4>2 DEF InHold
    <3>4. QED BY <3>1, <3>2, <3>3
  <2>2. QED BY <1>1, <1>3, <2>1 DEF WordsSound, JournalSound
<1>13. QED BY <1>8, <1>10, <1>11, <1>12 DEF WordsSound

(* A steer puts back what it holds, all of it or all but the head, which   *)
(* it is about to record or has dropped.                                   *)
LEMMA PutBackWords ==
  ASSUME TypeOK, TypeOK', WordsSound, NEW s \in Steerers, NEW q \in Seq(Ids),
         phase[s] # "idle", Release(s),
         UNCHANGED <<word, nextId, lines, claimed, gone, up>>,
         frame \notin {"fold", "foldSettle"}, frame' # "foldSettle",
         IsInjective(q), ToSet(q) \subseteq ToSet(held[s]),
         Requeue(Thread(held[s][1]), q),
         \A i \in Ids : /\ Folding(i)' => i \in ToSet(held[s]) \ ToSet(q)
                        /\ i \notin ToSet(held[s]) \ ToSet(q) \/ Folding(i)' =>
                              status'[i] = status[i]
                        /\ i \in ToSet(held[s]) \ ToSet(q) => \/ status'[i] # "pending"
                                                             \/ Folding(i)' \/ Thread(i) \in gone
  PROVE  WordsSound'
<1> DEFINE t == Thread(held[s][1])
<1>1. held[s] \in Seq(Ids) /\ held[s] # <<>> BY DEF TypeOK, WordsSound, HeldSound
<1>2. held[s][1] \in ToSet(held[s]) /\ ToSet(held[s]) \subseteq Ids BY <1>1, ToSetType
<1>3. t \in Threads BY <1>2, ThreadType
<1>4. \A i \in ToSet(held[s]) : /\ Thread(i) = t /\ Unclaimed(i)
                                /\ i \notin ToSet(queue[t])
                                /\ \A r \in Steerers \ {s} : i \notin ToSet(held[r])
  BY DEF WordsSound, HeldSound
<1>a. Requeue(t, q) OBVIOUS
<1> HIDE DEF t
<1>5. \A i : Thread(i)' = Thread(i) BY DEF Thread
<1>6. \A i \in Ids : Unclaimed(i) /\ (i \notin ToSet(held[s]) \ ToSet(q) \/ Folding(i)') => Unclaimed(i)'
  BY <1>5 DEF Unclaimed
<1>7. \A i \in Ids : ~Folding(i) BY DEF Folding
<1>8. \A u \in Threads : /\ IsInjective(queue'[u])
                         /\ ToSet(queue'[u]) = IF u = t THEN ToSet(q) \cup ToSet(queue[t])
                                                ELSE ToSet(queue[u])
  <2>1. CASE q = <<>>
    <3>1. queue' = queue /\ ToSet(q) = {} BY <1>a, <2>1 DEF Requeue, waiting, ToSet
    <3>2. QED BY <3>1 DEF WordsSound, QueueSound
  <2>2. CASE q # <<>>
    <3>1. queue' = [queue EXCEPT ![t] = q \o @] BY <1>a, <2>2 DEF Requeue
    <3>2. queue[t] \in Seq(Ids) /\ IsInjective(queue[t])
      BY <1>3 DEF TypeOK, WordsSound, QueueSound
    <3>3. ToSet(q) \cap ToSet(queue[t]) = {} BY <1>4
    <3>4. /\ IsInjective(q \o queue[t])
          /\ ToSet(q \o queue[t]) = ToSet(q) \cup ToSet(queue[t])
      BY <3>2, <3>3, ConcatElements
    <3>5. ASSUME NEW u \in Threads, u # t PROVE queue'[u] = queue[u] BY <3>1, <3>5 DEF TypeOK
    <3>6. queue'[t] = q \o queue[t] BY <1>3, <3>1 DEF TypeOK
    <3>7. QED BY <3>4, <3>5, <3>6 DEF WordsSound, QueueSound
  <2>3. QED BY <2>1, <2>2
<1>9. \A r \in Steerers : /\ held'[r] = IF r = s THEN <<>> ELSE held[r]
                          /\ phase'[r] = IF r = s THEN "idle" ELSE phase[r]
  BY DEF Release, TypeOK
<1>10. ToSet(<<>>) = {} BY DEF ToSet
<1>11. \A u \in Threads : ToSet(queue[u]) \subseteq Ids BY ToSetType DEF TypeOK
<1>12. \A r \in Steerers : ToSet(held[r]) \subseteq Ids BY ToSetType DEF TypeOK
<1>13. QueueSound'
  <2>1. ASSUME NEW u \in Threads, NEW i \in ToSet(queue'[u]) PROVE Thread(i)' = u /\ Unclaimed(i)'
    <3>1. CASE i \in ToSet(queue[u])
      <4>1. i \in Ids /\ Thread(i) = u /\ Unclaimed(i) BY <3>1, <1>11 DEF WordsSound, QueueSound
      <4>2. i \notin ToSet(held[s]) BY <3>1, <4>1, <1>4
      <4>3. QED BY <4>1, <4>2, <1>5, <1>6
    <3>2. CASE i \notin ToSet(queue[u])
      <4>1. u = t /\ i \in ToSet(q) BY <3>2, <1>8, <2>1
      <4>2. QED BY <4>1, <1>2, <1>4, <1>5, <1>6
    <3>3. QED BY <3>1, <3>2
  <2>2. QED BY <1>8, <2>1 DEF QueueSound
<1>14. \A i \in Ids : Thread(i) \in Threads BY ThreadType
<1>15. HeldSound'
  <2>1. ASSUME NEW r \in Steerers
        PROVE  /\ phase'[r] = "idle" <=> held'[r] = <<>>
               /\ IsInjective(held'[r])
               /\ \A i \in ToSet(held'[r]) :
                    /\ Thread(i) = Thread(held'[r][1]) /\ Unclaimed(i)'
                    /\ i \notin ToSet(queue'[Thread(i)])
                    /\ \A p \in Steerers \ {r} : i \notin ToSet(held'[p])
    <3>1. CASE r = s
      <4>1. held'[r] = <<>> /\ phase'[r] = "idle" BY <1>9, <3>1
      <4>2. QED BY <4>1, <1>10 DEF IsInjective
    <3>2. CASE r # s
      <4>1. held'[r] = held[r] /\ phase'[r] = phase[r] BY <1>9, <3>2
      <4>2. ASSUME NEW i \in ToSet(held[r])
            PROVE  /\ Unclaimed(i)' /\ i \notin ToSet(queue'[Thread(i)])
                   /\ \A p \in Steerers \ {r} : i \notin ToSet(held'[p])
        <5>1. /\ i \in Ids /\ Unclaimed(i) /\ i \notin ToSet(queue[Thread(i)])
              /\ \A p \in Steerers \ {r} : i \notin ToSet(held[p])
          BY <4>2, <1>12 DEF WordsSound, HeldSound
        <5>2. i \notin ToSet(held[s]) BY <3>2, <5>1
        <5>3. i \notin ToSet(queue'[Thread(i)]) BY <5>1, <5>2, <1>8, <1>14
        <5>4. \A p \in Steerers \ {r} : held'[p] = <<>> \/ held'[p] = held[p] BY <1>9
        <5>5. QED BY <5>1, <5>2, <5>3, <5>4, <1>6, <1>10
      <4>3. QED BY <4>1, <4>2 DEF WordsSound, HeldSound
    <3>3. QED BY <3>1, <3>2
  <2>2. QED BY <1>5, <2>1 DEF HeldSound
<1>16. FoldSound'
  <2>1. ASSUME NEW i \in Ids, Folding(i)'
        PROVE  Unclaimed(i)' /\ i \notin ToSet(queue'[Thread(i)]) /\ ~InHold(i)'
    <3>1. i \in ToSet(held[s]) /\ i \notin ToSet(q) BY <2>1
    <3>2. Unclaimed(i)' BY <2>1, <3>1, <1>4, <1>6
    <3>3. i \notin ToSet(queue'[Thread(i)]) BY <3>1, <1>4, <1>8, <1>3
    <3>4. ASSUME NEW r \in Steerers PROVE i \notin ToSet(held'[r])
      <4>1. CASE r = s
        <5>1. held'[r] = <<>> BY <1>9, <4>1
        <5>2. QED BY <5>1, <1>10
      <4>2. CASE r # s
        <5>1. held'[r] = held[r] BY <1>9, <4>2
        <5>2. QED BY <5>1, <4>2, <3>1, <1>4
      <4>3. QED BY <4>1, <4>2
    <3>5. QED BY <3>2, <3>3, <3>4 DEF InHold
  <2>2. QED BY <1>5, <2>1 DEF FoldSound
<1>17. JournalSound'
  <2>1. ASSUME NEW i \in Ids PROVE status'[i] = status[i] \/ i < nextId
    BY <1>4 DEF Unclaimed
  <2>2. ASSUME NEW i \in Ids, status'[i] = "pending"
        PROVE  claimed[i] = 0
    <3>1. CASE i \in ToSet(held[s]) BY <3>1, <1>4 DEF Unclaimed
    <3>2. CASE i \notin ToSet(held[s])
      <4>1. status[i] = "pending" BY <2>2, <3>2
      <4>2. QED BY <4>1 DEF WordsSound, JournalSound
    <3>3. QED BY <3>1, <3>2
  <2>3. ASSUME NEW i \in Ids, status'[i] = "pending", up = "serving", Thread(i) \notin gone
        PROVE  i \in ToSet(queue'[Thread(i)]) \/ InHold(i)' \/ Folding(i)'
    <3>1. CASE i \in ToSet(held[s]) \ ToSet(q) BY <3>1, <2>3
    <3>2. CASE i \in ToSet(q) BY <3>2, <1>3, <1>4, <1>8
    <3>3. CASE i \notin ToSet(held[s]) \cup ToSet(q)
      <4>1. status[i] = "pending" BY <2>3, <3>3
      <4>2. i \in ToSet(queue[Thread(i)]) \/ InHold(i)
        BY <2>3, <4>1, <1>7 DEF WordsSound, JournalSound
      <4>3. CASE i \in ToSet(queue[Thread(i)]) BY <4>3, <1>8, <1>14
      <4>4. CASE InHold(i)
        <5>1. PICK r \in Steerers : i \in ToSet(held[r]) BY <4>4 DEF InHold
        <5>2. held'[r] = held[r] BY <1>9, <5>1, <3>3
        <5>3. QED BY <5>1, <5>2 DEF InHold
      <4>5. QED BY <4>2, <4>3, <4>4
    <3>4. QED BY <3>1, <3>2, <3>3
  <2>4. nextId \in Nat /\ Ids \subseteq Nat BY ChannelQueueAssumption DEF TypeOK, Ids
  <2>5. ASSUME NEW i \in Ids, i >= nextId PROVE status'[i] = status[i]
    <3>1. ~(i < nextId) BY <2>4, <2>5
    <3>2. QED BY <3>1, <2>1
  <2>6. QED BY <1>5, <2>2, <2>3, <2>5 DEF WordsSound, JournalSound
<1>18. QED BY <1>13, <1>15, <1>16, <1>17 DEF WordsSound

(* Settling a row that is not pending, or whose id waits nowhere, is calm. *)
LEMMA SettleStatus ==
  ASSUME TypeOK, WordsSound, NEW S, NEW st, st # "pending", status' = SetStatus(S, st)
  PROVE  \A i \in Ids : /\ i \notin S \/ status[i] = "absent" => status'[i] = status[i]
                        /\ status'[i] = "pending" => status[i] = "pending" /\ i \notin S
                        /\ i \in S => status'[i] \in {st, "absent"}
                        /\ i >= nextId => status'[i] = "absent"
BY DEF SetStatus, WordsSound, JournalSound, TypeOK

(* Every step keeps the words where they may be: an id waits in one place  *)
(* at most, in a queue, in the hands of one steer or while it is folded,   *)
(* and every pending row of a serving process waits in one.                *)
LEMMA NextWords ==
  ASSUME CInv, [Next]_vars, TypeOK'
  PROVE  WordsSound'
<1> USE DEF vars, disk, journal, work, waiting, turns, steers, bounds, history
<1>0. TypeOK /\ ProcessSound /\ WordsSound /\ LaunchSound /\ RecoverSound BY DEF CInv
<1>a. nextId \in Nat /\ Ids \subseteq Nat BY <1>0, ChannelQueueAssumption DEF TypeOK, Ids
<1>b. \A i \in Ids : i >= nextId => lines[i] = 0 BY <1>0 DEF WordsSound, JournalSound
<1>c. \A i \in Ids : claimed[i] > 0 => i < nextId /\ ~Waits(i)
  <2>1. SUFFICES ASSUME NEW i \in Ids, claimed[i] > 0 PROVE i < nextId /\ ~Waits(i) OBVIOUS
  <2>2. claimed[i] # 0 BY <2>1
  <2>3. i < nextId BY <1>0, <1>a, <2>2 DEF WordsSound, JournalSound
  <2>4. i \notin ToSet(queue[Thread(i)])
    BY <1>0, <2>2, ThreadType DEF WordsSound, QueueSound, Unclaimed
  <2>5. ~InHold(i) BY <1>0, <2>2 DEF WordsSound, HeldSound, Unclaimed, InHold
  <2>6. ~Folding(i) BY <1>0, <2>2 DEF WordsSound, FoldSound, Unclaimed
  <2>7. QED BY <2>3, <2>4, <2>5, <2>6 DEF Waits
<1>1. CASE UNCHANGED vars
  <2>1. \A i \in Ids : (Folding(i)' <=> Folding(i)) /\ Unclaimed(i)' = Unclaimed(i)
                       /\ Thread(i)' = Thread(i) /\ (InHold(i)' <=> InHold(i))
    BY <1>1 DEF Folding, Unclaimed, Thread, InHold
  <2>2. QED BY <1>0, <1>1 DEF WordsSound, QueueSound, HeldSound, FoldSound, JournalSound,
                             Folding, Unclaimed, Thread, InHold
<1>2. CASE Requests
  <2>1. ASSUME NEW w \in Words, Post(w) PROVE WordsSound'
    <3>1. /\ frame = "idle" /\ frame' = "idle"
          /\ UNCHANGED <<gone, up, work, steers, history>>
      BY <2>1 DEF Post, Serving
    <3>2. CASE Enqueue(w)
      <4>1. PICK n \in Ids : n = nextId
        BY <1>0, <1>a, <3>2 DEF Enqueue, TypeOK, Ids
      <4>2. /\ nextId' = n + 1 /\ status' = [status EXCEPT ![n] = "pending"]
            /\ word' = [word EXCEPT ![n] = w] /\ lines' = lines
            /\ queue' = [queue EXCEPT ![Home[w]] = Append(@, n)]
        BY <3>2, <4>1 DEF Enqueue
      <4>3. Thread(n)' = Home[w] BY <1>0, <4>2 DEF Thread, TypeOK
      <4>4. claimed[n] = 0 BY <1>0, <1>a, <4>1 DEF WordsSound, JournalSound
      <4>5. \A t \in Threads : n \notin ToSet(queue[t])
        BY <1>0, <1>a, <4>1 DEF WordsSound, QueueSound, Unclaimed
      <4>6. ~InHold(n) BY <1>0, <1>a, <4>1 DEF WordsSound, HeldSound, Unclaimed, InHold
      <4>7. /\ status'[n] = "pending"
            /\ \A j \in Ids \ {n} : word'[j] = word[j] /\ status'[j] = status[j]
        BY <1>0, <4>2 DEF TypeOK
      <4>8. nextId' >= nextId /\ n < nextId' BY <1>a, <4>1, <4>2
      <4>9. queue' = [queue EXCEPT ![Thread(n)'] = Append(@, n)] BY <4>2, <4>3
      <4>10. UNCHANGED <<lines, held, phase, gone, up, claimed>> BY <3>1, <4>2
      <4>11. QED BY <1>0, <3>1, <4>4, <4>5, <4>6, <4>7, <4>8, <4>9, <4>10, PutInWords
    <3>3. CASE StartNow(w)
      <4>1. UNCHANGED <<journal, lines, waiting>> BY <3>3 DEF StartNow
      <4>2. QED BY <1>0, <1>b, <3>1, <4>1, StillWords
    <3>4. QED BY <2>1, <3>2, <3>3 DEF Post
  <2>2. ASSUME NEW i \in Ids, Cancel(i) PROVE WordsSound'
    <3> DEFINE q == Without(queue[Thread(i)], i)
    <3>1. /\ frame = "idle" /\ frame' = "idle" /\ i \in ToSet(queue[Thread(i)])
          /\ queue' = [queue EXCEPT ![Thread(i)] = q]
          /\ status' = SetStatus({i}, "cancelled")
          /\ UNCHANGED <<word, nextId, lines, held, phase, gone, up, claimed>>
      BY <2>2 DEF Cancel, Serving
    <3>2. queue[Thread(i)] \in Seq(Ids) /\ IsInjective(queue[Thread(i)])
      BY <1>0, ThreadType DEF TypeOK, WordsSound, QueueSound
    <3>3. q \in Seq(Ids) /\ IsInjective(q) /\ ToSet(q) = ToSet(queue[Thread(i)]) \ {i}
      BY <3>2, WithoutElements
    <3>4. status'[i] # "pending" /\ \A j \in Ids \ {i} : status'[j] = status[j]
      BY <1>0, <3>1, SettleStatus
    <3> HIDE DEF q
    <3>5. QED BY <1>0, <3>1, <3>3, <3>4, TakeOutWords
  <2>3. ASSUME NEW t \in Threads, SteerDeclined(t) PROVE WordsSound'
    <3>1. /\ frame = "idle" /\ frame' = "idle"
          /\ UNCHANGED <<status, word, nextId, lines, queue, held, phase, claimed, gone, up>>
      BY <2>3 DEF SteerDeclined, Serving
    <3>2. QED BY <1>0, <1>b, <3>1, StillWords
  <2>4. ASSUME NEW t \in Threads, SwitchTask(t) PROVE WordsSound'
    <3>1. /\ frame = "idle" /\ frame' = "idle"
          /\ UNCHANGED <<status, word, nextId, lines, queue, held, phase, claimed, gone, up>>
      BY <2>4 DEF SwitchTask, Serving
    <3>2. QED BY <1>0, <1>b, <3>1, StillWords
  <2>5. ASSUME NEW t \in Threads, DeleteTask(t) PROVE WordsSound'
    <3> DEFINE S == {i \in Ids : i < nextId /\ Thread(i) = t}
    <3>1. /\ frame = "idle" /\ frame' = "idle" /\ up = "serving"
          /\ UNCHANGED <<word, nextId, lines, queue, held, phase, claimed, up>>
          /\ gone' = gone \cup {t} /\ status' = SetStatus(S, "absent")
      BY <2>5 DEF DeleteTask, Serving
    <3>2. \A i \in Ids : ~Folding(i) /\ ~Folding(i)' BY <3>1 DEF Folding
    <3>3. \A i \in Ids : /\ i \notin S => status'[i] = status[i]
                         /\ i \in S => status'[i] = "absent" /\ Thread(i) \in gone'
                         /\ status'[i] = "pending" => status[i] = "pending"
                         /\ i >= nextId => status'[i] = "absent"
      <4>1. \A i \in S : Thread(i) = t OBVIOUS
      <4> HIDE DEF S
      <4>2. QED BY <1>0, <3>1, <4>1, SettleStatus
    <3> HIDE DEF S
    <3>4. QED BY <1>0, <1>b, <3>1, <3>2, <3>3, CalmWords
  <2>6. ASSUME NEW s \in Steerers, NEW t \in Threads, HoldForSteer(s, t) PROVE WordsSound'
    BY <1>0, <2>6, HoldWords
  <2>7. ASSUME NEW s \in Steerers, SteerContinues(s) PROVE WordsSound'
    <3> DEFINE t == Thread(held[s][1])
               h == held[s][1]
    <3>1. /\ frame = "idle" /\ up = "serving" /\ Release(s) /\ phase[s] # "idle"
          /\ UNCHANGED <<word, nextId, lines, claimed, gone, up>>
          /\ SteerDelivered(s, t) \/ SteerLost(s, t) \/ SteerRefused(s, t)
      BY <2>7 DEF SteerContinues, Serving
    <3>2. held[s] \in Seq(Ids) /\ held[s] # <<>> /\ IsInjective(held[s])
      BY <1>0, <3>1 DEF TypeOK, WordsSound, HeldSound
    <3>3. h = Head(held[s]) BY <3>2
    <3>4. /\ Tail(held[s]) \in Seq(Ids) /\ h \in Ids
          /\ ToSet(held[s]) = {h} \cup ToSet(Tail(held[s]))
          /\ IsInjective(Tail(held[s])) /\ h \notin ToSet(Tail(held[s]))
      BY <3>2, <3>3, TailElements
    <3>5. ToSet(held[s]) \ ToSet(Tail(held[s])) = {h} BY <3>4
    <3>6. CASE SteerDelivered(s, t)
      <4>1. Requeue(t, Tail(held[s])) /\ frame' = "fold" /\ item' = h /\ status' = status
        BY <3>6 DEF SteerDelivered
      <4>2. \A i \in Ids : Folding(i)' <=> i = h BY <4>1 DEF Folding
      <4> HIDE DEF h
      <4>3. QED BY <1>0, <3>1, <3>4, <3>5, <4>1, <4>2, PutBackWords
    <3>7. CASE SteerLost(s, t)
      <4>1. /\ Requeue(t, Tail(held[s])) /\ UNCHANGED work /\ gone = Threads
            /\ status' = SetStatus({h}, "absent")
        BY <3>7 DEF SteerLost, RoomThere
      <4>2. \A i \in Ids : ~Folding(i)' BY <3>1, <4>1 DEF Folding
      <4>3. \A i \in Ids : /\ i # h => status'[i] = status[i]
                           /\ i = h => status'[i] # "pending"
        BY <1>0, <4>1, SettleStatus
      <4> HIDE DEF h
      <4>4. QED BY <1>0, <3>1, <3>4, <3>5, <4>1, <4>2, <4>3, PutBackWords
    <3>8. CASE SteerRefused(s, t)
      <4>1. Requeue(t, held[s]) /\ status' = status /\ frame' \in {"idle", "visit"}
        BY <3>1, <3>8 DEF SteerRefused, DrainAll
      <4>2. \A i \in Ids : ~Folding(i)' BY <4>1 DEF Folding
      <4> HIDE DEF h
      <4>3. QED BY <1>0, <3>1, <3>2, <4>1, <4>2, PutBackWords
    <3>9. QED BY <3>1, <3>6, <3>7, <3>8
  <2>8. CASE DeleteRoom
    <3>1. /\ frame = "idle" /\ frame' = "purge"
          /\ UNCHANGED <<status, word, nextId, lines, queue, held, phase, claimed, up>>
          /\ gone' = Threads
      BY <2>8 DEF DeleteRoom, Serving
    <3>2. \A i \in Ids : ~Folding(i) /\ ~Folding(i)' /\ Thread(i) \in gone'
      BY <1>0, <3>1, ThreadType DEF Folding
    <3>3. \A i \in Ids : i >= nextId => status[i] = "absent" BY <1>0 DEF WordsSound, JournalSound
    <3>4. gone \subseteq gone' BY <1>0, <3>1 DEF TypeOK
    <3>5. QED BY <1>0, <1>b, <3>1, <3>2, <3>3, <3>4, CalmWords
  <2>9. QED BY <1>2, <2>1, <2>2, <2>3, <2>4, <2>5, <2>6, <2>7, <2>8 DEF Requests
<1>3. CASE Handler
  <2>1. CASE DrainVisit
    <3> DEFINE t == Head(visit)
               i == Head(queue[t])
    <3>1. /\ frame = "visit" /\ visit # <<>> /\ (Skip \/ Claim)
          /\ UNCHANGED <<word, nextId, lines, gone, up, steers>>
      BY <2>1 DEF DrainVisit
    <3>2. CASE Skip BY <1>0, <1>b, <3>1, <3>2, StillWords DEF Skip
    <3>3. CASE Claim
      <4>1. /\ status' = SetStatus({i}, "dispatching") /\ frame' = "start"
            /\ queue' = [queue EXCEPT ![t] = Tail(@)]
            /\ claimed' = [claimed EXCEPT ![i] = Bump(@)]
        BY <3>3 DEF Claim
      <4>a. visit \in Seq(Threads) BY <1>0 DEF TypeOK
      <4>2. t \in ToSet(visit) /\ t \in Threads BY <3>1, <4>a, TailElements
      <4>3. queue[t] \in Seq(Ids) /\ queue[t] # <<>> /\ IsInjective(queue[t])
        BY <1>0, <3>1, <4>2 DEF CInv, WalkSound, TypeOK, WordsSound, QueueSound
      <4>4. /\ Tail(queue[t]) \in Seq(Ids) /\ i \in Ids /\ i \in ToSet(queue[t])
            /\ IsInjective(Tail(queue[t])) /\ ToSet(Tail(queue[t])) = ToSet(queue[t]) \ {i}
        BY <4>3, TailElements
      <4>5. Thread(i) = t BY <1>0, <4>2, <4>4 DEF WordsSound, QueueSound
      <4> HIDE DEF i
      <4>b. status' = SetStatus({i}, "dispatching") BY <4>1
      <4>6. status'[i] # "pending" /\ \A j \in Ids \ {i} : status'[j] = status[j]
        BY <1>0, <4>4, <4>b, SettleStatus
      <4>7. \A j \in Ids \ {i} : claimed'[j] = claimed[j] BY <1>0, <4>1 DEF TypeOK
      <4>8. queue' = [queue EXCEPT ![Thread(i)] = Tail(queue[t])] BY <4>1, <4>5
      <4> HIDE DEF t
      <4>9. i \in ToSet(queue[Thread(i)]) /\ ToSet(Tail(queue[t])) = ToSet(queue[Thread(i)]) \ {i}
        BY <4>4, <4>5
      <4>10. UNCHANGED <<held, phase>> /\ frame' \notin {"fold", "foldSettle"}
             /\ frame \notin {"fold", "foldSettle"}
        BY <3>1, <4>1
      <4>11. QED BY <1>0, <3>1, <4>4, <4>6, <4>7, <4>8, <4>9, <4>10, TakeOutWords
    <3>4. QED BY <3>1, <3>2, <3>3
  <2>2. CASE DrainStart
    <3>1. /\ frame = "start" /\ frame' = "visit" /\ item \in Ids
          /\ UNCHANGED <<status, word, nextId, queue, held, phase, claimed, gone, up>>
          /\ lines' = lines \/ lines' = [lines EXCEPT ![item] = Bump(@)]
      BY <1>0, <2>2 DEF DrainStart, StartGone, StartFollowup, TypeOK
    <3>2. item < nextId BY <1>0, <1>c, <3>1 DEF LaunchSound, Launched
    <3>3. \A i \in Ids : i >= nextId => lines'[i] = 0 BY <1>0, <1>a, <1>b, <3>1, <3>2 DEF TypeOK
    <3>4. QED BY <1>0, <3>1, <3>3, StillWords
  <2>3. CASE DrainEnds
    <3>1. /\ frame = "visit" /\ frame' \in {"visit", "idle", "settle"}
          /\ UNCHANGED <<status, word, nextId, lines, queue, held, phase, claimed, gone, up>>
      BY <2>3 DEF DrainEnds
    <3>2. QED BY <1>0, <1>b, <3>1, StillWords
  <2>4. CASE DrainSettle
    <3> DEFINE i == Head(settling)
    <3>1. /\ frame = "settle" /\ frame' \in {"idle", "settle"} /\ status' = SetStatus({i}, "absent")
          /\ UNCHANGED <<word, nextId, lines, queue, held, phase, claimed, gone, up>>
      BY <2>4 DEF DrainSettle
    <3>2. i \in ToSet(settling) /\ i \in Ids
      BY <1>0, <3>1, TailElements DEF ProcessSound, TypeOK
    <3>3. claimed[i] > 0 BY <1>0, <3>2 DEF LaunchSound, Launched
    <3>4. ~Waits(i) BY <1>c, <3>2, <3>3
    <3> HIDE DEF i
    <3>5. \A j \in Ids : ~Folding(j) /\ ~Folding(j)' BY <3>1 DEF Folding
    <3>6. \A j \in Ids : Waits(j)' => Waits(j)
      BY <3>1, <3>5 DEF Waits, InHold, Thread
    <3>7. up = "serving" BY <1>0, <3>1 DEF ProcessSound, TypeOK
    <3>8. QED BY <1>0, <1>b, <3>1, <3>4, <3>5, <3>6, <3>7, SettleStatus, CalmWords
  <2>5. CASE FoldAppend
    <3>1. /\ frame = "fold" /\ frame' = "foldSettle" /\ lines' = [lines EXCEPT ![item] = Bump(@)]
          /\ UNCHANGED <<status, word, nextId, queue, held, phase, claimed, gone, up, item>>
      BY <2>5 DEF FoldAppend
    <3>2. item \in Ids BY <1>0 DEF TypeOK
    <3>3. item < nextId BY <1>0, <3>1, <3>2 DEF WordsSound, FoldSound, Folding, Unclaimed
    <3>4. \A i \in Ids : Folding(i)' => Folding(i) /\ lines'[i] > 0
      BY <1>0, <3>1, <3>2, BumpType DEF Folding, TypeOK
    <3>5. \A i \in Ids : Folding(i) => Folding(i)' BY <3>1 DEF Folding
    <3>6. \A i \in Ids : i >= nextId => status'[i] = "absent" /\ lines'[i] = 0
      BY <1>0, <1>a, <1>b, <3>1, <3>2, <3>3 DEF WordsSound, JournalSound, TypeOK
    <3>7. up = "serving" BY <1>0, <3>1 DEF ProcessSound, TypeOK, BootFrames
    <3>8. QED BY <1>0, <3>1, <3>4, <3>5, <3>6, <3>7, CalmWords
  <2>6. CASE FoldSettle
    <3>1. /\ frame = "foldSettle" /\ frame' = "idle" /\ status' = SetStatus({item}, "absent")
          /\ UNCHANGED <<word, nextId, lines, queue, held, phase, claimed, gone, up, item>>
      BY <2>6 DEF FoldSettle
    <3>2. item \in Ids BY <1>0 DEF TypeOK
    <3>3. item \notin ToSet(queue[Thread(item)]) /\ ~InHold(item)
      BY <1>0, <3>1, <3>2 DEF WordsSound, FoldSound, Folding
    <3>4. \A i \in Ids : ~Folding(i)' /\ (Folding(i) => i = item) BY <3>1 DEF Folding
    <3>5. \A i \in Ids : Waits(i)' => i # item
      BY <3>1, <3>3, <3>4 DEF Waits, InHold, Thread
    <3>6. up = "serving" BY <1>0, <3>1 DEF ProcessSound, TypeOK, BootFrames
    <3>7. QED BY <1>0, <1>b, <3>1, <3>4, <3>5, <3>6, SettleStatus, CalmWords
  <2>7. CASE Purge
    <3>1. /\ frame = "purge" /\ frame' = "idle" /\ status' = [i \in Ids |-> "absent"]
          /\ UNCHANGED <<word, nextId, lines, queue, held, phase, claimed, gone, up>>
      BY <2>7 DEF Purge
    <3>2. \A i \in Ids : ~Folding(i)' /\ Thread(i) \in gone /\ status'[i] = "absent"
      BY <1>0, <3>1, ThreadType DEF Folding, ProcessSound
    <3>3. QED BY <1>0, <1>b, <3>1, <3>2, CalmWords
  <2>8. CASE Boot
    <3>1. /\ frame = "idle" /\ frame' = "mark" /\ up' = "booting"
          /\ UNCHANGED <<status, word, nextId, lines, queue, held, phase, claimed, gone>>
      BY <1>0, <2>8 DEF Boot, ProcessSound
    <3>2. \A i \in Ids : ~Folding(i) /\ ~Folding(i)' BY <3>1 DEF Folding
    <3>3. \A i \in Ids : i >= nextId => status[i] = "absent" BY <1>0 DEF WordsSound, JournalSound
    <3>4. QED BY <1>0, <1>b, <3>1, <3>2, <3>3, CalmWords
  <2>a. ASSUME frame \in {"mark", "recoverLine", "retire"}, UNCHANGED <<up, queue, held, phase, word>>
        PROVE  up' = "booting" /\ (frame' \notin {"fold", "foldSettle"} => \A i \in Ids : ~Waits(i)')
    <3>1. /\ up = "booting" /\ \A t \in Threads : queue[t] = <<>>
          /\ \A s \in Steerers : held[s] = <<>>
      BY <1>0, <2>a DEF ProcessSound, BootFrames, WordsSound, HeldSound, TypeOK
    <3>2. ToSet(<<>>) = {} BY DEF ToSet
    <3>3. ASSUME NEW i \in Ids, frame' \notin {"fold", "foldSettle"} PROVE ~Waits(i)'
      <4>1. Thread(i)' = Thread(i) /\ Thread(i) \in Threads BY <1>0, <2>a, ThreadType DEF Thread
      <4>2. queue'[Thread(i)] = <<>> /\ \A s \in Steerers : held'[s] = <<>> BY <2>a, <3>1, <4>1
      <4>3. QED BY <3>2, <3>3, <4>1, <4>2 DEF Waits, InHold, Folding
    <3>4. QED BY <2>a, <3>1, <3>3
  <2>9. CASE RecoverMark
    <3>1. PICK i \in Unfinished :
             IF Thread(i) \in gone
             THEN status' = [status EXCEPT ![i] = "cancelled"] /\ UNCHANGED <<frame, item>>
             ELSE /\ status' = [status EXCEPT ![i] = "interrupted"]
                  /\ frame' = "recoverLine" /\ item' = i
      BY <2>9 DEF RecoverMark
    <3>2. /\ frame = "mark" /\ frame' \in {"mark", "recoverLine"}
          /\ UNCHANGED <<word, nextId, lines, queue, held, phase, claimed, gone, up>>
      BY <2>9, <3>1 DEF RecoverMark
    <3>3. i \in Ids /\ status[i] # "absent" BY DEF Unfinished
    <3>4. i < nextId BY <1>0, <1>a, <3>3 DEF WordsSound, JournalSound
    <3>5. \A j \in Ids : /\ j # i => status'[j] = status[j]
                         /\ status'[i] # "pending"
      BY <1>0, <3>1, <3>3 DEF TypeOK
    <3>6. \A j \in Ids : /\ ~Folding(j)'
                         /\ status'[j] = "pending" => status[j] = "pending"
                         /\ j >= nextId => status'[j] = "absent"
      BY <1>0, <1>a, <3>2, <3>3, <3>4, <3>5 DEF Folding, WordsSound, JournalSound
    <3>7. QED BY <1>0, <1>b, <2>a, <3>2, <3>6, CalmWords
  <2>10. CASE RecoverLine
    <3>1. /\ frame = "recoverLine" /\ frame' = "retire"
          /\ lines' = lines \/ lines' = [lines EXCEPT ![item] = Bump(@)]
          /\ UNCHANGED <<status, word, nextId, queue, held, phase, claimed, gone, up>>
      BY <2>10 DEF RecoverLine
    <3>2. \A i \in Ids : i >= nextId => lines'[i] = 0
      BY <1>0, <1>a, <1>b, <3>1 DEF TypeOK, RecoverSound
    <3>3. QED BY <1>0, <3>1, <3>2, StillWords
  <2>11. CASE RecoverRetire
    <3>1. /\ frame = "retire" /\ frame' = "mark" /\ status' = [status EXCEPT ![item] = "absent"]
          /\ UNCHANGED <<word, nextId, lines, queue, held, phase, claimed, gone, up>>
      BY <2>11 DEF RecoverRetire
    <3>2. \A j \in Ids : /\ ~Folding(j)'
                         /\ status'[j] = "pending" => status[j] = "pending"
                         /\ j >= nextId => status'[j] = "absent"
      BY <1>0, <3>1 DEF Folding, WordsSound, JournalSound, TypeOK
    <3>3. QED BY <1>0, <1>b, <2>a, <3>1, <3>2, CalmWords
  <2>12. CASE RecoverEnds
    <3>1. /\ frame = "mark" /\ frame' = "restore"
          /\ UNCHANGED <<status, word, nextId, lines, queue, held, phase, claimed, gone, up>>
      BY <2>12 DEF RecoverEnds
    <3>2. QED BY <1>0, <1>b, <3>1, StillWords
  <2>13. CASE RestoreRow
    <3>1. PICK i \in Unrestored : queue' = [queue EXCEPT ![Thread(i)] = Append(@, i)]
      BY <2>13 DEF RestoreRow
    <3>2. /\ frame = "restore" /\ frame' = "restore"
          /\ UNCHANGED <<status, word, nextId, lines, held, phase, claimed, gone, up>>
      BY <2>13 DEF RestoreRow
    <3>3. i \in Ids /\ status[i] = "pending" /\ i \notin ToSet(queue[Thread(i)]) BY DEF Unrestored
    <3>4. claimed[i] = 0 /\ i < nextId BY <1>0, <1>a, <3>3 DEF WordsSound, JournalSound
    <3>5. \A t \in Threads : i \notin ToSet(queue[t])
      BY <1>0, <3>3 DEF WordsSound, QueueSound
    <3>6. ~InHold(i)
      <4>1. \A s \in Steerers : held[s] = <<>>
        BY <1>0, <3>2 DEF ProcessSound, BootFrames, WordsSound, HeldSound
      <4>2. QED BY <4>1 DEF InHold, ToSet
    <3>7. Thread(i)' = Thread(i) BY <3>2 DEF Thread
    <3>8. nextId' >= nextId /\ i < nextId' BY <1>a, <3>2, <3>4
    <3>9. QED BY <1>0, <3>1, <3>2, <3>3, <3>4, <3>5, <3>6, <3>7, <3>8, PutInWords
  <2>14. CASE Listen
    <3>1. /\ frame = "restore" /\ frame' = "visit" /\ Unrestored = {}
          /\ UNCHANGED <<status, word, nextId, lines, queue, held, phase, claimed, gone>>
      BY <2>14 DEF Listen, DrainAll
    <3>2. \A i \in Ids : ~Folding(i) /\ ~Folding(i)' BY <3>1 DEF Folding
    <3>3. \A i \in Ids : i >= nextId => status[i] = "absent" BY <1>0 DEF WordsSound, JournalSound
    <3>4. \A i \in Ids : status[i] = "pending" => i \in ToSet(queue[Thread(i)])
      BY <3>1 DEF Unrestored
    <3>5. QED BY <1>0, <1>b, <3>1, <3>2, <3>3, <3>4, CalmWords
  <2>15. QED BY <1>3, <2>1, <2>2, <2>3, <2>4, <2>5, <2>6, <2>7, <2>8, <2>9, <2>10, <2>11,
                <2>12, <2>13, <2>14 DEF Handler
<1>4. CASE Room
  <2>1. ASSUME UNCHANGED <<status, word, nextId, lines, queue, held, claimed, gone, up>>,
               \A s \in Steerers : phase'[s] = "idle" <=> phase[s] = "idle",
               Serving, frame' \in {"idle", "visit"}
        PROVE  WordsSound'
    BY <1>0, <1>b, <2>1, StillWords DEF Serving
  <2>2. ASSUME NEW t \in Threads, OtherOperation(t) PROVE WordsSound'
    BY <2>1, <2>2 DEF OtherOperation, Serving
  <2>3. ASSUME NEW t \in Threads, OwnershipReleased(t) PROVE WordsSound'
    <3>1. \A s \in Steerers : phase'[s] = "idle" <=> phase[s] = "idle"
      BY <1>0, <2>3, EndSteersType DEF OwnershipReleased
    <3>2. QED BY <2>1, <2>3, <3>1 DEF OwnershipReleased, Serving
  <2>4. ASSUME NEW b \in Bots, MemberSpeaks(b) PROVE WordsSound'
    BY <2>1, <2>4 DEF MemberSpeaks, Serving
  <2>5. CASE MemberTurnEnds
    <3>1. \A s \in Steerers : phase'[s] = "idle" <=> phase[s] = "idle"
      BY <1>0, <2>5, EndSteersType DEF MemberTurnEnds
    <3>2. QED BY <2>1, <2>5, <3>1 DEF MemberTurnEnds, Serving
  <2>6. CASE OperationFinished
    BY <2>1, <2>6 DEF OperationFinished, Finish, DrainAll
  <2>7. CASE MemberTurnAbandoned
    BY <2>1, <2>7 DEF MemberTurnAbandoned, Finish, DrainAll
  <2>8. ASSUME NEW s \in Steerers, EngineTakes(s) \/ EngineAnswers(s) PROVE WordsSound'
    <3>1. /\ UNCHANGED <<status, word, nextId, lines, queue, held, claimed, gone, up, frame>>
          /\ phase[s] \in {"asked", "late", "taken"} /\ Serving
          /\ \E p \in {"taken", "steered", "refused", "indeterminate"} : phase' = [phase EXCEPT ![s] = p]
      BY <2>8 DEF EngineTakes, EngineAnswers
    <3>2. \A r \in Steerers : phase'[r] = "idle" <=> phase[r] = "idle" BY <1>0, <3>1 DEF TypeOK
    <3>3. QED BY <2>1, <3>1, <3>2 DEF Serving
  <2>9. QED BY <1>4, <2>2, <2>3, <2>4, <2>5, <2>6, <2>7, <2>8 DEF Room
<1>5. CASE Crash
  <2>1. /\ UNCHANGED <<status, word, nextId, lines, gone, claimed>>
        /\ up' = "down" /\ frame' = "idle"
        /\ \A t \in Threads : queue'[t] = <<>>
        /\ \A s \in Steerers : held'[s] = <<>> /\ phase'[s] = "idle"
    BY <1>5 DEF Crash
  <2>2. ToSet(<<>>) = {} /\ IsInjective(<<>>) BY DEF ToSet, IsInjective
  <2>3. QueueSound' /\ HeldSound' BY <2>1, <2>2 DEF QueueSound, HeldSound
  <2>4. FoldSound' BY <2>1 DEF FoldSound, Folding
  <2>5. JournalSound' BY <1>0, <2>1 DEF WordsSound, JournalSound
  <2>6. QED BY <2>3, <2>4, <2>5 DEF WordsSound
<1>6. QED BY <1>1, <1>2, <1>3, <1>4, <1>5 DEF Next

-----------------------------------------------------------------------------
(* The order of the map's keys, and the walk of a drain along it *)

(* A queue that gets words has its place in the line, one that loses its   *)
(* last word loses it.                                                     *)
LEMMA LineStep ==
  ASSUME TypeOK, LineSound, NEW t \in Threads, NEW q \in Seq(Ids),
         queue' = [queue EXCEPT ![t] = q],
         \/ q # <<>> /\ line' = InLine(t)
         \/ q = <<>> /\ line' = Without(line, t)
         \/ q # <<>> /\ queue[t] # <<>> /\ line' = line
  PROVE  LineSound'
<1>1. line \in Seq(Threads) /\ IsInjective(line) /\ ToSet(line) = {u \in Threads : queue[u] # <<>>}
  BY DEF TypeOK, LineSound
<1>2. queue'[t] = q /\ \A u \in Threads \ {t} : queue'[u] = queue[u] BY DEF TypeOK
<1>3. CASE q # <<>> /\ line' = InLine(t)
  <2>1. IsInjective(line') /\ ToSet(line') = ToSet(line) \cup {t} BY <1>1, <1>3, InLineElements
  <2>2. {u \in Threads : queue'[u] # <<>>} = ToSet(line) \cup {t} BY <1>1, <1>2, <1>3
  <2>3. QED BY <2>1, <2>2 DEF LineSound
<1>4. CASE q = <<>> /\ line' = Without(line, t)
  <2>1. IsInjective(line') /\ ToSet(line') = ToSet(line) \ {t} BY <1>1, <1>4, WithoutElements
  <2>2. {u \in Threads : queue'[u] # <<>>} = ToSet(line) \ {t} BY <1>1, <1>2, <1>4
  <2>3. QED BY <2>1, <2>2 DEF LineSound
<1>5. CASE q # <<>> /\ queue[t] # <<>> /\ line' = line
  <2>1. {u \in Threads : queue'[u] # <<>>} = ToSet(line) BY <1>1, <1>2, <1>5
  <2>2. QED BY <1>1, <1>5, <2>1 DEF LineSound
<1>6. QED BY <1>3, <1>4, <1>5

(* What a hold puts back keeps the line.                                   *)
LEMMA RequeueLine ==
  ASSUME TypeOK, LineSound, NEW t \in Threads, NEW q \in Seq(Ids), Requeue(t, q)
  PROVE  LineSound'
<1>1. CASE q = <<>> BY <1>1 DEF Requeue, LineSound, waiting
<1>2. CASE q # <<>>
  <2>1. queue' = [queue EXCEPT ![t] = q \o queue[t]] /\ line' = InLine(t) BY <1>2 DEF Requeue
  <2>2. q \o queue[t] \in Seq(Ids) /\ q \o queue[t] # <<>>
    <3>1. queue[t] \in Seq(Ids) BY DEF TypeOK
    <3>2. QED BY <1>2, <3>1
  <2>3. QED BY <2>1, <2>2, LineStep
<1>3. QED BY <1>1, <1>2

(* Every step keeps the line: it holds each waiting thread once.           *)
LEMMA NextLine ==
  ASSUME CInv, [Next]_vars, TypeOK'
  PROVE  LineSound'
<1> USE DEF vars, disk, journal, work, waiting, turns, steers, bounds, history
<1>0. TypeOK /\ WordsSound /\ LineSound /\ WalkSound BY DEF CInv
<1>1. ASSUME UNCHANGED <<queue, line>> PROVE LineSound' BY <1>0, <1>1 DEF LineSound
<1>2. CASE Requests
  <2>1. ASSUME NEW w \in Words, Post(w) PROVE LineSound'
    <3>1. CASE Enqueue(w)
      <4>1. Home[w] \in Threads /\ nextId \in Ids
        BY <1>0, <3>1, ChannelQueueAssumption DEF Enqueue, TypeOK, Ids
      <4>2. queue[Home[w]] \in Seq(Ids) BY <1>0, <4>1 DEF TypeOK
      <4>3. Append(queue[Home[w]], nextId) \in Seq(Ids) /\ Append(queue[Home[w]], nextId) # <<>>
        BY <4>1, <4>2
      <4>4. /\ queue' = [queue EXCEPT ![Home[w]] = Append(queue[Home[w]], nextId)]
            /\ line' = InLine(Home[w])
        BY <3>1 DEF Enqueue
      <4>5. QED BY <1>0, <4>1, <4>3, <4>4, LineStep
    <3>2. CASE StartNow(w) BY <1>1, <3>2 DEF StartNow
    <3>3. QED BY <2>1, <3>1, <3>2 DEF Post
  <2>2. ASSUME NEW i \in Ids, Cancel(i) PROVE LineSound'
    <3>1. PICK t \in Threads : t = Thread(i) BY <1>0, ThreadType
    <3>2. queue[t] \in Seq(Ids) /\ i \in ToSet(queue[t]) /\ IsInjective(queue[t])
      BY <1>0, <2>2, <3>1 DEF Cancel, TypeOK, WordsSound, QueueSound
    <3>3. PICK q \in Seq(Ids) : q = Without(queue[t], i) BY <3>2, WithoutElements
    <3>4. ToSet(q) = ToSet(queue[t]) \ {i} BY <3>2, <3>3, WithoutElements
    <3>5. q = <<>> <=> Len(queue[t]) = 1
      <4>2. PICK k \in 1..Len(queue[t]) : queue[t][k] = i BY <3>2 DEF ToSet
      <4>3. q = <<>> <=> ToSet(q) = {} BY <3>3, ToSetType
      <4>4. ASSUME Len(queue[t]) = 1 PROVE ToSet(q) = {}
        <5>1. ToSet(queue[t]) = {queue[t][1]} BY <3>2, <4>4 DEF ToSet
        <5>2. QED BY <5>1, <3>2, <3>4
      <4>5. ASSUME Len(queue[t]) # 1 PROVE ToSet(q) # {}
        <5>1. PICK m \in 1..Len(queue[t]) : m # k
          <6>1. 1 \in 1..Len(queue[t]) /\ Len(queue[t]) \in 1..Len(queue[t]) BY <3>2, <4>2
          <6>2. QED BY <6>1, <4>5
        <5>2. queue[t][m] # i BY <3>2, <4>2, <5>1 DEF IsInjective
        <5>3. queue[t][m] \in ToSet(queue[t]) BY <3>2, <5>1 DEF ToSet
        <5>4. QED BY <5>2, <5>3, <3>4
      <4>6. QED BY <4>3, <4>4, <4>5
    <3>6. queue[t] # <<>> BY <3>2 DEF ToSet
    <3>7. /\ queue' = [queue EXCEPT ![t] = q]
          /\ line' = IF Len(queue[t]) = 1 THEN Without(line, t) ELSE line
      BY <2>2, <3>1, <3>3 DEF Cancel
    <3>8. QED BY <1>0, <3>5, <3>6, <3>7, LineStep
  <2>3. ASSUME NEW t \in Threads, SteerDeclined(t) PROVE LineSound'
    <3>1. /\ queue' = queue /\ queue[t] # <<>> /\ line' = Append(Without(line, t), t)
          /\ line \in Seq(Threads) /\ IsInjective(line) /\ t \in ToSet(line)
      BY <1>0, <2>3 DEF SteerDeclined, TypeOK, LineSound
    <3>2. PICK l \in Seq(Threads) : l = Without(line, t) BY <3>1, WithoutElements
    <3>3. IsInjective(l) /\ ToSet(l) = ToSet(line) \ {t} BY <3>1, <3>2, WithoutElements
    <3>4. IsInjective(Append(l, t)) /\ ToSet(Append(l, t)) = ToSet(line)
      <4>1. ToSet(Append(l, t)) = ToSet(l) \cup {t} BY AppendElements
      <4>2. t \notin ToSet(l) BY <3>3
      <4>3. QED BY <3>1, <3>3, <4>1, <4>2, AppendElements
    <3>5. QED BY <1>0, <3>1, <3>2, <3>4 DEF LineSound
  <2>4. ASSUME NEW t \in Threads, SwitchTask(t) \/ DeleteTask(t) PROVE LineSound'
    BY <1>1, <2>4 DEF SwitchTask, DeleteTask
  <2>5. ASSUME NEW s \in Steerers, NEW t \in Threads, HoldForSteer(s, t) PROVE LineSound'
    <3>1. queue' = [queue EXCEPT ![t] = <<>>] /\ line' = Without(line, t) BY <2>5 DEF HoldForSteer
    <3>2. <<>> \in Seq(Ids) OBVIOUS
    <3>3. QED BY <1>0, <3>1, <3>2, LineStep
  <2>6. ASSUME NEW s \in Steerers, SteerContinues(s) PROVE LineSound'
    <3>1. PICK t : /\ t = Thread(held[s][1])
                   /\ SteerDelivered(s, t) \/ SteerLost(s, t) \/ SteerRefused(s, t)
      BY <2>6 DEF SteerContinues
    <3>2. held[s] \in Seq(Ids) /\ held[s] # <<>>
      BY <1>0, <2>6 DEF SteerContinues, TypeOK, WordsSound, HeldSound
    <3>3. held[s][1] \in Ids /\ Tail(held[s]) \in Seq(Ids) BY <3>2
    <3>4. t \in Threads BY <1>0, <3>1, <3>3, ThreadType
    <3>5. Requeue(t, held[s]) \/ Requeue(t, Tail(held[s]))
      BY <3>1 DEF SteerDelivered, SteerLost, SteerRefused
    <3>6. QED BY <1>0, <3>2, <3>3, <3>4, <3>5, RequeueLine
  <2>7. CASE DeleteRoom BY <1>1, <2>7 DEF DeleteRoom
  <2>8. QED BY <1>2, <2>1, <2>2, <2>3, <2>4, <2>5, <2>6, <2>7 DEF Requests
<1>3. CASE Handler
  <2>1. CASE DrainVisit
    <3>1. CASE Skip BY <1>1, <3>1 DEF Skip
    <3>2. CASE Claim
      <4>1. visit \in Seq(Threads) /\ visit # <<>> BY <1>0, <2>1 DEF TypeOK, DrainVisit
      <4>2. PICK t \in Threads : t = Head(visit) BY <4>1, TailElements
      <4>3. t \in ToSet(visit) BY <4>1, <4>2, TailElements
      <4>4. queue[t] \in Seq(Ids) /\ queue[t] # <<>>
        BY <1>0, <2>1, <4>2, <4>3 DEF TypeOK, WalkSound, DrainVisit
      <4>5. /\ queue' = [queue EXCEPT ![t] = Tail(queue[t])]
            /\ line' = IF Len(queue[t]) = 1 THEN Without(line, t) ELSE line
        BY <3>2, <4>2 DEF Claim
      <4>6. Tail(queue[t]) \in Seq(Ids) /\ (Tail(queue[t]) = <<>> <=> Len(queue[t]) = 1)
        BY <4>4, TailElements
      <4>7. QED BY <1>0, <4>4, <4>5, <4>6, LineStep
    <3>3. QED BY <2>1, <3>1, <3>2 DEF DrainVisit
  <2>2. CASE RestoreRow
    <3>1. PICK i \in Unrestored : /\ queue' = [queue EXCEPT ![Thread(i)] = Append(@, i)]
                                  /\ line' = InLine(Thread(i))
      BY <2>2 DEF RestoreRow
    <3>2. i \in Ids BY DEF Unrestored
    <3>3. PICK t \in Threads : t = Thread(i) BY <1>0, <3>2, ThreadType
    <3>4. queue[t] \in Seq(Ids) BY <1>0 DEF TypeOK
    <3>5. Append(queue[t], i) \in Seq(Ids) /\ Append(queue[t], i) # <<>> BY <3>2, <3>4
    <3>6. queue' = [queue EXCEPT ![t] = Append(queue[t], i)] /\ line' = InLine(t) BY <3>1, <3>3
    <3>7. QED BY <1>0, <3>5, <3>6, LineStep
  <2>3. CASE DrainStart \/ DrainEnds \/ DrainSettle \/ FoldAppend \/ FoldSettle \/ Purge
    BY <1>1, <2>3 DEF DrainStart, DrainEnds, DrainSettle, FoldAppend, FoldSettle, Purge
  <2>4. CASE Boot \/ RecoverMark \/ RecoverLine \/ RecoverRetire \/ RecoverEnds \/ Listen
    BY <1>1, <2>4 DEF Boot, RecoverMark, RecoverLine, RecoverRetire, RecoverEnds, Listen
  <2>5. QED BY <1>3, <2>1, <2>2, <2>3, <2>4 DEF Handler
<1>4. CASE Room
  <2>1. ASSUME NEW t \in Threads, OtherOperation(t) \/ OwnershipReleased(t) PROVE LineSound'
    BY <1>1, <2>1 DEF OtherOperation, OwnershipReleased
  <2>2. ASSUME NEW b \in Bots, MemberSpeaks(b) PROVE LineSound' BY <1>1, <2>2 DEF MemberSpeaks
  <2>3. CASE MemberTurnEnds \/ OperationFinished \/ MemberTurnAbandoned
    BY <1>1, <2>3 DEF MemberTurnEnds, OperationFinished, MemberTurnAbandoned, Finish
  <2>4. ASSUME NEW s \in Steerers, EngineTakes(s) \/ EngineAnswers(s) PROVE LineSound'
    BY <1>1, <2>4 DEF EngineTakes, EngineAnswers
  <2>5. QED BY <1>4, <2>1, <2>2, <2>3, <2>4 DEF Room
<1>5. CASE Crash
  <2>1. line' = <<>> /\ \A t \in Threads : queue'[t] = <<>> BY <1>5 DEF Crash
  <2>2. ToSet(<<>>) = {} /\ IsInjective(<<>>) BY DEF ToSet, IsInjective
  <2>3. {t \in Threads : queue'[t] # <<>>} = {} BY <2>1
  <2>4. QED BY <2>1, <2>2, <2>3 DEF LineSound
<1>6. QED BY <1>1, <1>2, <1>3, <1>4, <1>5 DEF Next

(* Every step keeps the walk: the threads a drain has yet to visit wait,   *)
(* and it visits none twice.                                               *)
LEMMA NextWalk ==
  ASSUME CInv, [Next]_vars, TypeOK', LineSound'
  PROVE  WalkSound'
<1> USE DEF vars, disk, journal, work, waiting, turns, steers, bounds, history
<1>0. TypeOK /\ ProcessSound /\ WordsSound /\ WalkSound BY DEF CInv
<1>1. ASSUME frame' \notin {"visit", "start"} PROVE WalkSound' BY <1>1 DEF WalkSound
<1>2. ASSUME visit' = line' PROVE WalkSound' BY <1>2 DEF LineSound, WalkSound
<1>3. ASSUME UNCHANGED <<visit, queue>>, frame \in {"visit", "start"} PROVE WalkSound'
  BY <1>0, <1>3 DEF WalkSound
<1>4. CASE UNCHANGED vars BY <1>0, <1>4 DEF WalkSound
<1>5. CASE Requests
  <2>1. ASSUME NEW s \in Steerers, SteerContinues(s) PROVE WalkSound'
    <3>1. frame' \in {"idle", "fold"} \/ visit' = line'
      BY <2>1 DEF SteerContinues, SteerDelivered, SteerLost, SteerRefused, DrainAll, Serving
    <3>2. QED BY <1>1, <1>2, <3>1
  <2>2. ASSUME Serving, frame' = frame PROVE WalkSound' BY <1>1, <2>2 DEF Serving
  <2>3. ASSUME NEW t \in Threads, SteerDeclined(t) \/ SwitchTask(t) \/ DeleteTask(t)
        PROVE  WalkSound'
    BY <2>2, <2>3 DEF SteerDeclined, SwitchTask, DeleteTask
  <2>4. ASSUME NEW s \in Steerers, NEW t \in Threads, HoldForSteer(s, t) PROVE WalkSound'
    BY <2>2, <2>4 DEF HoldForSteer
  <2>5. ASSUME NEW w \in Words, Post(w) PROVE WalkSound' BY <2>2, <2>5 DEF Post
  <2>6. ASSUME NEW i \in Ids, Cancel(i) PROVE WalkSound' BY <2>2, <2>6 DEF Cancel
  <2>7. CASE DeleteRoom BY <1>1, <2>7 DEF DeleteRoom
  <2>8. QED BY <1>5, <2>1, <2>3, <2>4, <2>5, <2>6, <2>7 DEF Requests
<1>6. CASE Handler
  <2>1. CASE DrainVisit
    <3>1. /\ visit \in Seq(Threads) /\ visit # <<>> /\ IsInjective(visit)
          /\ \A t \in ToSet(visit) : queue[t] # <<>>
      BY <1>0, <2>1 DEF TypeOK, DrainVisit, WalkSound
    <3>2. PICK t \in Threads : t = Head(visit) BY <3>1, TailElements
    <3>3. /\ ToSet(visit) = {t} \cup ToSet(Tail(visit)) /\ ToSet(visit) \subseteq Threads
          /\ IsInjective(Tail(visit)) /\ t \notin ToSet(Tail(visit))
      BY <3>1, <3>2, TailElements, ToSetType
    <3>4. CASE Skip
      <4>1. visit' = Tail(visit) /\ queue' = queue BY <3>4 DEF Skip
      <4>2. QED BY <3>1, <3>3, <4>1 DEF WalkSound
    <3>5. CASE Claim
      <4>1. visit' = Tail(visit) /\ queue' = [queue EXCEPT ![t] = Tail(@)]
        BY <3>2, <3>5 DEF Claim
      <4>2. \A u \in Threads \ {t} : queue'[u] = queue[u] BY <1>0, <4>1 DEF TypeOK
      <4>3. QED BY <3>1, <3>3, <4>1, <4>2 DEF WalkSound
    <3>6. QED BY <2>1, <3>4, <3>5 DEF DrainVisit
  <2>2. CASE DrainStart BY <1>3, <2>2 DEF DrainStart
  <2>3. CASE DrainEnds
    <3>1. visit' = line' \/ frame' \notin {"visit", "start"} BY <2>3 DEF DrainEnds
    <3>2. QED BY <1>1, <1>2, <3>1
  <2>4. CASE DrainSettle BY <1>1, <2>4 DEF DrainSettle
  <2>5. CASE FoldAppend \/ FoldSettle \/ Purge
    BY <1>1, <2>5 DEF FoldAppend, FoldSettle, Purge
  <2>6. CASE Boot \/ RecoverMark \/ RecoverLine \/ RecoverRetire \/ RecoverEnds \/ RestoreRow
    BY <1>1, <2>6 DEF Boot, RecoverMark, RecoverLine, RecoverRetire, RecoverEnds, RestoreRow
  <2>7. CASE Listen BY <1>2, <2>7 DEF Listen, DrainAll
  <2>8. QED BY <1>6, <2>1, <2>2, <2>3, <2>4, <2>5, <2>6, <2>7 DEF Handler
<1>7. CASE Room
  <2>1. ASSUME Serving, frame' = frame PROVE WalkSound' BY <1>1, <2>1 DEF Serving
  <2>2. ASSUME NEW t \in Threads, OtherOperation(t) \/ OwnershipReleased(t) PROVE WalkSound'
    BY <2>1, <2>2 DEF OtherOperation, OwnershipReleased
  <2>3. ASSUME NEW b \in Bots, MemberSpeaks(b) PROVE WalkSound' BY <2>1, <2>3 DEF MemberSpeaks
  <2>4. CASE MemberTurnEnds BY <2>1, <2>4 DEF MemberTurnEnds
  <2>5. CASE OperationFinished \/ MemberTurnAbandoned
    BY <1>2, <2>5 DEF OperationFinished, MemberTurnAbandoned, Finish, DrainAll
  <2>6. ASSUME NEW s \in Steerers, EngineTakes(s) \/ EngineAnswers(s) PROVE WalkSound'
    BY <2>1, <2>6 DEF EngineTakes, EngineAnswers
  <2>7. QED BY <1>7, <2>2, <2>3, <2>4, <2>5, <2>6 DEF Room
<1>8. CASE Crash BY <1>1, <1>8 DEF Crash
<1>9. QED BY <1>4, <1>5, <1>6, <1>7, <1>8 DEF Next

-----------------------------------------------------------------------------
(* What was claimed *)

(* The operations in line after one more has begun.                        *)
LEMMA BeginOps ==
  ASSUME TypeOK, NEW op, Begin(op), NEW k \in DOMAIN ops'
  PROVE  \/ k \in DOMAIN ops /\ ops'[k] = ops[k]
         \/ k = Len(ops) + 1 /\ ops'[k] = op
BY DEF TypeOK, Begin

(* The operations in line after the first of them has finished.            *)
LEMMA TailOps ==
  ASSUME TypeOK, ops # <<>>, ops' = Tail(ops), NEW k \in DOMAIN ops'
  PROVE  k + 1 \in DOMAIN ops /\ ops'[k] = ops[k + 1] /\ k \in Nat
BY DEF TypeOK

(* A step that launches nothing new keeps what is known of what was.       *)
LEMMA LaunchStep ==
  ASSUME TypeOK, TypeOK', LaunchSound, gone \subseteq gone',
         frame' = "start" => Thread(item)' \in gone' \/ ops' = <<>>,
         \A i \in Ids : Launched(i)' =>
           /\ Launched(i) /\ word'[i] = word[i] /\ claimed'[i] = claimed[i]
           /\ status'[i] \in {status[i], "absent"}
           /\ lines'[i] > 0 \/ lines'[i] = lines[i]
           /\ frame = "start" /\ item = i =>
                (frame' = "start" /\ item' = i) \/ lines'[i] > 0 \/ Thread(i) \in gone
  PROVE  LaunchSound'
<1>1. SUFFICES ASSUME NEW i \in Ids, Launched(i)'
               PROVE  /\ claimed'[i] > 0 /\ status'[i] \in {"dispatching", "absent"}
                      /\ Thread(i)' \in gone' \/ (frame' = "start" /\ item' = i) \/ lines'[i] > 0
  BY DEF LaunchSound
<1>2. Thread(i)' = Thread(i) BY <1>1 DEF Thread
<1>3. /\ claimed[i] > 0 /\ status[i] \in {"dispatching", "absent"}
      /\ Thread(i) \in gone \/ (frame = "start" /\ item = i) \/ lines[i] > 0
  BY <1>1 DEF LaunchSound
<1>4. QED BY <1>1, <1>2, <1>3

(* Every step keeps it: an id that was claimed is neither claimed again    *)
(* nor back in a queue, its line is in the transcript, and a follow-up     *)
(* starts only where no operation is in line.                              *)
LEMMA NextLaunch ==
  ASSUME CInv, [Next]_vars, TypeOK', ProcessSound'
  PROVE  LaunchSound'
<1> USE DEF vars, disk, journal, work, waiting, turns, steers, bounds, history
<1>0. TypeOK /\ ProcessSound /\ WordsSound /\ WalkSound /\ LaunchSound BY DEF CInv
<1>a. nextId \in Nat /\ Ids \subseteq Nat \ {0} BY <1>0, ChannelQueueAssumption DEF TypeOK, Ids
<1>b. \A i \in Ids : claimed[i] > 0 => i < nextId /\ status[i] # "pending"
  BY <1>0, <1>a DEF WordsSound, JournalSound
<1>c. \A i \in Ids : Launched(i) => claimed[i] > 0 BY <1>0 DEF LaunchSound
<1>1. ASSUME up' # "serving" PROVE LaunchSound'
  <2>1. settling' = <<>> /\ ops' = <<>> /\ frame' # "start"
    BY <1>0, <1>1 DEF ProcessSound, BootFrames, TypeOK
  <2>2. \A i \in Ids : ~Launched(i)' BY <2>1 DEF Launched, ToSet
  <2>3. QED BY <2>1, <2>2 DEF LaunchSound
<1>2. ASSUME UNCHANGED <<word, settling, ops, claimed, gone>>,
             UNCHANGED <<frame, item>> \/ (frame # "start" /\ frame' # "start"),
             \A i \in Ids : Launched(i) =>
                /\ status'[i] \in {status[i], "absent"}
                /\ lines'[i] > 0 \/ lines'[i] = lines[i]
      PROVE  LaunchSound'
  <2>1. \A i \in Ids : Launched(i)' => Launched(i) BY <1>2 DEF Launched
  <2>2. frame' = "start" => Thread(item)' \in gone' \/ ops' = <<>>
    BY <1>0, <1>2 DEF LaunchSound, Thread
  <2>3. QED BY <1>0, <1>2, <2>1, <2>2, LaunchStep
<1>3. CASE UNCHANGED vars BY <1>2, <1>3
<1>4. CASE Requests
  <2>1. ASSUME NEW w \in Words, Post(w) PROVE LaunchSound'
    <3>1. frame = "idle" /\ UNCHANGED <<gone, up, work, steers, history>>
      BY <2>1 DEF Post, Serving
    <3>2. CASE Enqueue(w)
      <4>1. /\ status' = [status EXCEPT ![nextId] = "pending"] /\ UNCHANGED <<ops, lines>>
            /\ word' = [word EXCEPT ![nextId] = w]
        BY <3>2 DEF Enqueue
      <4>2. \A i \in Ids : Launched(i)' => Launched(i) BY <3>1, <4>1 DEF Launched
      <4>3. \A i \in Ids : Launched(i) => status'[i] = status[i] /\ word'[i] = word[i]
        BY <1>0, <1>a, <1>b, <1>c, <4>1 DEF TypeOK
      <4>4. QED BY <1>0, <3>1, <4>1, <4>2, <4>3, LaunchStep
    <3>3. CASE StartNow(w)
      <4> DEFINE op == [thread |-> Home[w], id |-> 0, person |-> TRUE]
      <4>1. UNCHANGED <<status, word, lines>> /\ (Begin(op) \/ UNCHANGED ops)
        BY <3>3 DEF StartNow
      <4>2. op.id = 0 OBVIOUS
      <4> HIDE DEF op
      <4>3. \A i \in Ids : Launched(i)' => Launched(i)
        BY <1>0, <1>a, <3>1, <4>1, <4>2, BeginOps DEF Launched
      <4>4. QED BY <1>0, <3>1, <4>1, <4>3, LaunchStep
    <3>4. QED BY <2>1, <3>2, <3>3 DEF Post
  <2>2. ASSUME NEW i \in Ids, Cancel(i) PROVE LaunchSound'
    <3>1. claimed[i] = 0 BY <1>0, <2>2, ThreadType DEF Cancel, WordsSound, QueueSound, Unclaimed
    <3>2. \A j \in Ids : Launched(j) => j # i BY <1>c, <3>1
    <3>3. status' = SetStatus({i}, "cancelled") /\ UNCHANGED <<word, lines, up, gone, work, ops, claimed>>
      BY <2>2 DEF Cancel
    <3>4. \A j \in Ids : Launched(j) => status'[j] = status[j]
      BY <1>0, <3>2, <3>3, SettleStatus
    <3>5. QED BY <1>2, <3>3, <3>4
  <2>3. ASSUME NEW t \in Threads, SteerDeclined(t) \/ SwitchTask(t) PROVE LaunchSound'
    BY <1>2, <2>3 DEF SteerDeclined, SwitchTask
  <2>4. ASSUME NEW t \in Threads, DeleteTask(t) PROVE LaunchSound'
    <3>1. PICK S : status' = SetStatus(S, "absent") BY <2>4 DEF DeleteTask
    <3>2. /\ frame = "idle" /\ gone \subseteq gone'
          /\ UNCHANGED <<word, lines, claimed, frame, item, settling, ops>>
      BY <2>4 DEF DeleteTask, Serving
    <3>3. \A i \in Ids : status'[i] \in {status[i], "absent"} BY <1>0, <3>1, SettleStatus
    <3>4. \A i \in Ids : Launched(i)' => Launched(i) BY <3>2 DEF Launched
    <3>5. QED BY <1>0, <3>2, <3>3, <3>4, LaunchStep
  <2>5. ASSUME NEW s \in Steerers, NEW t \in Threads, HoldForSteer(s, t) PROVE LaunchSound'
    BY <1>2, <2>5 DEF HoldForSteer
  <2>6. ASSUME NEW s \in Steerers, SteerContinues(s) PROVE LaunchSound'
    <3>1. /\ frame = "idle" /\ frame' # "start"
          /\ UNCHANGED <<word, settling, ops, claimed, gone, lines>>
          /\ status' = status \/ status' = SetStatus({held[s][1]}, "absent")
      BY <2>6 DEF SteerContinues, SteerDelivered, SteerLost, SteerRefused, DrainAll, Serving
    <3>2. \A i \in Ids : status'[i] \in {status[i], "absent"} BY <1>0, <3>1, SettleStatus
    <3>3. QED BY <1>2, <3>1, <3>2
  <2>7. CASE DeleteRoom
    <3>1. /\ frame = "idle" /\ frame' = "purge" /\ gone \subseteq gone'
          /\ UNCHANGED <<status, word, lines, claimed, settling, ops>>
      BY <1>0, <2>7 DEF DeleteRoom, Serving, TypeOK
    <3>2. \A i \in Ids : Launched(i)' => Launched(i) BY <3>1 DEF Launched
    <3>3. QED BY <1>0, <3>1, <3>2, LaunchStep
  <2>8. QED BY <1>4, <2>1, <2>2, <2>3, <2>4, <2>5, <2>6, <2>7 DEF Requests
<1>5. CASE Handler
  <2>1. CASE DrainVisit
    <3>1. frame = "visit" /\ UNCHANGED <<word, lines, gone, settling, turns>>
      BY <2>1 DEF DrainVisit
    <3>2. CASE Skip BY <1>2, <3>1, <3>2 DEF Skip
    <3>3. CASE Claim
      <4>1. visit \in Seq(Threads) /\ visit # <<>> BY <1>0, <2>1 DEF TypeOK, DrainVisit
      <4>2. PICK t \in Threads : t = Head(visit) BY <4>1, TailElements
      <4>3. t \in ToSet(visit) BY <4>1, <4>2, TailElements
      <4>4. queue[t] \in Seq(Ids) /\ queue[t] # <<>>
        BY <1>0, <2>1, <4>2, <4>3 DEF TypeOK, WalkSound, DrainVisit
      <4>5. PICK i \in Ids : i = Head(queue[t]) BY <4>4, TailElements
      <4>6. /\ status' = SetStatus({i}, "dispatching") /\ frame' = "start" /\ item' = i
            /\ claimed' = [claimed EXCEPT ![i] = Bump(@)]
            /\ ~(RoomThere /\ Working)
        BY <3>3, <4>2, <4>5 DEF Claim
      <4>7. /\ status'[i] \in {"dispatching", "absent"}
            /\ \A j \in Ids \ {i} : status'[j] = status[j]
        BY <1>0, <4>6, SettleStatus
      <4>8. /\ claimed'[i] > 0
            /\ \A j \in Ids \ {i} : claimed'[j] = claimed[j]
        BY <1>0, <4>6, BumpType DEF TypeOK
      <4>9. Thread(i)' = Thread(i) /\ Thread(i) \in Threads BY <1>0, <3>1, ThreadType DEF Thread
      <4>10. Thread(i)' \in gone' \/ ops' = <<>> BY <3>1, <4>6, <4>9 DEF RoomThere, Working
      <4>11. ASSUME NEW j \in Ids \ {i}, Launched(j)'
             PROVE  /\ claimed'[j] > 0 /\ status'[j] \in {"dispatching", "absent"}
                    /\ Thread(j)' \in gone' \/ lines'[j] > 0
        <5>1. Launched(j) BY <3>1, <4>6, <4>11 DEF Launched
        <5>2. Thread(j)' = Thread(j) BY <3>1 DEF Thread
        <5>3. QED BY <1>0, <3>1, <4>7, <4>8, <5>1, <5>2 DEF LaunchSound
      <4>12. Thread(item)' \in gone' \/ ops' = <<>>
        <5>1. Thread(item)' = Thread(i)' BY <4>6 DEF Thread
        <5>2. QED BY <4>10, <5>1
      <4>13. QED BY <4>6, <4>7, <4>8, <4>11, <4>12 DEF LaunchSound
    <3>4. QED BY <2>1, <3>2, <3>3 DEF DrainVisit
  <2>2. CASE DrainStart
    <3> DEFINE op == [thread |-> Thread(item), id |-> item, person |-> TRUE]
    <3>1. /\ frame = "start" /\ frame' = "visit" /\ item \in Ids
          /\ UNCHANGED <<status, word, claimed, gone, item>>
          /\ StartGone \/ StartFollowup
      BY <1>0, <2>2 DEF DrainStart, TypeOK
    <3>2. /\ settling' = settling \/ settling' = Append(settling, item)
          /\ UNCHANGED ops \/ Begin(op)
          /\ \/ UNCHANGED lines /\ Thread(item) \in gone
             \/ lines' = [lines EXCEPT ![item] = Bump(@)]
      BY <3>1 DEF StartGone, StartFollowup
    <3>a. Bump(lines[item]) > 0 /\ lines \in [Ids -> 0..2] BY <1>0, <3>1, BumpType DEF TypeOK
    <3>3. Thread(item) \in gone \/ lines'[item] > 0
      <4>1. CASE lines' = [lines EXCEPT ![item] = Bump(@)] BY <4>1, <3>1, <3>a
      <4>2. QED BY <4>1, <3>2
    <3>4. \A i \in Ids : lines'[i] > 0 \/ lines'[i] = lines[i]
      <4>1. CASE lines' = [lines EXCEPT ![item] = Bump(@)] BY <4>1, <3>1, <3>a
      <4>2. QED BY <4>1, <3>2
    <3>5. op.id = item OBVIOUS
    <3> HIDE DEF op
    <3>6. ToSet(settling') \subseteq ToSet(settling) \cup {item}
      <4>1. settling \in Seq(Ids) BY <1>0 DEF TypeOK
      <4>2. ToSet(Append(settling, item)) = ToSet(settling) \cup {item}
        BY <3>1, <4>1, AppendElements
      <4>3. QED BY <3>2, <4>2
    <3>7. ASSUME NEW i \in Ids, Launched(i)' PROVE Launched(i)
      <4>1. CASE i = item BY <3>1, <4>1 DEF Launched
      <4>2. CASE i # item
        <5>1. i \in ToSet(settling) \/ \E k \in DOMAIN ops' : ops'[k].id = i
          BY <3>1, <3>6, <3>7, <4>2 DEF Launched
        <5>2. CASE \E k \in DOMAIN ops' : ops'[k].id = i
          BY <1>0, <3>2, <3>5, <4>2, <5>2, BeginOps DEF Launched
        <5>3. QED BY <5>1, <5>2 DEF Launched
      <4>3. QED BY <4>1, <4>2
    <3>8. QED BY <1>0, <3>1, <3>3, <3>4, <3>7, LaunchStep
  <2>3. CASE DrainEnds BY <1>2, <2>3 DEF DrainEnds
  <2>4. CASE DrainSettle
    <3>1. settling \in Seq(Ids) /\ settling # <<>> /\ frame = "settle"
      BY <1>0, <2>4 DEF DrainSettle, ProcessSound, TypeOK
    <3>2. /\ status' = SetStatus({Head(settling)}, "absent") /\ settling' = Tail(settling)
          /\ frame' \in {"idle", "settle"} /\ UNCHANGED <<word, lines, claimed, gone, ops, item>>
      BY <2>4 DEF DrainSettle
    <3>3. ToSet(settling') \subseteq ToSet(settling) BY <3>1, <3>2, TailElements
    <3>4. \A i \in Ids : Launched(i)' => Launched(i) BY <3>2, <3>3 DEF Launched
    <3>a. PICK S : status' = SetStatus(S, "absent") BY <3>2
    <3>5. \A i \in Ids : status'[i] \in {status[i], "absent"} BY <1>0, <3>a, SettleStatus
    <3>6. QED BY <1>0, <3>1, <3>2, <3>4, <3>5, LaunchStep
  <2>5. CASE FoldAppend
    <3>1. \A i \in Ids : lines'[i] > 0 \/ lines'[i] = lines[i]
      BY <1>0, <2>5, BumpType DEF FoldAppend, TypeOK
    <3>2. QED BY <1>2, <2>5, <3>1 DEF FoldAppend
  <2>6. CASE FoldSettle
    <3>1. status' = SetStatus({item}, "absent") BY <2>6 DEF FoldSettle
    <3>2. \A i \in Ids : status'[i] \in {status[i], "absent"} BY <1>0, <3>1, SettleStatus
    <3>3. QED BY <1>2, <2>6, <3>2 DEF FoldSettle
  <2>7. CASE Purge BY <1>2, <2>7 DEF Purge
  <2>8. CASE Boot BY <1>1, <2>8 DEF Boot
  <2>9. CASE RecoverMark \/ RecoverLine \/ RecoverRetire \/ RecoverEnds \/ RestoreRow
    <3>1. up = "booting" /\ up' = up
      BY <1>0, <2>9 DEF ProcessSound, BootFrames, RecoverMark, RecoverLine, RecoverRetire,
                        RecoverEnds, RestoreRow
    <3>2. QED BY <1>1, <3>1
  <2>10. CASE Listen BY <1>2, <2>10 DEF Listen, DrainAll
  <2>11. QED BY <1>5, <2>1, <2>2, <2>3, <2>4, <2>5, <2>6, <2>7, <2>8, <2>9, <2>10 DEF Handler
<1>6. CASE Room
  <2>1. ASSUME NEW t \in Threads, OtherOperation(t) PROVE LaunchSound'
    <3> DEFINE op == [thread |-> t, id |-> 0, person |-> FALSE]
    <3>1. /\ frame = "idle" /\ UNCHANGED <<status, word, lines, claimed, gone, frame, item, settling>>
          /\ Begin(op)
      BY <2>1 DEF OtherOperation, Serving
    <3>2. op.id = 0 OBVIOUS
    <3> HIDE DEF op
    <3>3. \A i \in Ids : Launched(i)' => Launched(i)
      BY <1>0, <1>a, <3>1, <3>2, BeginOps DEF Launched
    <3>4. QED BY <1>0, <3>1, <3>3, LaunchStep
  <2>2. ASSUME NEW t \in Threads, OwnershipReleased(t) PROVE LaunchSound'
    BY <1>2, <2>2 DEF OwnershipReleased
  <2>3. ASSUME NEW b \in Bots, MemberSpeaks(b) PROVE LaunchSound'
    BY <1>2, <2>3 DEF MemberSpeaks
  <2>4. CASE MemberTurnEnds BY <1>2, <2>4 DEF MemberTurnEnds
  <2>5. ASSUME Serving, ops # <<>>, Finish, UNCHANGED <<disk, history>> PROVE LaunchSound'
    <3>1. /\ frame = "idle" /\ frame' = "visit" /\ ops' = Tail(ops)
          /\ settling' = (IF Head(ops).id = 0 THEN <<>> ELSE <<Head(ops).id>>)
      BY <2>5 DEF Serving, Finish, DrainAll
    <3>2. Head(ops) = ops[1] /\ 1 \in DOMAIN ops BY <1>0, <2>5, HeadOpType
    <3>3. \A i \in ToSet(settling') : i = ops[1].id BY <3>1, <3>2 DEF ToSet
    <3>4. \A k \in DOMAIN ops' : k + 1 \in DOMAIN ops /\ ops'[k] = ops[k + 1]
      BY <1>0, <2>5, <3>1, TailOps
    <3>5. \A i \in Ids : Launched(i)' => Launched(i) BY <3>1, <3>2, <3>3, <3>4 DEF Launched
    <3>6. QED BY <1>0, <2>5, <3>1, <3>5, LaunchStep
  <2>6. CASE OperationFinished \/ MemberTurnAbandoned
    BY <1>0, <2>5, <2>6 DEF OperationFinished, MemberTurnAbandoned, ProcessSound
  <2>7. ASSUME NEW s \in Steerers, EngineTakes(s) \/ EngineAnswers(s) PROVE LaunchSound'
    BY <1>2, <2>7 DEF EngineTakes, EngineAnswers
  <2>8. QED BY <1>6, <2>1, <2>2, <2>3, <2>4, <2>6, <2>7 DEF Room
<1>7. CASE Crash BY <1>1, <1>7 DEF Crash
<1>8. QED BY <1>3, <1>4, <1>5, <1>6, <1>7 DEF Next

(* Recovery works on one interrupted row of a thread that is there, from   *)
(* the mark to its retirement.                                             *)
LEMMA NextRecover ==
  ASSUME CInv, [Next]_vars, TypeOK'
  PROVE  RecoverSound'
<1> USE DEF vars, disk, journal, work, waiting, turns, steers, bounds, history
<1>0. TypeOK /\ WordsSound /\ RecoverSound BY DEF CInv
<1>1. ASSUME frame' \notin {"recoverLine", "retire"} PROVE RecoverSound'
  BY <1>1 DEF RecoverSound
<1>2. CASE UNCHANGED vars BY <1>0, <1>2 DEF RecoverSound, Thread
<1>3. CASE Requests
  <2>1. ASSUME Serving, frame' = frame PROVE RecoverSound' BY <1>1, <2>1 DEF Serving
  <2>2. ASSUME NEW s \in Steerers, SteerContinues(s) PROVE RecoverSound'
    BY <1>1, <2>2 DEF SteerContinues, SteerDelivered, SteerLost, SteerRefused, DrainAll, Serving
  <2>3. ASSUME NEW t \in Threads, SteerDeclined(t) \/ SwitchTask(t) \/ DeleteTask(t)
        PROVE  RecoverSound'
    BY <2>1, <2>3 DEF SteerDeclined, SwitchTask, DeleteTask
  <2>4. ASSUME NEW s \in Steerers, NEW t \in Threads, HoldForSteer(s, t) PROVE RecoverSound'
    BY <2>1, <2>4 DEF HoldForSteer
  <2>5. ASSUME NEW w \in Words, Post(w) PROVE RecoverSound' BY <2>1, <2>5 DEF Post
  <2>6. ASSUME NEW i \in Ids, Cancel(i) PROVE RecoverSound' BY <2>1, <2>6 DEF Cancel
  <2>7. CASE DeleteRoom BY <1>1, <2>7 DEF DeleteRoom
  <2>8. QED BY <1>3, <2>2, <2>3, <2>4, <2>5, <2>6, <2>7 DEF Requests
<1>4. CASE Handler
  <2>1. CASE RecoverMark
    <3>1. PICK i \in Unfinished :
             IF Thread(i) \in gone
             THEN status' = [status EXCEPT ![i] = "cancelled"] /\ UNCHANGED <<frame, item>>
             ELSE /\ status' = [status EXCEPT ![i] = "interrupted"]
                  /\ frame' = "recoverLine" /\ item' = i
      BY <2>1 DEF RecoverMark
    <3>2. frame = "mark" /\ UNCHANGED <<word, nextId, gone>> BY <2>1 DEF RecoverMark
    <3>3. CASE Thread(i) \in gone BY <1>1, <3>1, <3>2, <3>3
    <3>4. CASE Thread(i) \notin gone
      <4>1. i \in Ids /\ status[i] # "absent" BY DEF Unfinished
      <4>2. nextId \in Nat /\ Ids \subseteq Nat BY <1>0, ChannelQueueAssumption DEF TypeOK, Ids
      <4>3. i < nextId BY <1>0, <4>1, <4>2 DEF WordsSound, JournalSound
      <4>4. status'[i] = "interrupted" BY <1>0, <3>1, <3>4, <4>1 DEF TypeOK
      <4>5. frame' = "recoverLine" /\ item' = i BY <3>1, <3>4
      <4>6. QED BY <3>2, <3>4, <4>3, <4>4, <4>5 DEF RecoverSound, Thread
    <3>5. QED BY <3>3, <3>4
  <2>2. CASE RecoverLine
    <3>1. /\ frame = "recoverLine" /\ UNCHANGED <<status, word, nextId, gone, item>>
          /\ lines' = IF lines[item] = 0 THEN [lines EXCEPT ![item] = Bump(@)] ELSE lines
      BY <2>2 DEF RecoverLine
    <3>2. item \in Ids /\ lines \in [Ids -> 0..2] BY <1>0 DEF TypeOK
    <3>3. lines'[item] > 0 BY <3>1, <3>2, BumpType
    <3>4. QED BY <1>0, <3>1, <3>3 DEF RecoverSound, Thread
  <2>3. CASE DrainVisit \/ DrainStart \/ DrainEnds \/ DrainSettle
    BY <1>1, <2>3 DEF DrainVisit, Skip, Claim, DrainStart, DrainEnds, DrainSettle
  <2>4. CASE FoldAppend \/ FoldSettle \/ Purge
    BY <1>1, <2>4 DEF FoldAppend, FoldSettle, Purge
  <2>5. CASE Boot \/ RecoverRetire \/ RecoverEnds \/ RestoreRow \/ Listen
    BY <1>1, <2>5 DEF Boot, RecoverRetire, RecoverEnds, RestoreRow, Listen, DrainAll
  <2>6. QED BY <1>4, <2>1, <2>2, <2>3, <2>4, <2>5 DEF Handler
<1>5. CASE Room
  <2>1. ASSUME Serving, frame' \in {"idle", "visit"} PROVE RecoverSound' BY <1>1, <2>1
  <2>2. ASSUME NEW t \in Threads, OtherOperation(t) \/ OwnershipReleased(t) PROVE RecoverSound'
    BY <2>1, <2>2 DEF OtherOperation, OwnershipReleased, Serving
  <2>3. ASSUME NEW b \in Bots, MemberSpeaks(b) PROVE RecoverSound'
    BY <2>1, <2>3 DEF MemberSpeaks, Serving
  <2>4. CASE MemberTurnEnds BY <2>1, <2>4 DEF MemberTurnEnds, Serving
  <2>5. CASE OperationFinished \/ MemberTurnAbandoned
    BY <2>1, <2>5 DEF OperationFinished, MemberTurnAbandoned, Finish, DrainAll
  <2>6. ASSUME NEW s \in Steerers, EngineTakes(s) \/ EngineAnswers(s) PROVE RecoverSound'
    BY <2>1, <2>6 DEF EngineTakes, EngineAnswers, Serving
  <2>7. QED BY <1>5, <2>2, <2>3, <2>4, <2>5, <2>6 DEF Room
<1>6. CASE Crash BY <1>1, <1>6 DEF Crash
<1>7. QED BY <1>2, <1>3, <1>4, <1>5, <1>6 DEF Next

(* One person's message at most is at work: words start at once only in an *)
(* idle room, and a claimed follow-up finds no operation in line.          *)
LEMMA NextPerson ==
  ASSUME CInv, [Next]_vars
  PROVE  OnePerson'
<1> USE DEF vars, disk, journal, work, waiting, turns, steers, bounds, history
<1>0. TypeOK /\ ProcessSound /\ LaunchSound /\ OnePerson BY DEF CInv
<1>1. ASSUME UNCHANGED ops PROVE OnePerson' BY <1>0, <1>1 DEF OnePerson
<1>2. ASSUME NEW op, Begin(op), ops = <<>> \/ ~op.person PROVE OnePerson'
  <2>1. SUFFICES ASSUME NEW i \in DOMAIN ops', NEW j \in DOMAIN ops',
                        ops'[i].person, ops'[j].person
                 PROVE  i = j
    BY DEF OnePerson
  <2>2. /\ \/ i \in DOMAIN ops /\ ops'[i] = ops[i]
           \/ i = Len(ops) + 1 /\ ops'[i] = op
        /\ \/ j \in DOMAIN ops /\ ops'[j] = ops[j]
           \/ j = Len(ops) + 1 /\ ops'[j] = op
    BY <1>0, <1>2, BeginOps
  <2>3. CASE ops = <<>>
    <3>1. DOMAIN ops = {} BY <2>3
    <3>2. QED BY <2>2, <3>1
  <2>4. CASE ~op.person
    <3>1. i \in DOMAIN ops /\ j \in DOMAIN ops /\ ops[i].person /\ ops[j].person
      BY <2>1, <2>2, <2>4
    <3>2. QED BY <1>0, <3>1 DEF OnePerson
  <2>5. QED BY <1>2, <2>3, <2>4
<1>3. ASSUME ops # <<>>, Finish PROVE OnePerson'
  <2>1. ops' = Tail(ops) BY <1>3 DEF Finish
  <2>2. \A k \in DOMAIN ops' : k + 1 \in DOMAIN ops /\ ops'[k] = ops[k + 1] /\ k \in Nat
    BY <1>0, <1>3, <2>1, TailOps
  <2>3. SUFFICES ASSUME NEW i \in DOMAIN ops', NEW j \in DOMAIN ops',
                        ops'[i].person, ops'[j].person
                 PROVE  i = j
    BY DEF OnePerson
  <2>4. i + 1 = j + 1 /\ i \in Nat /\ j \in Nat BY <1>0, <2>2, <2>3 DEF OnePerson
  <2>5. QED BY <2>4
<1>4. CASE UNCHANGED vars BY <1>1, <1>4
<1>5. CASE Requests
  <2>1. ASSUME NEW w \in Words, Post(w) PROVE OnePerson'
    <3>1. CASE Enqueue(w) BY <1>1, <3>1 DEF Enqueue
    <3>2. CASE ~Working /\ StartNow(w)
      <4>1. ops = <<>> BY <3>2 DEF Working
      <4>2. QED BY <1>1, <1>2, <3>2, <4>1 DEF StartNow
    <3>3. QED BY <2>1, <3>1, <3>2 DEF Post
  <2>2. ASSUME NEW i \in Ids, Cancel(i) PROVE OnePerson' BY <1>1, <2>2 DEF Cancel
  <2>3. ASSUME NEW t \in Threads, SteerDeclined(t) \/ SwitchTask(t) \/ DeleteTask(t)
        PROVE  OnePerson'
    BY <1>1, <2>3 DEF SteerDeclined, SwitchTask, DeleteTask
  <2>4. ASSUME NEW s \in Steerers, NEW t \in Threads, HoldForSteer(s, t) PROVE OnePerson'
    BY <1>1, <2>4 DEF HoldForSteer
  <2>5. ASSUME NEW s \in Steerers, SteerContinues(s) PROVE OnePerson'
    BY <1>1, <2>5 DEF SteerContinues
  <2>6. CASE DeleteRoom BY <1>1, <2>6 DEF DeleteRoom
  <2>7. QED BY <1>5, <2>1, <2>2, <2>3, <2>4, <2>5, <2>6 DEF Requests
<1>6. CASE Handler
  <2>1. CASE DrainStart
    <3>1. CASE StartGone BY <1>1, <3>1 DEF StartGone
    <3>2. CASE StartFollowup
      <4>1. ops = <<>> BY <1>0, <2>1, <3>2 DEF LaunchSound, DrainStart, StartFollowup
      <4>2. QED BY <1>1, <1>2, <3>2, <4>1 DEF StartFollowup
    <3>3. QED BY <2>1, <3>1, <3>2 DEF DrainStart
  <2>2. CASE DrainVisit \/ DrainEnds \/ DrainSettle \/ FoldAppend \/ FoldSettle \/ Purge
    BY <1>1, <2>2 DEF DrainVisit, DrainEnds, DrainSettle, FoldAppend, FoldSettle, Purge
  <2>3. CASE Boot \/ RecoverMark \/ RecoverLine \/ RecoverRetire \/ RecoverEnds \/ RestoreRow \/ Listen
    BY <1>1, <2>3 DEF Boot, RecoverMark, RecoverLine, RecoverRetire, RecoverEnds, RestoreRow, Listen
  <2>4. QED BY <1>6, <2>1, <2>2, <2>3 DEF Handler
<1>7. CASE Room
  <2>1. ASSUME NEW t \in Threads, OtherOperation(t) PROVE OnePerson'
    <3>1. Begin([thread |-> t, id |-> 0, person |-> FALSE]) BY <2>1 DEF OtherOperation
    <3>2. QED BY <1>2, <3>1
  <2>2. ASSUME NEW t \in Threads, OwnershipReleased(t) PROVE OnePerson'
    BY <1>1, <2>2 DEF OwnershipReleased
  <2>3. ASSUME NEW b \in Bots, MemberSpeaks(b) PROVE OnePerson' BY <1>1, <2>3 DEF MemberSpeaks
  <2>4. CASE MemberTurnEnds BY <1>1, <2>4 DEF MemberTurnEnds
  <2>5. CASE OperationFinished \/ MemberTurnAbandoned
    BY <1>0, <1>3, <2>5 DEF OperationFinished, MemberTurnAbandoned, ProcessSound
  <2>6. ASSUME NEW s \in Steerers, EngineTakes(s) \/ EngineAnswers(s) PROVE OnePerson'
    BY <1>1, <2>6 DEF EngineTakes, EngineAnswers
  <2>7. QED BY <1>7, <2>1, <2>2, <2>3, <2>4, <2>5, <2>6 DEF Room
<1>8. CASE Crash
  <2>1. ops' = <<>> BY <1>8 DEF Crash
  <2>2. DOMAIN ops' = {} BY <2>1
  <2>3. QED BY <2>2 DEF OnePerson
<1>9. QED BY <1>4, <1>5, <1>6, <1>7, <1>8 DEF Next

(* What waits has never been claimed, so no step claims an id twice.       *)
LEMMA NextClaims ==
  ASSUME CInv, [Next]_vars
  PROVE  ClaimedOnce'
<1> USE DEF vars, disk, journal, work, waiting, turns, steers, bounds, history
<1>0. TypeOK /\ WordsSound /\ WalkSound /\ ClaimedOnce BY DEF CInv
<1>1. ASSUME UNCHANGED claimed PROVE ClaimedOnce' BY <1>0, <1>1 DEF ClaimedOnce
<1>2. CASE UNCHANGED vars BY <1>1, <1>2
<1>3. CASE DrainVisit
  <2>1. CASE Skip BY <1>1, <2>1 DEF Skip
  <2>2. CASE Claim
    <3>1. visit \in Seq(Threads) /\ visit # <<>> BY <1>0, <1>3 DEF TypeOK, DrainVisit
    <3>2. PICK t \in Threads : t = Head(visit) BY <3>1, TailElements
    <3>3. t \in ToSet(visit) BY <3>1, <3>2, TailElements
    <3>4. queue[t] \in Seq(Ids) /\ queue[t] # <<>>
      BY <1>0, <1>3, <3>2, <3>3 DEF TypeOK, WalkSound, DrainVisit
    <3>5. PICK i \in Ids : i = Head(queue[t]) BY <3>4, TailElements
    <3>6. i \in ToSet(queue[t]) BY <3>4, <3>5, TailElements
    <3>7. claimed[i] = 0 BY <1>0, <3>6 DEF WordsSound, QueueSound, Unclaimed
    <3>8. claimed' = [claimed EXCEPT ![i] = Bump(@)] BY <2>2, <3>2, <3>5 DEF Claim
    <3>9. claimed' = [claimed EXCEPT ![i] = 1] BY <3>7, <3>8 DEF Bump
    <3>10. QED BY <1>0, <3>9 DEF ClaimedOnce, TypeOK
  <2>3. QED BY <1>3, <2>1, <2>2 DEF DrainVisit
<1>4. CASE Requests
  BY <1>1, <1>4 DEF Requests, Post, Cancel, SteerDeclined, SwitchTask, DeleteTask, SteerContinues,
                    HoldForSteer, DeleteRoom
<1>5. CASE Handler /\ ~DrainVisit
  BY <1>1, <1>5 DEF Handler, DrainStart, DrainEnds, DrainSettle, FoldAppend, FoldSettle, Purge, Boot,
                    RecoverMark, RecoverLine, RecoverRetire, RecoverEnds, RestoreRow, Listen
<1>6. CASE Room
  BY <1>1, <1>6 DEF Room, OtherOperation, OwnershipReleased, MemberSpeaks, MemberTurnEnds,
                    OperationFinished, MemberTurnAbandoned, EngineTakes, EngineAnswers
<1>7. CASE Crash BY <1>1, <1>7 DEF Crash
<1>8. QED BY <1>2, <1>3, <1>4, <1>5, <1>6, <1>7 DEF Next

-----------------------------------------------------------------------------
(* Theorems *)

(* The invariant holds of an empty room and of every state after it.       *)
LEMMA InitCInv == Init => CInv
<1>1. SUFFICES ASSUME Init PROVE CInv OBVIOUS
<1>2. /\ ToSet(<<>>) = {} /\ IsInjective(<<>>) /\ DOMAIN <<>> = {} BY DEF ToSet, IsInjective
<1>3. TypeOK
  <2>1. 1 \in Ids /\ 1 \in 1..(MaxId + 1) BY ChannelQueueAssumption DEF Ids
  <2>2. /\ word \in [Ids -> Words] /\ active \in Threads
        /\ crashes \in 0..MaxCrashes /\ others \in 0..MaxOther
    BY <1>1, ChannelQueueAssumption DEF Init
  <2>3. /\ visit = <<>> /\ settling = <<>> /\ line = <<>> /\ ops = <<>>
        /\ queue = [t \in Threads |-> <<>>] /\ held = [s \in Steerers |-> <<>>]
    BY <1>1 DEF Init
  <2>4. /\ visit \in Seq(Threads) /\ settling \in Seq(Ids) /\ line \in Seq(Threads)
        /\ ops \in Seq(Operations) /\ queue \in [Threads -> Seq(Ids)]
        /\ held \in [Steerers -> Seq(Ids)]
    BY <2>3
  <2>5. /\ up = "serving" /\ frame = "idle" /\ item = 1 /\ redrain = FALSE /\ stage = "none"
        /\ busy = Nobody /\ nextId = 1 /\ gone = {} /\ folded = {}
        /\ status = [i \in Ids |-> "absent"] /\ lines = [i \in Ids |-> 0]
        /\ direct = [w \in Words |-> 0] /\ speaker = [t \in Threads |-> Nobody]
        /\ phase = [s \in Steerers |-> "idle"] /\ asked = [s \in Steerers |-> Nobody]
        /\ claimed = [i \in Ids |-> 0]
    BY <1>1 DEF Init
  <2>6. /\ status \in [Ids -> Statuses] /\ lines \in [Ids -> 0..2]
        /\ direct \in [Words -> 0..2] /\ claimed \in [Ids -> 0..2]
        /\ phase \in [Steerers -> Phases] /\ asked \in [Steerers -> Bots \cup {Nobody}]
        /\ speaker \in [Threads -> Bots \cup {Nobody}]
    BY <2>5 DEF Statuses, Phases
  <2>7. /\ up \in {"down", "booting", "serving"} /\ frame \in Frames /\ item \in Ids
        /\ redrain \in BOOLEAN /\ stage \in {"none", "starting", "speaking", "between"}
        /\ busy \in Bots \cup {Nobody} /\ nextId \in 1..(MaxId + 1)
        /\ gone \subseteq Threads /\ folded \subseteq Ids
    BY <2>1, <2>5 DEF Frames
  <2>8. QED BY <2>2, <2>4, <2>6, <2>7 DEF TypeOK
<1>4. /\ up = "serving" /\ frame = "idle" /\ settling = <<>> /\ ops = <<>> /\ stage = "none"
      /\ line = <<>> /\ \A t \in Threads : queue[t] = <<>>
      /\ \A s \in Steerers : held[s] = <<>> /\ phase[s] = "idle"
      /\ \A i \in Ids : status[i] = "absent" /\ claimed[i] = 0 /\ lines[i] = 0
  BY <1>1 DEF Init
<1>5. ProcessSound BY <1>4 DEF ProcessSound, BootFrames
<1>6. WordsSound
  <2>1. QueueSound /\ HeldSound BY <1>2, <1>4 DEF QueueSound, HeldSound
  <2>2. FoldSound /\ JournalSound BY <1>4 DEF FoldSound, JournalSound, Folding
  <2>3. QED BY <2>1, <2>2 DEF WordsSound
<1>7. LineSound BY <1>2, <1>4 DEF LineSound
<1>8. WalkSound /\ LaunchSound /\ RecoverSound /\ OnePerson /\ ClaimedOnce
  BY <1>2, <1>4 DEF WalkSound, LaunchSound, Launched, RecoverSound, OnePerson, ClaimedOnce
<1>9. QED BY <1>3, <1>5, <1>6, <1>7, <1>8 DEF CInv

(* No step leaves the invariant.                                           *)
LEMMA NextCInv == CInv /\ [Next]_vars => CInv'
<1>1. SUFFICES ASSUME CInv, [Next]_vars PROVE CInv' OBVIOUS
<1>2. TypeOK' BY <1>1, NextType
<1>3. ProcessSound' /\ WordsSound' /\ LineSound' BY <1>1, <1>2, NextProcess, NextWords, NextLine
<1>4. WalkSound' /\ LaunchSound' /\ RecoverSound' /\ OnePerson' /\ ClaimedOnce'
  BY <1>1, <1>2, <1>3, NextWalk, NextLaunch, NextRecover, NextPerson, NextClaims
<1>5. QED BY <1>2, <1>3, <1>4 DEF CInv

(* Where a queue id may be, in every state of every room.                  *)
THEOREM RoomQueueSound == Spec => []CInv
<1>1. Init => CInv BY InitCInv
<1>2. CInv /\ [Next]_vars => CInv' BY NextCInv
<1>3. QED BY <1>1, <1>2, PTL DEF Spec

(* The room's variables keep their types.                                  *)
THEOREM RoomQueueTyped == Spec => []TypeOK
<1>1. CInv => TypeOK BY DEF CInv
<1>2. QED BY <1>1, RoomQueueSound, PTL

(* drainChannelMessages never dispatches the same follow-up twice, across  *)
(* drains, deletions, steers and restarts.                                 *)
THEOREM FollowupsClaimedOnce == Spec => []ClaimedOnce
<1>1. CInv => ClaimedOnce BY DEF CInv
<1>2. QED BY <1>1, RoomQueueSound, PTL

(* One person's message at most is at work in a room, and a follow-up that *)
(* is at work is no longer pending in the journal.                         *)
THEOREM PeopleTakeTurns == Spec => []OneAtATime
<1>1. CInv => OneAtATime
  <2>1. SUFFICES ASSUME CInv PROVE OneAtATime OBVIOUS
  <2>2. ASSUME NEW i \in DOMAIN ops, ops[i].id # 0
        PROVE  status[ops[i].id] \in {"dispatching", "absent"}
    <3>1. ops[i] \in Operations BY <2>1 DEF CInv, TypeOK
    <3>2. ops[i].id \in Ids BY <2>2, <3>1 DEF Operations
    <3>3. Launched(ops[i].id) BY DEF Launched
    <3>4. QED BY <2>1, <3>2, <3>3 DEF CInv, LaunchSound
  <2>3. OnePerson BY <2>1 DEF CInv
  <2>4. QED BY <2>2, <2>3 DEF OneAtATime, OnePerson
<1>2. QED BY <1>1, RoomQueueSound, PTL

-----------------------------------------------------------------------------
(* Order *)

(* No two steers hold words of one thread at the same time.                *)
OneHoldPerThread ==
  \A s, r \in Steerers :
    held[s] # <<>> /\ held[r] # <<>> /\ Thread(held[s][1]) = Thread(held[r][1]) => s = r

(* The queues and the holds are in the order of acceptance, what a steer   *)
(* holds came before what waits, and what a boot has restored came before  *)
(* what it has not                                                         *)
OrderSound ==
  /\ \A t \in Threads : Rising(queue[t])
  /\ \A s \in Steerers :
       /\ Rising(held[s])
       /\ \A i \in ToSet(held[s]) : \A j \in ToSet(queue[Thread(i)]) : i < j
  /\ up = "booting" =>
       \A t \in Threads : \A i \in ToSet(queue[t]) : \A j \in Unrestored : i < j

(* A queue of ids is a queue of numbers.                                   *)
LEMMA IdsAreNumbers ==
  ASSUME NEW s \in Seq(Ids)
  PROVE  s \in Seq(Nat) /\ ToSet(s) \subseteq Nat
<1>1. Ids \subseteq Nat BY ChannelQueueAssumption DEF Ids
<1>2. Len(s) \in Nat /\ s \in [1..Len(s) -> Ids] OBVIOUS
<1>3. s \in [1..Len(s) -> Nat] BY <1>1, <1>2
<1>4. s \in Seq(Nat) BY <1>2, <1>3, SeqDef
<1>5. ToSet(s) \subseteq Nat BY <1>4, ToSetType
<1>6. QED BY <1>4, <1>5

(* A step that takes words out of the queues and the holds, at most, keeps *)
(* the order.                                                              *)
LEMMA OrderStep ==
  ASSUME CInv, OrderSound, UNCHANGED word,
         up' # "booting" \/ \A t \in Threads : queue'[t] = <<>>,
         \A t \in Threads : Rising(queue'[t]) /\ ToSet(queue'[t]) \subseteq ToSet(queue[t]),
         \A s \in Steerers : held'[s] = held[s] \/ held'[s] = <<>>
  PROVE  OrderSound'
<1>1. TypeOK BY DEF CInv
<1>2. ToSet(<<>>) = {} /\ Rising(<<>>) BY DEF ToSet, Rising
<1>3. ASSUME NEW s \in Steerers
      PROVE  /\ Rising(held'[s])
             /\ \A i \in ToSet(held'[s]) : \A j \in ToSet(queue'[Thread(i)']) : i < j
  <2>1. CASE held'[s] = <<>> BY <1>2, <2>1
  <2>2. CASE held'[s] = held[s]
    <3>1. ASSUME NEW i \in ToSet(held[s]), NEW j \in ToSet(queue'[Thread(i)']) PROVE i < j
      <4>1. i \in Ids /\ Thread(i)' = Thread(i)
        BY <1>1, ToSetType DEF TypeOK, Thread
      <4>2. Thread(i) \in Threads BY <1>1, <4>1, ThreadType
      <4>3. j \in ToSet(queue[Thread(i)]) BY <3>1, <4>1, <4>2
      <4>4. QED BY <4>3 DEF OrderSound
    <3>2. QED BY <2>2, <3>1 DEF OrderSound
  <2>3. QED BY <2>1, <2>2
<1>4. up' = "booting" =>
        \A t \in Threads : \A i \in ToSet(queue'[t]) : \A j \in Unrestored' : i < j
  BY <1>2
<1>5. QED BY <1>3, <1>4 DEF OrderSound

(* Every step keeps the order while no two steers hold words of one        *)
(* thread: queue ids rise, a hold goes back in front of what came after    *)
(* it, and a boot restores the oldest row first.                           *)
LEMMA NextOrder ==
  ASSUME CInv, OrderSound, OneHoldPerThread, [Next]_vars, TypeOK', ProcessSound'
  PROVE  OrderSound'
<1> USE DEF vars, disk, journal, work, waiting, turns, steers, bounds, history
<1>0. TypeOK /\ ProcessSound /\ WordsSound /\ WalkSound BY DEF CInv
<1>a. ToSet(<<>>) = {} /\ Rising(<<>>) BY DEF ToSet, Rising
<1>b. nextId \in Nat /\ Ids \subseteq Nat BY <1>0, ChannelQueueAssumption DEF TypeOK, Ids
<1>1. ASSUME UNCHANGED <<word, queue, held>>, up' # "booting" \/ \A t \in Threads : queue[t] = <<>>
      PROVE  OrderSound'
  <2>1. \A t \in Threads : Rising(queue'[t]) BY <1>1 DEF OrderSound
  <2>2. QED BY <1>1, <2>1, OrderStep
<1>2. CASE UNCHANGED vars BY <1>2 DEF OrderSound, Thread, Unrestored
<1>3. ASSUME NEW t \in Threads, NEW q \in Seq(Ids), queue' = [queue EXCEPT ![t] = q],
             Rising(q), ToSet(q) \subseteq ToSet(queue[t]), UNCHANGED <<word, held, up>>, up = "serving"
      PROVE  OrderSound'
  <2>1. ASSUME NEW u \in Threads PROVE Rising(queue'[u]) /\ ToSet(queue'[u]) \subseteq ToSet(queue[u])
    <3>1. CASE u = t
      <4>1. queue'[u] = q BY <1>0, <1>3, <3>1 DEF TypeOK
      <4>2. QED BY <1>3, <3>1, <4>1
    <3>2. CASE u # t
      <4>1. queue'[u] = queue[u] BY <1>0, <1>3, <3>2 DEF TypeOK
      <4>2. QED BY <4>1 DEF OrderSound
    <3>3. QED BY <3>1, <3>2
  <2>2. QED BY <1>3, <2>1, OrderStep
<1>4. ASSUME NEW s \in Steerers, NEW t \in Threads, NEW q \in Seq(Ids), Requeue(t, q), Release(s),
             held[s] # <<>>, t = Thread(held[s][1]), ToSet(q) \subseteq ToSet(held[s]), Rising(q),
             UNCHANGED <<word, up>>, up = "serving"
      PROVE  OrderSound'
  <2>1. \A r \in Steerers : held'[r] = IF r = s THEN <<>> ELSE held[r]
    BY <1>0, <1>4 DEF Release, TypeOK
  <2>2. CASE q = <<>>
    <3>1. queue' = queue BY <1>4, <2>2 DEF Requeue
    <3>2. \A u \in Threads : Rising(queue'[u]) BY <3>1 DEF OrderSound
    <3>3. QED BY <1>4, <2>1, <3>1, <3>2, OrderStep
  <2>3. CASE q # <<>>
    <3>1. queue' = [queue EXCEPT ![t] = q \o queue[t]] BY <1>4, <2>3 DEF Requeue
    <3>2. /\ q \in Seq(Nat) /\ queue[t] \in Seq(Nat) /\ Rising(queue[t])
          /\ ToSet(q) \subseteq Nat /\ ToSet(queue[t]) \subseteq Nat
      BY <1>0, <1>4, IdsAreNumbers DEF TypeOK, OrderSound
    <3>3. ASSUME NEW i \in ToSet(q), NEW j \in ToSet(queue[t]) PROVE i < j
      <4>1. i \in ToSet(held[s]) BY <1>4
      <4>2. Thread(i) = t BY <1>0, <1>4, <4>1 DEF WordsSound, HeldSound
      <4>3. QED BY <4>1, <4>2 DEF OrderSound
    <3>4. Rising(q \o queue[t]) BY <1>4, <3>2, <3>3, RisingConcat
    <3>5. \A u \in Threads : queue'[u] = IF u = t THEN q \o queue[t] ELSE queue[u]
      BY <1>0, <3>1 DEF TypeOK
    <3>6. \A u \in Threads : Rising(queue'[u]) BY <3>4, <3>5 DEF OrderSound
    <3>7. ASSUME NEW r \in Steerers
          PROVE  /\ Rising(held'[r])
                 /\ \A i \in ToSet(held'[r]) : \A j \in ToSet(queue'[Thread(i)']) : i < j
      <4>1. CASE r = s
        <5>1. held'[r] = <<>> BY <2>1, <4>1
        <5>2. QED BY <1>a, <5>1
      <4>2. CASE r # s
        <5>1. held'[r] = held[r] BY <2>1, <4>2
        <5>2. ASSUME NEW i \in ToSet(held[r]), NEW j \in ToSet(queue'[Thread(i)']) PROVE i < j
          <6>1. i \in Ids /\ Thread(i)' = Thread(i) BY <1>0, <1>4, ToSetType DEF TypeOK, Thread
          <6>2. Thread(i) \in Threads BY <1>0, <6>1, ThreadType
          <6>3. held[r] # <<>> BY <1>a
          <6>4. Thread(i) = Thread(held[r][1]) BY <1>0 DEF WordsSound, HeldSound
          <6>5. Thread(i) # t BY <1>4, <4>2, <6>3, <6>4 DEF OneHoldPerThread
          <6>6. queue'[Thread(i)'] = queue[Thread(i)] BY <3>5, <6>1, <6>2, <6>5
          <6>7. j \in ToSet(queue[Thread(i)]) BY <5>2, <6>6
          <6>8. QED BY <6>7 DEF OrderSound
        <5>3. QED BY <5>1, <5>2 DEF OrderSound
      <4>3. QED BY <4>1, <4>2
    <3>8. QED BY <1>4, <3>6, <3>7 DEF OrderSound
  <2>4. QED BY <2>2, <2>3
<1>5. CASE Requests
  <2>1. ASSUME NEW w \in Words, Post(w) PROVE OrderSound'
    <3>1. up = "serving" /\ UNCHANGED <<up, held>> BY <2>1 DEF Post, Serving
    <3>2. CASE StartNow(w) BY <1>1, <3>1, <3>2 DEF StartNow
    <3>3. CASE Enqueue(w)
      <4>1. PICK n \in Ids : n = nextId BY <1>0, <3>3 DEF Enqueue, TypeOK, Ids
      <4>2. PICK t \in Threads : t = Home[w] BY ChannelQueueAssumption
      <4>3. queue' = [queue EXCEPT ![t] = Append(@, n)] /\ word' = [word EXCEPT ![n] = w]
        BY <3>3, <4>1, <4>2 DEF Enqueue
      <4>4. \A u \in Threads : queue'[u] = IF u = t THEN Append(queue[t], n) ELSE queue[u]
        BY <1>0, <4>3 DEF TypeOK
      <4>5. /\ queue[t] \in Seq(Nat) /\ Rising(queue[t]) /\ n \in Nat
            /\ \A i \in ToSet(queue[t]) : i < n
        BY <1>0, <1>b, <4>1, IdsAreNumbers DEF TypeOK, OrderSound, WordsSound, QueueSound, Unclaimed
      <4>6. Rising(Append(queue[t], n)) /\ ToSet(Append(queue[t], n)) = ToSet(queue[t]) \cup {n}
        BY <4>5, RisingAppend, AppendElements
      <4>7. \A u \in Threads : Rising(queue'[u]) BY <4>4, <4>6 DEF OrderSound
      <4>8. ASSUME NEW s \in Steerers, NEW i \in ToSet(held[s]), NEW j \in ToSet(queue'[Thread(i)'])
            PROVE  i < j
        <5>1. i \in Ids /\ i < n
          BY <1>0, <4>1, ToSetType DEF TypeOK, WordsSound, HeldSound, Unclaimed
        <5>2. i # n BY <1>b, <5>1
        <5>3. Thread(i)' = Thread(i) /\ Thread(i) \in Threads
          BY <1>0, <4>3, <5>1, <5>2, ThreadType DEF Thread, TypeOK
        <5>4. CASE j \in ToSet(queue[Thread(i)]) BY <5>4 DEF OrderSound
        <5>5. CASE j \notin ToSet(queue[Thread(i)])
          <6>1. j = n BY <4>4, <4>6, <4>8, <5>3, <5>5
          <6>2. QED BY <5>1, <6>1
        <5>6. QED BY <5>4, <5>5
      <4>9. QED BY <3>1, <4>7, <4>8 DEF OrderSound
    <3>4. QED BY <2>1, <3>2, <3>3 DEF Post
  <2>2. ASSUME NEW i \in Ids, Cancel(i) PROVE OrderSound'
    <3>1. PICK t \in Threads : t = Thread(i) BY <1>0, ThreadType
    <3>2. queue[t] \in Seq(Ids) /\ Rising(queue[t]) BY <1>0 DEF TypeOK, OrderSound
    <3>3. PICK q \in Seq(Ids) : q = Without(queue[t], i) BY <3>2, WithoutElements
    <3>4. Rising(q) /\ ToSet(q) \subseteq ToSet(queue[t]) BY <3>2, <3>3, WithoutElements
    <3>5. /\ queue' = [queue EXCEPT ![t] = q] /\ UNCHANGED <<word, held, up>> /\ up = "serving"
      BY <2>2, <3>1, <3>3 DEF Cancel, Serving
    <3>6. QED BY <1>3, <3>4, <3>5
  <2>3. ASSUME NEW t \in Threads, SteerDeclined(t) \/ SwitchTask(t) \/ DeleteTask(t)
        PROVE  OrderSound'
    BY <1>1, <2>3 DEF SteerDeclined, SwitchTask, DeleteTask, Serving
  <2>4. ASSUME NEW s \in Steerers, NEW t \in Threads, HoldForSteer(s, t) PROVE OrderSound'
    <3>1. /\ \A r \in Steerers : held'[r] = IF r = s THEN queue[t] ELSE held[r]
          /\ \A u \in Threads : queue'[u] = IF u = t THEN <<>> ELSE queue[u]
          /\ UNCHANGED <<word, up>> /\ up = "serving"
      BY <1>0, <2>4 DEF HoldForSteer, TypeOK, Serving
    <3>2. \A u \in Threads : Rising(queue'[u]) BY <1>a, <3>1 DEF OrderSound
    <3>3. ASSUME NEW r \in Steerers, NEW i \in ToSet(held'[r]), NEW j \in ToSet(queue'[Thread(i)'])
          PROVE  i < j
      <4>1. held'[r] \in Seq(Ids) BY DEF TypeOK
      <4>2. i \in Ids BY <4>1, ToSetType
      <4>3. Thread(i)' = Thread(i) /\ Thread(i) \in Threads BY <1>0, <3>1, <4>2, ThreadType DEF Thread
      <4>4. Thread(i) # t /\ j \in ToSet(queue[Thread(i)]) BY <1>a, <3>1, <3>3, <4>3
      <4>5. r # s
        <5>1. \A k \in ToSet(queue[t]) : Thread(k) = t BY <1>0 DEF WordsSound, QueueSound
        <5>2. QED BY <3>1, <3>3, <4>4, <5>1
      <4>6. i \in ToSet(held[r]) BY <3>1, <3>3, <4>5
      <4>7. QED BY <4>4, <4>6 DEF OrderSound
    <3>4. \A r \in Steerers : Rising(held'[r]) BY <3>1 DEF OrderSound
    <3>5. QED BY <3>1, <3>2, <3>3, <3>4 DEF OrderSound
  <2>5. ASSUME NEW s \in Steerers, SteerContinues(s) PROVE OrderSound'
    <3>1. PICK t : /\ t = Thread(held[s][1])
                   /\ SteerDelivered(s, t) \/ SteerLost(s, t) \/ SteerRefused(s, t)
      BY <2>5 DEF SteerContinues
    <3>2. held[s] \in Seq(Ids) /\ held[s] # <<>> /\ Rising(held[s])
      BY <1>0, <2>5 DEF SteerContinues, TypeOK, WordsSound, HeldSound, OrderSound
    <3>3. held[s][1] \in Ids BY <3>2
    <3>4. t \in Threads BY <1>0, <3>1, <3>3, ThreadType
    <3>5. /\ Tail(held[s]) \in Seq(Ids) /\ ToSet(Tail(held[s])) \subseteq ToSet(held[s])
          /\ Rising(Tail(held[s]))
      BY <3>2, TailElements
    <3>6. Requeue(t, held[s]) \/ Requeue(t, Tail(held[s]))
      BY <3>1 DEF SteerDelivered, SteerLost, SteerRefused
    <3>7. Release(s) /\ UNCHANGED <<word, up>> /\ up = "serving" BY <2>5 DEF SteerContinues, Serving
    <3>8. QED BY <1>4, <3>1, <3>2, <3>4, <3>5, <3>6, <3>7
  <2>6. CASE DeleteRoom BY <1>1, <2>6 DEF DeleteRoom, Serving
  <2>7. QED BY <1>5, <2>1, <2>2, <2>3, <2>4, <2>5, <2>6 DEF Requests
<1>6. CASE Handler
  <2>1. CASE DrainVisit
    <3>1. UNCHANGED <<word, up, held>> /\ up = "serving" /\ frame = "visit"
      BY <1>0, <2>1 DEF DrainVisit, ProcessSound, TypeOK, BootFrames
    <3>2. CASE Skip BY <1>1, <3>1, <3>2 DEF Skip
    <3>3. CASE Claim
      <4>1. visit \in Seq(Threads) /\ visit # <<>> BY <1>0, <2>1 DEF TypeOK, DrainVisit
      <4>2. PICK t \in Threads : t = Head(visit) BY <4>1, TailElements
      <4>3. t \in ToSet(visit) BY <4>1, <4>2, TailElements
      <4>4. queue[t] \in Seq(Ids) /\ queue[t] # <<>> /\ Rising(queue[t])
        BY <1>0, <3>1, <4>3 DEF TypeOK, WalkSound, OrderSound
      <4>5. /\ Tail(queue[t]) \in Seq(Ids) /\ ToSet(Tail(queue[t])) \subseteq ToSet(queue[t])
            /\ Rising(Tail(queue[t]))
        BY <4>4, TailElements
      <4>6. queue' = [queue EXCEPT ![t] = Tail(queue[t])] BY <3>3, <4>2 DEF Claim
      <4>7. QED BY <1>3, <3>1, <4>5, <4>6
    <3>4. QED BY <2>1, <3>2, <3>3 DEF DrainVisit
  <2>2. CASE DrainStart \/ DrainEnds \/ DrainSettle \/ FoldAppend \/ FoldSettle \/ Purge
    <3>1. UNCHANGED <<up, word, queue, held>> /\ frame \notin BootFrames
      BY <2>2 DEF DrainStart, DrainEnds, DrainSettle, FoldAppend, FoldSettle, Purge, BootFrames
    <3>2. up' # "booting" BY <1>0, <3>1 DEF ProcessSound
    <3>3. QED BY <1>1, <3>1, <3>2
  <2>3. CASE Boot \/ RecoverMark \/ RecoverLine \/ RecoverRetire \/ RecoverEnds
    <3>1. /\ UNCHANGED <<word, queue, held>>
          /\ up # "serving" /\ frame # "restore"
      BY <1>0, <2>3 DEF Boot, RecoverMark, RecoverLine, RecoverRetire, RecoverEnds, ProcessSound,
                        BootFrames
    <3>2. \A t \in Threads : queue[t] = <<>> BY <1>0, <3>1 DEF ProcessSound
    <3>3. QED BY <1>1, <3>1, <3>2
  <2>4. CASE RestoreRow
    <3>1. PICK i \in Unrestored :
             /\ \A j \in Unrestored : i <= j
             /\ queue' = [queue EXCEPT ![Thread(i)] = Append(@, i)]
      BY <2>4 DEF RestoreRow
    <3>2. i \in Ids /\ UNCHANGED <<status, word, up, held>> /\ up = "booting"
      BY <1>0, <2>4 DEF Unrestored, RestoreRow, ProcessSound, BootFrames
    <3>3. PICK t \in Threads : t = Thread(i) BY <1>0, <3>2, ThreadType
    <3>4. \A u \in Threads : queue'[u] = IF u = t THEN Append(queue[t], i) ELSE queue[u]
      BY <1>0, <3>1, <3>3 DEF TypeOK
    <3>5. /\ queue[t] \in Seq(Nat) /\ Rising(queue[t]) /\ i \in Nat
          /\ \A k \in ToSet(queue[t]) : k < i
      BY <1>0, <1>b, <3>2, IdsAreNumbers DEF TypeOK, OrderSound
    <3>6. Rising(Append(queue[t], i)) /\ ToSet(Append(queue[t], i)) = ToSet(queue[t]) \cup {i}
      BY <3>5, RisingAppend, AppendElements
    <3>7. \A u \in Threads : Rising(queue'[u]) BY <3>4, <3>6 DEF OrderSound
    <3>8. \A s \in Steerers : held'[s] = <<>>
      BY <1>0, <3>2 DEF ProcessSound, WordsSound, HeldSound
    <3>9. ASSUME NEW j \in Unrestored' PROVE j \in Unrestored /\ j # i /\ j \in Ids
      <4>1. /\ j \in Ids /\ status[j] = "pending" /\ Thread(j)' = Thread(j)
            /\ j \notin ToSet(queue'[Thread(j)'])
        BY <3>2 DEF Unrestored, Thread
      <4>2. Thread(j) \in Threads BY <1>0, <4>1, ThreadType
      <4>3. QED BY <3>3, <3>4, <3>6, <4>1, <4>2 DEF Unrestored
    <3>10. ASSUME NEW u \in Threads, NEW k \in ToSet(queue'[u]), NEW j \in Unrestored' PROVE k < j
      <4>1. j \in Unrestored /\ j # i /\ j \in Nat /\ i <= j BY <1>b, <3>1, <3>9
      <4>2. CASE k \in ToSet(queue[u]) BY <3>2, <4>1, <4>2 DEF OrderSound
      <4>3. CASE k \notin ToSet(queue[u])
        <5>1. k = i BY <3>4, <3>6, <3>10, <4>3
        <5>2. QED BY <3>5, <4>1, <5>1
      <4>4. QED BY <4>2, <4>3
    <3>11. QED BY <1>a, <3>7, <3>8, <3>10 DEF OrderSound
  <2>5. CASE Listen BY <1>1, <2>5 DEF Listen
  <2>6. QED BY <1>6, <2>1, <2>2, <2>3, <2>4, <2>5 DEF Handler
<1>7. CASE Room
  <2>1. UNCHANGED <<word, queue, held, up>> /\ up = "serving"
    BY <1>7 DEF Room, OtherOperation, OwnershipReleased, MemberSpeaks, MemberTurnEnds,
                OperationFinished, MemberTurnAbandoned, EngineTakes, EngineAnswers, Serving
  <2>2. QED BY <1>1, <2>1
<1>8. CASE Crash
  <2>1. /\ up' = "down" /\ word' = word /\ \A t \in Threads : queue'[t] = <<>>
        /\ \A s \in Steerers : held'[s] = <<>>
    BY <1>8 DEF Crash
  <2>2. QED BY <1>a, <2>1, OrderStep
<1>9. QED BY <1>2, <1>5, <1>6, <1>7, <1>8 DEF Next

(* Every pending row of a serving process is in the map or in the hands of *)
(* a steer, once, and the map's keys are the threads that wait: however    *)
(* the drains, the steers and the restarts overlap.                        *)
NothingOutOfReach ==
  Serving =>
    /\ \A i \in Issued : status[i] = "pending" <=> i \in ToSet(queue[Thread(i)]) \/ InHold(i)
    /\ \A t \in Threads : IsInjective(queue[t])
    /\ \A s \in Steerers : \A i \in ToSet(held[s]) : i \notin ToSet(queue[Thread(i)])
    /\ IsInjective(line) /\ ToSet(line) = {t \in Threads : queue[t] # <<>>}

(* No pending row of a room is out of reach (queueChannelMessage,          *)
(* drainChannelMessages, the steer and restoreChannelMessages).            *)
THEOREM PendingRowsAreHeld == Spec => []NothingOutOfReach
<1>1. CInv => NothingOutOfReach
  <2>1. SUFFICES ASSUME CInv, Serving PROVE NothingOutOfReach BY DEF NothingOutOfReach
  <2>2. TypeOK /\ WordsSound /\ LineSound BY <2>1 DEF CInv
  <2>3. ASSUME NEW i \in Issued
        PROVE  status[i] = "pending" <=> i \in ToSet(queue[Thread(i)]) \/ InHold(i)
    <3>1. i \in Ids /\ Thread(i) \notin gone BY DEF Issued
    <3>2. Thread(i) \in Threads /\ ~Folding(i) BY <2>1, <2>2, <3>1, ThreadType DEF Folding, Serving
    <3>3. ASSUME status[i] = "pending" PROVE i \in ToSet(queue[Thread(i)]) \/ InHold(i)
      BY <2>1, <2>2, <3>1, <3>2, <3>3 DEF WordsSound, JournalSound, Serving
    <3>4. ASSUME i \in ToSet(queue[Thread(i)]) PROVE status[i] = "pending"
      BY <2>2, <3>1, <3>2, <3>4 DEF WordsSound, QueueSound, Unclaimed
    <3>5. ASSUME InHold(i) PROVE status[i] = "pending"
      BY <2>2, <3>1, <3>5 DEF InHold, WordsSound, HeldSound, Unclaimed
    <3>6. QED BY <3>3, <3>4, <3>5
  <2>4. \A t \in Threads : IsInjective(queue[t]) BY <2>2 DEF WordsSound, QueueSound
  <2>5. \A s \in Steerers : \A i \in ToSet(held[s]) : i \notin ToSet(queue[Thread(i)])
    BY <2>2 DEF WordsSound, HeldSound
  <2>6. QED BY <2>2, <2>3, <2>4, <2>5 DEF NothingOutOfReach, LineSound
<1>2. QED BY <1>1, RoomQueueSound, PTL

(* While no two steers hold words of one thread at a time, what waits is   *)
(* in the order of acceptance too: across drains, holds that are put back  *)
(* (restoreHeldChannelQueue) and restarts.                                 *)
THEOREM PendingRowsAreInOrder == Spec /\ []OneHoldPerThread => []PendingIsReachable
<1>1. Init => OrderSound
  <2>1. SUFFICES ASSUME Init PROVE OrderSound OBVIOUS
  <2>2. /\ up = "serving" /\ \A t \in Threads : queue[t] = <<>>
        /\ \A s \in Steerers : held[s] = <<>>
    BY <2>1 DEF Init
  <2>3. ToSet(<<>>) = {} /\ Rising(<<>>) BY DEF ToSet, Rising
  <2>4. QED BY <2>2, <2>3 DEF OrderSound
<1>2. CInv /\ CInv' /\ OrderSound /\ OneHoldPerThread /\ [Next]_vars => OrderSound'
  <2>1. SUFFICES ASSUME CInv, CInv', OrderSound, OneHoldPerThread, [Next]_vars PROVE OrderSound'
    OBVIOUS
  <2>2. TypeOK' /\ ProcessSound' BY <2>1 DEF CInv
  <2>3. QED BY <2>1, <2>2, NextOrder
<1>3. OrderSound /\ NothingOutOfReach => PendingIsReachable
  BY DEF OrderSound, NothingOutOfReach, PendingIsReachable, Rising
<1>4. QED BY <1>1, <1>2, <1>3, RoomQueueSound, PendingRowsAreHeld, PTL DEF Spec

(* So with one steer at a time, as with none.                              *)
THEOREM OneSteererKeepsOrder ==
  ASSUME \A s, r \in Steerers : s = r
  PROVE  Spec => []PendingIsReachable
<1>1. OneHoldPerThread BY DEF OneHoldPerThread
<1>2. QED BY <1>1, PendingRowsAreInOrder, PTL

-----------------------------------------------------------------------------
(* The room keeps the ledger *)

(* While the room is there, nobody deletes a thread whose words a steer    *)
(* has in its hands.                                                       *)
HoldsKeepTheirThread ==
  RoomThere => \A s \in Steerers : held[s] # <<>> => Thread(held[s][1]) \notin gone

(* What the steps of the ledger need beyond CInv: the current thread is    *)
(* there, what starts was claimed in the journal, and what is folded goes  *)
(* into a thread that is there                                             *)
LedgerSound ==
  /\ active \in gone => gone = Threads
  /\ frame = "start" => Thread(item) \in gone \/ status[item] = "dispatching"
  /\ frame = "fold" => Thread(item) \notin gone

(* Every step keeps it.                                                    *)
LEMMA NextLedgerSound ==
  ASSUME CInv, LedgerSound, HoldsKeepTheirThread, [Next]_vars, TypeOK'
  PROVE  LedgerSound'
<1> USE DEF vars, disk, journal, work, waiting, turns, steers, bounds, history
<1>0. TypeOK /\ WordsSound /\ WalkSound BY DEF CInv
<1>1. ASSUME UNCHANGED <<active, gone>>, frame' \notin {"start", "fold"} PROVE LedgerSound'
  BY <1>1 DEF LedgerSound
<1>2. CASE UNCHANGED vars BY <1>2 DEF LedgerSound, Thread
<1>3. CASE Requests
  <2>1. ASSUME Serving, frame' = frame, UNCHANGED <<active, gone>> PROVE LedgerSound'
    BY <1>1, <2>1 DEF Serving
  <2>2. ASSUME NEW t \in Threads, SwitchTask(t) PROVE LedgerSound'
    BY <2>2 DEF SwitchTask, Serving, LedgerSound
  <2>3. ASSUME NEW t \in Threads, DeleteTask(t) PROVE LedgerSound'
    BY <2>3 DEF DeleteTask, Serving, LedgerSound
  <2>4. CASE DeleteRoom BY <2>4 DEF DeleteRoom, LedgerSound
  <2>5. ASSUME NEW s \in Steerers, SteerContinues(s) PROVE LedgerSound'
    <3>1. held[s] # <<>> /\ UNCHANGED <<active, gone, word>> /\ frame = "idle"
      BY <1>0, <2>5 DEF SteerContinues, WordsSound, HeldSound, Serving
    <3>2. CASE frame' = "fold"
      <4>1. RoomThere /\ item' = held[s][1]
        BY <2>5, <3>1, <3>2 DEF SteerContinues, SteerDelivered, SteerLost, SteerRefused, DrainAll
      <4>2. Thread(item)' = Thread(held[s][1]) BY <3>1, <4>1 DEF Thread
      <4>3. QED BY <3>1, <3>2, <4>1, <4>2 DEF HoldsKeepTheirThread, LedgerSound
    <3>3. CASE frame' # "fold"
      <4>1. frame' # "start"
        BY <2>5, <3>1 DEF SteerContinues, SteerDelivered, SteerLost, SteerRefused, DrainAll
      <4>2. QED BY <1>1, <3>1, <3>3, <4>1
    <3>4. QED BY <3>2, <3>3
  <2>6. ASSUME NEW t \in Threads, SteerDeclined(t) PROVE LedgerSound'
    BY <2>1, <2>6 DEF SteerDeclined
  <2>7. ASSUME NEW s \in Steerers, NEW t \in Threads, HoldForSteer(s, t) PROVE LedgerSound'
    BY <2>1, <2>7 DEF HoldForSteer
  <2>8. ASSUME NEW w \in Words, Post(w) PROVE LedgerSound' BY <2>1, <2>8 DEF Post
  <2>9. ASSUME NEW i \in Ids, Cancel(i) PROVE LedgerSound' BY <2>1, <2>9 DEF Cancel
  <2>10. QED BY <1>3, <2>2, <2>3, <2>4, <2>5, <2>6, <2>7, <2>8, <2>9 DEF Requests
<1>4. CASE Handler
  <2>1. CASE DrainVisit
    <3>1. UNCHANGED <<active, gone, word>> /\ frame = "visit" BY <2>1 DEF DrainVisit
    <3>2. CASE Skip BY <1>1, <3>1, <3>2 DEF Skip
    <3>3. CASE Claim
      <4>1. visit \in Seq(Threads) /\ visit # <<>> BY <1>0, <2>1 DEF TypeOK, DrainVisit
      <4>2. PICK t \in Threads : t = Head(visit) BY <4>1, TailElements
      <4>3. t \in ToSet(visit) BY <4>1, <4>2, TailElements
      <4>4. queue[t] \in Seq(Ids) /\ queue[t] # <<>>
        BY <1>0, <3>1, <4>3 DEF TypeOK, WalkSound
      <4>5. PICK i \in Ids : i = Head(queue[t]) BY <4>4, TailElements
      <4>6. i \in ToSet(queue[t]) BY <4>4, <4>5, TailElements
      <4>7. Thread(i) \in gone \/ status[i] = "pending"
        BY <1>0, <4>6 DEF WordsSound, QueueSound, Unclaimed
      <4>8. status' = SetStatus({i}, "dispatching") /\ frame' = "start" /\ item' = i
        BY <3>3, <4>2, <4>5 DEF Claim
      <4>9. Thread(i) \in gone \/ status'[i] = "dispatching" BY <4>7, <4>8 DEF SetStatus
      <4>10. Thread(item)' = Thread(i) BY <3>1, <4>8 DEF Thread
      <4>11. QED BY <3>1, <4>8, <4>9, <4>10 DEF LedgerSound
    <3>4. QED BY <2>1, <3>2, <3>3 DEF DrainVisit
  <2>2. CASE DrainStart \/ DrainEnds \/ DrainSettle \/ FoldAppend \/ FoldSettle \/ Purge
    BY <1>1, <2>2 DEF DrainStart, DrainEnds, DrainSettle, FoldAppend, FoldSettle, Purge
  <2>3. CASE Boot \/ RecoverMark \/ RecoverLine \/ RecoverRetire \/ RecoverEnds \/ RestoreRow \/ Listen
    BY <1>1, <2>3 DEF Boot, RecoverMark, RecoverLine, RecoverRetire, RecoverEnds, RestoreRow, Listen,
                      DrainAll
  <2>4. QED BY <1>4, <2>1, <2>2, <2>3 DEF Handler
<1>5. CASE Room
  <2>1. UNCHANGED <<active, gone>> /\ frame' \in {"idle", "visit"}
    BY <1>5 DEF Room, OtherOperation, OwnershipReleased, MemberSpeaks, MemberTurnEnds,
                OperationFinished, MemberTurnAbandoned, Finish, DrainAll, EngineTakes, EngineAnswers,
                Serving
  <2>2. QED BY <1>1, <2>1
<1>6. CASE Crash BY <1>1, <1>6 DEF Crash
<1>7. QED BY <1>2, <1>3, <1>4, <1>5, <1>6 DEF Next

(* What the ledger says of an id changes only with its row.                *)
LEMMA FateKept ==
  ASSUME TypeOK, NEW i \in Ids, UNCHANGED <<nextId, word, gone>>,
         status'[i] = status[i] \/ Thread(i) \in gone
  PROVE  Fate(i)' = Fate(i)
<1>1. CASE i >= nextId \/ Thread(i) \in gone BY <1>1 DEF Fate, Thread
<1>2. CASE ~(i >= nextId) /\ Thread(i) \notin gone
  <2>1. ~(i >= nextId') /\ Thread(i)' \notin gone' /\ status'[i] = status[i] BY <1>2 DEF Thread
  <2>2. CASE status[i] = "pending" BY <1>2, <2>1, <2>2 DEF Fate
  <2>3. CASE status[i] = "dispatching" BY <1>2, <2>1, <2>3 DEF Fate
  <2>4. CASE status[i] = "interrupted" BY <1>2, <2>1, <2>4 DEF Fate
  <2>5. CASE status[i] = "absent" BY <1>2, <2>1, <2>5 DEF Fate
  <2>6. CASE status[i] = "cancelled" BY <1>2, <2>1, <2>6 DEF Fate
  <2>7. QED BY <2>2, <2>3, <2>4, <2>5, <2>6 DEF TypeOK, Statuses
<1>3. QED BY <1>1, <1>2

(* What the ledger says of an accepted id whose thread is there.           *)
LEMMA FateOfRow ==
  ASSUME TypeOK, NEW i \in Ids, i < nextId, Thread(i) \notin gone
  PROVE  /\ status[i] = "pending" => Fate(i) = "waiting"
         /\ status[i] \in {"dispatching", "interrupted"} => Fate(i) = "claimed"
         /\ status[i] = "absent" => Fate(i) = "recorded"
         /\ Fate(i) # "none"
<1>1. ~(i >= nextId) BY ChannelQueueAssumption DEF Ids, TypeOK
<1>2. CASE status[i] = "pending" BY <1>1, <1>2 DEF Fate
<1>3. CASE status[i] = "dispatching" BY <1>1, <1>3 DEF Fate
<1>4. CASE status[i] = "interrupted" BY <1>1, <1>4 DEF Fate
<1>5. CASE status[i] = "absent" BY <1>1, <1>5 DEF Fate
<1>6. CASE status[i] = "cancelled" BY <1>1, <1>6 DEF Fate
<1>7. QED BY <1>2, <1>3, <1>4, <1>5, <1>6 DEF TypeOK, Statuses

fateOfAll == [i \in Ids |-> Fate(i)]
saidOfAll == [i \in Ids |-> lines[i] > 0]

(* A step after which every id has the fate it had stutters in the ledger. *)
LEMMA LedgerStutters ==
  ASSUME TypeOK, UNCHANGED <<nextId, word, gone>>,
         \A i \in Ids : status'[i] = status[i] \/ Thread(i) \in gone,
         \A i \in Ids : lines'[i] > 0 <=> lines[i] > 0
  PROVE  UNCHANGED <<fateOfAll, saidOfAll>>
<1>1. \A i \in Ids : Fate(i)' = Fate(i) BY FateKept
<1>2. fateOfAll' = fateOfAll BY <1>1 DEF fateOfAll
<1>3. saidOfAll' = saidOfAll BY DEF saidOfAll
<1>4. QED BY <1>2, <1>3

(* Some ids change their fate at once.                                     *)
LEMMA LedgerMoves ==
  ASSUME NEW S \in SUBSET Ids, NEW f,
         \A i \in Ids : Fate(i)' = IF i \in S THEN f ELSE Fate(i)
  PROVE  Ledger!Become(S, f)
BY DEF Ledger!Become

(* A line is written for words that wait or are claimed.                   *)
LEMMA LedgerSays ==
  ASSUME TypeOK, NEW i \in Ids, UNCHANGED <<nextId, word, gone, status>>,
         lines' = [lines EXCEPT ![i] = Bump(@)], Fate(i) \in {"waiting", "claimed"}
  PROVE  Ledger!Next
<1>1. fateOfAll' = fateOfAll
  <2>1. \A j \in Ids : Fate(j)' = Fate(j) BY FateKept
  <2>2. QED BY <2>1 DEF fateOfAll
<1>2. /\ lines \in [Ids -> 0..2] /\ lines[i] \in 0..2 /\ Bump(lines[i]) > 0
  BY BumpType DEF TypeOK
<1>3. saidOfAll' = [saidOfAll EXCEPT ![i] = TRUE] BY <1>2 DEF saidOfAll
<1>4. Ledger!Say(i) BY <1>1, <1>3 DEF Ledger!Say, Ledger!Having, fateOfAll, saidOfAll
<1>5. QED BY <1>4 DEF Ledger!Next

(* A row is settled whose words wait or are claimed and stand in the       *)
(* transcript.                                                             *)
LEMMA LedgerRecords ==
  ASSUME TypeOK, TypeOK', NEW i \in Ids, UNCHANGED <<nextId, word, gone, lines>>,
         \A j \in Ids \ {i} : status'[j] = status[j], status'[i] = "absent",
         i < nextId, Thread(i) \notin gone, Fate(i) \in {"waiting", "claimed"}, lines[i] > 0
  PROVE  Ledger!Next
<1>1. Fate(i)' = "recorded"
  <2>1. ~(i >= nextId') BY ChannelQueueAssumption DEF TypeOK, Ids
  <2>2. Thread(i)' \notin gone' BY DEF Thread
  <2>3. QED BY <2>1, <2>2 DEF Fate
<1>2. \A j \in Ids : Fate(j)' = IF j \in {i} THEN "recorded" ELSE Fate(j) BY <1>1, FateKept
<1>3. Ledger!Become({i}, "recorded") BY <1>2, LedgerMoves
<1>4. Ledger!Record({i}) BY <1>3 DEF Ledger!Record, Ledger!Having
<1>5. QED BY <1>4 DEF Ledger!Next

(* Every step of the room is a step of the ledger or leaves it as it is.   *)
LEMMA RoomStepsKeepLedger ==
  ASSUME CInv, CInv', LedgerSound, LedgerSound', [Next]_vars
  PROVE  [Ledger!Next]_<<fateOfAll, saidOfAll>>
<1> USE DEF vars, disk, journal, work, waiting, turns, steers, bounds, history
<1>0. /\ TypeOK /\ ProcessSound /\ WordsSound /\ WalkSound /\ LaunchSound /\ RecoverSound
      /\ TypeOK' /\ WordsSound'
  BY DEF CInv
<1>a. nextId \in Nat /\ Ids \subseteq Nat BY <1>0, ChannelQueueAssumption DEF TypeOK, Ids
<1>1. ASSUME UNCHANGED <<status, word, nextId, lines, gone>>
      PROVE  UNCHANGED <<fateOfAll, saidOfAll>>
  BY <1>0, <1>1, LedgerStutters
<1>2. CASE UNCHANGED vars BY <1>1, <1>2
<1>3. CASE Requests
  <2>1. ASSUME NEW w \in Words, Post(w) PROVE [Ledger!Next]_<<fateOfAll, saidOfAll>>
    <3>1. UNCHANGED gone BY <2>1 DEF Post
    <3>2. CASE StartNow(w) BY <1>1, <3>1, <3>2 DEF StartNow
    <3>3. CASE Enqueue(w)
      <4>1. PICK n \in Ids : n = nextId BY <1>0, <3>3 DEF Enqueue, TypeOK, Ids
      <4>2. /\ nextId' = n + 1 /\ status' = [status EXCEPT ![n] = "pending"]
            /\ word' = [word EXCEPT ![n] = w] /\ lines' = lines
        BY <3>3, <4>1 DEF Enqueue
      <4>3. Home[w] \notin gone BY <2>1 DEF Post, RoomThere, LedgerSound
      <4>4. Thread(n)' = Home[w] /\ status'[n] = "pending" BY <1>0, <4>2 DEF Thread, TypeOK
      <4>5. Fate(n)' = "waiting"
        <5>1. ~(n >= nextId') BY <1>a, <4>1, <4>2
        <5>2. QED BY <3>1, <4>3, <4>4, <5>1 DEF Fate
      <4>6. Fate(n) = "none" BY <1>a, <4>1 DEF Fate
      <4>7. ASSUME NEW j \in Ids, j # n PROVE Fate(j)' = Fate(j)
        <5>1. status'[j] = status[j] /\ Thread(j)' = Thread(j)
          BY <1>0, <4>2, <4>7 DEF TypeOK, Thread
        <5>2. j >= nextId' <=> j >= nextId BY <1>a, <4>1, <4>2, <4>7
        <5>3. CASE j >= nextId \/ Thread(j) \in gone BY <3>1, <5>1, <5>2, <5>3 DEF Fate
        <5>4. CASE ~(j >= nextId) /\ Thread(j) \notin gone
          <6>1. ~(j >= nextId') /\ Thread(j)' \notin gone' BY <3>1, <5>1, <5>2, <5>4
          <6>2. CASE status[j] = "pending" BY <5>1, <5>4, <6>1, <6>2 DEF Fate
          <6>3. CASE status[j] = "dispatching" BY <5>1, <5>4, <6>1, <6>3 DEF Fate
          <6>4. CASE status[j] = "interrupted" BY <5>1, <5>4, <6>1, <6>4 DEF Fate
          <6>5. CASE status[j] = "absent" BY <5>1, <5>4, <6>1, <6>5 DEF Fate
          <6>6. CASE status[j] = "cancelled" BY <5>1, <5>4, <6>1, <6>6 DEF Fate
          <6>7. QED BY <1>0, <6>2, <6>3, <6>4, <6>5, <6>6 DEF TypeOK, Statuses
        <5>5. QED BY <5>3, <5>4
      <4>8. \A j \in Ids : Fate(j)' = IF j \in {n} THEN "waiting" ELSE Fate(j) BY <4>5, <4>7
      <4>9. Ledger!Become({n}, "waiting") BY <4>8, LedgerMoves
      <4>10. Ledger!Accept(n) BY <4>2, <4>6, <4>9 DEF Ledger!Accept
      <4>11. QED BY <4>10 DEF Ledger!Next
    <3>4. QED BY <2>1, <3>2, <3>3 DEF Post
  <2>2. ASSUME NEW i \in Ids, Cancel(i) PROVE [Ledger!Next]_<<fateOfAll, saidOfAll>>
    <3>1. /\ UNCHANGED <<word, nextId, lines, gone>> /\ status' = SetStatus({i}, "cancelled")
          /\ i < nextId /\ i \in ToSet(queue[Thread(i)])
      BY <2>2 DEF Cancel
    <3>2. \A j \in Ids \ {i} : status'[j] = status[j] BY <3>1 DEF SetStatus
    <3>3. CASE Thread(i) \in gone BY <1>0, <3>1, <3>2, <3>3, LedgerStutters
    <3>4. CASE Thread(i) \notin gone
      <4>1. status[i] = "pending"
        BY <1>0, <3>1, <3>4, ThreadType DEF WordsSound, QueueSound, Unclaimed
      <4>2. Fate(i) = "waiting" BY <1>0, <3>1, <3>4, <4>1, FateOfRow
      <4>3. status'[i] = "cancelled" BY <3>1, <4>1 DEF SetStatus
      <4>4. Fate(i)' = "cancelled"
        <5>1. ~(i >= nextId') /\ Thread(i)' \notin gone' BY <1>a, <3>1, <3>4 DEF Thread
        <5>2. QED BY <4>3, <5>1 DEF Fate
      <4>5. \A j \in Ids : Fate(j)' = IF j \in {i} THEN "cancelled" ELSE Fate(j)
        BY <1>0, <3>1, <3>2, <4>4, FateKept
      <4>6. Ledger!Become({i}, "cancelled") BY <4>5, LedgerMoves
      <4>7. Ledger!Cancel(i) BY <3>1, <4>2, <4>6 DEF Ledger!Cancel
      <4>8. QED BY <4>7 DEF Ledger!Next
    <3>5. QED BY <3>3, <3>4
  <2>3. ASSUME NEW t \in Threads, SteerDeclined(t) \/ SwitchTask(t)
        PROVE  UNCHANGED <<fateOfAll, saidOfAll>>
    BY <1>1, <2>3 DEF SteerDeclined, SwitchTask
  <2>4. ASSUME NEW s \in Steerers, NEW t \in Threads, HoldForSteer(s, t)
        PROVE  UNCHANGED <<fateOfAll, saidOfAll>>
    BY <1>1, <2>4 DEF HoldForSteer
  <2>5. ASSUME NEW s \in Steerers, SteerContinues(s) PROVE UNCHANGED <<fateOfAll, saidOfAll>>
    <3>1. /\ UNCHANGED <<word, nextId, lines, gone>>
          /\ status' = status \/ gone = Threads
      BY <2>5 DEF SteerContinues, SteerDelivered, SteerLost, SteerRefused, RoomThere
    <3>2. \A i \in Ids : status'[i] = status[i] \/ Thread(i) \in gone BY <1>0, <3>1, ThreadType
    <3>3. QED BY <1>0, <3>1, <3>2, LedgerStutters
  <2>6. ASSUME NEW S \in SUBSET Ids, UNCHANGED <<nextId, word, lines>>,
               gone \subseteq gone',
               \A i \in S : i < nextId /\ Thread(i) \in gone',
               \A i \in Ids \ S : status'[i] = status[i] /\ (i < nextId => Thread(i) \notin gone' \ gone)
        PROVE  Ledger!Next
    <3>1. \A i \in Ids : Thread(i)' = Thread(i) BY <2>6 DEF Thread
    <3>2. \A i \in S : Fate(i)' = "dropped" /\ Fate(i) # "none"
      <4>1. SUFFICES ASSUME NEW i \in S PROVE Fate(i)' = "dropped" /\ Fate(i) # "none" OBVIOUS
      <4>2. i \in Ids /\ ~(i >= nextId) BY <1>a, <2>6
      <4>3. Fate(i)' = "dropped" BY <2>6, <3>1, <4>2 DEF Fate
      <4>4. ASSUME Thread(i) \in gone PROVE Fate(i) # "none" BY <4>2, <4>4 DEF Fate
      <4>5. ASSUME Thread(i) \notin gone PROVE Fate(i) # "none"
        <5>1. i < nextId BY <2>6
        <5>2. QED BY <1>0, <4>5, <4>2, <5>1, FateOfRow DEF TypeOK, Statuses
      <4>6. QED BY <4>3, <4>4, <4>5
    <3>3. ASSUME NEW j \in Ids \ S PROVE Fate(j)' = Fate(j)
      <4>1. status'[j] = status[j] BY <2>6
      <4>2. CASE j >= nextId BY <2>6, <4>2 DEF Fate
      <4>3. CASE ~(j >= nextId) /\ Thread(j) \in gone BY <2>6, <3>1, <4>3 DEF Fate
      <4>4. CASE ~(j >= nextId) /\ Thread(j) \notin gone
        <5>1. j < nextId BY <1>a, <4>4
        <5>2. ~(j >= nextId') /\ Thread(j)' \notin gone' BY <2>6, <3>1, <4>4, <5>1
        <5>3. CASE status[j] = "pending" BY <4>1, <4>4, <5>2, <5>3 DEF Fate
        <5>4. CASE status[j] = "dispatching" BY <4>1, <4>4, <5>2, <5>4 DEF Fate
        <5>5. CASE status[j] = "interrupted" BY <4>1, <4>4, <5>2, <5>5 DEF Fate
        <5>6. CASE status[j] = "absent" BY <4>1, <4>4, <5>2, <5>6 DEF Fate
        <5>7. CASE status[j] = "cancelled" BY <4>1, <4>4, <5>2, <5>7 DEF Fate
        <5>8. QED BY <1>0, <5>3, <5>4, <5>5, <5>6, <5>7 DEF TypeOK, Statuses
      <4>5. QED BY <4>2, <4>3, <4>4
    <3>4. \A j \in Ids : Fate(j)' = IF j \in S THEN "dropped" ELSE Fate(j) BY <3>2, <3>3
    <3>5. Ledger!Become(S, "dropped") BY <3>4, LedgerMoves
    <3>6. S \subseteq Ids \ Ledger!Having({"none"}) BY <3>2 DEF Ledger!Having
    <3>7. Ledger!Drop(S) BY <2>6, <3>5, <3>6 DEF Ledger!Drop
    <3>8. QED BY <3>7 DEF Ledger!Next
  <2>7. ASSUME NEW t \in Threads, DeleteTask(t) PROVE Ledger!Next
    <3> DEFINE S == {i \in Ids : i < nextId /\ Thread(i) = t}
    <3>1. /\ UNCHANGED <<nextId, word, lines>> /\ gone' = gone \cup {t}
          /\ status' = SetStatus(S, "absent")
      BY <2>7 DEF DeleteTask
    <3>2. \A i \in Ids \ S : status'[i] = status[i] BY <3>1 DEF SetStatus
    <3>3. QED BY <2>6, <3>1, <3>2
  <2>8. CASE DeleteRoom
    <3> DEFINE S == {i \in Ids : i < nextId}
    <3>1. UNCHANGED <<nextId, word, lines, status>> /\ gone' = Threads BY <2>8 DEF DeleteRoom
    <3>2. \A i \in Ids : Thread(i) \in Threads BY <1>0, ThreadType
    <3>3. gone \subseteq gone' BY <1>0, <3>1 DEF TypeOK
    <3>4. S \in SUBSET Ids /\ (\A i \in S : i < nextId /\ Thread(i) \in gone') BY <3>1, <3>2
    <3>5. \A i \in Ids \ S : status'[i] = status[i] /\ (i < nextId => Thread(i) \notin gone' \ gone)
      BY <3>1
    <3> HIDE DEF S
    <3>6. QED BY <2>6, <3>1, <3>3, <3>4, <3>5
  <2>9. QED BY <1>3, <2>1, <2>2, <2>3, <2>4, <2>5, <2>7, <2>8 DEF Requests
<1>4. CASE Handler
  <2>1. CASE DrainVisit
    <3>1. UNCHANGED <<word, nextId, lines, gone>> /\ frame = "visit" BY <2>1 DEF DrainVisit
    <3>2. CASE Skip BY <1>1, <3>1, <3>2 DEF Skip
    <3>3. CASE Claim
      <4>1. visit \in Seq(Threads) /\ visit # <<>> BY <1>0, <2>1 DEF TypeOK, DrainVisit
      <4>2. PICK t \in Threads : t = Head(visit) BY <4>1, TailElements
      <4>3. t \in ToSet(visit) BY <4>1, <4>2, TailElements
      <4>4. queue[t] \in Seq(Ids) /\ queue[t] # <<>>
        BY <1>0, <3>1, <4>3 DEF TypeOK, WalkSound
      <4>5. PICK i \in Ids : i = Head(queue[t]) BY <4>4, TailElements
      <4>6. i \in ToSet(queue[t]) BY <4>4, <4>5, TailElements
      <4>7. i < nextId /\ (Thread(i) \in gone \/ status[i] = "pending")
        BY <1>0, <4>6 DEF WordsSound, QueueSound, Unclaimed
      <4>8. status' = SetStatus({i}, "dispatching") BY <3>3, <4>2, <4>5 DEF Claim
      <4>9. \A j \in Ids \ {i} : status'[j] = status[j] BY <4>8 DEF SetStatus
      <4>10. CASE Thread(i) \in gone BY <1>0, <3>1, <4>9, <4>10, LedgerStutters
      <4>11. CASE Thread(i) \notin gone
        <5>1. Fate(i) = "waiting" BY <1>0, <4>7, <4>11, FateOfRow
        <5>2. status'[i] = "dispatching" BY <4>7, <4>8, <4>11 DEF SetStatus
        <5>3. Fate(i)' = "claimed"
          <6>1. ~(i >= nextId') /\ Thread(i)' \notin gone' BY <1>a, <3>1, <4>7, <4>11 DEF Thread
          <6>2. QED BY <5>2, <6>1 DEF Fate
        <5>4. \A j \in Ids : Fate(j)' = IF j \in {i} THEN "claimed" ELSE Fate(j)
          BY <1>0, <3>1, <4>9, <5>3, FateKept
        <5>5. Ledger!Become({i}, "claimed") BY <5>4, LedgerMoves
        <5>6. Ledger!Claim({i}) BY <3>1, <5>1, <5>5 DEF Ledger!Claim, Ledger!Having
        <5>7. QED BY <5>6 DEF Ledger!Next
      <4>12. QED BY <4>10, <4>11
    <3>4. QED BY <2>1, <3>2, <3>3 DEF DrainVisit
  <2>2. CASE DrainStart
    <3>1. frame = "start" /\ UNCHANGED <<status, word, nextId, gone>> /\ item \in Ids
      BY <1>0, <2>2 DEF DrainStart, TypeOK
    <3>2. CASE StartGone BY <1>1, <3>1, <3>2 DEF StartGone
    <3>3. CASE StartFollowup
      <4>1. PICK i \in Ids : i = item BY <3>1
      <4>2. /\ Thread(i) \notin gone /\ lines' = [lines EXCEPT ![i] = Bump(@)]
            /\ status[i] = "dispatching"
        BY <3>1, <3>3, <4>1 DEF StartFollowup, LedgerSound
      <4>3. i < nextId BY <1>0, <1>a, <4>2 DEF WordsSound, JournalSound
      <4>4. Fate(i) = "claimed" BY <1>0, <4>2, <4>3, FateOfRow
      <4>5. Ledger!Next BY <1>0, <3>1, <4>2, <4>4, LedgerSays
      <4>6. QED BY <4>5
    <3>4. QED BY <2>2, <3>2, <3>3 DEF DrainStart
  <2>3. CASE DrainEnds BY <1>1, <2>3 DEF DrainEnds
  <2>4. ASSUME NEW i \in Ids, UNCHANGED <<word, nextId, lines, gone>>,
               \A j \in Ids \ {i} : status'[j] = status[j], status'[i] = "absent",
               status[i] # "cancelled", Thread(i) \in gone \/ lines[i] > 0
        PROVE  [Ledger!Next]_<<fateOfAll, saidOfAll>>
    <3>1. CASE Thread(i) \in gone \/ status[i] = "absent"
      BY <1>0, <2>4, <3>1, LedgerStutters
    <3>2. CASE Thread(i) \notin gone /\ status[i] # "absent"
      <4>1. i < nextId BY <1>0, <1>a, <3>2 DEF WordsSound, JournalSound
      <4>2. Fate(i) \in {"waiting", "claimed"}
        BY <1>0, <2>4, <3>2, <4>1, FateOfRow DEF TypeOK, Statuses
      <4>3. Ledger!Next BY <1>0, <2>4, <3>2, <4>1, <4>2, LedgerRecords
      <4>4. QED BY <4>3
    <3>3. QED BY <3>1, <3>2
  <2>5. CASE DrainSettle
    <3>1. settling \in Seq(Ids) /\ settling # <<>> /\ frame = "settle"
      BY <1>0, <2>5 DEF DrainSettle, ProcessSound, TypeOK
    <3>2. PICK i \in Ids : i = Head(settling) BY <3>1, TailElements
    <3>3. i \in ToSet(settling) BY <3>1, <3>2, TailElements
    <3>4. status' = SetStatus({i}, "absent") /\ UNCHANGED <<word, nextId, lines, gone>>
      BY <2>5, <3>2 DEF DrainSettle
    <3>5. /\ \A j \in Ids \ {i} : status'[j] = status[j]
          /\ status'[i] = "absent"
      BY <3>4 DEF SetStatus
    <3>6. /\ status[i] \in {"dispatching", "absent"}
          /\ Thread(i) \in gone \/ lines[i] > 0
      BY <1>0, <3>1, <3>3 DEF LaunchSound, Launched
    <3>7. QED BY <2>4, <3>4, <3>5, <3>6
  <2>6. CASE FoldAppend
    <3>1. PICK i \in Ids : i = item BY <1>0 DEF TypeOK
    <3>2. /\ frame = "fold" /\ lines' = [lines EXCEPT ![i] = Bump(@)]
          /\ UNCHANGED <<status, word, nextId, gone>>
      BY <2>6, <3>1 DEF FoldAppend
    <3>3. Thread(i) \notin gone BY <3>1, <3>2 DEF LedgerSound
    <3>4. i < nextId /\ status[i] = "pending"
      BY <1>0, <3>1, <3>2, <3>3 DEF WordsSound, FoldSound, Folding, Unclaimed
    <3>5. Fate(i) = "waiting" BY <1>0, <3>3, <3>4, FateOfRow
    <3>6. Ledger!Next BY <1>0, <3>2, <3>5, LedgerSays
    <3>7. QED BY <3>6
  <2>7. CASE FoldSettle
    <3>1. PICK i \in Ids : i = item BY <1>0 DEF TypeOK
    <3>2. /\ frame = "foldSettle" /\ status' = SetStatus({i}, "absent")
          /\ UNCHANGED <<word, nextId, lines, gone>>
      BY <2>7, <3>1 DEF FoldSettle
    <3>3. /\ \A j \in Ids \ {i} : status'[j] = status[j]
          /\ status'[i] = "absent"
      BY <3>2 DEF SetStatus
    <3>4. status[i] \in {"pending", "absent"} /\ lines[i] > 0
      BY <1>0, <3>1, <3>2 DEF WordsSound, FoldSound, Folding, Unclaimed
    <3>5. QED BY <2>4, <3>2, <3>3, <3>4
  <2>8. CASE Purge
    <3>1. gone = Threads /\ UNCHANGED <<word, nextId, lines, gone>>
      BY <1>0, <2>8 DEF Purge, ProcessSound
    <3>2. \A i \in Ids : Thread(i) \in gone BY <1>0, <3>1, ThreadType
    <3>3. QED BY <1>0, <3>1, <3>2, LedgerStutters
  <2>9. CASE Boot \/ RecoverEnds \/ RestoreRow \/ Listen
    BY <1>1, <2>9 DEF Boot, RecoverEnds, RestoreRow, Listen
  <2>10. CASE RecoverMark
    <3>1. PICK i \in Unfinished :
             IF Thread(i) \in gone
             THEN status' = [status EXCEPT ![i] = "cancelled"]
             ELSE status' = [status EXCEPT ![i] = "interrupted"]
      BY <2>10 DEF RecoverMark
    <3>2. UNCHANGED <<word, nextId, lines, gone>> BY <2>10 DEF RecoverMark
    <3>3. i \in Ids /\ status[i] \in {"dispatching", "interrupted"} BY DEF Unfinished
    <3>4. \A j \in Ids \ {i} : status'[j] = status[j] BY <1>0, <3>1 DEF TypeOK
    <3>5. CASE Thread(i) \in gone BY <1>0, <3>2, <3>4, <3>5, LedgerStutters
    <3>6. CASE Thread(i) \notin gone
      <4>1. i < nextId BY <1>0, <1>a, <3>3 DEF WordsSound, JournalSound
      <4>2. Fate(i) = "claimed" BY <1>0, <3>3, <3>6, <4>1, FateOfRow
      <4>3. status'[i] = "interrupted" BY <1>0, <3>1, <3>3, <3>6 DEF TypeOK
      <4>4. Fate(i)' = "claimed"
        <5>1. Thread(i)' = Thread(i) /\ gone' = gone /\ nextId' = nextId BY <3>2 DEF Thread
        <5>2. Thread(i)' \notin gone' BY <3>6, <5>1
        <5>3. ~(i >= nextId') BY <1>a, <3>3, <4>1, <5>1
        <5>4. QED BY <4>3, <5>2, <5>3 DEF Fate
      <4>5. \A j \in Ids : Fate(j)' = Fate(j) BY <1>0, <3>2, <3>4, <4>2, <4>4, FateKept
      <4>6. QED BY <3>2, <4>5 DEF fateOfAll, saidOfAll
    <3>7. QED BY <3>5, <3>6
  <2>11. CASE RecoverLine
    <3>1. PICK i \in Ids : i = item BY <1>0 DEF TypeOK
    <3>2. /\ UNCHANGED <<status, word, nextId, gone>>
          /\ lines' = IF lines[i] = 0 THEN [lines EXCEPT ![i] = Bump(@)] ELSE lines
          /\ i < nextId /\ status[i] = "interrupted" /\ Thread(i) \notin gone
      BY <1>0, <2>11, <3>1 DEF RecoverLine, RecoverSound
    <3>3. CASE lines' = lines BY <1>1, <3>2, <3>3
    <3>4. CASE lines' = [lines EXCEPT ![i] = Bump(@)]
      <4>1. Fate(i) = "claimed" BY <1>0, <3>2, FateOfRow
      <4>2. Ledger!Next BY <1>0, <3>2, <3>4, <4>1, LedgerSays
      <4>3. QED BY <4>2
    <3>5. QED BY <3>2, <3>3, <3>4
  <2>12. CASE RecoverRetire
    <3>1. PICK i \in Ids : i = item BY <1>0 DEF TypeOK
    <3>2. /\ frame = "retire" /\ status' = [status EXCEPT ![i] = "absent"]
          /\ UNCHANGED <<word, nextId, lines, gone>>
      BY <2>12, <3>1 DEF RecoverRetire
    <3>3. /\ \A j \in Ids \ {i} : status'[j] = status[j]
          /\ status'[i] = "absent"
      BY <1>0, <3>2 DEF TypeOK
    <3>4. status[i] = "interrupted" /\ lines[i] > 0 BY <1>0, <3>1, <3>2 DEF RecoverSound
    <3>5. QED BY <2>4, <3>2, <3>3, <3>4
  <2>13. QED BY <1>4, <2>1, <2>2, <2>3, <2>5, <2>6, <2>7, <2>8, <2>9, <2>10, <2>11, <2>12
              DEF Handler
<1>5. CASE Room
  <2>1. UNCHANGED <<status, word, nextId, lines, gone>>
    BY <1>5 DEF Room, OtherOperation, OwnershipReleased, MemberSpeaks, MemberTurnEnds,
                OperationFinished, MemberTurnAbandoned, EngineTakes, EngineAnswers
  <2>2. QED BY <1>1, <2>1
<1>6. CASE Crash BY <1>1, <1>6 DEF Crash
<1>7. QED BY <1>2, <1>3, <1>4, <1>5, <1>6 DEF Next

(* While nobody deletes a thread whose words a steer has in its hands, the *)
(* journal and the transcript of every room implement the ledger, whatever *)
(* step of a drain, a steer or a recovery the process dies in.             *)
THEOREM RoomKeepsTheLedger == Spec /\ []HoldsKeepTheirThread => LedgerKept
<1>1. Init => Ledger!Init /\ LedgerSound
  <2>1. SUFFICES ASSUME Init PROVE Ledger!Init /\ LedgerSound OBVIOUS
  <2>2. /\ nextId = 1 /\ lines = [i \in Ids |-> 0] /\ gone = {} /\ frame = "idle"
    BY <2>1 DEF Init
  <2>3. \A i \in Ids : Fate(i) = "none" /\ ~(lines[i] > 0)
    BY <2>2, ChannelQueueAssumption DEF Fate, Ids
  <2>4. [i \in Ids |-> Fate(i)] = [i \in Ids |-> "none"] BY <2>3
  <2>5. ASSUME NEW i \in Ids PROVE (lines[i] > 0) = FALSE BY <2>3
  <2>6. [i \in Ids |-> lines[i] > 0] = [i \in Ids |-> FALSE] BY <2>5
  <2>7. Ledger!Init BY <2>4, <2>6 DEF Ledger!Init
  <2>8. QED BY <2>2, <2>7 DEF LedgerSound
<1>2. CInv /\ CInv' /\ LedgerSound /\ HoldsKeepTheirThread /\ [Next]_vars => LedgerSound'
  <2>1. SUFFICES ASSUME CInv, CInv', LedgerSound, HoldsKeepTheirThread, [Next]_vars
                 PROVE  LedgerSound'
    OBVIOUS
  <2>2. TypeOK' BY <2>1 DEF CInv
  <2>3. QED BY <2>1, <2>2, NextLedgerSound
<1>3. CInv /\ CInv' /\ LedgerSound /\ LedgerSound' /\ [Next]_vars
         => [Ledger!Next]_<<fateOfAll, saidOfAll>>
  BY RoomStepsKeepLedger
<1>4. QED BY <1>1, <1>2, <1>3, RoomQueueSound, PTL DEF Spec, LedgerKept, Ledger!Spec,
                                                       fateOfAll, saidOfAll
(* In a room of one task, or one whose tasks nobody deletes, it keeps the  *)
(* ledger without a condition: its threads go together or not at all       *)
(* (DeleteTask, DeleteRoom). So it does without steers.                    *)
THEOREM OneTaskKeepsTheLedger ==
  ASSUME \/ \A t, u \in Threads : t = u
         \/ Deletable = {}
         \/ Steerers = {}
  PROVE  Spec => LedgerKept
<1> DEFINE Whole == Steerers = {} \/ gone = {} \/ gone = Threads
<1> USE DEF vars, disk, journal, work, waiting, turns, steers, bounds, history
<1>1. Init => Whole BY DEF Init
<1>2. ASSUME Whole, [Next]_vars PROVE Whole'
  <2>1. ASSUME gone' = gone PROVE Whole' BY <1>2, <2>1
  <2>2. ASSUME NEW t \in Threads, DeleteTask(t) PROVE Whole' BY <2>2 DEF DeleteTask
  <2>3. CASE DeleteRoom BY <2>3 DEF DeleteRoom
  <2>4. CASE Requests
    <3>1. ASSUME NEW w \in Words, Post(w) PROVE gone' = gone BY <3>1 DEF Post
    <3>2. ASSUME NEW i \in Ids, Cancel(i) PROVE gone' = gone BY <3>2 DEF Cancel
    <3>3. ASSUME NEW t \in Threads, SteerDeclined(t) \/ SwitchTask(t) PROVE gone' = gone
      BY <3>3 DEF SteerDeclined, SwitchTask
    <3>4. ASSUME NEW s \in Steerers, NEW t \in Threads, HoldForSteer(s, t) PROVE gone' = gone
      BY <3>4 DEF HoldForSteer
    <3>5. ASSUME NEW s \in Steerers, SteerContinues(s) PROVE gone' = gone
      BY <3>5 DEF SteerContinues
    <3>6. QED BY <2>1, <2>2, <2>3, <2>4, <3>1, <3>2, <3>3, <3>4, <3>5 DEF Requests
  <2>5. CASE Handler
    BY <2>1, <2>5 DEF Handler, DrainVisit, DrainStart, DrainEnds, DrainSettle, FoldAppend,
       FoldSettle, Purge, Boot, RecoverMark, RecoverLine, RecoverRetire, RecoverEnds,
       RestoreRow, Listen, Skip, Claim, StartGone, StartFollowup
  <2>6. CASE Room
    BY <2>1, <2>6 DEF Room, OtherOperation, OwnershipReleased, MemberSpeaks, MemberTurnEnds,
       OperationFinished, MemberTurnAbandoned, EngineTakes, EngineAnswers
  <2>7. QED BY <1>2, <2>1, <2>4, <2>5, <2>6 DEF Next, Crash
<1>3. CInv /\ Whole => HoldsKeepTheirThread
  <2>1. SUFFICES ASSUME CInv, Whole, RoomThere, NEW s \in Steerers, held[s] # <<>>
                 PROVE  Thread(held[s][1]) \notin gone
    BY DEF HoldsKeepTheirThread
  <2>2. QED BY <2>1 DEF RoomThere
<1> HIDE DEF Whole
<1>4. QED BY <1>1, <1>2, <1>3, RoomQueueSound, RoomKeepsTheLedger, PTL DEF Spec
-----------------------------------------------------------------------------
(* The idle room *)

(* While no member hangs, the room is a member's exactly while the member  *)
(* speaks, and only in the thread of the operation at work                 *)
SpeakerSound ==
  /\ busy # Nobody => stage = "speaking"
  /\ stage = "speaking" => speaker[Head(ops).thread] = busy
  /\ \A t \in Threads : speaker[t] # Nobody => stage = "speaking" /\ t = Head(ops).thread

(* A room without an operation has no queue between two handlers, and in a *)
(* drain no queue that the drain will not yet visit                        *)
IdleSound ==
  /\ active \in gone => gone = Threads
  /\ frame \notin {"fold", "foldSettle"}
  /\ ops = <<>> /\ (Serving \/ frame = "settle") => \A t \in Threads \ gone : queue[t] = <<>>
  /\ /\ ops = <<>> /\ ~redrain
     /\ frame = "visit" \/ (frame = "start" /\ Thread(item) \in gone)
     => \A t \in Threads \ gone : queue[t] = <<>> \/ t \in ToSet(visit)

(* An operation that begins changes neither the member that speaks nor the *)
(* operation at work (beginGroupTurnOperation).                            *)
LEMMA BeginSpeaks ==
  ASSUME TypeOK, ProcessSound, SpeakerSound, NEW op, Begin(op)
  PROVE  SpeakerSound'
<1>1. ops \in Seq(Operations) /\ UNCHANGED <<busy, speaker>> BY DEF TypeOK, Begin
<1>2. CASE ops = <<>>
  <2>1. stage = "none" /\ stage' = "starting" BY <1>2 DEF ProcessSound, Begin
  <2>2. QED BY <1>1, <2>1 DEF SpeakerSound
<1>3. CASE ops # <<>>
  <2>1. stage' = stage /\ ops' = Append(ops, op) BY <1>3 DEF Begin
  <2>2. Head(ops') = Head(ops) BY <1>1, <1>3, <2>1
  <2>3. QED BY <1>1, <2>1, <2>2 DEF SpeakerSound
<1>4. QED BY <1>2, <1>3

(* It has the room at work (groupTurnOperations).                          *)
LEMMA BeginNonempty ==
  ASSUME TypeOK, NEW op, Begin(op)
  PROVE  ops' # <<>>
<1>1. ops \in Seq(Operations) /\ ops' = Append(ops, op) BY DEF TypeOK, Begin
<1>2. Len(Append(ops, op)) = Len(ops) + 1 /\ Len(ops) \in Nat BY <1>1
<1>3. Len(<<>>) = 0 OBVIOUS
<1>4. QED BY <1>1, <1>2, <1>3

(* Every step keeps the speaker with the operation at work.                *)
LEMMA NextSpeaker ==
  ASSUME ~Hangs, TypeOK, ProcessSound, SpeakerSound, [Next]_vars
  PROVE  SpeakerSound'
<1> USE DEF vars, disk, journal, work, waiting, turns, steers, bounds, history
<1>1. ASSUME UNCHANGED turns PROVE SpeakerSound' BY <1>1 DEF SpeakerSound
<1>2. CASE UNCHANGED vars BY <1>1, <1>2
<1>3. CASE Requests
  <2>1. ASSUME NEW w \in Words, Post(w) PROVE SpeakerSound'
    <3>1. CASE Enqueue(w) BY <1>1, <3>1 DEF Enqueue
    <3>2. CASE StartNow(w) BY <1>1, <3>2, BeginSpeaks DEF StartNow
    <3>3. QED BY <2>1, <3>1, <3>2 DEF Post
  <2>2. CASE DeleteRoom BY <1>1, <2>2 DEF DeleteRoom
  <2>3. ASSUME NEW i \in Ids, Cancel(i) PROVE SpeakerSound' BY <1>1, <2>3 DEF Cancel
  <2>4. ASSUME NEW t \in Threads, SteerDeclined(t) \/ SwitchTask(t) \/ DeleteTask(t)
        PROVE  SpeakerSound'
    BY <1>1, <2>4 DEF SteerDeclined, SwitchTask, DeleteTask
  <2>5. ASSUME NEW s \in Steerers, NEW t \in Threads, HoldForSteer(s, t) PROVE SpeakerSound'
    BY <1>1, <2>5 DEF HoldForSteer
  <2>6. ASSUME NEW s \in Steerers, SteerContinues(s) PROVE SpeakerSound'
    BY <1>1, <2>6 DEF SteerContinues
  <2>7. QED BY <1>3, <2>1, <2>2, <2>3, <2>4, <2>5, <2>6 DEF Requests
<1>4. CASE Handler
  <2>1. CASE DrainStart
    BY <1>1, <2>1, BeginSpeaks DEF DrainStart, StartGone, StartFollowup
  <2>2. CASE DrainVisit \/ DrainEnds \/ DrainSettle \/ FoldAppend \/ FoldSettle \/ Purge
    BY <1>1, <2>2 DEF DrainVisit, DrainEnds, DrainSettle, FoldAppend, FoldSettle, Purge
  <2>3. CASE Boot \/ RecoverMark \/ RecoverLine \/ RecoverRetire \/ RecoverEnds \/ RestoreRow \/ Listen
    BY <1>1, <2>3 DEF Boot, RecoverMark, RecoverLine, RecoverRetire, RecoverEnds, RestoreRow, Listen
  <2>4. QED BY <1>4, <2>1, <2>2, <2>3 DEF Handler
<1>5. CASE Room
  <2>1. ASSUME NEW t \in Threads, OtherOperation(t) PROVE SpeakerSound'
    BY <2>1, BeginSpeaks DEF OtherOperation
  <2>2. ASSUME NEW t \in Threads, OwnershipReleased(t) PROVE SpeakerSound'
    BY <2>2 DEF OwnershipReleased, SpeakerSound
  <2>3. ASSUME NEW b \in Bots, MemberSpeaks(b) PROVE SpeakerSound'
    <3>1. PICK t : t = Head(ops).thread OBVIOUS
    <3>2. /\ stage # "speaking" /\ stage' = "speaking" /\ ops' = ops
          /\ busy' = b /\ speaker' = [speaker EXCEPT ![t] = b]
      BY <2>3, <3>1 DEF MemberSpeaks
    <3>3. ops \in Seq(Operations) /\ ops # <<>> BY <2>3 DEF TypeOK, MemberSpeaks
    <3>4. t \in Threads
      <4>1. PICK op \in Operations : op = Head(ops) BY <3>3, TailElements
      <4>2. QED BY <3>1, <4>1 DEF Operations
    <3>5. speaker'[t] = b /\ \A u \in Threads \ {t} : speaker'[u] = Nobody
      BY <3>2, <3>4 DEF SpeakerSound, TypeOK
    <3>6. QED BY <3>1, <3>2, <3>5 DEF SpeakerSound
  <2>4. CASE MemberTurnEnds
    <3>1. PICK t : t = Head(ops).thread OBVIOUS
    <3>2. stage = "speaking" /\ stage' = "between" /\ ops' = ops
      BY <2>4 DEF MemberTurnEnds
    <3>3. busy = speaker[t] BY <3>1, <3>2 DEF SpeakerSound
    <3>4. busy' = Nobody /\ speaker' = [speaker EXCEPT ![t] = Nobody]
      BY <2>4, <3>1, <3>3 DEF MemberTurnEnds, Unspeak
    <3>5. \A u \in Threads : speaker'[u] = Nobody BY <3>1, <3>4 DEF SpeakerSound, TypeOK
    <3>6. QED BY <3>2, <3>4, <3>5 DEF SpeakerSound
  <2>5. CASE OperationFinished
    <3>1. stage # "speaking" /\ stage' # "speaking" /\ UNCHANGED <<busy, speaker>>
      BY <2>5 DEF OperationFinished, Finish
    <3>2. QED BY <3>1 DEF SpeakerSound
  <2>6. CASE MemberTurnAbandoned BY <2>6 DEF MemberTurnAbandoned
  <2>7. ASSUME NEW s \in Steerers, EngineTakes(s) \/ EngineAnswers(s) PROVE SpeakerSound'
    BY <1>1, <2>7 DEF EngineTakes, EngineAnswers
  <2>8. QED BY <1>5, <2>1, <2>2, <2>3, <2>4, <2>5, <2>6, <2>7 DEF Room
<1>6. CASE Crash
  <2>1. busy' = Nobody /\ stage' = "none" /\ speaker' = [t \in Threads |-> Nobody]
    BY <1>6 DEF Crash
  <2>2. QED BY <2>1 DEF SpeakerSound
<1>7. QED BY <1>2, <1>3, <1>4, <1>5, <1>6 DEF Next

(* A drain that begins will visit every queue there is.                    *)
LEMMA DrainBegins ==
  ASSUME CInv', IdleSound, DrainAll, UNCHANGED <<active, gone>>
  PROVE  IdleSound'
<1>1. /\ frame' = "visit" /\ visit' = line' /\ ToSet(line)' = {t \in Threads : queue[t] # <<>>}'
  BY DEF CInv, LineSound, DrainAll
<1>2. ToSet(visit)' = {t \in Threads : queue[t] # <<>>}' BY <1>1
<1>3. QED BY <1>1, <1>2 DEF IdleSound, Serving

(* Every step keeps the idle room without a queue.                         *)
LEMMA NextIdle ==
  ASSUME ~Hangs, Steerers = {}, CInv, CInv', SpeakerSound, IdleSound, [Next]_vars
  PROVE  IdleSound'
<1> USE DEF vars, disk, journal, work, waiting, turns, steers, bounds, history
<1>0. /\ TypeOK /\ ProcessSound /\ WordsSound /\ LineSound /\ WalkSound
      /\ TypeOK' /\ ProcessSound'
  BY DEF CInv
<1>1. (~Working <=> ops = <<>>) /\ (Working <=> ops # <<>>)
  BY <1>0 DEF ProcessSound, SpeakerSound, Working
<1>2. ASSUME ops' # <<>>, UNCHANGED <<active, gone>>, frame' \notin {"fold", "foldSettle"}
      PROVE  IdleSound'
  BY <1>2 DEF IdleSound
<1>3. ASSUME ~Serving', frame' \notin {"fold", "foldSettle", "settle", "visit", "start"},
             UNCHANGED <<active, gone>>
      PROVE  IdleSound'
  BY <1>3 DEF IdleSound
<1>4. CASE UNCHANGED vars BY <1>4 DEF IdleSound, Serving, Thread
<1>5. CASE Requests
  <2>1. ASSUME NEW w \in Words, Post(w) PROVE IdleSound'
    <3>1. UNCHANGED <<active, gone, up, work>> BY <2>1 DEF Post
    <3>2. CASE StartNow(w)
      <4>1. CASE ops' # <<>> BY <1>2, <3>1, <4>1 DEF IdleSound
      <4>2. CASE ops' = <<>>
        <5>1. UNCHANGED <<turns, waiting, word>> BY <1>0, <3>2, <4>2, BeginNonempty DEF StartNow
        <5>2. QED BY <3>1, <5>1 DEF IdleSound, Serving, Thread
      <4>3. QED BY <4>1, <4>2
    <3>3. CASE Enqueue(w)
      <4>1. ops' = ops /\ ops # <<>> BY <1>1, <2>1, <3>3 DEF Post, Enqueue, StartNow, Begin
      <4>2. QED BY <1>2, <3>1, <4>1 DEF IdleSound
    <3>4. QED BY <2>1, <3>2, <3>3 DEF Post
  <2>2. ASSUME NEW i \in Ids, Cancel(i) PROVE IdleSound'
    <3>1. PICK t \in Threads : t = Thread(i) BY <1>0, ThreadType
    <3>2. /\ UNCHANGED <<active, gone, up, work, turns>> /\ Serving
          /\ queue' = [queue EXCEPT ![t] = Without(@, i)] /\ queue[t] # <<>>
      BY <1>0, <2>2, <3>1, ToSetType DEF Cancel, TypeOK
    <3>3. CASE ops # <<>> BY <1>2, <3>2, <3>3 DEF IdleSound
    <3>4. CASE ops = <<>>
      <4>1. \A u \in Threads \ gone : u # t /\ queue[u] = <<>> BY <3>2, <3>4 DEF IdleSound
      <4>2. \A u \in Threads \ gone : queue'[u] = <<>> BY <1>0, <3>2, <4>1 DEF TypeOK
      <4>3. QED BY <3>2, <4>2 DEF IdleSound, Serving
    <3>5. QED BY <3>3, <3>4
  <2>3. ASSUME NEW t \in Threads, SteerDeclined(t) PROVE IdleSound' BY <2>3 DEF SteerDeclined
  <2>4. ASSUME NEW t \in Threads, SwitchTask(t) PROVE IdleSound'
    BY <2>4 DEF SwitchTask, IdleSound, Serving
  <2>5. ASSUME NEW t \in Threads, DeleteTask(t) PROVE IdleSound'
    BY <2>5 DEF DeleteTask, IdleSound, Serving
  <2>6. CASE DeleteRoom BY <2>6 DEF DeleteRoom, IdleSound, Serving
  <2>7. QED BY <1>5, <2>1, <2>2, <2>3, <2>4, <2>5, <2>6 DEF Requests
<1>6. CASE Handler
  <2>1. CASE DrainVisit
    <3>1. /\ UNCHANGED <<active, gone, up, redrain, turns, word>> /\ frame = "visit"
          /\ visit \in Seq(Threads) /\ visit # <<>>
      BY <1>0, <2>1 DEF DrainVisit, TypeOK
    <3>2. CASE Skip BY <1>1, <1>2, <3>1, <3>2 DEF Skip
    <3>3. CASE Claim
      <4>1. PICK t \in Threads : t = Head(visit) BY <3>1, TailElements
      <4>2. t \in ToSet(visit) /\ ToSet(visit) = {t} \cup ToSet(Tail(visit)) BY <3>1, <4>1, TailElements
      <4>3. queue[t] \in Seq(Ids) /\ queue[t] # <<>>
        BY <1>0, <3>1, <4>2 DEF TypeOK, WalkSound
      <4>4. PICK i \in Ids : i = Head(queue[t]) BY <4>3, TailElements
      <4>5. i \in ToSet(queue[t]) BY <4>3, <4>4, TailElements
      <4>6. Thread(i) = t BY <1>0, <4>5 DEF WordsSound, QueueSound
      <4>7. /\ queue' = [queue EXCEPT ![t] = Tail(@)] /\ visit' = Tail(visit)
            /\ frame' = "start" /\ item' = i
        BY <3>3, <4>1, <4>4 DEF Claim
      <4>8. Thread(item)' = t BY <3>1, <4>6, <4>7 DEF Thread
      <4>9. ASSUME ops = <<>>, ~redrain, t \in gone, NEW u \in Threads \ gone
            PROVE  queue'[u] = <<>> \/ u \in ToSet(visit)'
        <5>1. u # t /\ queue'[u] = queue[u] BY <1>0, <4>7, <4>9 DEF TypeOK
        <5>2. queue[u] = <<>> \/ u \in ToSet(visit) BY <3>1, <4>9 DEF IdleSound
        <5>3. ToSet(visit)' = ToSet(Tail(visit)) BY <4>7
        <5>4. QED BY <4>2, <5>1, <5>2, <5>3
      <4>10. QED BY <3>1, <4>7, <4>8, <4>9 DEF IdleSound, Serving
    <3>4. QED BY <2>1, <3>2, <3>3 DEF DrainVisit
  <2>2. CASE DrainStart
    <3>1. /\ UNCHANGED <<active, gone, up, visit, queue>> /\ frame = "start" /\ frame' = "visit"
      BY <2>2 DEF DrainStart
    <3>2. CASE StartGone BY <3>1, <3>2 DEF StartGone, IdleSound, Serving
    <3>3. CASE StartFollowup BY <3>1, <3>3 DEF StartFollowup, IdleSound, Serving
    <3>4. QED BY <2>2, <3>2, <3>3 DEF DrainStart
  <2>3. CASE DrainEnds
    <3>1. /\ UNCHANGED <<active, gone, up, queue, turns, line>> /\ frame = "visit" /\ visit = <<>>
      BY <2>3 DEF DrainEnds
    <3>2. ToSet(visit) = {} BY <1>0, <3>1, ToSetType DEF TypeOK
    <3>3. CASE redrain
      <4>1. visit' = line /\ frame' = "visit" BY <2>3, <3>1, <3>3 DEF DrainEnds
      <4>2. ToSet(visit)' = {t \in Threads : queue[t] # <<>>} BY <1>0, <4>1 DEF LineSound
      <4>3. QED BY <3>1, <4>1, <4>2 DEF IdleSound, Serving
    <3>4. CASE ~redrain
      <4>1. frame' \in {"idle", "settle"} BY <2>3, <3>4 DEF DrainEnds
      <4>2. QED BY <3>1, <3>2, <3>4, <4>1 DEF IdleSound, Serving
    <3>5. QED BY <3>3, <3>4
  <2>4. CASE DrainSettle
    <3>1. /\ UNCHANGED <<active, gone, up, queue, turns>> /\ frame = "settle"
          /\ frame' \in {"idle", "settle"}
      BY <2>4 DEF DrainSettle
    <3>2. QED BY <3>1 DEF IdleSound, Serving
  <2>5. CASE FoldAppend \/ FoldSettle BY <2>5 DEF FoldAppend, FoldSettle, IdleSound
  <2>6. CASE Purge
    <3>1. gone = Threads BY <1>0, <2>6 DEF Purge, ProcessSound
    <3>2. QED BY <2>6, <3>1 DEF Purge, IdleSound
  <2>7. CASE Listen BY <2>7, DrainBegins DEF Listen
  <2>8. CASE Boot \/ RecoverMark \/ RecoverLine \/ RecoverRetire \/ RecoverEnds \/ RestoreRow
    <3>1. UNCHANGED <<active, gone>> /\ frame' \in BootFrames
      BY <2>8 DEF Boot, RecoverMark, RecoverLine, RecoverRetire, RecoverEnds, RestoreRow, BootFrames
    <3>2. QED BY <1>3, <3>1 DEF BootFrames, Serving
  <2>9. QED BY <1>6, <2>1, <2>2, <2>3, <2>4, <2>5, <2>6, <2>7, <2>8 DEF Handler
<1>7. CASE Room
  <2>1. ASSUME NEW t \in Threads, OtherOperation(t) PROVE IdleSound'
    <3>1. ops' # <<>> /\ UNCHANGED <<active, gone, frame>>
      BY <1>0, <2>1, BeginNonempty DEF OtherOperation
    <3>2. QED BY <1>2, <3>1 DEF IdleSound
  <2>2. ASSUME NEW t \in Threads, OwnershipReleased(t) PROVE IdleSound'
    BY <2>2 DEF OwnershipReleased, SpeakerSound
  <2>3. ASSUME NEW b \in Bots, MemberSpeaks(b) PROVE IdleSound'
    BY <1>2, <2>3 DEF MemberSpeaks, IdleSound
  <2>4. CASE MemberTurnEnds
    <3>1. ops' = ops /\ ops # <<>> /\ UNCHANGED <<active, gone, frame>>
      BY <1>0, <2>4 DEF MemberTurnEnds, ProcessSound
    <3>2. QED BY <1>2, <3>1 DEF IdleSound
  <2>5. CASE OperationFinished BY <2>5, DrainBegins DEF OperationFinished, Finish
  <2>6. CASE MemberTurnAbandoned BY <2>6 DEF MemberTurnAbandoned
  <2>7. QED BY <1>7, <2>1, <2>2, <2>3, <2>4, <2>5, <2>6 DEF Room
<1>8. CASE Crash
  <2>1. UNCHANGED <<active, gone>> /\ up' = "down" /\ frame' = "idle" BY <1>8 DEF Crash
  <2>2. QED BY <1>3, <2>1 DEF Serving
<1>9. QED BY <1>4, <1>5, <1>6, <1>7, <1>8 DEF Next

(* Both hold in every room without hanging members and without steers.     *)
LEMMA RoomIdleSound ==
  ASSUME ~Hangs, Steerers = {}
  PROVE  Spec => [](SpeakerSound /\ IdleSound)
<1>1. Init => SpeakerSound /\ IdleSound
  BY DEF Init, SpeakerSound, IdleSound
<1>2. CInv /\ CInv' /\ SpeakerSound /\ IdleSound /\ [Next]_vars => SpeakerSound' /\ IdleSound'
  <2>1. SUFFICES ASSUME CInv, CInv', SpeakerSound, IdleSound, [Next]_vars
                 PROVE  SpeakerSound' /\ IdleSound'
    OBVIOUS
  <2>2. SpeakerSound' BY <2>1, NextSpeaker DEF CInv
  <2>3. IdleSound' BY <2>1, NextIdle
  <2>4. QED BY <2>2, <2>3
<1>3. QED BY <1>1, <1>2, RoomQueueSound, PTL DEF Spec

(* As long as no member's turn hangs and nobody steers, nothing waits in   *)
(* an idle room, whatever members, tasks, cancellations and restarts do    *)
(* (finishGroupTurnOperation, drainChannelMessages and its second drain).  *)
THEOREM IdleRoomsHaveNoQueue ==
  ASSUME ~Hangs, Steerers = {}
  PROVE  Spec => []IdleRoomHasNoQueue
<1>1. CInv /\ SpeakerSound /\ IdleSound => IdleRoomHasNoQueue
  BY DEF CInv, ProcessSound, IdleSound, IdleRoomHasNoQueue, Working
<1>2. QED BY <1>1, RoomIdleSound, RoomQueueSound, PTL

(* So words that find the room idle overtake none that were accepted       *)
(* before them (POST /api/groups/:id/messages).                            *)
THEOREM NobodyIsOvertaken ==
  ASSUME ~Hangs, Steerers = {}
  PROVE  Spec => NobodyOvertakes
<1>1. ASSUME CInv, SpeakerSound, IdleSound, [Next]_vars
      PROVE  [direct' # direct => queue[active] = <<>>]_vars
  <2> USE DEF vars, disk, journal, work, waiting, turns, steers, bounds, history
  <2>1. ASSUME NEW w \in Words, Post(w), direct' # direct PROVE queue[active] = <<>>
    <3>1. Serving /\ RoomThere /\ ~Working BY <2>1 DEF Post, Enqueue
    <3>2. active \in Threads \ gone BY <1>1, <3>1 DEF CInv, TypeOK, IdleSound, RoomThere
    <3>3. ops = <<>> BY <3>1 DEF Working
    <3>4. QED BY <1>1, <3>1, <3>2, <3>3 DEF IdleSound
  <2>2. CASE Requests
    BY <2>1, <2>2 DEF Requests, Cancel, SteerDeclined, SwitchTask, DeleteTask, SteerContinues,
       HoldForSteer, DeleteRoom
  <2>3. CASE Handler
    BY <2>3 DEF Handler, DrainVisit, DrainStart, DrainEnds, DrainSettle, FoldAppend, FoldSettle,
       Purge, Boot, RecoverMark, RecoverLine, RecoverRetire, RecoverEnds, RestoreRow, Listen
  <2>4. CASE Room
    BY <2>4 DEF Room, OtherOperation, OwnershipReleased, MemberSpeaks, MemberTurnEnds,
       OperationFinished, MemberTurnAbandoned, EngineTakes, EngineAnswers
  <2>5. CASE Crash BY <2>5 DEF Crash
  <2>6. QED BY <1>1, <2>2, <2>3, <2>4, <2>5 DEF Next
<1>2. QED BY <1>1, RoomIdleSound, RoomQueueSound, PTL DEF Spec, NobodyOvertakes
=============================================================================
