----------------------- MODULE SteerQueueJournalProofs -----------------------
(***************************************************************************)
(* What the journal of a bot says and where the words are, for every set   *)
(* of threads, words and steerers and every bound: nothing pending is out  *)
(* of reach, and rows go only with their words in the transcript. Both     *)
(* rest on JInv, which says of every pending row where its words wait and  *)
(* of every handler between two commits what it has in hand. On top of it, *)
(* under conditions on the steers: the queue keeps its order (OrderSound), *)
(* words are said once (SettledSound, FreshSound, UsedOnce), and the line  *)
(* for a slot is served (WalkSound).                                       *)
(***************************************************************************)
EXTENDS SteerQueueProofs

(* The words a running turn took in, until their rows are settled.         *)
Folding(i) == frame \in {"fold", "settle"} /\ i \in ToSet(batch)

Waits(i) == i \in ToSet(queue[Thread(i)]) \/ InHold(i) \/ Folding(i)

(* What waits is pending, unless its row went with its thread.             *)
Journaled(i) == /\ status[i] \in {"pending", "absent"}
                /\ Thread(i) \in gone \/ status[i] = "pending"

WordsSound ==
  /\ \A t \in Threads : IsInjective(queue[t])
  /\ \A s \in Steerers : IsInjective(held[s])
  /\ \A i \in Ids :
       /\ Waits(i) => Journaled(i)
       /\ up = "serving" /\ status[i] = "pending" /\ Thread(i) \notin gone => Waits(i)
       /\ i >= nextId => status[i] = "absent" /\ lines[i] = 0

(* What each stage of the process leaves empty                             *)
StagesSound ==
  /\ up # "serving" => \A t \in Threads : turnIds[t] = {}
  /\ up # "serving" /\ frame # "restore" => \A t \in Threads : queue[t] = <<>>
  /\ frame = "restore" => Unfinished = {}
  /\ frame = "purge" => gone = Threads

LineSound == IsInjective(line) /\ ToSet(line) = {t \in Threads : queue[t] # <<>>}

(* The ids of a batch, claimed by a drain or folded into a turn            *)
Drawn == frame \in {"append", "start"}
Folded == frame \in {"fold", "settle"}
InHand(i) ==
  /\ i < nextId /\ Thread(i) \notin gone
  /\ Drawn  => /\ Thread(i) = Thread(batch[1]) /\ claimed[i] > 0
               /\ status[i] = "dispatching" /\ \A t \in Threads : i \notin turnIds[t]
  /\ Folded => /\ claimed[i] = 0 /\ status[i] = "pending"
               /\ i \notin ToSet(queue[Thread(i)]) /\ ~InHold(i)
BatchSound ==
  Drawn \/ Folded =>
    /\ batch # <<>> /\ done <= Len(batch) /\ (frame \in {"start", "settle"} => done = Len(batch))
    /\ \A k \in 1..done : lines[batch[k]] > 0
    /\ \A i \in ToSet(batch) : InHand(i)

(* The rows a turn will retire when it settles                             *)
TurnSound ==
  \A t \in Threads :
    /\ turnIds[t] # {} => turn[t] # "idle" /\ t \notin gone
    /\ \A i \in turnIds[t] : /\ i < nextId /\ Thread(i) = t
                             /\ claimed[i] > 0 /\ status[i] = "dispatching" /\ lines[i] > 0

(* The row recovery has in hand                                            *)
RecoverSound ==
  frame \in {"recoverLine", "recoverNotice", "retire"} =>
    /\ batch # <<>> /\ batch[1] < nextId
    /\ status[batch[1]] = "interrupted" /\ Thread(batch[1]) \notin gone
    /\ frame # "recoverLine" => lines[batch[1]] > 0

JInv == WordsSound /\ StagesSound /\ LineSound /\ BatchSound /\ TurnSound /\ RecoverSound

-----------------------------------------------------------------------------
(* The stages of a step *)

(* Parking, handoffs and the start of a deletion touch no words: at most a *)
(* handler begins.                                                         *)
Coordinates ==
  SetParking \/ \E t \in Threads : \/ DeleteTask(t) \/ HandoffOpens(t)
                                   \/ HandoffSettles(t) \/ HandoffRuns(t)

LEMMA CoordinationSteps ==
  ASSUME Coordinates
  PROVE  /\ UNCHANGED <<disk, up, waiting, turns, calls, room, history>>
         /\ up = "serving" /\ frame = "idle" /\ frame' \in {"idle", "visit", "delete"}
         /\ frame' = "visit" => visit' = line
         /\ frame' # "visit" => UNCHANGED <<visit, batch, done>>
BY DEF Coordinates, SetParking, DeleteTask, HandoffOpens, HandoffSettles, HandoffRuns, Serving,
       DrainAll, work

(* The rows of one thread go, and the turn it may have had settles nothing. *)
LEMMA DeletionSteps ==
  ASSUME TypeOK, DeleteEnds
  PROVE  /\ UNCHANGED <<word, nextId, lines, notices, direct, up, visit, batch, done, waiting,
                        calls, room, history>>
         /\ frame = "delete" /\ frame' = "idle"
         /\ \E t \in Threads :
              /\ gone' = gone \cup {t}
              /\ status' = SetStatus({i \in Ids : i < nextId /\ Thread(i) = t}, "absent")
              /\ turnIds' = [turnIds EXCEPT ![t] = {}]
              /\ turn' = [turn EXCEPT ![t] = IF ThreadBusy(t) THEN "closing" ELSE "idle"]
BY DEF DeleteEnds, TypeOK

(* A handoff starts a turn that settles nothing, or fails and drains.      *)
LEMMA HandoffStartSteps ==
  ASSUME TypeOK, HandoffStarts
  PROVE  /\ UNCHANGED <<disk, up, batch, done, waiting, calls, room, history>>
         /\ frame = "handoff" /\ frame' \in {"idle", "visit"}
         /\ frame' = "visit" => visit' = line
         /\ \/ UNCHANGED turns
            \/ \E t \in Threads : /\ turn' = [turn EXCEPT ![t] = "dispatching"]
                                  /\ turnIds' = [turnIds EXCEPT ![t] = {}]
BY DEF HandoffStarts, DrainAll, TypeOK

(* A request or an event finds the process idle and leaves it idle or with *)
(* a handler that has begun.                                               *)
LEMMA OutsideSteps ==
  ASSUME Requests \/ Engine
  PROVE  /\ up = "serving" /\ up' = "serving" /\ frame = "idle" /\ UNCHANGED notices
         /\ frame' \in {"idle", "visit", "fold", "purge", "delete"}
         /\ frame' = "idle" => UNCHANGED <<visit, batch, done>>
<1> USE DEF vars, disk, work, waiting, turns, calls, coordination, history
<1>0. CASE Coordinates BY <1>0, CoordinationSteps
<1>1. CASE Requests /\ ~Coordinates
  <2>1. up = "serving" /\ up' = up /\ frame = "idle" /\ UNCHANGED notices
    BY <1>1 DEF Requests, Coordinates, Send, SendContinues, OpenThread, Cancel, SteerDeclined,
                SteerContinues, HoldForSteer, DeleteBot, Serving, StartOrQueue, Enqueue,
                StartDirect, Decline
  <2>2. /\ frame' \in {"idle", "visit", "fold", "purge", "delete"}
        /\ frame' = "idle" => UNCHANGED <<visit, batch, done>>
    BY <1>1, <2>1 DEF Requests, Coordinates, Send, SendContinues, OpenThread, Cancel, SteerDeclined,
                SteerContinues, HoldForSteer, DeleteBot, StartOrQueue, Enqueue,
                StartDirect, Decline
  <2>3. QED BY <2>1, <2>2
<1>2. CASE Engine /\ ~Coordinates
  BY <1>2 DEF Engine, Coordinates, TurnCompleted, DispatchAcknowledged, DispatchFailed, TurnStalled,
              EngineTakes, EngineAnswers, RoomSpeaks, RoomTurnCompleted, RoomOperationFinished,
              OtherTurnCompleted, Serving, DrainAll
<1>3. QED BY <1>0, <1>1, <1>2

-----------------------------------------------------------------------------
(* Words in the map, in the hands of a steer and in those of a turn *)

(* A counter that was bumped is not zero.                                  *)
LEMMA BumpCounts == \A n \in 0..2 : Bump(n) > 0
BY DEF Bump

(* What is in the map or in the hands of a steer was accepted and is       *)
(* unclaimed.                                                              *)
LEMMA WaitingWords ==
  ASSUME IInv
  PROVE  /\ \A t \in Threads : \A i \in ToSet(queue[t]) :
              i \in Ids /\ i < nextId /\ Thread(i) = t /\ claimed[i] = 0 /\ Waits(i)
         /\ \A s \in Steerers : \A i \in ToSet(held[s]) :
              /\ i \in Ids /\ i < nextId /\ claimed[i] = 0 /\ Waits(i)
              /\ Thread(i) = Thread(held[s][1]) /\ i \notin ToSet(queue[Thread(i)])
         /\ \A s \in Steerers : held[s] # <<>> =>
              held[s][1] \in ToSet(held[s]) /\ Thread(held[s][1]) \in Threads
<1>0. TypeOK /\ QueueSound /\ HeldSound BY DEF IInv
<1>1. ASSUME NEW t \in Threads, NEW i \in ToSet(queue[t])
      PROVE  i \in Ids /\ i < nextId /\ Thread(i) = t /\ claimed[i] = 0 /\ Waits(i)
  <2>1. i \in Ids
    <3>1. queue[t] \in Seq(Ids) BY <1>0 DEF TypeOK
    <3>2. QED BY <3>1, ToSetType
  <2>2. i < nextId /\ Thread(i) = t /\ claimed[i] = 0 BY <1>0 DEF QueueSound
  <2>3. QED BY <2>1, <2>2 DEF Waits
<1>2. ASSUME NEW s \in Steerers, NEW i \in ToSet(held[s])
      PROVE  /\ i \in Ids /\ i < nextId /\ claimed[i] = 0 /\ Waits(i)
             /\ Thread(i) = Thread(held[s][1]) /\ i \notin ToSet(queue[Thread(i)])
  <2>1. i \in Ids
    <3>1. held[s] \in Seq(Ids) BY <1>0 DEF TypeOK
    <3>2. QED BY <3>1, ToSetType
  <2>2. /\ i < nextId /\ claimed[i] = 0 /\ Thread(i) = Thread(held[s][1])
        /\ i \notin ToSet(queue[Thread(i)])
    BY <1>0 DEF HeldSound
  <2>3. QED BY <2>1, <2>2 DEF Waits, InHold
<1>3. ASSUME NEW s \in Steerers, held[s] # <<>>
      PROVE  held[s][1] \in ToSet(held[s]) /\ Thread(held[s][1]) \in Threads
  <2>1. held[s] \in Seq(Ids) BY <1>0 DEF TypeOK
  <2>2. held[s][1] \in Ids /\ held[s][1] \in ToSet(held[s]) BY <1>3, <2>1 DEF ToSet
  <2>3. QED BY <1>0, <2>2, ThreadType
<1>4. QED BY <1>1, <1>2, <1>3

(* A step that moves no words: rows go with their threads, or they are     *)
(* rows of words that wait nowhere.                                        *)
LEMMA StillWords ==
  ASSUME TypeOK, WordsSound, UNCHANGED <<word, nextId, queue, held>>,
         gone \subseteq gone', up' = "serving" => up = "serving",
         \A i \in Ids : Folding(i)' <=> Folding(i),
         \A i \in Ids : i >= nextId => status'[i] = "absent" /\ lines'[i] = 0,
         \A i \in Ids : \/ status'[i] = status[i]
                        \/ status'[i] = "absent" /\ Thread(i) \in gone'
                        \/ status'[i] # "pending" /\ ~Waits(i)
  PROVE  WordsSound'
<1>1. \A i \in Ids : Thread(i)' = Thread(i) BY DEF Thread
<1>2. \A i \in Ids : Waits(i)' <=> Waits(i) BY <1>1 DEF Waits, InHold
<1>3. ASSUME NEW i \in Ids, Waits(i)' PROVE Journaled(i)'
  <2>1. Waits(i) BY <1>2, <1>3
  <2>2. Journaled(i) BY <2>1 DEF WordsSound
  <2>3. QED BY <1>1, <2>1, <2>2 DEF Journaled
<1>4. ASSUME NEW i \in Ids, up' = "serving", status'[i] = "pending", Thread(i)' \notin gone'
      PROVE  Waits(i)'
  <2>1. status[i] = "pending" /\ Thread(i) \notin gone BY <1>1, <1>4
  <2>2. Waits(i) BY <1>4, <2>1 DEF WordsSound
  <2>3. QED BY <1>2, <2>2
<1>5. QED BY <1>3, <1>4 DEF WordsSound

(* The same when no handler has words in hand and no row changes.          *)
LEMMA IdleWords ==
  ASSUME TypeOK, WordsSound, UNCHANGED <<status, lines, word, nextId, queue, held, gone>>,
         up' = "serving" => up = "serving",
         frame \notin {"fold", "settle"}, frame' \notin {"fold", "settle"}
  PROVE  WordsSound'
<1>1. \A i \in Ids : Folding(i)' <=> Folding(i) BY DEF Folding
<1>2. QED BY <1>1, StillWords DEF WordsSound

(* A step that moves words between the map, the steers and the turns, or   *)
(* takes some away together with their pending rows.                       *)
LEMMA MoveWords ==
  ASSUME TypeOK, WordsSound, UNCHANGED <<word, nextId, gone, lines>>,
         up' = "serving" => up = "serving",
         \A t \in Threads : IsInjective(queue'[t]),
         \A s \in Steerers : IsInjective(held'[s]),
         \A i \in Ids :
           /\ Waits(i)' => Waits(i) /\ status'[i] = status[i]
           /\ status'[i] = "pending" => status[i] = "pending"
           /\ i >= nextId => status'[i] = "absent"
           /\ up' = "serving" /\ Waits(i) /\ status'[i] = "pending" /\ Thread(i) \notin gone
                => Waits(i)'
  PROVE  WordsSound'
<1>1. \A i \in Ids : Thread(i)' = Thread(i) BY DEF Thread
<1>2. ASSUME NEW i \in Ids, Waits(i)' PROVE Journaled(i)'
  <2>1. Waits(i) /\ status'[i] = status[i] BY <1>2
  <2>2. Journaled(i) BY <2>1 DEF WordsSound
  <2>3. QED BY <1>1, <2>1, <2>2 DEF Journaled
<1>3. ASSUME NEW i \in Ids, up' = "serving", status'[i] = "pending", Thread(i)' \notin gone'
      PROVE  Waits(i)'
  <2>1. status[i] = "pending" /\ Thread(i) \notin gone /\ up = "serving" BY <1>1, <1>3
  <2>2. Waits(i) BY <2>1 DEF WordsSound
  <2>3. QED BY <1>3, <2>1, <2>2
<1>4. QED BY <1>2, <1>3 DEF WordsSound

(* A pending row gets its words at the end of its queue: a new one, or one *)
(* a restart puts back.                                                    *)
LEMMA PutInWords ==
  ASSUME TypeOK, WordsSound, NEW i \in Ids, NEW u \in Threads,
         i \notin ToSet(queue[u]),
         \A j \in Ids \ {i} : Thread(j)' = Thread(j) /\ status'[j] = status[j],
         Thread(i)' = u, status'[i] = "pending",
         \A j \in Ids : j >= nextId' => j >= nextId /\ j # i,
         queue' = [queue EXCEPT ![u] = Append(@, i)],
         UNCHANGED <<held, gone, up, lines>>,
         frame \notin {"fold", "settle"}, frame' \notin {"fold", "settle"}
  PROVE  WordsSound'
<1>1. queue[u] \in Seq(Ids) BY DEF TypeOK
<1>2. /\ ToSet(Append(queue[u], i)) = ToSet(queue[u]) \cup {i}
      /\ IsInjective(Append(queue[u], i))
  <2>1. IsInjective(queue[u]) BY DEF WordsSound
  <2>2. QED BY <1>1, <2>1, AppendElements
<1>3. /\ queue'[u] = Append(queue[u], i)
      /\ \A t \in Threads \ {u} : queue'[t] = queue[t]
  BY DEF TypeOK
<1>4. \A t \in Threads : IsInjective(queue'[t]) BY <1>2, <1>3 DEF WordsSound
<1>5. ASSUME NEW j \in Ids \ {i} PROVE Waits(j)' <=> Waits(j)
  <2>1. Thread(j) \in Threads /\ Thread(j)' = Thread(j) BY ThreadType
  <2>2. j \in ToSet(queue'[Thread(j)]) <=> j \in ToSet(queue[Thread(j)]) BY <1>2, <1>3, <2>1
  <2>3. QED BY <2>1, <2>2 DEF Waits, InHold, Folding
<1>6. Waits(i)' BY <1>2, <1>3 DEF Waits
<1>7. ASSUME NEW j \in Ids, Waits(j)' PROVE Journaled(j)'
  <2>1. CASE j = i BY <2>1 DEF Journaled
  <2>2. CASE j # i
    <3>1. Journaled(j) BY <1>5, <1>7, <2>2 DEF WordsSound
    <3>2. QED BY <2>2, <3>1 DEF Journaled
  <2>3. QED BY <2>1, <2>2
<1>8. ASSUME NEW j \in Ids, up' = "serving", status'[j] = "pending", Thread(j)' \notin gone'
      PROVE  Waits(j)'
  <2>1. CASE j = i BY <1>6, <2>1
  <2>2. CASE j # i BY <1>5, <1>8, <2>2 DEF WordsSound
  <2>3. QED BY <2>1, <2>2
<1>9. ASSUME NEW j \in Ids, j >= nextId' PROVE status'[j] = "absent" /\ lines'[j] = 0
  <2>1. j >= nextId /\ j # i BY <1>9
  <2>2. QED BY <2>1 DEF WordsSound
<1>10. QED BY <1>4, <1>7, <1>8, <1>9 DEF WordsSound

(* Accepted words get a row and a place together.                          *)
LEMMA EnqueueWords ==
  ASSUME IInv, WordsSound, NEW w \in Words, Enqueue(w), frame = "idle"
  PROVE  WordsSound'
<1>0. TypeOK BY DEF IInv
<1>1. PICK n \in Ids : n = nextId BY <1>0 DEF Enqueue, TypeOK, Ids
<1>2. PICK u \in Threads : u = Home[w] BY SteerQueueAssumption
<1>3. /\ status' = [status EXCEPT ![n] = "pending"] /\ word' = [word EXCEPT ![n] = w]
      /\ nextId' = n + 1 /\ queue' = [queue EXCEPT ![u] = Append(@, n)]
      /\ UNCHANGED <<lines, gone, up, work, held>>
  BY <1>1, <1>2 DEF Enqueue
<1>4. n \notin ToSet(queue[u]) BY <1>1, WaitingWords DEF Ids
<1>5. \A j \in Ids \ {n} : Thread(j)' = Thread(j) /\ status'[j] = status[j]
  BY <1>0, <1>3 DEF TypeOK, Thread
<1>6. Thread(n)' = u /\ status'[n] = "pending" BY <1>0, <1>2, <1>3 DEF TypeOK, Thread
<1>7. \A j \in Ids : j >= nextId' => j >= nextId /\ j # n BY <1>1, <1>3 DEF Ids
<1>8. frame \notin {"fold", "settle"} /\ frame' \notin {"fold", "settle"} BY <1>3 DEF work
<1>9. UNCHANGED <<held, gone, up, lines>> BY <1>3
<1>10. queue' = [queue EXCEPT ![u] = Append(@, n)] BY <1>3
<1>11. QED BY <1>0, <1>4, <1>5, <1>6, <1>7, <1>8, <1>9, <1>10, PutInWords

(* Words that are cancelled leave the map together with their pending row. *)
LEMMA CancelWords ==
  ASSUME IInv, WordsSound, NEW i \in Ids, Cancel(i)
  PROVE  WordsSound'
<1>0. TypeOK BY DEF IInv
<1>1. PICK u \in Threads : u = Thread(i) BY <1>0, ThreadType
<1>2. /\ frame = "idle" /\ i < nextId /\ i \in ToSet(queue[u])
      /\ queue' = [queue EXCEPT ![u] = Without(@, i)]
      /\ status' = [status EXCEPT ![i] = "cancelled"]
      /\ UNCHANGED <<word, nextId, lines, gone, up, frame, held, batch>>
  BY <1>1 DEF Cancel, Serving, work, calls
<1>3. queue[u] \in Seq(Ids) /\ IsInjective(queue[u]) BY <1>0 DEF TypeOK, WordsSound
<1>4. /\ ToSet(Without(queue[u], i)) = ToSet(queue[u]) \ {i}
      /\ IsInjective(Without(queue[u], i))
  BY <1>3, WithoutElements
<1>5. /\ queue'[u] = Without(queue[u], i)
      /\ \A t \in Threads \ {u} : queue'[t] = queue[t]
  BY <1>0, <1>2 DEF TypeOK
<1>6. \A t \in Threads : IsInjective(queue'[t]) BY <1>4, <1>5 DEF WordsSound
<1>7. ~InHold(i) /\ ~Folding(i) BY <1>1, <1>2, WaitingWords DEF InHold, Folding
<1>8. ASSUME NEW j \in Ids
      PROVE  /\ j # i => (Waits(j)' <=> Waits(j)) /\ status'[j] = status[j]
             /\ j = i => ~Waits(j)' /\ status'[j] = "cancelled"
  <2>1. Thread(j) \in Threads /\ Thread(j)' = Thread(j) BY <1>0, <1>2, ThreadType DEF Thread
  <2>2. InHold(j)' = InHold(j) /\ ~Folding(j)' /\ ~Folding(j) BY <1>2 DEF InHold, Folding
  <2>3. j # i => (j \in ToSet(queue'[Thread(j)]) <=> j \in ToSet(queue[Thread(j)]))
    BY <1>4, <1>5, <2>1
  <2>4. j = i => j \notin ToSet(queue'[Thread(j)]) BY <1>1, <1>4, <1>5
  <2>5. /\ j # i => status'[j] = status[j]
        /\ j = i => status'[j] = "cancelled"
    BY <1>0, <1>2 DEF TypeOK
  <2>6. QED BY <1>7, <2>1, <2>2, <2>3, <2>4, <2>5 DEF Waits
<1>9. \A j \in Ids : j >= nextId => j # i BY <1>0, <1>2 DEF TypeOK, Ids
<1>10. \A j \in Ids : /\ Waits(j)' => Waits(j) /\ status'[j] = status[j]
                      /\ status'[j] = "pending" => status[j] = "pending"
                      /\ j >= nextId => status'[j] = "absent"
                      /\ up' = "serving" /\ Waits(j) /\ status'[j] = "pending" /\ Thread(j) \notin gone
                           => Waits(j)'
  BY <1>8, <1>9 DEF WordsSound
<1>11. \A s \in Steerers : IsInjective(held'[s]) BY <1>2 DEF WordsSound
<1>12. QED BY <1>0, <1>2, <1>6, <1>10, <1>11, MoveWords

(* A steer takes the whole queue of a thread in its hands.                 *)
LEMMA HoldWords ==
  ASSUME IInv, WordsSound, NEW s \in Steerers, NEW t \in Threads, HoldForSteer(s, t)
  PROVE  WordsSound'
<1>0. TypeOK /\ HeldSound BY DEF IInv
<1>1. /\ frame = "idle" /\ held[s] = <<>>
      /\ held' = [held EXCEPT ![s] = queue[t]] /\ queue' = [queue EXCEPT ![t] = <<>>]
      /\ UNCHANGED <<status, word, nextId, lines, gone, up, frame, batch>>
  BY <1>0 DEF HoldForSteer, Serving, disk, work, HeldSound
<1>2. ToSet(<<>>) = {} /\ IsInjective(<<>>) BY DEF ToSet, IsInjective
<1>3. /\ queue'[t] = <<>> /\ held'[s] = queue[t]
      /\ \A u \in Threads \ {t} : queue'[u] = queue[u]
      /\ \A r \in Steerers \ {s} : held'[r] = held[r]
  BY <1>0, <1>1 DEF TypeOK
<1>4. /\ \A u \in Threads : IsInjective(queue'[u])
      /\ \A r \in Steerers : IsInjective(held'[r])
  BY <1>2, <1>3 DEF WordsSound
<1>5. ASSUME NEW j \in Ids PROVE Waits(j)' <=> Waits(j)
  <2>1. Thread(j) \in Threads /\ Thread(j)' = Thread(j) BY <1>0, <1>1, ThreadType DEF Thread
  <2>2. ~Folding(j)' /\ ~Folding(j) BY <1>1 DEF Folding
  <2>3. InHold(j)' <=> InHold(j) \/ j \in ToSet(queue[t]) BY <1>1, <1>2, <1>3 DEF InHold
  <2>4. j \in ToSet(queue[t]) => Thread(j) = t BY WaitingWords
  <2>5. j \in ToSet(queue'[Thread(j)]) <=> j \in ToSet(queue[Thread(j)]) /\ Thread(j) # t
    BY <1>2, <1>3, <2>1
  <2>6. QED BY <2>1, <2>2, <2>3, <2>4, <2>5 DEF Waits
<1>6. QED BY <1>0, <1>1, <1>4, <1>5, MoveWords DEF WordsSound

(* When the answer is in, a steer's words go into the turn, back in front  *)
(* of their queue, or away with their thread.                              *)
LEMMA ContinueWords ==
  ASSUME IInv, WordsSound, NEW s \in Steerers, SteerContinues(s)
  PROVE  WordsSound'
<1>0. TypeOK /\ HeldSound BY DEF IInv
<1>1. /\ frame = "idle" /\ held[s] # <<>> /\ held[s] \in Seq(Ids)
      /\ held' = [held EXCEPT ![s] = <<>>]
      /\ UNCHANGED <<word, nextId, lines, gone, up>>
  BY <1>0 DEF SteerContinues, Serving, Answered, HeldSound, TypeOK
<1>2. PICK t \in Threads : t = Thread(held[s][1]) BY <1>1, WaitingWords
<1>3. ThreadOfCall(s) = t BY <1>2, SteerQueueAssumption DEF ThreadOfCall
<1>4. ToSet(<<>>) = {} /\ IsInjective(<<>>) BY DEF ToSet, IsInjective
<1>5. held'[s] = <<>> /\ \A r \in Steerers \ {s} : held'[r] = held[r] BY <1>0, <1>1 DEF TypeOK
<1>6. \A r \in Steerers : IsInjective(held'[r]) BY <1>4, <1>5 DEF WordsSound
<1>7. ASSUME NEW j \in Ids
      PROVE  /\ Thread(j) \in Threads /\ Thread(j)' = Thread(j) /\ ~Folding(j)
             /\ InHold(j) <=> InHold(j)' \/ j \in ToSet(held[s])
             /\ j \in ToSet(held[s]) => Thread(j) = t /\ ~InHold(j)' /\ j < nextId
  <2>1. Thread(j) \in Threads /\ Thread(j)' = Thread(j) /\ ~Folding(j)
    BY <1>0, <1>1, ThreadType DEF Thread, Folding
  <2>2. InHold(j)' <=> \E r \in Steerers \ {s} : j \in ToSet(held[r]) BY <1>4, <1>5 DEF InHold
  <2>3. j \in ToSet(held[s]) => \A r \in Steerers \ {s} : j \notin ToSet(held[r])
    BY <1>0 DEF HeldSound
  <2>4. j \in ToSet(held[s]) => Thread(j) = t /\ j < nextId BY <1>2, WaitingWords
  <2>5. QED BY <2>1, <2>2, <2>3, <2>4 DEF InHold
<1>8. \A j \in Ids : status[j] = "absent" \/ ~(j >= nextId) BY DEF WordsSound
<1>9. CASE frame' = "fold" /\ batch' = held[s] /\ UNCHANGED <<status, waiting>>
  <2>1. \A j \in Ids : Waits(j)' <=> Waits(j) BY <1>7, <1>9 DEF Waits, Folding, waiting
  <2>2. \A u \in Threads : IsInjective(queue'[u]) BY <1>9 DEF waiting, WordsSound
  <2>3. QED BY <1>0, <1>1, <1>6, <1>8, <1>9, <2>1, <2>2, MoveWords
<1>10. CASE t \in gone /\ status' = SetStatus(ToSet(held[s]), "absent") /\ UNCHANGED <<work, waiting>>
  <2>1. \A j \in Ids : /\ j \in ToSet(held[s]) => status'[j] = "absent"
                       /\ j \notin ToSet(held[s]) => status'[j] = status[j]
    BY <1>10 DEF SetStatus
  <2>2. \A j \in Ids : Waits(j)' => Waits(j) /\ j \notin ToSet(held[s])
    <3>1. SUFFICES ASSUME NEW j \in Ids, Waits(j)' PROVE Waits(j) /\ j \notin ToSet(held[s])
      OBVIOUS
    <3>2. ~Folding(j)' BY <1>1, <1>10 DEF Folding, work
    <3>3. CASE InHold(j)' BY <1>7, <3>3 DEF Waits
    <3>4. CASE j \in ToSet(queue[Thread(j)])
      BY <3>4, WaitingWords DEF Waits
    <3>5. QED BY <1>7, <1>10, <3>1, <3>2, <3>3, <3>4 DEF Waits, waiting
  <2>3. \A j \in Ids : Waits(j) /\ j \notin ToSet(held[s]) => Waits(j)'
    BY <1>7, <1>10 DEF Waits, waiting
  <2>4. \A u \in Threads : IsInjective(queue'[u]) BY <1>10 DEF waiting, WordsSound
  <2>5. QED BY <1>0, <1>1, <1>6, <1>7, <1>8, <2>1, <2>2, <2>3, <2>4, MoveWords
<1>11. CASE /\ queue' = [queue EXCEPT ![t] = held[s] \o @] /\ UNCHANGED status
            /\ frame' \in {"idle", "visit"}
  <2>1. queue[t] \in Seq(Ids) /\ IsInjective(queue[t]) /\ IsInjective(held[s])
    BY <1>0 DEF TypeOK, WordsSound
  <2>2. ToSet(held[s]) \cap ToSet(queue[t]) = {} BY <1>2, WaitingWords
  <2>3. /\ ToSet(held[s] \o queue[t]) = ToSet(held[s]) \cup ToSet(queue[t])
        /\ IsInjective(held[s] \o queue[t])
    BY <1>1, <2>1, <2>2, ConcatElements
  <2>4. queue'[t] = held[s] \o queue[t] /\ \A u \in Threads \ {t} : queue'[u] = queue[u]
    BY <1>0, <1>11 DEF TypeOK
  <2>5. \A u \in Threads : IsInjective(queue'[u]) BY <2>3, <2>4 DEF WordsSound
  <2>6. ASSUME NEW j \in Ids PROVE Waits(j)' <=> Waits(j)
    <3>1. j \in ToSet(queue'[Thread(j)]) <=> j \in ToSet(queue[Thread(j)]) \/ j \in ToSet(held[s])
      BY <1>7, <2>3, <2>4
    <3>2. ~Folding(j)' BY <1>11 DEF Folding
    <3>3. QED BY <1>7, <3>1, <3>2 DEF Waits
  <2>7. QED BY <1>0, <1>1, <1>6, <1>8, <1>11, <2>5, <2>6, MoveWords
<1>12. QED BY <1>1, <1>3, <1>9, <1>10, <1>11 DEF SteerContinues, work

(* A drain that claims, or that finds a thread gone, empties its queue     *)
(* together with its pending rows.                                         *)
LEMMA VisitWords ==
  ASSUME IInv, WordsSound, DrainVisit
  PROVE  WordsSound'
<1>0. TypeOK BY DEF IInv
<1>1. /\ frame = "visit" /\ visit \in Seq(Threads) /\ visit # <<>> /\ UNCHANGED <<up, held>>
  BY <1>0 DEF DrainVisit, TypeOK, calls
<1>2. PICK t \in Threads : t = Head(visit) BY <1>1, TailElements
<1>3. CASE Skip(t) BY <1>0, <1>1, <1>3, IdleWords DEF Skip, AfterWalk, disk, waiting
<1>4. ASSUME NEW st \in {"cancelled", "dispatching"}, NEW S,
             status' = SetStatus(S, st),
             S = ToSet(queue[t]) \/ (t \in gone /\ S \subseteq ToSet(queue[t])),
             queue' = [queue EXCEPT ![t] = <<>>],
             UNCHANGED <<word, nextId, gone, lines>>, frame' \notin {"fold", "settle"}
      PROVE  WordsSound'
  <2>1. ToSet(<<>>) = {} /\ IsInjective(<<>>) BY DEF ToSet, IsInjective
  <2>2. queue'[t] = <<>> /\ \A u \in Threads \ {t} : queue'[u] = queue[u] BY <1>0, <1>4 DEF TypeOK
  <2>3. \A u \in Threads : IsInjective(queue'[u]) BY <2>1, <2>2 DEF WordsSound
  <2>4. ASSUME NEW j \in Ids
        PROVE  /\ Waits(j)' <=> Waits(j) /\ j \notin ToSet(queue[t])
               /\ j \in ToSet(queue[t]) => Thread(j) = t /\ j < nextId
               /\ j \in S => j \in ToSet(queue[t]) /\ status'[j] = st
               /\ j \notin S => status'[j] = status[j] /\ (j \in ToSet(queue[t]) => t \in gone)
    <3>1. Thread(j) \in Threads /\ Thread(j)' = Thread(j) BY <1>0, <1>4, ThreadType DEF Thread
    <3>2. InHold(j)' <=> InHold(j) BY <1>1 DEF InHold
    <3>3. ~Folding(j) /\ ~Folding(j)' BY <1>1, <1>4 DEF Folding
    <3>4. j \in ToSet(queue[t]) => Thread(j) = t /\ j < nextId /\ ~InHold(j)
      BY WaitingWords DEF InHold
    <3>5. j \in ToSet(queue'[Thread(j)]) <=> j \in ToSet(queue[Thread(j)]) /\ j \notin ToSet(queue[t])
      BY <2>1, <2>2, <3>1, <3>4
    <3>6. Waits(j)' <=> Waits(j) /\ j \notin ToSet(queue[t])
      BY <3>1, <3>2, <3>3, <3>4, <3>5 DEF Waits
    <3>7. /\ j \in S => j \in ToSet(queue[t]) /\ status'[j] = st
          /\ j \notin S => status'[j] = status[j] /\ (j \in ToSet(queue[t]) => t \in gone)
      BY <1>4 DEF SetStatus
    <3>8. QED BY <3>4, <3>6, <3>7
  <2>5. \A j \in Ids : status[j] = "absent" \/ ~(j >= nextId) BY DEF WordsSound
  <2>6. \A j \in Ids : j >= nextId => j \notin ToSet(queue[t]) BY <1>0, WaitingWords DEF Ids, TypeOK
  <2>7. \A s \in Steerers : IsInjective(held'[s]) BY <1>1 DEF WordsSound
  <2>8. \A j \in Ids : /\ Waits(j)' => Waits(j) /\ status'[j] = status[j]
                       /\ status'[j] = "pending" => status[j] = "pending"
                       /\ j >= nextId => status'[j] = "absent"
                       /\ up' = "serving" /\ Waits(j) /\ status'[j] = "pending" /\ Thread(j) \notin gone
                            => Waits(j)'
    BY <1>4, <2>4, <2>5, <2>6
  <2>9. QED BY <1>0, <1>1, <1>4, <2>3, <2>7, <2>8, MoveWords
<1>5. CASE DropGone(t)
  <2> DEFINE S == {i \in ToSet(queue[t]) : status[i] # "absent"}
  <2>1. /\ status' = SetStatus(S, "cancelled") /\ t \in gone /\ S \subseteq ToSet(queue[t])
        /\ queue' = [queue EXCEPT ![t] = <<>>] /\ UNCHANGED <<word, nextId, gone, lines>>
        /\ frame' \notin {"fold", "settle"}
    BY <1>5 DEF DropGone, AfterWalk
  <2> HIDE DEF S
  <2>2. QED BY <1>4, <2>1
<1>6. CASE Claim(t)
  <2>1. /\ status' = SetStatus(ToSet(queue[t]), "dispatching")
        /\ queue' = [queue EXCEPT ![t] = <<>>] /\ UNCHANGED <<word, nextId, gone, lines>>
        /\ frame' \notin {"fold", "settle"}
    BY <1>6 DEF Claim
  <2>2. QED BY <1>4, <2>1
<1>7. QED BY <1>2, <1>3, <1>5, <1>6 DEF DrainVisit

(* What a turn took in is settled: its rows go, and wait nowhere else.     *)
LEMMA SettleWords ==
  ASSUME IInv, WordsSound, BatchSound, FoldSettle
  PROVE  WordsSound'
<1>0. TypeOK BY DEF IInv
<1>1. /\ frame = "settle" /\ frame' = "idle" /\ status' = SetStatus(ToSet(batch), "absent")
      /\ UNCHANGED <<word, nextId, lines, gone, up, queue, held>>
  BY DEF FoldSettle, waiting, calls
<1>2. \A j \in Ids : /\ j \in ToSet(batch) => status'[j] = "absent"
                     /\ j \notin ToSet(batch) => status'[j] = status[j]
  BY <1>1 DEF SetStatus
<1>3. ASSUME NEW j \in Ids PROVE Waits(j)' <=> Waits(j) /\ j \notin ToSet(batch)
  <2>1. Thread(j)' = Thread(j) BY <1>1 DEF Thread
  <2>2. ~Folding(j)' /\ (InHold(j)' <=> InHold(j)) /\ (Folding(j) <=> j \in ToSet(batch))
    BY <1>1 DEF Folding, InHold
  <2>3. j \in ToSet(batch) => j \notin ToSet(queue[Thread(j)]) /\ ~InHold(j)
    BY <1>1 DEF BatchSound, Folded, InHand
  <2>4. QED BY <1>1, <2>1, <2>2, <2>3 DEF Waits
<1>4. \A j \in Ids : status[j] = "absent" \/ ~(j >= nextId) BY DEF WordsSound
<1>5. /\ \A t \in Threads : IsInjective(queue'[t])
      /\ \A s \in Steerers : IsInjective(held'[s])
  BY <1>1 DEF WordsSound
<1>6. QED BY <1>0, <1>1, <1>2, <1>3, <1>4, <1>5, MoveWords

(* Every request keeps the words.                                          *)
LEMMA RequestsWords ==
  ASSUME IInv, WordsSound, Requests
  PROVE  WordsSound'
<1> USE DEF disk, work, waiting, turns, calls, coordination, history
<1>0. TypeOK BY DEF IInv
<1>1. ASSUME NEW w \in Words, Send(w) \/ SendContinues(w) \/ OpenThread(w) PROVE WordsSound'
  <2>1. frame = "idle" BY <1>1 DEF Send, SendContinues, OpenThread, Serving
  <2>2. \/ Enqueue(w)
        \/ UNCHANGED <<status, lines, word, nextId, queue, held, gone, up, frame>>
    BY <1>1 DEF Send, SendContinues, OpenThread, StartOrQueue, StartDirect, Decline
  <2>3. QED BY <1>0, <2>1, <2>2, EnqueueWords, IdleWords
<1>2. ASSUME NEW i \in Ids, Cancel(i) PROVE WordsSound' BY <1>2, CancelWords
<1>3. CASE Coordinates BY <1>0, <1>3, CoordinationSteps, IdleWords
<1>4. ASSUME NEW t \in Threads, SteerDeclined(t) PROVE WordsSound'
  BY <1>0, <1>4, IdleWords DEF SteerDeclined, Serving
<1>5. ASSUME NEW s \in Steerers, NEW t \in Threads, HoldForSteer(s, t) PROVE WordsSound'
  BY <1>5, HoldWords
<1>6. ASSUME NEW s \in Steerers, SteerContinues(s) PROVE WordsSound' BY <1>6, ContinueWords
<1>7. CASE DeleteBot
  <2>1. /\ gone' = Threads /\ frame = "idle" /\ frame' = "purge"
        /\ UNCHANGED <<status, word, nextId, lines, up, queue, held>>
    BY <1>7 DEF DeleteBot, Serving
  <2>2. \A i \in Ids : Folding(i)' <=> Folding(i) BY <2>1 DEF Folding
  <2>3. gone \subseteq gone' BY <1>0, <2>1 DEF TypeOK
  <2>4. QED BY <1>0, <2>1, <2>2, <2>3, StillWords DEF WordsSound
<1>8. QED BY <1>1, <1>2, <1>3, <1>4, <1>5, <1>6, <1>7 DEF Requests, Coordinates

(* Every commit of a running handler keeps them.                           *)
LEMMA HandlerWords ==
  ASSUME IInv, JInv, Handler
  PROVE  WordsSound'
<1> USE DEF disk, work, waiting, turns, calls, coordination, history
<1>0. TypeOK /\ JournalSound /\ WordsSound /\ BatchSound BY DEF IInv, JInv
<1>1. CASE DrainVisit BY <1>0, <1>1, VisitWords
<1>2. CASE DrainEnds \/ Boot \/ RecoverEnds \/ RecoverNotice
  <2>1. /\ UNCHANGED <<status, lines, word, nextId, queue, held, gone>>
        /\ up' = "serving" => up = "serving"
        /\ frame \notin {"fold", "settle"} /\ frame' \notin {"fold", "settle"}
    <3>1. CASE DrainEnds BY <3>1 DEF DrainEnds, AfterWalk
    <3>2. CASE Boot BY <1>0, <3>2 DEF Boot, IInv, BootSound
    <3>3. CASE RecoverEnds BY <3>3 DEF RecoverEnds
    <3>4. CASE RecoverNotice BY <3>4 DEF RecoverNotice
    <3>5. QED BY <1>2, <3>1, <3>2, <3>3, <3>4
  <2>2. QED BY <1>0, <2>1, IdleWords
<1>3. ASSUME NEW i \in Ids, i < nextId,
             lines' = lines \/ lines' = [lines EXCEPT ![i] = Bump(@)],
             UNCHANGED <<status, word, nextId, queue, held, gone, up>>,
             \A j \in Ids : Folding(j)' <=> Folding(j)
      PROVE  WordsSound'
  <2>1. \A j \in Ids : j >= nextId => j # i BY <1>0, <1>3 DEF TypeOK, Ids
  <2>2. \A j \in Ids : j >= nextId => status'[j] = "absent" /\ lines'[j] = 0
    BY <1>0, <1>3, <2>1 DEF WordsSound, TypeOK
  <2>3. QED BY <1>0, <1>3, <2>2, StillWords
<1>4. CASE DrainAppend \/ FoldAppend
  <2>1. /\ frame \in {"append", "fold"} /\ done < Len(batch) /\ done \in Nat /\ batch \in Seq(Ids)
        /\ lines' = [lines EXCEPT ![batch[done + 1]] = Bump(@)]
        /\ UNCHANGED <<status, word, nextId, queue, held, gone, up, batch>>
    BY <1>0, <1>4 DEF DrainAppend, FoldAppend, TypeOK
  <2>2. PICK i \in Ids : i = batch[done + 1] BY <2>1
  <2>3. i \in ToSet(batch) BY <2>1, <2>2 DEF ToSet
  <2>4. i < nextId BY <1>0, <2>1, <2>3 DEF BatchSound, Drawn, Folded, InHand
  <2>5. \A j \in Ids : Folding(j)' <=> Folding(j)
    BY <1>4, <2>1 DEF Folding, DrainAppend, FoldAppend
  <2>6. QED BY <1>3, <2>1, <2>2, <2>4, <2>5
<1>5. ASSUME NEW S, NEW st \in {"absent", "interrupted", "cancelled"}, status' = SetStatus(S, st),
             \A j \in Ids : j \in S => j < nextId /\ ~(status[j] \in {"pending", "absent"}),
             UNCHANGED <<word, nextId, lines, queue, held, gone, up>>,
             frame \notin {"fold", "settle"}, frame' \notin {"fold", "settle"}
      PROVE  WordsSound'
  <2>1. \A j \in Ids : /\ j \in S => status'[j] = st
                       /\ j \notin S => status'[j] = status[j]
    BY <1>5 DEF SetStatus
  <2>2. \A j \in Ids : j \in S => ~Waits(j) BY <1>0, <1>5 DEF WordsSound, Journaled
  <2>3. \A j \in Ids : j >= nextId => j \notin S BY <1>0, <1>5 DEF TypeOK, Ids
  <2>4. \A j \in Ids : j >= nextId => status'[j] = "absent" /\ lines'[j] = 0
    BY <1>0, <1>5, <2>1, <2>3 DEF WordsSound
  <2>5. \A j \in Ids : Folding(j)' <=> Folding(j) BY <1>5 DEF Folding
  <2>6. \A j \in Ids : \/ status'[j] = status[j]
                       \/ status'[j] = "absent" /\ Thread(j) \in gone'
                       \/ status'[j] # "pending" /\ ~Waits(j)
    BY <2>1, <2>2
  <2>7. QED BY <1>0, <1>5, <2>4, <2>5, <2>6, StillWords
<1>6. CASE DrainStart
  <2>1. /\ frame = "start" /\ frame' \notin {"fold", "settle"}
        /\ UNCHANGED <<word, nextId, lines, queue, held, gone, up>>
        /\ \/ status' = status
           \/ \E st \in {"absent", "interrupted"} : status' = SetStatus(ToSet(batch), st)
    BY <1>6 DEF DrainStart, AfterWalk
  <2>2. CASE status' = status BY <1>0, <2>1, <2>2, IdleWords
  <2>3. ASSUME NEW st \in {"absent", "interrupted"}, status' = SetStatus(ToSet(batch), st)
        PROVE  WordsSound'
    <3>1. \A j \in Ids : j \in ToSet(batch) => j < nextId /\ ~(status[j] \in {"pending", "absent"})
      BY <1>0, <2>1 DEF BatchSound, Drawn, Folded, InHand
    <3>2. QED BY <1>5, <2>1, <2>3, <3>1
  <2>4. QED BY <2>1, <2>2, <2>3
<1>7. CASE FoldSettle BY <1>0, <1>7, SettleWords
<1>8. CASE Purge
  <2>1. /\ frame = "purge" /\ gone = Threads /\ status' = [i \in Ids |-> "absent"] /\ frame' = "idle"
        /\ UNCHANGED <<word, nextId, lines, queue, held, gone, up>>
    BY <1>8 DEF Purge, JInv, StagesSound
  <2>2. \A j \in Ids : Folding(j)' <=> Folding(j) BY <2>1 DEF Folding
  <2>3. \A j \in Ids : status'[j] = "absent" /\ Thread(j) \in gone' BY <1>0, <2>1, ThreadType
  <2>4. QED BY <1>0, <2>1, <2>2, <2>3, StillWords DEF WordsSound
<1>9. CASE RecoverMark
  <2>1. PICK i \in Unfinished : \/ status' = [status EXCEPT ![i] = "cancelled"]
                                \/ status' = [status EXCEPT ![i] = "interrupted"]
    BY <1>9 DEF RecoverMark
  <2>2. /\ frame = "mark" /\ frame' \in {"mark", "recoverLine"}
        /\ UNCHANGED <<word, nextId, lines, queue, held, gone, up>>
    BY <1>9 DEF RecoverMark
  <2>3. i \in Ids /\ ~(status[i] \in {"pending", "absent"}) BY DEF Unfinished
  <2>4. i < nextId BY <1>0, <2>3 DEF WordsSound, TypeOK, Ids
  <2>5. status' = SetStatus({i}, "cancelled") \/ status' = SetStatus({i}, "interrupted")
    BY <1>0, <2>1, <2>3 DEF SetStatus, TypeOK
  <2>6. QED BY <1>5, <2>2, <2>3, <2>4, <2>5
<1>10. CASE RecoverLine
  <2>1. PICK i \in Ids : i = batch[1] /\ i < nextId
    BY <1>0, <1>10 DEF RecoverLine, JInv, RecoverSound, TypeOK
  <2>2. /\ lines' = lines \/ lines' = [lines EXCEPT ![i] = Bump(@)]
        /\ UNCHANGED <<status, word, nextId, queue, held, gone, up>>
        /\ frame = "recoverLine" /\ frame' = "recoverNotice"
    BY <1>10, <2>1 DEF RecoverLine
  <2>3. \A j \in Ids : Folding(j)' <=> Folding(j) BY <2>2 DEF Folding
  <2>4. QED BY <1>3, <2>1, <2>2, <2>3
<1>11. CASE RecoverRetire
  <2>1. PICK i \in Ids : i = batch[1] /\ i < nextId /\ status[i] = "interrupted"
    BY <1>0, <1>11 DEF RecoverRetire, JInv, RecoverSound, TypeOK
  <2>2. /\ status' = SetStatus({i}, "absent") /\ frame = "retire" /\ frame' = "mark"
        /\ UNCHANGED <<word, nextId, lines, queue, held, gone, up>>
    BY <1>0, <1>11, <2>1 DEF RecoverRetire, SetStatus, TypeOK
  <2>3. QED BY <1>5, <2>1, <2>2
<1>12. CASE RestoreRow
  <2>1. PICK i \in Unrestored : queue' = [queue EXCEPT ![Thread(i)] = Append(@, i)]
    BY <1>12 DEF RestoreRow
  <2>2. i \in Ids /\ status[i] = "pending" BY DEF Unrestored
  <2>3. PICK u \in Threads : u = Thread(i) BY <1>0, <2>2, ThreadType
  <2>4. /\ frame = "restore" /\ UNCHANGED <<status, word, nextId, lines, held, gone, up, frame>>
    BY <1>12 DEF RestoreRow
  <2>5. i \notin ToSet(queue[u]) BY <2>3 DEF Unrestored
  <2>6. i < nextId BY <1>0, <2>2 DEF JournalSound
  <2>7. \A j \in Ids : Thread(j)' = Thread(j) BY <2>4 DEF Thread
  <2>8. \A j \in Ids : j >= nextId' => j >= nextId /\ j # i BY <1>0, <2>4, <2>6 DEF TypeOK, Ids
  <2>9. QED BY <1>0, <2>1, <2>2, <2>3, <2>4, <2>5, <2>7, <2>8, PutInWords
<1>13. CASE Listen
  <2>1. /\ frame = "restore" /\ frame' = "visit" /\ Unrestored = {}
        /\ UNCHANGED <<status, word, nextId, lines, queue, held, gone>>
    BY <1>13 DEF Listen, DrainAll
  <2>2. \A j \in Ids : Thread(j)' = Thread(j) BY <2>1 DEF Thread
  <2>3. \A j \in Ids : Waits(j)' <=> Waits(j) BY <2>1, <2>2 DEF Waits, InHold, Folding
  <2>4. \A j \in Ids : status[j] = "pending" => Waits(j) BY <2>1 DEF Unrestored, Waits
  <2>5. QED BY <1>0, <2>1, <2>2, <2>3, <2>4 DEF WordsSound, Journaled
<1>14. CASE DeleteEnds
  <2>1. PICK t \in Threads :
          /\ gone' = gone \cup {t}
          /\ status' = SetStatus({i \in Ids : i < nextId /\ Thread(i) = t}, "absent")
    BY <1>0, <1>14, DeletionSteps
  <2>2. /\ UNCHANGED <<word, nextId, lines, up, queue, held>>
        /\ frame = "delete" /\ frame' = "idle"
    BY <1>0, <1>14, DeletionSteps
  <2>3. \A i \in Ids : status'[i] = status[i] \/ (status'[i] = "absent" /\ Thread(i) \in gone')
    BY <2>1 DEF SetStatus
  <2>4. \A i \in Ids : Folding(i)' <=> Folding(i) BY <2>2 DEF Folding
  <2>5. \A i \in Ids : i >= nextId => status'[i] = "absent" /\ lines'[i] = 0
    BY <1>0, <2>2, <2>3 DEF WordsSound
  <2>6. QED BY <1>0, <2>1, <2>2, <2>3, <2>4, <2>5, StillWords
<1>15. CASE HandoffStarts BY <1>0, <1>15, HandoffStartSteps, IdleWords
<1>16. QED BY <1>1, <1>2, <1>4, <1>6, <1>7, <1>8, <1>9, <1>10, <1>11, <1>12, <1>13, <1>14, <1>15
       DEF Handler

(* Every event of the engine or a room keeps them; a crash empties the     *)
(* process, and nothing need be in reach of it.                            *)
LEMMA NextWords ==
  ASSUME IInv, JInv, [Next]_vars
  PROVE  WordsSound'
<1> USE DEF vars, disk, work, waiting, turns, calls, coordination, history
<1>0. TypeOK /\ WordsSound /\ TurnSound BY DEF IInv, JInv
<1>1. CASE Engine
  <2>1. ASSUME NEW t \in Threads, TurnCompleted(t) \/ DispatchAcknowledged(t) \/ DispatchFailed(t)
                                   \/ TurnStalled(t)
        PROVE  WordsSound'
    <3>1. /\ UNCHANGED <<word, nextId, lines, queue, held, gone, up>>
          /\ frame = "idle" /\ frame' \notin {"fold", "settle"}
          /\ status' = status \/ status' = SetStatus(turnIds[t], "absent")
      BY <2>1 DEF TurnCompleted, DispatchAcknowledged, DispatchFailed, TurnStalled, Serving, DrainAll,
                  Retire
    <3>2. CASE status' = status BY <1>0, <3>1, <3>2, IdleWords
    <3>3. CASE status' = SetStatus(turnIds[t], "absent")
      <4>1. \A j \in Ids : /\ j \in turnIds[t] => status'[j] = "absent" /\ status[j] = "dispatching"
                           /\ j \notin turnIds[t] => status'[j] = status[j]
        BY <1>0, <3>3 DEF SetStatus, TurnSound
      <4>2. \A j \in Ids : j \in turnIds[t] => ~Waits(j) BY <1>0, <4>1 DEF WordsSound, Journaled
      <4>3. \A j \in Ids : Folding(j)' <=> Folding(j) BY <3>1 DEF Folding
      <4>4. \A j \in Ids : j >= nextId => status'[j] = "absent" /\ lines'[j] = 0
        BY <1>0, <3>1, <4>1 DEF WordsSound
      <4>5. QED BY <1>0, <3>1, <4>1, <4>2, <4>3, <4>4, StillWords
    <3>4. QED BY <3>1, <3>2, <3>3
  <2>2. ASSUME UNCHANGED <<status, lines, word, nextId, queue, held, gone, up>>,
               frame = "idle", frame' \in {"idle", "visit"}
        PROVE  WordsSound'
    BY <1>0, <2>2, IdleWords
  <2>3. ASSUME NEW c \in Callers, EngineTakes(c) \/ EngineAnswers(c) PROVE WordsSound'
    BY <2>2, <2>3 DEF EngineTakes, EngineAnswers, Serving
  <2>4. CASE RoomSpeaks \/ RoomTurnCompleted \/ RoomOperationFinished \/ OtherTurnCompleted
    BY <2>2, <2>4 DEF RoomSpeaks, RoomTurnCompleted, RoomOperationFinished, OtherTurnCompleted,
                      Serving, DrainAll
  <2>5. CASE Coordinates BY <1>0, <2>5, CoordinationSteps, IdleWords
  <2>6. QED BY <1>1, <2>1, <2>3, <2>4, <2>5 DEF Engine, Coordinates
<1>2. CASE Crash
  <2>1. /\ UNCHANGED <<status, word, nextId, lines, gone>> /\ up' = "down" /\ frame' = "idle"
        /\ \A t \in Threads : queue'[t] = <<>>
        /\ \A s \in Steerers : held'[s] = <<>>
    BY <1>2 DEF Crash
  <2>2. ToSet(<<>>) = {} /\ IsInjective(<<>>) BY DEF ToSet, IsInjective
  <2>3. ASSUME NEW j \in Ids PROVE ~Waits(j)'
    <3>1. Thread(j) \in Threads /\ Thread(j)' = Thread(j) BY <1>0, <2>1, ThreadType DEF Thread
    <3>2. QED BY <2>1, <2>2, <3>1 DEF Waits, InHold, Folding
  <2>4. QED BY <1>0, <2>1, <2>2, <2>3 DEF WordsSound
<1>3. CASE UNCHANGED vars
  <2>1. \A j \in Ids : Folding(j)' <=> Folding(j) BY <1>3 DEF Folding
  <2>2. QED BY <1>0, <1>3, <2>1, StillWords DEF WordsSound
<1>4. QED BY <1>0, <1>1, <1>2, <1>3, RequestsWords, HandlerWords DEF Next

-----------------------------------------------------------------------------
(* The stages of the process and the line of threads that wait *)

(* What a process that does not serve leaves empty stays empty.            *)
LEMMA NextStages ==
  ASSUME IInv, JInv, [Next]_vars
  PROVE  StagesSound'
<1> USE DEF vars, disk, work, waiting, turns, calls, coordination, history
<1>0. TypeOK /\ BootSound /\ StagesSound BY DEF IInv, JInv
<1>1. ASSUME up' = "serving", frame' \notin {"restore", "purge"} PROVE StagesSound'
  BY <1>1 DEF StagesSound
<1>2. CASE Requests
  <2>1. up' = "serving" /\ frame' # "restore" BY <1>2, OutsideSteps
  <2>2. frame' = "purge" => gone' = Threads
    <3>1. ASSUME frame' = frame PROVE frame' # "purge" BY <1>2, <3>1, OutsideSteps
    <3>2. ASSUME NEW w \in Words, Send(w) \/ SendContinues(w) \/ OpenThread(w) PROVE frame' # "purge"
      BY <3>1, <3>2 DEF Send, SendContinues, OpenThread, StartOrQueue, Enqueue, StartDirect, Decline
    <3>3. ASSUME NEW i \in Ids, Cancel(i) PROVE frame' # "purge" BY <3>1, <3>3 DEF Cancel
    <3>4. ASSUME Coordinates \/ \E t \in Threads : SteerDeclined(t) PROVE frame' # "purge"
      BY <3>1, <3>4, CoordinationSteps DEF SteerDeclined
    <3>5. ASSUME NEW s \in Steerers, SteerContinues(s) \/ \E t \in Threads : HoldForSteer(s, t)
          PROVE  frame' # "purge"
      BY <3>1, <3>5 DEF SteerContinues, HoldForSteer
    <3>6. CASE DeleteBot BY <3>6 DEF DeleteBot
    <3>7. QED BY <1>2, <3>2, <3>3, <3>4, <3>5, <3>6 DEF Requests, Coordinates
  <2>3. QED BY <2>1, <2>2 DEF StagesSound
<1>3. CASE Engine
  <2>1. up' = "serving" BY <1>3, OutsideSteps
  <2>2. frame' \in {"idle", "visit"}
    BY <1>3, OutsideSteps DEF Engine, TurnCompleted, DispatchAcknowledged, DispatchFailed, TurnStalled,
       EngineTakes, EngineAnswers, RoomSpeaks, RoomTurnCompleted, RoomOperationFinished,
       OtherTurnCompleted, HandoffOpens, HandoffSettles, HandoffRuns, DrainAll
  <2>3. QED BY <1>1, <2>1, <2>2
<1>4. CASE Handler
  <2>1. CASE \/ DrainVisit \/ DrainEnds \/ DrainAppend \/ DrainStart \/ FoldAppend \/ FoldSettle
             \/ Purge \/ DeleteEnds \/ HandoffStarts
    <3>1. frame \notin BootFrames \cup {"idle"} /\ frame' \notin {"restore", "purge"} /\ up' = up
      BY <1>0, <2>1, DeletionSteps, HandoffStartSteps
         DEF DrainVisit, DrainEnds, DrainAppend, DrainStart, FoldAppend, FoldSettle, Purge,
             Skip, DropGone, Claim, AfterWalk, BootFrames
    <3>2. up = "serving" BY <1>0, <3>1 DEF BootSound, TypeOK
    <3>3. QED BY <1>1, <3>1, <3>2
  <2>2. CASE Boot \/ RecoverMark \/ RecoverLine \/ RecoverNotice \/ RecoverRetire
    <3>1. /\ frame # "restore" /\ frame' \notin {"restore", "purge"} /\ UNCHANGED <<turnIds, queue>>
          /\ up # "serving"
      BY <1>0, <2>2 DEF Boot, RecoverMark, RecoverLine, RecoverNotice, RecoverRetire, BootSound,
                        BootFrames
    <3>2. QED BY <1>0, <3>1 DEF StagesSound
  <2>3. CASE RecoverEnds
    BY <1>0, <2>3 DEF RecoverEnds, BootSound, BootFrames, StagesSound, Unfinished
  <2>4. CASE RestoreRow
    BY <1>0, <2>4 DEF RestoreRow, BootSound, BootFrames, StagesSound, Unfinished
  <2>5. CASE Listen BY <1>1, <2>5 DEF Listen, DrainAll
  <2>6. QED BY <1>4, <2>1, <2>2, <2>3, <2>4, <2>5 DEF Handler
<1>5. CASE Crash BY <1>5 DEF Crash, StagesSound
<1>6. CASE UNCHANGED vars BY <1>0, <1>6 DEF StagesSound, Unfinished
<1>7. QED BY <1>2, <1>3, <1>4, <1>5, <1>6 DEF Next

(* A thread that gets its place keeps the line without doubles.            *)
LEMMA InLineElements ==
  ASSUME line \in Seq(Threads), IsInjective(line), NEW t \in Threads
  PROVE  IsInjective(InLine(t)) /\ ToSet(InLine(t)) = ToSet(line) \cup {t}
<1>1. CASE t \in ToSet(line) BY <1>1 DEF InLine
<1>2. CASE t \notin ToSet(line) BY <1>2, AppendElements DEF InLine
<1>3. QED BY <1>1, <1>2

(* A queue that gets words has its place in the line, one that loses its   *)
(* last word loses it.                                                     *)
LEMMA LineStep ==
  ASSUME TypeOK, LineSound, NEW t \in Threads, NEW q \in Seq(Ids),
         queue' = [queue EXCEPT ![t] = q],
         \/ q # <<>> /\ line' = InLine(t)
         \/ q = <<>> /\ line' = Without(line, t)
         \/ q # <<>> /\ queue[t] # <<>> /\ line' = line
  PROVE  LineSound'
<1>1. line \in Seq(Threads) /\ IsInjective(line) /\ ToSet(line) = {u \in Threads : queue[u] # <<>>}
  BY DEF TypeOK, LineSound
<1>2. queue'[t] = q /\ \A u \in Threads \ {t} : queue'[u] = queue[u] BY DEF TypeOK
<1>3. CASE q # <<>> /\ line' = InLine(t)
  <2>1. IsInjective(line') /\ ToSet(line') = ToSet(line) \cup {t} BY <1>1, <1>3, InLineElements
  <2>2. {u \in Threads : queue'[u] # <<>>} = ToSet(line) \cup {t} BY <1>1, <1>2, <1>3
  <2>3. QED BY <2>1, <2>2 DEF LineSound
<1>4. CASE q = <<>> /\ line' = Without(line, t)
  <2>1. IsInjective(line') /\ ToSet(line') = ToSet(line) \ {t} BY <1>1, <1>4, WithoutElements
  <2>2. {u \in Threads : queue'[u] # <<>>} = ToSet(line) \ {t} BY <1>1, <1>2, <1>4
  <2>3. QED BY <2>1, <2>2 DEF LineSound
<1>5. CASE q # <<>> /\ queue[t] # <<>> /\ line' = line
  <2>1. {u \in Threads : queue'[u] # <<>>} = ToSet(line) BY <1>1, <1>2, <1>5
  <2>2. QED BY <1>1, <1>5, <2>1 DEF LineSound
<1>6. QED BY <1>3, <1>4, <1>5

(* Every request keeps the line: it holds each waiting thread once.        *)
LEMMA RequestsLine ==
  ASSUME IInv, JInv, Requests
  PROVE  LineSound'
<1> USE DEF vars, disk, work, waiting, turns, calls, coordination, history
<1>0. TypeOK /\ WordsSound /\ LineSound BY DEF IInv, JInv
<1>1. ASSUME UNCHANGED <<queue, line>> PROVE LineSound' BY <1>0, <1>1 DEF LineSound
<1>2. ASSUME NEW w \in Words, Enqueue(w) PROVE LineSound'
  <2>1. PICK t \in Threads : t = Home[w] BY SteerQueueAssumption
  <2>2. nextId \in Ids /\ queue[t] \in Seq(Ids) BY <1>0, <1>2 DEF Enqueue, TypeOK, Ids
  <2>3. Append(queue[t], nextId) \in Seq(Ids) /\ Append(queue[t], nextId) # <<>> BY <2>2
  <2>4. /\ queue' = [queue EXCEPT ![t] = Append(queue[t], nextId)]
        /\ line' = InLine(t)
    BY <1>2, <2>1 DEF Enqueue
  <2>5. QED BY <1>0, <2>3, <2>4, LineStep
<1>3. ASSUME NEW w \in Words, Send(w) \/ SendContinues(w) \/ OpenThread(w) PROVE LineSound'
  <2>1. Enqueue(w) \/ UNCHANGED <<queue, line>>
    BY <1>3 DEF Send, SendContinues, OpenThread, StartOrQueue, StartDirect, Decline
  <2>2. QED BY <1>1, <1>2, <2>1
<1>4. ASSUME NEW i \in Ids, Cancel(i) PROVE LineSound'
  <2>1. PICK t \in Threads : t = Thread(i) BY <1>0, ThreadType
  <2>2. queue[t] \in Seq(Ids) /\ i \in ToSet(queue[t]) /\ IsInjective(queue[t])
    BY <1>0, <1>4, <2>1 DEF Cancel, TypeOK, WordsSound
  <2>3. PICK q \in Seq(Ids) : q = Without(queue[t], i) BY <2>2, WithoutElements
  <2>4. ToSet(q) = ToSet(queue[t]) \ {i} BY <2>2, <2>3, WithoutElements
  <2>5. q = <<>> <=> Len(queue[t]) = 1
    <3>1. PICK k \in 1..Len(queue[t]) : queue[t][k] = i BY <2>2 DEF ToSet
    <3>2. q = <<>> <=> ToSet(q) = {}
      <4>1. ToSet(<<>>) = {} BY DEF ToSet
      <4>2. ASSUME q # <<>> PROVE q[1] \in ToSet(q)
        <5>1. 1 \in DOMAIN q BY <4>2
        <5>2. QED BY <5>1 DEF ToSet
      <4>3. QED BY <4>1, <4>2
    <3>3. ASSUME Len(queue[t]) = 1 PROVE ToSet(q) = {}
      <4>1. ToSet(queue[t]) = {queue[t][1]} BY <2>2, <3>3 DEF ToSet
      <4>2. QED BY <4>1, <2>2, <2>4
    <3>4. ASSUME Len(queue[t]) # 1 PROVE ToSet(q) # {}
      <4>1. PICK m \in 1..Len(queue[t]) : m # k
        <5>1. 1 \in 1..Len(queue[t]) /\ Len(queue[t]) \in 1..Len(queue[t]) BY <2>2, <3>1
        <5>2. QED BY <5>1, <3>4
      <4>2. queue[t][m] # i BY <2>2, <3>1, <4>1 DEF IsInjective
      <4>3. queue[t][m] \in ToSet(queue[t]) BY <2>2, <4>1 DEF ToSet
      <4>4. QED BY <4>2, <4>3, <2>4
    <3>5. QED BY <3>2, <3>3, <3>4
  <2>6. queue[t] # <<>> BY <2>2 DEF ToSet
  <2>7. /\ queue' = [queue EXCEPT ![t] = q]
        /\ line' = IF Len(queue[t]) = 1 THEN Without(line, t) ELSE line
    BY <1>4, <2>1, <2>3 DEF Cancel
  <2>8. QED BY <1>0, <2>5, <2>6, <2>7, LineStep
<1>5. ASSUME NEW t \in Threads, SteerDeclined(t) PROVE LineSound'
  <2>1. /\ queue' = queue /\ queue[t] # <<>> /\ line' = Append(Without(line, t), t)
        /\ line \in Seq(Threads) /\ IsInjective(line) /\ t \in ToSet(line)
    BY <1>0, <1>5 DEF SteerDeclined, TypeOK, LineSound
  <2>2. PICK l \in Seq(Threads) : l = Without(line, t) BY <2>1, WithoutElements
  <2>3. IsInjective(l) /\ ToSet(l) = ToSet(line) \ {t} BY <2>1, <2>2, WithoutElements
  <2>4. IsInjective(Append(l, t)) /\ ToSet(Append(l, t)) = ToSet(line)
    <3>1. ToSet(Append(l, t)) = ToSet(l) \cup {t} BY AppendElements
    <3>2. t \notin ToSet(l) BY <2>3
    <3>3. QED BY <2>1, <2>3, <3>1, <3>2, AppendElements
  <2>5. QED BY <1>0, <2>1, <2>2, <2>4 DEF LineSound
<1>6. ASSUME NEW s \in Steerers, NEW t \in Threads, HoldForSteer(s, t) PROVE LineSound'
  <2>1. queue' = [queue EXCEPT ![t] = <<>>] /\ line' = Without(line, t) BY <1>6 DEF HoldForSteer
  <2>2. <<>> \in Seq(Ids) OBVIOUS
  <2>3. QED BY <1>0, <2>1, <2>2, LineStep
<1>7. ASSUME NEW s \in Steerers, SteerContinues(s) PROVE LineSound'
  <2>1. held[s] \in Seq(Ids) /\ held[s] # <<>>
    BY <1>0, <1>7 DEF SteerContinues, Answered, TypeOK, IInv, HeldSound
  <2>2. PICK t \in Threads : t = Thread(held[s][1]) BY <2>1, WaitingWords
  <2>3. ThreadOfCall(s) = t BY <2>2, SteerQueueAssumption DEF ThreadOfCall
  <2>4. \/ UNCHANGED <<queue, line>>
        \/ queue' = [queue EXCEPT ![t] = held[s] \o @] /\ line' = InLine(t)
    BY <1>7, <2>3 DEF SteerContinues
  <2>5. CASE queue' = [queue EXCEPT ![t] = held[s] \o @] /\ line' = InLine(t)
    <3>1. queue[t] \in Seq(Ids) BY <1>0 DEF TypeOK
    <3>2. held[s] \o queue[t] \in Seq(Ids) /\ held[s] \o queue[t] # <<>> BY <2>1, <3>1
    <3>3. queue' = [queue EXCEPT ![t] = held[s] \o queue[t]] BY <2>5
    <3>4. QED BY <1>0, <2>5, <3>2, <3>3, LineStep
  <2>6. QED BY <1>1, <2>4, <2>5
<1>8. CASE Coordinates BY <1>1, <1>8, CoordinationSteps
<1>9. CASE DeleteBot BY <1>1, <1>9 DEF DeleteBot
<1>10. QED BY <1>3, <1>4, <1>5, <1>6, <1>7, <1>8, <1>9 DEF Requests, Coordinates

(* So does every step.                                                     *)
LEMMA NextLine ==
  ASSUME IInv, JInv, [Next]_vars
  PROVE  LineSound'
<1> USE DEF vars, disk, work, waiting, turns, calls, coordination, history
<1>0. TypeOK /\ LineSound BY DEF IInv, JInv
<1>1. ASSUME UNCHANGED <<queue, line>> PROVE LineSound' BY <1>0, <1>1 DEF LineSound
<1>2. CASE DrainVisit
  <2>1. visit \in Seq(Threads) /\ visit # <<>> BY <1>0, <1>2 DEF TypeOK, DrainVisit
  <2>2. PICK t \in Threads : t = Head(visit) BY <2>1, TailElements
  <2>3. CASE DropGone(t) \/ Claim(t)
    <3>1. queue' = [queue EXCEPT ![t] = <<>>] /\ line' = Without(line, t)
      BY <2>3 DEF DropGone, Claim
    <3>2. <<>> \in Seq(Ids) OBVIOUS
    <3>3. QED BY <1>0, <3>1, <3>2, LineStep
  <2>4. QED BY <1>1, <1>2, <2>2, <2>3 DEF DrainVisit, Skip
<1>3. CASE RestoreRow
  <2>1. PICK i \in Unrestored : /\ queue' = [queue EXCEPT ![Thread(i)] = Append(@, i)]
                                /\ line' = InLine(Thread(i))
    BY <1>3 DEF RestoreRow
  <2>2. i \in Ids BY DEF Unrestored
  <2>3. PICK t \in Threads : t = Thread(i) BY <1>0, <2>2, ThreadType
  <2>4. queue[t] \in Seq(Ids) BY <1>0 DEF TypeOK
  <2>5. Append(queue[t], i) \in Seq(Ids) /\ Append(queue[t], i) # <<>> BY <2>2, <2>4
  <2>6. queue' = [queue EXCEPT ![t] = Append(queue[t], i)] /\ line' = InLine(t) BY <2>1, <2>3
  <2>7. QED BY <1>0, <2>5, <2>6, LineStep
<1>4. CASE \/ DrainEnds \/ DrainAppend \/ DrainStart \/ FoldAppend \/ FoldSettle \/ Purge
           \/ DeleteEnds \/ HandoffStarts
  BY <1>0, <1>1, <1>4, DeletionSteps, HandoffStartSteps
     DEF DrainEnds, DrainAppend, DrainStart, FoldAppend, FoldSettle, Purge
<1>5. CASE Boot \/ RecoverMark \/ RecoverLine \/ RecoverNotice \/ RecoverRetire \/ RecoverEnds \/ Listen
  BY <1>1, <1>5 DEF Boot, RecoverMark, RecoverLine, RecoverNotice, RecoverRetire, RecoverEnds, Listen
<1>6. CASE Engine
  <2>1. CASE Coordinates BY <1>1, <2>1, CoordinationSteps
  <2>2. CASE ~Coordinates
    BY <1>1, <1>6, <2>2
       DEF Engine, Coordinates, TurnCompleted, DispatchAcknowledged, DispatchFailed, TurnStalled,
           EngineTakes, EngineAnswers, RoomSpeaks, RoomTurnCompleted, RoomOperationFinished,
           OtherTurnCompleted
  <2>3. QED BY <2>1, <2>2
<1>7. CASE Crash
  <2>1. line' = <<>> /\ \A t \in Threads : queue'[t] = <<>> BY <1>7 DEF Crash
  <2>2. ToSet(<<>>) = {} /\ IsInjective(<<>>) BY DEF ToSet, IsInjective
  <2>3. {t \in Threads : queue'[t] # <<>>} = {} BY <2>1
  <2>4. QED BY <2>1, <2>2, <2>3 DEF LineSound
<1>8. QED BY <1>1, <1>2, <1>3, <1>4, <1>5, <1>6, <1>7, RequestsLine DEF Next, Handler

-----------------------------------------------------------------------------
(* Words a handler has in hand, and words a turn will settle *)

(* A handler that goes on writing lines for its batch.                     *)
LEMMA AppendBatch ==
  ASSUME IInv, JInv, DrainAppend \/ FoldAppend
  PROVE  BatchSound'
<1>0. TypeOK /\ BatchSound BY DEF IInv, JInv
<1>1. /\ frame \in {"append", "fold"} /\ done < Len(batch) /\ done \in Nat /\ batch \in Seq(Ids)
      /\ lines' = [lines EXCEPT ![batch[done + 1]] = Bump(@)] /\ done' = done + 1
      /\ UNCHANGED <<status, word, nextId, queue, held, gone, batch, turnIds, claimed>>
  BY <1>0 DEF DrainAppend, FoldAppend, TypeOK, waiting, turns, calls, coordination, history
<1>2. /\ Drawn' <=> Drawn
      /\ Folded' <=> Folded
      /\ frame' \in {"start", "settle"} => done' = Len(batch)
  BY <1>1 DEF DrainAppend, FoldAppend, Drawn, Folded
<1>3. \A i \in Ids : InHand(i)' <=> InHand(i)
  <2>1. SUFFICES ASSUME NEW i \in Ids PROVE InHand(i)' <=> InHand(i) OBVIOUS
  <2>2. Thread(i)' = Thread(i) /\ Thread(batch[1])' = Thread(batch[1]) BY <1>1 DEF Thread
  <2>3. InHold(i)' <=> InHold(i) BY <1>1 DEF InHold
  <2>4. QED BY <1>1, <1>2, <2>2, <2>3 DEF InHand
<1>4. PICK n \in Ids : n = batch[done + 1] BY <1>1
<1>5. \A i \in Ids : lines[i] > 0 \/ i = n => lines'[i] > 0
  <2>1. lines \in [Ids -> 0..2] /\ Bump(lines[n]) > 0 BY <1>0, BumpCounts DEF TypeOK
  <2>2. QED BY <1>1, <1>4, <2>1
<1>6. ASSUME NEW k \in 1..done' PROVE lines'[batch[k]] > 0
  <2>1. batch[k] \in Ids BY <1>1
  <2>2. k \in 1..done \/ k = done + 1 BY <1>1
  <2>3. k \in 1..done => lines[batch[k]] > 0 BY <1>0, <1>1 DEF BatchSound, Drawn, Folded
  <2>4. QED BY <1>4, <1>5, <2>1, <2>2, <2>3
<1>7. ToSet(batch) \subseteq Ids BY <1>1, ToSetType
<1>8. batch # <<>> /\ \A i \in ToSet(batch) : InHand(i)
  BY <1>0, <1>1 DEF BatchSound, Drawn, Folded
<1>9. done' <= Len(batch) BY <1>1
<1>10. QED BY <1>1, <1>2, <1>3, <1>6, <1>7, <1>8, <1>9 DEF BatchSound

(* The words a drain has claimed are in no other hand.                     *)
LEMMA ClaimBatch ==
  ASSUME IInv, JInv, DrainVisit, frame' = "append"
  PROVE  BatchSound'
<1>0. TypeOK /\ TurnSound BY DEF IInv, JInv
<1>1. visit \in Seq(Threads) /\ visit # <<>> BY <1>0 DEF DrainVisit, TypeOK
<1>2. PICK t \in Threads : t = Head(visit) /\ Claim(t)
  BY <1>1, TailElements DEF DrainVisit, Skip, DropGone, AfterWalk
<1>3. /\ queue[t] # <<>> /\ queue[t] \in Seq(Ids) /\ t \notin gone
      /\ batch' = queue[t] /\ done' = 0 /\ status' = SetStatus(ToSet(queue[t]), "dispatching")
      /\ claimed' = [i \in Ids |-> IF i \in ToSet(queue[t]) THEN Bump(claimed[i]) ELSE claimed[i]]
      /\ UNCHANGED <<word, nextId, gone, turnIds>>
  BY <1>0, <1>2 DEF Claim, TypeOK, DrainVisit, turns
<1>4. queue[t][1] \in ToSet(queue[t]) BY <1>3 DEF ToSet
<1>5. ASSUME NEW i \in ToSet(queue[t]) PROVE InHand(i)'
  <2>1. i \in Ids /\ i < nextId /\ Thread(i) = t /\ claimed[i] = 0 BY WaitingWords
  <2>2. Thread(i)' = t /\ Thread(batch[1])' = t BY <1>3, <1>4, <2>1, WaitingWords DEF Thread
  <2>3. claimed'[i] > 0 /\ status'[i] = "dispatching" BY <1>3, <2>1 DEF SetStatus, Bump
  <2>4. \A u \in Threads : i \notin turnIds'[u] BY <1>0, <1>3, <2>1 DEF TurnSound
  <2>5. ~Folded' BY DEF Folded
  <2>6. QED BY <1>3, <2>1, <2>2, <2>3, <2>4, <2>5 DEF InHand
<1>6. QED BY <1>3, <1>5 DEF BatchSound

(* Those a turn took in neither.                                           *)
LEMMA FoldBatch ==
  ASSUME IInv, JInv, NEW s \in Steerers, SteerContinues(s), frame' = "fold"
  PROVE  BatchSound'
<1>0. TypeOK /\ HeldSound /\ WordsSound BY DEF IInv, JInv
<1>1. /\ frame = "idle" /\ held[s] # <<>> /\ held[s] \in Seq(Ids)
      /\ held' = [held EXCEPT ![s] = <<>>]
      /\ UNCHANGED <<word, nextId, gone, claimed>>
  BY <1>0 DEF SteerContinues, Serving, Answered, HeldSound, TypeOK, history
<1>2. PICK t \in Threads : t = Thread(held[s][1]) BY <1>1, WaitingWords
<1>3. ThreadOfCall(s) = t BY <1>2, SteerQueueAssumption DEF ThreadOfCall
<1>4. /\ t \notin gone /\ batch' = held[s] /\ done' = 0 /\ UNCHANGED <<status, queue>>
  BY <1>1, <1>3 DEF SteerContinues, work, waiting
<1>5. ToSet(<<>>) = {} BY DEF ToSet
<1>6. held'[s] = <<>> /\ \A r \in Steerers \ {s} : held'[r] = held[r] BY <1>0, <1>1 DEF TypeOK
<1>7. ASSUME NEW i \in ToSet(held[s]) PROVE InHand(i)'
  <2>1. /\ i \in Ids /\ i < nextId /\ Thread(i) = t /\ claimed[i] = 0 /\ Waits(i)
        /\ i \notin ToSet(queue[Thread(i)])
    BY <1>2, WaitingWords
  <2>2. Thread(i)' = t BY <1>1, <2>1 DEF Thread
  <2>3. status[i] = "pending" BY <1>0, <1>4, <2>1 DEF WordsSound, Journaled
  <2>4. ~InHold(i)' BY <1>0, <1>5, <1>6 DEF InHold, HeldSound
  <2>5. ~Drawn' BY DEF Drawn
  <2>6. QED BY <1>1, <1>4, <2>1, <2>2, <2>3, <2>4, <2>5 DEF InHand
<1>8. QED BY <1>1, <1>4, <1>7 DEF BatchSound

(* Every step keeps what a handler has in hand.                            *)
LEMMA NextBatch ==
  ASSUME IInv, JInv, [Next]_vars
  PROVE  BatchSound'
<1> USE DEF vars, disk, work, waiting, turns, calls, coordination, history
<1>0. TypeOK /\ BatchSound BY DEF IInv, JInv
<1>1. ASSUME frame' \notin {"append", "start", "fold", "settle"} PROVE BatchSound'
  BY <1>1 DEF BatchSound, Drawn, Folded
<1>2. CASE Requests
  <2>1. CASE frame' = "fold"
    <3>1. \E s \in Steerers : SteerContinues(s)
      <4>1. ~Coordinates BY <2>1, CoordinationSteps
      <4>2. QED BY <1>2, <2>1, <4>1
            DEF Requests, Coordinates, Send, SendContinues, OpenThread, Cancel, SteerDeclined,
                HoldForSteer, DeleteBot, StartOrQueue, Enqueue, StartDirect, Decline, Serving
    <3>2. QED BY <2>1, <3>1, FoldBatch
  <2>2. CASE frame' # "fold" BY <1>1, <1>2, <2>2, OutsideSteps
  <2>3. QED BY <2>1, <2>2
<1>3. CASE Engine
  <2>1. frame' # "fold"
    BY <1>3 DEF Engine, TurnCompleted, DispatchAcknowledged, DispatchFailed, TurnStalled,
       EngineTakes, EngineAnswers, RoomSpeaks, RoomTurnCompleted, RoomOperationFinished,
       OtherTurnCompleted, HandoffOpens, HandoffSettles, HandoffRuns, DrainAll, Serving
  <2>2. QED BY <1>1, <1>3, <2>1, OutsideSteps
<1>4. CASE DrainVisit
  <2>1. frame' \in {"idle", "visit", "append", "delete", "handoff"}
    BY <1>4 DEF DrainVisit, Skip, DropGone, Claim, AfterWalk
  <2>2. QED BY <1>1, <1>4, <2>1, ClaimBatch
<1>5. CASE DrainAppend \/ FoldAppend BY <1>5, AppendBatch
<1>6. CASE DrainEnds \/ DrainStart \/ FoldSettle \/ Purge \/ DeleteEnds \/ HandoffStarts
  BY <1>0, <1>1, <1>6, DeletionSteps, HandoffStartSteps
     DEF DrainEnds, DrainStart, FoldSettle, Purge, AfterWalk
<1>7. CASE Boot \/ RecoverMark \/ RecoverLine \/ RecoverNotice \/ RecoverRetire \/ RecoverEnds
           \/ RestoreRow \/ Listen \/ Crash
  BY <1>1, <1>7 DEF Boot, RecoverMark, RecoverLine, RecoverNotice, RecoverRetire, RecoverEnds,
                    RestoreRow, Listen, DrainAll, Crash
<1>8. CASE UNCHANGED vars
  BY <1>0, <1>8 DEF BatchSound, Drawn, Folded, InHand, InHold, Thread
<1>9. QED BY <1>2, <1>3, <1>4, <1>5, <1>6, <1>7, <1>8 DEF Next, Handler

(* The rows a turn will settle stay as they are until it does.             *)
LEMMA TurnStep ==
  ASSUME TypeOK, TurnSound,
         \A t \in Threads :
           \/ turnIds'[t] = {}
           \/ /\ turnIds'[t] = turnIds[t]
              /\ turn[t] # "idle" => turn'[t] # "idle"
              /\ turnIds[t] # {} => t \notin gone'
              /\ \A i \in turnIds[t] : /\ i < nextId' /\ Thread(i)' = Thread(i)
                                       /\ claimed'[i] = claimed[i] /\ status'[i] = status[i]
                                       /\ lines[i] > 0 => lines'[i] > 0
  PROVE  TurnSound'
BY DEF TurnSound

(* A step that starts and ends no turn.                                    *)
LEMMA QuietTurns ==
  ASSUME TypeOK, TurnSound, UNCHANGED <<turn, turnIds, gone, word, nextId>>,
         \A t \in Threads : \A i \in turnIds[t] : /\ claimed'[i] = claimed[i]
                                                  /\ status'[i] = status[i]
                                                  /\ lines[i] > 0 => lines'[i] > 0
  PROVE  TurnSound'
<1>1. \A i : Thread(i)' = Thread(i) BY DEF Thread
<1>2. QED BY <1>1, TurnStep DEF TurnSound

(* Requests start turns that settle nothing, and touch no row of a turn.   *)
LEMMA RequestsTurnRows ==
  ASSUME IInv, JInv, Requests
  PROVE  TurnSound'
<1> USE DEF disk, work, waiting, turns, calls, coordination, history
<1>0. TypeOK /\ TurnSound BY DEF IInv, JInv
<1>1. ASSUME NEW w \in Words, Enqueue(w) PROVE TurnSound'
  <2>1. \A t \in Threads : \A i \in turnIds[t] : i \in Ids /\ i < nextId /\ i # nextId
    BY <1>0 DEF TurnSound, TypeOK, Ids
  <2>2. /\ status' = [status EXCEPT ![nextId] = "pending"] /\ word' = [word EXCEPT ![nextId] = w]
        /\ nextId' = nextId + 1 /\ UNCHANGED <<lines, gone, turn, turnIds, claimed>>
    BY <1>1 DEF Enqueue
  <2>3. \A i \in Ids : i # nextId => status'[i] = status[i] /\ Thread(i)' = Thread(i)
    BY <1>0, <2>2 DEF TypeOK, Thread
  <2>4. \A i \in Ids : i < nextId => i < nextId' BY <1>0, <2>2 DEF TypeOK, Ids
  <2>5. QED BY <1>0, <2>1, <2>2, <2>3, <2>4, TurnStep DEF TurnSound
<1>2. ASSUME NEW w \in Words, StartDirect(w) PROVE TurnSound'
  <2>1. /\ turn' = [turn EXCEPT ![Home[w]] = "dispatching"]
        /\ turnIds' = [turnIds EXCEPT ![Home[w]] = {}]
        /\ UNCHANGED <<status, word, nextId, lines, gone, claimed>>
    BY <1>2 DEF StartDirect
  <2>2. \A t \in Threads : turnIds'[t] = {} \/ (turnIds'[t] = turnIds[t] /\ turn'[t] = turn[t])
    BY <1>0, <2>1 DEF TypeOK
  <2>3. \A i : Thread(i)' = Thread(i) BY <2>1 DEF Thread
  <2>4. QED BY <1>0, <2>1, <2>2, <2>3, TurnStep DEF TurnSound
<1>3. ASSUME NEW w \in Words, Send(w) \/ SendContinues(w) \/ OpenThread(w) PROVE TurnSound'
  <2>1. \/ Enqueue(w) \/ StartDirect(w)
        \/ UNCHANGED <<status, word, nextId, lines, gone, claimed, turn, turnIds>>
    BY <1>3 DEF Send, SendContinues, OpenThread, StartOrQueue, Decline
  <2>2. QED BY <1>0, <1>1, <1>2, <2>1, QuietTurns
<1>4. ASSUME NEW i \in Ids, Cancel(i) PROVE TurnSound'
  <2>1. PICK u \in Threads : u = Thread(i) BY <1>0, ThreadType
  <2>2. /\ i \in ToSet(queue[u]) /\ status' = [status EXCEPT ![i] = "cancelled"]
        /\ UNCHANGED <<word, nextId, lines, gone, claimed, turn, turnIds>>
    BY <1>4, <2>1 DEF Cancel
  <2>3. \A t \in Threads : i \notin turnIds[t] BY <1>0, <2>2, WaitingWords DEF TurnSound
  <2>4. \A j \in Ids : j # i => status'[j] = status[j] BY <1>0, <2>2 DEF TypeOK
  <2>5. \A t \in Threads : turnIds[t] \subseteq Ids BY <1>0 DEF TypeOK
  <2>6. QED BY <1>0, <2>2, <2>3, <2>4, <2>5, QuietTurns
<1>5. CASE Coordinates BY <1>0, <1>5, CoordinationSteps, QuietTurns
<1>6. ASSUME NEW t \in Threads, SteerDeclined(t) PROVE TurnSound'
  BY <1>0, <1>6, QuietTurns DEF SteerDeclined
<1>7. ASSUME NEW s \in Steerers, NEW t \in Threads, HoldForSteer(s, t) PROVE TurnSound'
  BY <1>0, <1>7, QuietTurns DEF HoldForSteer
<1>8. ASSUME NEW s \in Steerers, SteerContinues(s) PROVE TurnSound'
  <2>1. /\ UNCHANGED <<word, nextId, lines, gone, claimed, turn, turnIds>>
        /\ status' = status \/ status' = SetStatus(ToSet(held[s]), "absent")
    BY <1>8 DEF SteerContinues
  <2>2. \A t \in Threads : \A i \in turnIds[t] : i \in Ids /\ i \notin ToSet(held[s])
    BY <1>0, WaitingWords DEF TurnSound, TypeOK
  <2>3. \A t \in Threads : \A i \in turnIds[t] : status'[i] = status[i] BY <2>1, <2>2 DEF SetStatus
  <2>4. QED BY <1>0, <2>1, <2>3, QuietTurns
<1>9. CASE DeleteBot
  <2>1. \A t \in Threads : turnIds[t] = {} /\ turnIds' = turnIds
    BY <1>0, <1>9 DEF DeleteBot, ThreadBusy, TurnSound
  <2>2. QED BY <1>0, <2>1, TurnStep
<1>10. QED BY <1>3, <1>4, <1>5, <1>6, <1>7, <1>8, <1>9 DEF Requests, Coordinates

(* A drain hands its batch to the turn it starts; no other handler touches *)
(* a row of a turn.                                                        *)
LEMMA HandlerTurnRows ==
  ASSUME IInv, JInv, Handler
  PROVE  TurnSound'
<1> USE DEF disk, work, waiting, turns, calls, coordination, history
<1>0. TypeOK /\ TurnSound /\ BatchSound /\ StagesSound /\ BootSound BY DEF IInv, JInv
<1>a. \A t \in Threads : turnIds[t] \subseteq Ids BY <1>0 DEF TypeOK
<1>1. CASE DrainVisit
  <2>1. visit \in Seq(Threads) /\ visit # <<>> BY <1>0, <1>1 DEF DrainVisit, TypeOK
  <2>2. PICK t \in Threads : t = Head(visit) BY <2>1, TailElements
  <2>3. UNCHANGED <<turn, turnIds, gone, word, nextId, lines>>
    BY <1>1 DEF DrainVisit, Skip, DropGone, Claim
  <2>4. \A u \in Threads : \A i \in turnIds[u] : i \in Ids /\ i \notin ToSet(queue[t])
    BY <1>0, <1>a, WaitingWords DEF TurnSound
  <2>5. \A i \in Ids : i \notin ToSet(queue[t]) => status'[i] = status[i] /\ claimed'[i] = claimed[i]
    BY <1>1, <2>2 DEF DrainVisit, Skip, DropGone, Claim, SetStatus
  <2>6. QED BY <1>0, <2>3, <2>4, <2>5, QuietTurns
<1>2. CASE DrainEnds BY <1>0, <1>2, QuietTurns DEF DrainEnds
<1>3. CASE DrainAppend \/ FoldAppend
  <2>1. /\ done < Len(batch) /\ done \in Nat /\ batch \in Seq(Ids)
        /\ lines' = [lines EXCEPT ![batch[done + 1]] = Bump(@)]
        /\ UNCHANGED <<status, word, nextId, gone, turn, turnIds, claimed>>
    BY <1>0, <1>3 DEF DrainAppend, FoldAppend, TypeOK
  <2>2. PICK n \in Ids : n = batch[done + 1] BY <2>1
  <2>3. lines \in [Ids -> 0..2] /\ Bump(lines[n]) > 0 BY <1>0, BumpCounts DEF TypeOK
  <2>4. \A i \in Ids : lines[i] > 0 => lines'[i] > 0 BY <2>1, <2>2, <2>3
  <2>5. QED BY <1>0, <1>a, <2>1, <2>4, QuietTurns
<1>4. CASE DrainStart
  <2>1. /\ frame = "start" /\ Drawn /\ batch # <<>> /\ batch \in Seq(Ids) /\ done = Len(batch)
        /\ UNCHANGED <<word, nextId, lines, gone, claimed>>
    BY <1>0, <1>4 DEF DrainStart, Drawn, BatchSound, TypeOK
  <2>2. batch[1] \in Ids BY <2>1
  <2>3. PICK t \in Threads : t = Thread(batch[1]) BY <1>0, <2>2, ThreadType
  <2>4. \A i \in ToSet(batch) :
           /\ i \in Ids /\ i < nextId /\ Thread(i) = t /\ Thread(i) \notin gone /\ claimed[i] > 0
           /\ status[i] = "dispatching" /\ \A u \in Threads : i \notin turnIds[u]
    BY <1>0, <2>1, <2>3, ToSetType DEF BatchSound, InHand
  <2>5. \A i \in ToSet(batch) : lines[i] > 0
    <3>1. SUFFICES ASSUME NEW i \in ToSet(batch) PROVE lines[i] > 0 OBVIOUS
    <3>2. PICK k \in 1..Len(batch) : batch[k] = i BY <2>1, ToSetType
    <3>3. QED BY <1>0, <2>1, <3>2 DEF BatchSound
  <2>6. \A i : Thread(i)' = Thread(i) BY <2>1 DEF Thread
  <2>7. CASE /\ turn' = [turn EXCEPT ![t] = "dispatching"]
             /\ turnIds' = [turnIds EXCEPT ![t] = ToSet(batch)]
             /\ UNCHANGED status
    <3>1. /\ turnIds'[t] = ToSet(batch) /\ turn'[t] = "dispatching"
          /\ \A u \in Threads \ {t} : turnIds'[u] = turnIds[u] /\ turn'[u] = turn[u]
      BY <1>0, <2>7 DEF TypeOK
    <3>2. t \notin gone BY <2>1, <2>4 DEF ToSet
    <3>3. SUFFICES ASSUME NEW u \in Threads
                   PROVE  /\ turnIds'[u] # {} => turn'[u] # "idle" /\ u \notin gone'
                          /\ \A i \in turnIds'[u] :
                               /\ i < nextId' /\ Thread(i)' = u /\ claimed'[i] > 0
                               /\ status'[i] = "dispatching" /\ lines'[i] > 0
      BY DEF TurnSound
    <3>4. CASE u = t BY <2>1, <2>4, <2>5, <2>6, <2>7, <3>1, <3>2, <3>4
    <3>5. CASE u # t BY <1>0, <2>1, <2>6, <2>7, <3>1, <3>5 DEF TurnSound
    <3>6. QED BY <3>4, <3>5
  <2>8. CASE /\ \E st \in {"absent", "interrupted"} : status' = SetStatus(ToSet(batch), st)
             /\ UNCHANGED turns
    <3>1. \A u \in Threads : \A i \in turnIds[u] : i \in Ids /\ i \notin ToSet(batch)
      BY <1>a, <2>4
    <3>2. \A u \in Threads : \A i \in turnIds[u] : status'[i] = status[i]
      BY <2>8, <3>1 DEF SetStatus
    <3>3. QED BY <1>0, <2>1, <2>8, <3>2, QuietTurns
  <2>9. QED BY <1>4, <2>3, <2>7, <2>8 DEF DrainStart
<1>5. CASE FoldSettle
  <2>1. /\ Folded /\ status' = SetStatus(ToSet(batch), "absent")
        /\ UNCHANGED <<word, nextId, lines, gone, turn, turnIds, claimed>>
    BY <1>5 DEF FoldSettle, Folded
  <2>2. \A u \in Threads : \A i \in turnIds[u] : i \in Ids /\ i \notin ToSet(batch)
    BY <1>0, <1>a, <2>1 DEF BatchSound, InHand, TurnSound
  <2>3. \A u \in Threads : \A i \in turnIds[u] : status'[i] = status[i] BY <2>1, <2>2 DEF SetStatus
  <2>4. QED BY <1>0, <2>1, <2>3, QuietTurns
<1>6. ASSUME turnIds' = turnIds, \A t \in Threads : turnIds[t] = {} PROVE TurnSound'
  BY <1>0, <1>6, TurnStep
<1>7. CASE Purge
  <2>1. gone = Threads /\ turnIds' = turnIds BY <1>0, <1>7 DEF Purge, StagesSound
  <2>2. \A t \in Threads : turnIds[t] = {} BY <1>0, <2>1 DEF TurnSound
  <2>3. QED BY <1>6, <2>1, <2>2
<1>8. CASE Boot \/ RecoverMark \/ RecoverLine \/ RecoverNotice \/ RecoverRetire \/ RecoverEnds
           \/ RestoreRow \/ Listen
  <2>1. up # "serving" /\ turnIds' = turnIds
    BY <1>0, <1>8 DEF Boot, RecoverMark, RecoverLine, RecoverNotice, RecoverRetire, RecoverEnds,
       RestoreRow, Listen, BootSound, BootFrames
  <2>2. QED BY <1>0, <1>6, <2>1 DEF StagesSound
<1>9. CASE DeleteEnds
  <2>1. PICK t \in Threads :
          /\ gone' = gone \cup {t}
          /\ status' = SetStatus({i \in Ids : i < nextId /\ Thread(i) = t}, "absent")
          /\ turnIds' = [turnIds EXCEPT ![t] = {}]
          /\ turn' = [turn EXCEPT ![t] = IF ThreadBusy(t) THEN "closing" ELSE "idle"]
    BY <1>0, <1>9, DeletionSteps
  <2>2. UNCHANGED <<word, nextId, lines, claimed>> BY <1>0, <1>9, DeletionSteps
  <2>3. \A u \in Threads : \/ turnIds'[u] = {}
                           \/ u # t /\ turnIds'[u] = turnIds[u] /\ turn'[u] = turn[u]
    BY <1>0, <2>1 DEF TypeOK
  <2>4. \A u \in Threads \ {t} : turnIds[u] # {} => u \notin gone' BY <1>0, <2>1 DEF TurnSound
  <2>5. \A u \in Threads \ {t} : \A i \in turnIds[u] : i \in Ids /\ Thread(i) # t
    BY <1>0, <1>a DEF TurnSound
  <2>6. \A u \in Threads \ {t} : \A i \in turnIds[u] : status'[i] = status[i]
    BY <2>1, <2>5 DEF SetStatus
  <2>7. \A i : Thread(i)' = Thread(i) BY <2>2 DEF Thread
  <2>8. \A u \in Threads \ {t} : \A i \in turnIds[u] :
           /\ i < nextId' /\ Thread(i)' = Thread(i) /\ claimed'[i] = claimed[i]
           /\ status'[i] = status[i] /\ (lines[i] > 0 => lines'[i] > 0)
    BY <1>0, <2>2, <2>6, <2>7 DEF TurnSound
  <2>9. QED BY <1>0, <2>3, <2>4, <2>8, TurnStep
<1>10. CASE HandoffStarts
  <2>1. /\ UNCHANGED <<status, word, nextId, lines, gone, claimed>>
        /\ \/ UNCHANGED turns
           \/ \E t \in Threads : /\ turn' = [turn EXCEPT ![t] = "dispatching"]
                                 /\ turnIds' = [turnIds EXCEPT ![t] = {}]
    BY <1>0, <1>10, HandoffStartSteps
  <2>2. \A u \in Threads : turnIds'[u] = {} \/ (turnIds'[u] = turnIds[u] /\ turn'[u] = turn[u])
    BY <1>0, <2>1 DEF TypeOK
  <2>3. \A i : Thread(i)' = Thread(i) BY <2>1 DEF Thread
  <2>4. QED BY <1>0, <2>1, <2>2, <2>3, TurnStep DEF TurnSound
<1>11. QED BY <1>1, <1>2, <1>3, <1>4, <1>5, <1>7, <1>8, <1>9, <1>10 DEF Handler

(* A turn that settles retires its own rows only.                          *)
LEMMA NextTurnRows ==
  ASSUME IInv, JInv, [Next]_vars
  PROVE  TurnSound'
<1> USE DEF vars, disk, work, waiting, turns, calls, coordination, history
<1>0. TypeOK /\ TurnSound BY DEF IInv, JInv
<1>1. CASE Engine
  <2>1. ASSUME NEW t \in Threads, TurnCompleted(t) \/ DispatchAcknowledged(t) \/ DispatchFailed(t)
                                   \/ TurnStalled(t)
        PROVE  TurnSound'
    <3>1. /\ UNCHANGED <<word, nextId, lines, gone, claimed>>
          /\ \/ /\ Retire(t) /\ \A u \in Threads \ {t} : turn'[u] = turn[u]
             \/ /\ UNCHANGED <<status, turnIds>>
                /\ \A u \in Threads : turn'[u] # "idle" \/ turn'[u] = turn[u]
      BY <1>0, <2>1 DEF TurnCompleted, DispatchAcknowledged, DispatchFailed, TurnStalled, TypeOK
    <3>2. \A i : Thread(i)' = Thread(i) BY <3>1 DEF Thread
    <3>3. CASE Retire(t) /\ \A u \in Threads \ {t} : turn'[u] = turn[u]
      <4>1. /\ turnIds'[t] = {} /\ status' = SetStatus(turnIds[t], "absent")
            /\ \A u \in Threads \ {t} : turnIds'[u] = turnIds[u]
        BY <1>0, <3>3 DEF Retire, TypeOK
      <4>2. \A u \in Threads \ {t} : \A i \in turnIds[u] : i \in Ids /\ i \notin turnIds[t]
        BY <1>0 DEF TurnSound, TypeOK
      <4>3. \A u \in Threads \ {t} : \A i \in turnIds[u] : status'[i] = status[i]
        BY <4>1, <4>2 DEF SetStatus
      <4>4. QED BY <1>0, <3>1, <3>2, <3>3, <4>1, <4>3, TurnStep DEF TurnSound
    <3>4. CASE /\ UNCHANGED <<status, turnIds>>
               /\ \A u \in Threads : turn'[u] # "idle" \/ turn'[u] = turn[u]
      BY <1>0, <3>1, <3>2, <3>4, TurnStep DEF TurnSound
    <3>5. QED BY <3>1, <3>3, <3>4
  <2>2. ASSUME UNCHANGED <<status, word, nextId, lines, gone, claimed, turn, turnIds>> PROVE TurnSound'
    BY <1>0, <2>2, QuietTurns
  <2>3. QED BY <1>1, <2>1, <2>2 DEF Engine, EngineTakes, EngineAnswers, RoomSpeaks,
            RoomTurnCompleted, RoomOperationFinished, OtherTurnCompleted, HandoffOpens,
            HandoffSettles, HandoffRuns
<1>2. CASE Crash BY <1>2 DEF Crash, TurnSound
<1>3. CASE UNCHANGED vars BY <1>0, <1>3, QuietTurns
<1>4. QED BY <1>1, <1>2, <1>3, RequestsTurnRows, HandlerTurnRows DEF Next

-----------------------------------------------------------------------------
(* Recovery, and the invariant *)

(* Recovery takes up a row whose thread is there, and retires it with its  *)
(* words in the transcript.                                                *)
LEMMA NextRecover ==
  ASSUME IInv, JInv, [Next]_vars
  PROVE  RecoverSound'
<1> USE DEF vars, disk, work, waiting, turns, calls, coordination, history
<1>0. TypeOK /\ WordsSound /\ RecoverSound BY DEF IInv, JInv
<1>1. ASSUME frame' \notin {"recoverLine", "recoverNotice", "retire"} PROVE RecoverSound'
  BY <1>1 DEF RecoverSound
<1>2. CASE RecoverMark
  <2>1. CASE frame' = "recoverLine"
    <3>1. PICK i \in Unfinished : IF Thread(i) \in gone
                                  THEN UNCHANGED frame
                                  ELSE /\ status' = [status EXCEPT ![i] = "interrupted"]
                                       /\ batch' = <<i>>
      BY <1>2 DEF RecoverMark
    <3>2. frame = "mark" /\ UNCHANGED <<word, nextId, gone>> BY <1>2 DEF RecoverMark
    <3>3. i \in Ids /\ status[i] # "absent" BY DEF Unfinished
    <3>4. i < nextId BY <1>0, <3>3 DEF WordsSound, TypeOK, Ids
    <3>5. /\ Thread(i) \notin gone /\ status' = [status EXCEPT ![i] = "interrupted"]
          /\ batch' = <<i>>
      BY <2>1, <3>1, <3>2
    <3>6. batch'[1] = i /\ batch' # <<>> /\ status'[i] = "interrupted" BY <1>0, <3>3, <3>5 DEF TypeOK
    <3>7. Thread(i)' = Thread(i) BY <3>2 DEF Thread
    <3>8. QED BY <2>1, <3>2, <3>4, <3>5, <3>6, <3>7 DEF RecoverSound
  <2>2. CASE frame' # "recoverLine" BY <1>1, <1>2, <2>2 DEF RecoverMark
  <2>3. QED BY <2>1, <2>2
<1>3. CASE RecoverLine
  <2>1. /\ frame = "recoverLine" /\ UNCHANGED <<status, word, nextId, gone, batch>>
        /\ batch # <<>> /\ batch \in Seq(Ids)
        /\ lines' = IF lines[batch[1]] = 0 THEN [lines EXCEPT ![batch[1]] = Bump(@)] ELSE lines
    BY <1>0, <1>3 DEF RecoverLine, RecoverSound, TypeOK
  <2>2. PICK i \in Ids : i = batch[1] BY <2>1
  <2>3. lines \in [Ids -> 0..2] /\ Bump(lines[i]) > 0 BY <1>0, BumpCounts DEF TypeOK
  <2>4. lines'[i] > 0
    <3>1. lines[i] \in 0..2 BY <2>3
    <3>2. QED BY <2>1, <2>2, <2>3, <3>1
  <2>5. Thread(batch[1])' = Thread(batch[1]) BY <2>1 DEF Thread
  <2>6. QED BY <1>0, <2>1, <2>2, <2>4, <2>5 DEF RecoverSound
<1>4. CASE RecoverNotice
  <2>1. /\ frame = "recoverNotice" /\ UNCHANGED <<status, word, nextId, gone, batch, lines>>
    BY <1>4 DEF RecoverNotice
  <2>2. QED BY <1>0, <2>1 DEF RecoverSound, Thread
<1>5. CASE Requests \/ Engine BY <1>1, <1>5, OutsideSteps
<1>6. CASE \/ DrainVisit \/ DrainEnds \/ DrainAppend \/ DrainStart \/ FoldAppend \/ FoldSettle
           \/ Purge \/ DeleteEnds \/ HandoffStarts
  BY <1>0, <1>1, <1>6, DeletionSteps, HandoffStartSteps
     DEF DrainVisit, DrainEnds, DrainAppend, DrainStart, FoldAppend, FoldSettle, Purge,
         Skip, DropGone, Claim, AfterWalk
<1>7. CASE Boot \/ RecoverRetire \/ RecoverEnds \/ RestoreRow \/ Listen \/ Crash
  BY <1>1, <1>7 DEF Boot, RecoverRetire, RecoverEnds, RestoreRow, Listen, DrainAll, Crash
<1>8. CASE UNCHANGED vars BY <1>0, <1>8 DEF RecoverSound, Thread
<1>9. QED BY <1>2, <1>3, <1>4, <1>5, <1>6, <1>7, <1>8 DEF Next, Handler

(* The empty journal of a first start is sound.                            *)
LEMMA InitJInv == Init => JInv
<1> SUFFICES ASSUME Init PROVE JInv OBVIOUS
<1>1. ToSet(<<>>) = {} /\ IsInjective(<<>>) BY DEF ToSet, IsInjective
<1>2. IInv BY InitIInv
<1>3. /\ \A t \in Threads : queue[t] = <<>> /\ turnIds[t] = {}
      /\ \A s \in Steerers : held[s] = <<>>
      /\ \A i \in Ids : status[i] = "absent" /\ lines[i] = 0
      /\ frame = "idle" /\ up = "serving" /\ line = <<>>
  BY DEF Init
<1>4. \A i \in Ids : Thread(i) \in Threads BY <1>2, ThreadType DEF IInv
<1>5. \A i \in Ids : ~Waits(i) BY <1>1, <1>3, <1>4 DEF Waits, InHold, Folding
<1>6. WordsSound BY <1>1, <1>3, <1>5 DEF WordsSound
<1>7. StagesSound /\ BatchSound /\ RecoverSound
  BY <1>3 DEF StagesSound, BatchSound, Drawn, Folded, RecoverSound
<1>8. LineSound
  <2>1. {t \in Threads : queue[t] # <<>>} = {} BY <1>3
  <2>2. QED BY <1>1, <1>3, <2>1 DEF LineSound
<1>9. TurnSound BY <1>3 DEF TurnSound
<1>10. QED BY <1>6, <1>7, <1>8, <1>9 DEF JInv

(* Every step preserves it.                                                *)
LEMMA NextJInv == IInv /\ JInv /\ [Next]_vars => JInv'
<1> SUFFICES ASSUME IInv, JInv, [Next]_vars PROVE JInv' OBVIOUS
<1>1. QED BY NextWords, NextStages, NextLine, NextBatch, NextTurnRows, NextRecover DEF JInv

(* What the journal calls pending waits where the process can reach it,    *)
(* for every set of threads, words and steerers and every bound (steer-    *)
(* queue.ts, the chat_followups table and the boot that reads it).         *)
THEOREM JournalSoundness == Spec => []JInv
<1>1. IInv /\ JInv /\ [Next]_vars => JInv' BY NextJInv
<1>2. QED BY <1>1, InitJInv, Soundness, PTL DEF Spec

(* Between two handlers the rows the journal calls pending are exactly the *)
(* words in the map or in the hands of a live steer, each in one place     *)
(* once, and a drain that walks the line meets every thread with words     *)
(* (enqueueSteer, holdSteeredQueue, restoreSteeredMessages): nothing waits *)
(* on disk that no drain will ever reach.                                  *)
THEOREM PendingIsReachableHolds == Spec => []PendingIsReachable
<1>1. IInv /\ JInv => PendingIsReachable
  <2>1. SUFFICES ASSUME IInv, JInv, Serving PROVE PendingIsReachable!2 BY DEF PendingIsReachable
  <2>2. TypeOK /\ HeldSound /\ WordsSound /\ LineSound BY <2>1 DEF IInv, JInv
  <2>3. ASSUME NEW i \in Issued
        PROVE  status[i] = "pending" <=> i \in ToSet(queue[Thread(i)]) \/ InHold(i)
    <3>1. i \in Ids /\ Thread(i) \notin gone BY DEF Issued
    <3>2. ~Folding(i) BY <2>1 DEF Serving, Folding
    <3>3. QED BY <2>1, <2>2, <3>1, <3>2 DEF WordsSound, Journaled, Waits, Serving
  <2>4. QED BY <2>2, <2>3 DEF WordsSound, LineSound, HeldSound
<1>2. QED BY <1>1, Soundness, JournalSoundness, PTL

-----------------------------------------------------------------------------
(* The journal keeps the ledger *)

(* What the ledger says of an id changes only with its row.                *)
LEMMA FateKept ==
  ASSUME TypeOK, NEW i \in Ids,
         i >= nextId' <=> i >= nextId, Thread(i)' = Thread(i),
         Thread(i) \in gone' <=> Thread(i) \in gone,
         status'[i] = status[i] \/ Thread(i) \in gone
  PROVE  Fate(i)' = Fate(i)
<1>1. CASE i >= nextId \/ Thread(i) \in gone BY <1>1 DEF Fate
<1>2. CASE ~(i >= nextId) /\ Thread(i) \notin gone
  <2>1. ~(i >= nextId') /\ Thread(i)' \notin gone' /\ status'[i] = status[i] BY <1>2
  <2>2. CASE status[i] = "pending" BY <1>2, <2>1, <2>2 DEF Fate
  <2>3. CASE status[i] = "dispatching" BY <1>2, <2>1, <2>3 DEF Fate
  <2>4. CASE status[i] = "interrupted" BY <1>2, <2>1, <2>4 DEF Fate
  <2>5. CASE status[i] = "absent" BY <1>2, <2>1, <2>5 DEF Fate
  <2>6. CASE status[i] = "cancelled" BY <1>2, <2>1, <2>6 DEF Fate
  <2>7. QED BY <2>2, <2>3, <2>4, <2>5, <2>6 DEF TypeOK, Statuses
<1>3. QED BY <1>1, <1>2

(* What the ledger says of an accepted id whose thread is there.           *)
LEMMA FateOfRow ==
  ASSUME TypeOK, NEW i \in Ids, i < nextId, Thread(i) \notin gone
  PROVE  /\ status[i] = "pending" => Fate(i) = "waiting"
         /\ status[i] \in {"dispatching", "interrupted"} => Fate(i) = "claimed"
         /\ status[i] = "cancelled" => Fate(i) = "cancelled"
         /\ status[i] = "absent" => Fate(i) = "recorded"
         /\ Fate(i) # "none"
<1>1. ~(i >= nextId) BY DEF Ids, TypeOK
<1>2. CASE status[i] = "pending" BY <1>1, <1>2 DEF Fate
<1>3. CASE status[i] = "dispatching" BY <1>1, <1>3 DEF Fate
<1>4. CASE status[i] = "interrupted" BY <1>1, <1>4 DEF Fate
<1>5. CASE status[i] = "absent" BY <1>1, <1>5 DEF Fate
<1>6. CASE status[i] = "cancelled" BY <1>1, <1>6 DEF Fate
<1>7. QED BY <1>2, <1>3, <1>4, <1>5, <1>6 DEF TypeOK, Statuses

fateOfAll == [i \in Ids |-> Fate(i)]
saidOfAll == [i \in Ids |-> lines[i] > 0]

(* A step after which every id has the fate it had stutters in the ledger. *)
LEMMA LedgerStutters ==
  ASSUME TypeOK, UNCHANGED <<nextId, word, gone, lines>>,
         \A i \in Ids : status'[i] = status[i] \/ Thread(i) \in gone
  PROVE  UNCHANGED <<fateOfAll, saidOfAll>>
<1>1. \A i \in Ids : Fate(i)' = Fate(i)
  <2>1. SUFFICES ASSUME NEW i \in Ids PROVE Fate(i)' = Fate(i) OBVIOUS
  <2>2. Thread(i)' = Thread(i) BY DEF Thread
  <2>3. QED BY <2>2, FateKept
<1>2. fateOfAll' = fateOfAll BY <1>1 DEF fateOfAll
<1>3. saidOfAll' = saidOfAll BY DEF saidOfAll
<1>4. QED BY <1>2, <1>3

(* Some ids change their fate at once.                                     *)
LEMMA LedgerMoves ==
  ASSUME NEW S \in SUBSET Ids, NEW f,
         \A i \in Ids : Fate(i)' = IF i \in S THEN f ELSE Fate(i)
  PROVE  Ledger!Become(S, f)
BY DEF Ledger!Become

(* A line is written for words that wait or are claimed.                   *)
LEMMA LedgerSays ==
  ASSUME TypeOK, NEW i \in Ids, UNCHANGED <<nextId, word, gone, status>>,
         lines' = [lines EXCEPT ![i] = Bump(@)], Fate(i) \in {"waiting", "claimed"}
  PROVE  Ledger!Next
<1>1. fateOfAll' = fateOfAll
  <2>1. ASSUME NEW j \in Ids PROVE Fate(j)' = Fate(j)
    <3>1. Thread(j)' = Thread(j) BY DEF Thread
    <3>2. QED BY <3>1, FateKept
  <2>2. QED BY <2>1 DEF fateOfAll
<1>2. /\ lines \in [Ids -> 0..2] /\ lines[i] \in 0..2 /\ Bump(lines[i]) > 0
  BY BumpCounts DEF TypeOK
<1>3. saidOfAll' = [saidOfAll EXCEPT ![i] = TRUE] BY <1>2 DEF saidOfAll
<1>4. Ledger!Say(i) BY <1>1, <1>3 DEF Ledger!Say, Ledger!Having, fateOfAll, saidOfAll
<1>5. QED BY <1>4 DEF Ledger!Next

(* Rows that settle at once, whose words wait or are claimed and stand in  *)
(* the transcript.                                                         *)
LEMMA LedgerRecords ==
  ASSUME TypeOK, NEW S \in SUBSET Ids, UNCHANGED <<nextId, word, gone, lines>>,
         status' = SetStatus(S, "absent"),
         \A i \in S : /\ i < nextId /\ Thread(i) \notin gone /\ lines[i] > 0
                      /\ status[i] \in {"pending", "dispatching", "interrupted"}
  PROVE  Ledger!Next
<1>1. \A i \in Ids : /\ i \in S => status'[i] = "absent"
                     /\ i \notin S => status'[i] = status[i]
  BY DEF SetStatus
<1>2. ASSUME NEW i \in S PROVE Fate(i)' = "recorded"
  <2>1. ~(i >= nextId') BY DEF TypeOK, Ids
  <2>2. Thread(i)' \notin gone' BY DEF Thread
  <2>3. QED BY <1>1, <2>1, <2>2 DEF Fate
<1>3. ASSUME NEW i \in Ids \ S PROVE Fate(i)' = Fate(i)
  <2>1. Thread(i)' = Thread(i) BY DEF Thread
  <2>2. QED BY <1>1, <2>1, FateKept
<1>4. Ledger!Become(S, "recorded") BY <1>2, <1>3, LedgerMoves
<1>5. \A i \in S : Fate(i) \in {"waiting", "claimed"} BY FateOfRow
<1>6. Ledger!Record(S) BY <1>4, <1>5 DEF Ledger!Record, Ledger!Having
<1>7. QED BY <1>6 DEF Ledger!Next

(* Threads go with all their rows.                                         *)
LEMMA LedgerDrops ==
  ASSUME TypeOK, NEW S \in SUBSET Ids, UNCHANGED <<nextId, word, lines>>,
         gone \subseteq gone',
         \A i \in S : i < nextId /\ Thread(i) \in gone',
         \A i \in Ids \ S : status'[i] = status[i] /\ (i < nextId => Thread(i) \notin gone' \ gone)
  PROVE  Ledger!Next
<1>1. \A i \in Ids : Thread(i)' = Thread(i) BY DEF Thread
<1>2. \A i \in S : Fate(i)' = "dropped" /\ Fate(i) # "none"
  <2>1. SUFFICES ASSUME NEW i \in S PROVE Fate(i)' = "dropped" /\ Fate(i) # "none" OBVIOUS
  <2>2. i \in Ids /\ ~(i >= nextId) BY DEF TypeOK, Ids
  <2>3. Fate(i)' = "dropped" BY <1>1, <2>2 DEF Fate
  <2>4. ASSUME Thread(i) \in gone PROVE Fate(i) # "none" BY <2>2, <2>4 DEF Fate
  <2>5. ASSUME Thread(i) \notin gone PROVE Fate(i) # "none" BY <2>5, <2>2, FateOfRow
  <2>6. QED BY <2>3, <2>4, <2>5
<1>3. ASSUME NEW j \in Ids \ S PROVE Fate(j)' = Fate(j)
  <2>1. CASE j >= nextId BY <2>1 DEF Fate
  <2>2. CASE ~(j >= nextId)
    <3>1. j < nextId BY <2>2 DEF TypeOK, Ids
    <3>2. Thread(j) \in gone' <=> Thread(j) \in gone BY <3>1
    <3>3. QED BY <1>1, <3>2, FateKept
  <2>3. QED BY <2>1, <2>2
<1>4. \A j \in Ids : Fate(j)' = IF j \in S THEN "dropped" ELSE Fate(j) BY <1>2, <1>3
<1>5. Ledger!Become(S, "dropped") BY <1>4, LedgerMoves
<1>6. S \subseteq Ids \ Ledger!Having({"none"}) BY <1>2 DEF Ledger!Having
<1>7. Ledger!Drop(S) BY <1>5, <1>6 DEF Ledger!Drop
<1>8. QED BY <1>7 DEF Ledger!Next

(* Every request is a step of the ledger or leaves it as it is.            *)
LEMMA RequestsLedger ==
  ASSUME IInv, JInv, Requests
  PROVE  [Ledger!Next]_<<fateOfAll, saidOfAll>>
<1> USE DEF disk, work, waiting, turns, calls, coordination, history
<1>0. TypeOK /\ WordsSound BY DEF IInv, JInv
<1>a. nextId \in Nat /\ Ids \subseteq Nat BY <1>0, SteerQueueAssumption DEF TypeOK, Ids
<1>1. ASSUME UNCHANGED <<status, word, nextId, lines, gone>>
      PROVE  UNCHANGED <<fateOfAll, saidOfAll>>
  BY <1>0, <1>1, LedgerStutters
<1>2. ASSUME NEW w \in Words, Home[w] \notin gone, Enqueue(w) PROVE Ledger!Next
  <2>1. PICK n \in Ids : n = nextId BY <1>0, <1>2 DEF Enqueue, TypeOK, Ids
  <2>2. /\ nextId' = n + 1 /\ status' = [status EXCEPT ![n] = "pending"]
        /\ word' = [word EXCEPT ![n] = w] /\ UNCHANGED <<lines, gone>>
    BY <1>2, <2>1 DEF Enqueue
  <2>3. Thread(n)' = Home[w] /\ status'[n] = "pending" BY <1>0, <2>2 DEF Thread, TypeOK
  <2>4. Fate(n)' = "waiting"
    <3>1. ~(n >= nextId') BY <1>a, <2>1, <2>2
    <3>2. QED BY <1>2, <2>2, <2>3, <3>1 DEF Fate
  <2>5. Fate(n) = "none" BY <1>a, <2>1 DEF Fate
  <2>6. ASSUME NEW j \in Ids, j # n PROVE Fate(j)' = Fate(j)
    <3>1. status'[j] = status[j] /\ Thread(j)' = Thread(j) BY <1>0, <2>2, <2>6 DEF TypeOK, Thread
    <3>2. j >= nextId' <=> j >= nextId BY <1>a, <2>1, <2>2, <2>6
    <3>3. Thread(j) \in gone' <=> Thread(j) \in gone BY <2>2
    <3>4. QED BY <1>0, <3>1, <3>2, <3>3, FateKept
  <2>7. \A j \in Ids : Fate(j)' = IF j \in {n} THEN "waiting" ELSE Fate(j) BY <2>4, <2>6
  <2>8. Ledger!Become({n}, "waiting") BY <2>7, LedgerMoves
  <2>9. Ledger!Accept(n) BY <2>2, <2>5, <2>8 DEF Ledger!Accept
  <2>10. QED BY <2>9 DEF Ledger!Next
<1>3. ASSUME NEW w \in Words, Send(w) \/ SendContinues(w) \/ OpenThread(w)
      PROVE  [Ledger!Next]_<<fateOfAll, saidOfAll>>
  <2>1. (Home[w] \notin gone /\ Enqueue(w)) \/ UNCHANGED <<status, word, nextId, lines, gone>>
    BY <1>3 DEF Send, SendContinues, OpenThread, StartOrQueue, StartDirect, Decline
  <2>2. QED BY <1>1, <1>2, <2>1
<1>4. ASSUME NEW i \in Ids, Cancel(i) PROVE Ledger!Next
  <2>1. PICK u \in Threads : u = Thread(i) BY <1>0, ThreadType
  <2>2. /\ status' = [status EXCEPT ![i] = "cancelled"] /\ UNCHANGED <<word, nextId, lines, gone>>
        /\ i < nextId /\ i \in ToSet(queue[u]) /\ Thread(i) \notin gone
    BY <1>4, <2>1 DEF Cancel
  <2>3. status[i] = "pending" BY <1>0, <2>2, WaitingWords DEF WordsSound, Journaled
  <2>4. Fate(i) = "waiting" BY <1>0, <2>2, <2>3, FateOfRow
  <2>5. Fate(i)' = "cancelled"
    <3>1. ~(i >= nextId') /\ Thread(i)' \notin gone' BY <1>a, <2>2 DEF Thread
    <3>2. status'[i] = "cancelled" BY <1>0, <2>2 DEF TypeOK
    <3>3. QED BY <3>1, <3>2 DEF Fate
  <2>6. ASSUME NEW j \in Ids, j # i PROVE Fate(j)' = Fate(j)
    <3>1. status'[j] = status[j] /\ Thread(j)' = Thread(j) BY <1>0, <2>2, <2>6 DEF TypeOK, Thread
    <3>2. QED BY <1>0, <2>2, <3>1, FateKept
  <2>7. \A j \in Ids : Fate(j)' = IF j \in {i} THEN "cancelled" ELSE Fate(j) BY <2>5, <2>6
  <2>8. Ledger!Become({i}, "cancelled") BY <2>7, LedgerMoves
  <2>9. Ledger!Cancel(i) BY <2>2, <2>4, <2>8 DEF Ledger!Cancel
  <2>10. QED BY <2>9 DEF Ledger!Next
<1>5. ASSUME NEW t \in Threads, SteerDeclined(t) PROVE UNCHANGED <<fateOfAll, saidOfAll>>
  BY <1>1, <1>5 DEF SteerDeclined
<1>6. ASSUME NEW s \in Steerers, NEW t \in Threads, HoldForSteer(s, t)
      PROVE  UNCHANGED <<fateOfAll, saidOfAll>>
  BY <1>1, <1>6 DEF HoldForSteer
<1>7. ASSUME NEW s \in Steerers, SteerContinues(s) PROVE UNCHANGED <<fateOfAll, saidOfAll>>
  <2>1. held[s] # <<>> BY <1>7 DEF SteerContinues, Answered, IInv, HeldSound
  <2>2. PICK t \in Threads : t = Thread(held[s][1]) BY <2>1, WaitingWords
  <2>3. ThreadOfCall(s) = t BY <2>2, SteerQueueAssumption DEF ThreadOfCall
  <2>4. /\ UNCHANGED <<word, nextId, lines, gone>>
        /\ status' = status \/ (t \in gone /\ status' = SetStatus(ToSet(held[s]), "absent"))
    BY <1>7, <2>3 DEF SteerContinues
  <2>5. \A i \in ToSet(held[s]) : Thread(i) = t BY <2>2, WaitingWords
  <2>6. \A i \in Ids : status'[i] = status[i] \/ Thread(i) \in gone BY <2>4, <2>5 DEF SetStatus
  <2>7. QED BY <1>0, <2>4, <2>6, LedgerStutters
<1>8. CASE Coordinates
  <2>1. UNCHANGED <<status, word, nextId, lines, gone>> BY <1>8, CoordinationSteps
  <2>2. QED BY <1>1, <2>1
<1>9. CASE DeleteBot
  <2> DEFINE S == {i \in Ids : i < nextId}
  <2>1. UNCHANGED <<nextId, word, lines, status>> /\ gone' = Threads BY <1>9 DEF DeleteBot
  <2>2. \A i \in Ids : Thread(i) \in Threads BY <1>0, ThreadType
  <2>3. gone \subseteq gone' BY <1>0, <2>1 DEF TypeOK
  <2>4. S \in SUBSET Ids /\ (\A i \in S : i < nextId /\ Thread(i) \in gone') BY <2>1, <2>2
  <2>5. \A i \in Ids \ S : status'[i] = status[i] /\ (i < nextId => Thread(i) \notin gone' \ gone)
    BY <2>1
  <2> HIDE DEF S
  <2>6. QED BY <1>0, <2>1, <2>3, <2>4, <2>5, LedgerDrops
<1>10. QED BY <1>3, <1>4, <1>5, <1>6, <1>7, <1>8, <1>9 DEF Requests, Coordinates

(* So is every commit of a handler.                                        *)
LEMMA HandlerLedger ==
  ASSUME IInv, JInv, Handler
  PROVE  [Ledger!Next]_<<fateOfAll, saidOfAll>>
<1> USE DEF disk, work, waiting, turns, calls, coordination, history
<1>0. TypeOK /\ WordsSound /\ BatchSound /\ RecoverSound /\ StagesSound BY DEF IInv, JInv
<1>a. nextId \in Nat /\ Ids \subseteq Nat BY <1>0, SteerQueueAssumption DEF TypeOK, Ids
<1>1. ASSUME UNCHANGED <<status, word, nextId, lines, gone>>
      PROVE  UNCHANGED <<fateOfAll, saidOfAll>>
  BY <1>0, <1>1, LedgerStutters
<1>2. ASSUME NEW i \in Ids, i < nextId, Thread(i) \notin gone, UNCHANGED <<word, nextId, lines, gone>>,
             status[i] \in {"dispatching", "interrupted"},
             \A j \in Ids \ {i} : status'[j] = status[j], status'[i] = "interrupted"
      PROVE  UNCHANGED <<fateOfAll, saidOfAll>>
  <2>1. Fate(i) = "claimed" BY <1>0, <1>2, FateOfRow
  <2>2. Fate(i)' = "claimed"
    <3>1. Thread(i)' \notin gone' /\ ~(i >= nextId') BY <1>a, <1>2 DEF Thread
    <3>2. QED BY <1>2, <3>1 DEF Fate
  <2>3. ASSUME NEW j \in Ids \ {i} PROVE Fate(j)' = Fate(j)
    <3>1. Thread(j)' = Thread(j) BY <1>2 DEF Thread
    <3>2. QED BY <1>0, <1>2, <3>1, FateKept
  <2>4. \A j \in Ids : Fate(j)' = Fate(j) BY <2>1, <2>2, <2>3
  <2>5. QED BY <1>2, <2>4 DEF fateOfAll, saidOfAll
<1>3. CASE DrainVisit
  <2>1. visit \in Seq(Threads) /\ visit # <<>> BY <1>0, <1>3 DEF DrainVisit, TypeOK
  <2>2. PICK t \in Threads : t = Head(visit) BY <2>1, TailElements
  <2>3. CASE Skip(t) BY <1>1, <2>3 DEF Skip
  <2>4. CASE DropGone(t)
    <3>1. /\ UNCHANGED <<word, nextId, lines, gone>> /\ t \in gone
          /\ status' = SetStatus({i \in ToSet(queue[t]) : status[i] # "absent"}, "cancelled")
      BY <2>4 DEF DropGone
    <3>2. \A i \in ToSet(queue[t]) : Thread(i) = t BY WaitingWords
    <3>3. \A i \in Ids : status'[i] = status[i] \/ Thread(i) \in gone BY <3>1, <3>2 DEF SetStatus
    <3>4. QED BY <1>0, <3>1, <3>3, LedgerStutters
  <2>5. CASE Claim(t)
    <3>1. PICK S \in SUBSET Ids : S = ToSet(queue[t])
      <4>1. queue[t] \in Seq(Ids) BY <1>0 DEF TypeOK
      <4>2. QED BY <4>1, ToSetType
    <3>2. /\ UNCHANGED <<word, nextId, lines, gone>> /\ t \notin gone
          /\ status' = SetStatus(S, "dispatching")
      BY <2>5, <3>1 DEF Claim
    <3>3. \A i \in S : i < nextId /\ Thread(i) = t /\ status[i] = "pending"
      BY <1>0, <3>1, <3>2, WaitingWords DEF WordsSound, Journaled
    <3>4. \A i \in Ids : /\ i \in S => status'[i] = "dispatching"
                         /\ i \notin S => status'[i] = status[i]
      BY <3>2 DEF SetStatus
    <3>5. \A i \in S : Fate(i) = "waiting" BY <1>0, <3>2, <3>3, FateOfRow
    <3>6. ASSUME NEW i \in S PROVE Fate(i)' = "claimed"
      <4>1. Thread(i)' \notin gone' /\ ~(i >= nextId') BY <1>a, <3>2, <3>3 DEF Thread
      <4>2. QED BY <3>4, <4>1 DEF Fate
    <3>7. ASSUME NEW i \in Ids \ S PROVE Fate(i)' = Fate(i)
      <4>1. Thread(i)' = Thread(i) BY <3>2 DEF Thread
      <4>2. QED BY <1>0, <3>2, <3>4, <4>1, FateKept
    <3>8. \A i \in Ids : Fate(i)' = IF i \in S THEN "claimed" ELSE Fate(i) BY <3>6, <3>7
    <3>9. Ledger!Become(S, "claimed") BY <3>8, LedgerMoves
    <3>10. Ledger!Claim(S) BY <3>2, <3>5, <3>9 DEF Ledger!Claim, Ledger!Having
    <3>11. Ledger!Next BY <3>10 DEF Ledger!Next
    <3>12. QED BY <3>11
  <2>6. QED BY <1>3, <2>2, <2>3, <2>4, <2>5 DEF DrainVisit
<1>4. CASE DrainAppend \/ FoldAppend
  <2>1. /\ frame \in {"append", "fold"} /\ done < Len(batch) /\ done \in Nat /\ batch \in Seq(Ids)
        /\ lines' = [lines EXCEPT ![batch[done + 1]] = Bump(@)]
        /\ UNCHANGED <<status, word, nextId, gone>>
    BY <1>0, <1>4 DEF DrainAppend, FoldAppend, TypeOK
  <2>2. PICK i \in Ids : i = batch[done + 1] BY <2>1
  <2>3. i \in ToSet(batch) BY <2>1, <2>2 DEF ToSet
  <2>4. InHand(i) /\ (Drawn \/ Folded) BY <1>0, <2>1, <2>3 DEF BatchSound, Drawn, Folded
  <2>5. i < nextId /\ Thread(i) \notin gone /\ status[i] \in {"pending", "dispatching"}
    BY <2>4 DEF InHand
  <2>6. Fate(i) \in {"waiting", "claimed"} BY <1>0, <2>5, FateOfRow
  <2>7. Ledger!Next BY <1>0, <2>1, <2>2, <2>6, LedgerSays
  <2>8. QED BY <2>7
<1>5. ASSUME NEW S \in SUBSET Ids, S = ToSet(batch), frame \in {"start", "settle"}
      PROVE  \A i \in S : /\ i < nextId /\ Thread(i) \notin gone /\ lines[i] > 0
                          /\ status[i] \in {"pending", "dispatching", "interrupted"}
                          /\ frame = "start" => status[i] = "dispatching"
  <2>1. batch \in Seq(Ids) /\ done = Len(batch) BY <1>0, <1>5 DEF BatchSound, Drawn, Folded, TypeOK
  <2>2. SUFFICES ASSUME NEW i \in S
                 PROVE  /\ i < nextId /\ Thread(i) \notin gone /\ lines[i] > 0
                        /\ status[i] \in {"pending", "dispatching", "interrupted"}
                        /\ frame = "start" => status[i] = "dispatching"
    OBVIOUS
  <2>3. InHand(i) /\ (Drawn \/ Folded) BY <1>0, <1>5 DEF BatchSound, Drawn, Folded
  <2>4. PICK k \in 1..Len(batch) : batch[k] = i BY <1>5, <2>1, ToSetType
  <2>5. lines[i] > 0 BY <1>0, <2>1, <2>3, <2>4 DEF BatchSound
  <2>6. frame = "start" => Drawn BY DEF Drawn
  <2>7. QED BY <2>3, <2>5, <2>6 DEF InHand
<1>b. PICK B \in SUBSET Ids : B = ToSet(batch)
  <2>1. batch \in Seq(Ids) BY <1>0 DEF TypeOK
  <2>2. QED BY <2>1, ToSetType
<1>6. CASE DrainStart
  <2>1. /\ frame = "start" /\ UNCHANGED <<word, nextId, lines, gone>>
        /\ \/ status' = status
           \/ status' = SetStatus(B, "absent")
           \/ status' = SetStatus(B, "interrupted")
    BY <1>6, <1>b DEF DrainStart
  <2>2. CASE status' = status BY <1>1, <2>1, <2>2
  <2>3. CASE status' = SetStatus(B, "absent")
    <3>1. Ledger!Next BY <1>0, <1>5, <1>b, <2>1, <2>3, LedgerRecords
    <3>2. QED BY <3>1
  <2>4. CASE status' = SetStatus(B, "interrupted")
    <3>1. \A i \in Ids : /\ i \in B => status'[i] = "interrupted"
                         /\ i \notin B => status'[i] = status[i]
      BY <2>4 DEF SetStatus
    <3>2. ASSUME NEW i \in Ids PROVE Fate(i)' = Fate(i)
      <4>1. Thread(i)' = Thread(i) BY <2>1 DEF Thread
      <4>2. CASE i \notin B BY <1>0, <2>1, <3>1, <4>1, <4>2, FateKept
      <4>3. CASE i \in B
        <5>1. i < nextId /\ Thread(i) \notin gone /\ status[i] = "dispatching"
          BY <1>5, <1>b, <2>1, <4>3
        <5>2. Fate(i) = "claimed" BY <1>0, <5>1, FateOfRow
        <5>3. Thread(i)' \notin gone' /\ ~(i >= nextId') BY <1>a, <2>1, <4>1, <5>1
        <5>4. Fate(i)' = "claimed" BY <3>1, <4>3, <5>3 DEF Fate
        <5>5. QED BY <5>2, <5>4
      <4>4. QED BY <4>2, <4>3
    <3>3. QED BY <2>1, <3>2 DEF fateOfAll, saidOfAll
  <2>5. QED BY <2>1, <2>2, <2>3, <2>4
<1>7. CASE FoldSettle
  <2>1. /\ frame = "settle" /\ UNCHANGED <<word, nextId, lines, gone>>
        /\ status' = SetStatus(B, "absent")
    BY <1>7, <1>b DEF FoldSettle
  <2>2. Ledger!Next BY <1>0, <1>5, <1>b, <2>1, LedgerRecords
  <2>3. QED BY <2>2
<1>8. CASE Purge
  <2>1. gone = Threads /\ UNCHANGED <<word, nextId, lines, gone>> BY <1>0, <1>8 DEF Purge, StagesSound
  <2>2. \A i \in Ids : Thread(i) \in gone BY <1>0, <2>1, ThreadType
  <2>3. QED BY <1>0, <2>1, <2>2, LedgerStutters
<1>9. CASE DrainEnds \/ Boot \/ RecoverNotice \/ RecoverEnds \/ RestoreRow \/ Listen
  BY <1>1, <1>9 DEF DrainEnds, Boot, RecoverNotice, RecoverEnds, RestoreRow, Listen
<1>10. CASE RecoverMark
  <2>1. PICK i \in Unfinished : IF Thread(i) \in gone
                                THEN status' = [status EXCEPT ![i] = "cancelled"]
                                ELSE status' = [status EXCEPT ![i] = "interrupted"]
    BY <1>10 DEF RecoverMark
  <2>2. UNCHANGED <<word, nextId, lines, gone>> BY <1>10 DEF RecoverMark
  <2>3. i \in Ids /\ status[i] \in {"dispatching", "interrupted"} BY DEF Unfinished
  <2>4. \A j \in Ids \ {i} : status'[j] = status[j] BY <1>0, <2>1 DEF TypeOK
  <2>5. CASE Thread(i) \in gone BY <1>0, <2>2, <2>4, <2>5, LedgerStutters
  <2>6. CASE Thread(i) \notin gone
    <3>1. i < nextId
      <4>1. ~(i >= nextId) BY <1>0, <2>3 DEF WordsSound
      <4>2. QED BY <1>a, <2>3, <4>1
    <3>2. status'[i] = "interrupted" BY <1>0, <2>1, <2>3, <2>6 DEF TypeOK
    <3>3. QED BY <1>2, <2>2, <2>3, <2>4, <2>6, <3>1, <3>2
  <2>7. QED BY <2>5, <2>6
<1>11. CASE RecoverLine
  <2>1. PICK i \in Ids : i = batch[1] BY <1>0, <1>11 DEF RecoverLine, RecoverSound, TypeOK
  <2>2. /\ UNCHANGED <<status, word, nextId, gone>>
        /\ lines' = lines \/ lines' = [lines EXCEPT ![i] = Bump(@)]
        /\ i < nextId /\ status[i] = "interrupted" /\ Thread(i) \notin gone
    BY <1>0, <1>11, <2>1 DEF RecoverLine, RecoverSound
  <2>3. CASE lines' = lines BY <1>1, <2>2, <2>3
  <2>4. CASE lines' = [lines EXCEPT ![i] = Bump(@)]
    <3>1. Fate(i) = "claimed" BY <1>0, <2>2, FateOfRow
    <3>2. Ledger!Next BY <1>0, <2>2, <2>4, <3>1, LedgerSays
    <3>3. QED BY <3>2
  <2>5. QED BY <2>2, <2>3, <2>4
<1>12. CASE RecoverRetire
  <2>1. PICK i \in Ids : i = batch[1] BY <1>0, <1>12 DEF RecoverRetire, RecoverSound, TypeOK
  <2>2. /\ UNCHANGED <<word, nextId, lines, gone>> /\ status' = [status EXCEPT ![i] = "absent"]
        /\ i < nextId /\ status[i] = "interrupted" /\ Thread(i) \notin gone /\ lines[i] > 0
    BY <1>0, <1>12, <2>1 DEF RecoverRetire, RecoverSound
  <2>3. status' = SetStatus({i}, "absent") BY <1>0, <2>2 DEF SetStatus, TypeOK
  <2>4. \A j \in {i} : /\ j < nextId /\ Thread(j) \notin gone /\ lines[j] > 0
                       /\ status[j] \in {"pending", "dispatching", "interrupted"}
    BY <2>2
  <2>5. {i} \in SUBSET Ids OBVIOUS
  <2>6. Ledger!Next BY <1>0, <2>2, <2>3, <2>4, <2>5, LedgerRecords
  <2>7. QED BY <2>6
<1>13. CASE DeleteEnds
  <2>1. PICK t \in Threads :
          /\ gone' = gone \cup {t}
          /\ status' = SetStatus({i \in Ids : i < nextId /\ Thread(i) = t}, "absent")
    BY <1>0, <1>13, DeletionSteps
  <2>2. UNCHANGED <<nextId, word, lines>> BY <1>0, <1>13, DeletionSteps
  <2> DEFINE S == {i \in Ids : i < nextId /\ Thread(i) = t}
  <2>3. \A i \in Ids \ S : status'[i] = status[i] BY <2>1 DEF SetStatus
  <2>4. Ledger!Next BY <1>0, <2>1, <2>2, <2>3, LedgerDrops
  <2>5. QED BY <2>4
<1>14. CASE HandoffStarts
  <2>1. UNCHANGED <<status, word, nextId, lines, gone>> BY <1>0, <1>14, HandoffStartSteps
  <2>2. QED BY <1>1, <2>1
<1>15. QED BY <1>3, <1>4, <1>6, <1>7, <1>8, <1>9, <1>10, <1>11, <1>12, <1>13, <1>14 DEF Handler

(* A turn that settles records its rows; a crash leaves the ledger alone.  *)
LEMMA NextLedger ==
  ASSUME IInv, JInv, [Next]_vars
  PROVE  [Ledger!Next]_<<fateOfAll, saidOfAll>>
<1> USE DEF vars, disk, work, waiting, turns, calls, coordination, history
<1>0. TypeOK /\ TurnSound BY DEF IInv, JInv
<1>1. ASSUME UNCHANGED <<status, word, nextId, lines, gone>>
      PROVE  UNCHANGED <<fateOfAll, saidOfAll>>
  BY <1>0, <1>1, LedgerStutters
<1>2. ASSUME NEW t \in Threads, TurnCompleted(t) \/ DispatchAcknowledged(t) \/ DispatchFailed(t)
                                 \/ TurnStalled(t)
      PROVE  [Ledger!Next]_<<fateOfAll, saidOfAll>>
  <2>1. PICK S \in SUBSET Ids : S = turnIds[t] BY <1>0 DEF TypeOK
  <2>2. /\ UNCHANGED <<word, nextId, lines, gone>>
        /\ status' = status \/ status' = SetStatus(S, "absent")
    BY <1>2, <2>1 DEF TurnCompleted, DispatchAcknowledged, DispatchFailed, TurnStalled, Retire
  <2>3. CASE status' = status BY <1>1, <2>2, <2>3
  <2>4. CASE status' = SetStatus(S, "absent")
    <3>1. \A i \in S : /\ i < nextId /\ Thread(i) \notin gone /\ lines[i] > 0
                       /\ status[i] \in {"pending", "dispatching", "interrupted"}
      BY <1>0, <2>1 DEF TurnSound
    <3>2. Ledger!Next BY <1>0, <2>2, <2>4, <3>1, LedgerRecords
    <3>3. QED BY <3>2
  <2>5. QED BY <2>2, <2>3, <2>4
<1>3. CASE Engine
  <2>1. ASSUME NEW c \in Callers, EngineTakes(c) \/ EngineAnswers(c)
        PROVE  UNCHANGED <<fateOfAll, saidOfAll>>
    BY <1>1, <2>1 DEF EngineTakes, EngineAnswers
  <2>2. CASE RoomSpeaks \/ RoomTurnCompleted \/ RoomOperationFinished \/ OtherTurnCompleted
    BY <1>1, <2>2 DEF RoomSpeaks, RoomTurnCompleted, RoomOperationFinished, OtherTurnCompleted
  <2>3. CASE Coordinates BY <1>1, <2>3, CoordinationSteps
  <2>4. QED BY <1>2, <1>3, <2>1, <2>2, <2>3 DEF Engine, Coordinates
<1>4. CASE Crash BY <1>1, <1>4 DEF Crash
<1>5. CASE UNCHANGED vars BY <1>1, <1>5
<1>6. QED BY <1>3, <1>4, <1>5, RequestsLedger, HandlerLedger DEF Next

(* The journal and the transcript of a bot implement the ledger, whatever  *)
(* step of a drain, a live steer, a deletion or a recovery the process     *)
(* dies in: a row never goes back to pending, it is cancelled only while   *)
(* it waits, and it leaves only with its words in the transcript or with   *)
(* its thread (message-db.ts, chat_followups).                             *)
THEOREM JournalKeepsTheLedger == Spec => LedgerKept
<1>1. Init => Ledger!Init
  <2>1. SUFFICES ASSUME Init PROVE Ledger!Init OBVIOUS
  <2>2. nextId = 1 /\ lines = [i \in Ids |-> 0] BY <2>1 DEF Init
  <2>3. \A i \in Ids : Fate(i) = "none" /\ ~(lines[i] > 0)
    BY <2>2, SteerQueueAssumption DEF Fate, Ids
  <2>4. [i \in Ids |-> Fate(i)] = [i \in Ids |-> "none"] BY <2>3
  <2>5. ASSUME NEW i \in Ids PROVE (lines[i] > 0) = FALSE BY <2>3
  <2>6. [i \in Ids |-> lines[i] > 0] = [i \in Ids |-> FALSE] BY <2>5
  <2>7. QED BY <2>4, <2>6 DEF Ledger!Init
<1>2. IInv /\ JInv /\ [Next]_vars => [Ledger!Next]_<<fateOfAll, saidOfAll>> BY NextLedger
<1>3. QED BY <1>1, <1>2, Soundness, JournalSoundness, PTL DEF Spec, LedgerKept, Ledger!Spec,
                                                            fateOfAll, saidOfAll

-----------------------------------------------------------------------------
(* Order *)

(* No two steers hold words of one thread at the same time.                *)
OneHoldPerThread ==
  \A s, r \in Steerers :
    held[s] # <<>> /\ held[r] # <<>> /\ Thread(held[s][1]) = Thread(held[r][1]) => s = r

(* The queues and the holds rise, what a steer holds came before what      *)
(* waits, and what a boot has restored came before what it has not.        *)
OrderSound ==
  /\ \A t \in Threads : Rising(queue[t])
  /\ \A s \in Steerers :
       /\ Rising(held[s])
       /\ \A i \in ToSet(held[s]) : \A j \in ToSet(queue[Thread(i)]) : i < j
  /\ up = "booting" =>
       \A t \in Threads : \A i \in ToSet(queue[t]) : \A j \in Unrestored : i < j

(* A queue of ids is a queue of numbers.                                   *)
LEMMA IdsAreNumbers ==
  ASSUME NEW s \in Seq(Ids)
  PROVE  s \in Seq(Nat) /\ ToSet(s) \subseteq Nat
<1>1. Ids \subseteq Nat BY SteerQueueAssumption DEF Ids
<1>2. Len(s) \in Nat /\ s \in [1..Len(s) -> Ids] OBVIOUS
<1>3. s \in [1..Len(s) -> Nat] BY <1>1, <1>2
<1>4. s \in Seq(Nat) BY <1>2, <1>3, SeqDef
<1>5. ToSet(s) \subseteq Nat BY <1>4, ToSetType
<1>6. QED BY <1>4, <1>5

(* A step that takes words out of the queues and the holds, at most, keeps *)
(* the order.                                                              *)
LEMMA OrderStep ==
  ASSUME TypeOK, OrderSound, UNCHANGED word,
         up' # "booting" \/ \A t \in Threads : queue'[t] = <<>>,
         \A t \in Threads : Rising(queue'[t]) /\ ToSet(queue'[t]) \subseteq ToSet(queue[t]),
         \A s \in Steerers : held'[s] = held[s] \/ held'[s] = <<>>
  PROVE  OrderSound'
<1>1. ToSet(<<>>) = {} /\ Rising(<<>>) BY DEF ToSet, Rising
<1>2. ASSUME NEW s \in Steerers
      PROVE  /\ Rising(held'[s])
             /\ \A i \in ToSet(held'[s]) : \A j \in ToSet(queue'[Thread(i)']) : i < j
  <2>1. CASE held'[s] = <<>> BY <1>1, <2>1
  <2>2. CASE held'[s] = held[s]
    <3>1. ASSUME NEW i \in ToSet(held[s]), NEW j \in ToSet(queue'[Thread(i)']) PROVE i < j
      <4>1. i \in Ids /\ Thread(i)' = Thread(i) BY ToSetType DEF TypeOK, Thread
      <4>2. Thread(i) \in Threads BY <4>1, ThreadType
      <4>3. j \in ToSet(queue[Thread(i)]) BY <3>1, <4>1, <4>2
      <4>4. QED BY <4>3 DEF OrderSound
    <3>2. QED BY <2>2, <3>1 DEF OrderSound
  <2>3. QED BY <2>1, <2>2
<1>3. up' = "booting" =>
        \A t \in Threads : \A i \in ToSet(queue'[t]) : \A j \in Unrestored' : i < j
  BY <1>1
<1>4. QED BY <1>2, <1>3 DEF OrderSound

(* So does one that leaves the words where they are.                       *)
LEMMA StillOrder ==
  ASSUME TypeOK, OrderSound, UNCHANGED <<word, queue, held>>,
         up' # "booting" \/ \A t \in Threads : queue[t] = <<>>
  PROVE  OrderSound'
<1>1. \A t \in Threads : Rising(queue'[t]) BY DEF OrderSound
<1>2. QED BY <1>1, OrderStep

(* So does one that takes words out of one queue.                          *)
LEMMA ShortenOrder ==
  ASSUME TypeOK, OrderSound, NEW t \in Threads, NEW q \in Seq(Ids),
         queue' = [queue EXCEPT ![t] = q], Rising(q), ToSet(q) \subseteq ToSet(queue[t]),
         UNCHANGED <<word, held, up>>, up = "serving"
  PROVE  OrderSound'
<1>1. ASSUME NEW u \in Threads PROVE Rising(queue'[u]) /\ ToSet(queue'[u]) \subseteq ToSet(queue[u])
  <2>1. CASE u = t
    <3>1. queue'[u] = q BY <2>1 DEF TypeOK
    <3>2. QED BY <2>1, <3>1
  <2>2. CASE u # t
    <3>1. queue'[u] = queue[u] BY <2>2 DEF TypeOK
    <3>2. QED BY <3>1 DEF OrderSound
  <2>3. QED BY <2>1, <2>2
<1>2. QED BY <1>1, OrderStep

(* New words have the highest id.                                          *)
LEMMA EnqueueOrder ==
  ASSUME IInv, OrderSound, NEW w \in Words, Enqueue(w), up = "serving"
  PROVE  OrderSound'
<1>0. TypeOK /\ QueueSound /\ HeldSound BY DEF IInv
<1>1. PICK n \in Ids : n = nextId BY <1>0 DEF Enqueue, TypeOK, Ids
<1>2. PICK t \in Threads : t = Home[w] BY SteerQueueAssumption
<1>3. /\ queue' = [queue EXCEPT ![t] = Append(@, n)] /\ word' = [word EXCEPT ![n] = w]
      /\ held' = held /\ up' = "serving"
  BY <1>1, <1>2 DEF Enqueue
<1>4. \A u \in Threads : queue'[u] = IF u = t THEN Append(queue[t], n) ELSE queue[u]
  BY <1>0, <1>3 DEF TypeOK
<1>5. /\ queue[t] \in Seq(Nat) /\ Rising(queue[t]) /\ n \in Nat
      /\ \A i \in ToSet(queue[t]) : i < n
  <2>1. queue[t] \in Seq(Ids) BY <1>0 DEF TypeOK
  <2>2. queue[t] \in Seq(Nat) BY <2>1, IdsAreNumbers
  <2>3. n \in Nat BY <1>0, <1>1, SteerQueueAssumption DEF TypeOK
  <2>4. QED BY <1>0, <1>1, <2>2, <2>3 DEF OrderSound, QueueSound
<1>6. Rising(Append(queue[t], n)) /\ ToSet(Append(queue[t], n)) = ToSet(queue[t]) \cup {n}
  BY <1>5, RisingAppend, AppendElements
<1>7. \A u \in Threads : Rising(queue'[u]) BY <1>4, <1>6 DEF OrderSound
<1>8. ASSUME NEW s \in Steerers, NEW i \in ToSet(held[s]), NEW j \in ToSet(queue'[Thread(i)'])
      PROVE  i < j
  <2>1. i \in Ids /\ i < n BY <1>0, <1>1, ToSetType DEF TypeOK, HeldSound
  <2>2. i # n BY <1>5, <2>1
  <2>3. Thread(i)' = Thread(i) /\ Thread(i) \in Threads
    BY <1>0, <1>3, <2>1, <2>2, ThreadType DEF Thread, TypeOK
  <2>4. CASE j \in ToSet(queue[Thread(i)]) BY <2>4 DEF OrderSound
  <2>5. CASE j \notin ToSet(queue[Thread(i)])
    <3>1. j = n BY <1>4, <1>6, <1>8, <2>3, <2>5
    <3>2. QED BY <2>1, <3>1
  <2>6. QED BY <2>4, <2>5
<1>9. QED BY <1>3, <1>7, <1>8 DEF OrderSound

(* A hold is older than what is queued behind it.                          *)
LEMMA HoldOrder ==
  ASSUME IInv, OrderSound, NEW s \in Steerers, NEW t \in Threads, HoldForSteer(s, t), TypeOK'
  PROVE  OrderSound'
<1> USE DEF disk
<1>0. TypeOK /\ QueueSound BY DEF IInv
<1>a. ToSet(<<>>) = {} /\ Rising(<<>>) BY DEF ToSet, Rising
<1>1. /\ \A r \in Steerers : held'[r] = IF r = s THEN queue[t] ELSE held[r]
      /\ \A u \in Threads : queue'[u] = IF u = t THEN <<>> ELSE queue[u]
      /\ UNCHANGED <<word, up>> /\ up = "serving"
  BY <1>0 DEF HoldForSteer, TypeOK, Serving
<1>2. \A u \in Threads : Rising(queue'[u]) BY <1>a, <1>1 DEF OrderSound
<1>3. ASSUME NEW r \in Steerers, NEW i \in ToSet(held'[r]), NEW j \in ToSet(queue'[Thread(i)'])
      PROVE  i < j
  <2>1. held'[r] \in Seq(Ids) BY DEF TypeOK
  <2>2. i \in Ids BY <2>1, ToSetType
  <2>3. Thread(i)' = Thread(i) /\ Thread(i) \in Threads BY <1>0, <1>1, <2>2, ThreadType DEF Thread
  <2>4. Thread(i) # t /\ j \in ToSet(queue[Thread(i)]) BY <1>a, <1>1, <1>3, <2>3
  <2>5. r # s
    <3>1. \A k \in ToSet(queue[t]) : Thread(k) = t BY <1>0 DEF QueueSound
    <3>2. QED BY <1>1, <1>3, <2>4, <3>1
  <2>6. i \in ToSet(held[r]) BY <1>1, <1>3, <2>5
  <2>7. QED BY <2>4, <2>6 DEF OrderSound
<1>4. \A r \in Steerers : Rising(held'[r]) BY <1>1 DEF OrderSound
<1>5. QED BY <1>1, <1>2, <1>3, <1>4 DEF OrderSound

(* A hold goes back in front of what was queued meanwhile; the one other   *)
(* hold of its thread that could now be older is not there.                *)
LEMMA ContinueOrder ==
  ASSUME IInv, OrderSound, OneHoldPerThread, NEW s \in Steerers, SteerContinues(s)
  PROVE  OrderSound'
<1> USE DEF work, waiting
<1>0. TypeOK /\ HeldSound BY DEF IInv
<1>a. ToSet(<<>>) = {} /\ Rising(<<>>) BY DEF ToSet, Rising
<1>1. /\ \A r \in Steerers : held'[r] = IF r = s THEN <<>> ELSE held[r]
      /\ UNCHANGED <<word, up>> /\ up = "serving" /\ phase[s] # "idle"
  BY <1>0 DEF SteerContinues, TypeOK, Serving, Answered
<1>2. held[s] # <<>> /\ held[s] \in Seq(Ids) BY <1>0, <1>1 DEF HeldSound, TypeOK
<1>3. PICK t : t = ThreadOfCall(s) /\ t = Thread(held[s][1])
  BY SteerQueueAssumption DEF ThreadOfCall
<1>4. held[s][1] \in Ids BY <1>2
<1>5. t \in Threads BY <1>0, <1>3, <1>4, ThreadType
<1>6. CASE UNCHANGED queue
  <2>1. \A u \in Threads : Rising(queue'[u]) BY <1>6 DEF OrderSound
  <2>2. QED BY <1>0, <1>1, <1>6, <2>1, OrderStep
<1>7. CASE queue' = [queue EXCEPT ![t] = held[s] \o @]
  <2>1. /\ held[s] \in Seq(Nat) /\ queue[t] \in Seq(Nat) /\ Rising(queue[t]) /\ Rising(held[s])
    <3>1. queue[t] \in Seq(Ids) BY <1>0, <1>5 DEF TypeOK
    <3>2. QED BY <1>2, <1>5, <3>1, IdsAreNumbers DEF OrderSound
  <2>2. ASSUME NEW i \in ToSet(held[s]), NEW j \in ToSet(queue[t]) PROVE i < j
    <3>1. Thread(i) = t BY <1>0, <1>3 DEF HeldSound
    <3>2. QED BY <3>1 DEF OrderSound
  <2>3. Rising(held[s] \o queue[t]) BY <2>1, <2>2, RisingConcat
  <2>4. \A u \in Threads : queue'[u] = IF u = t THEN held[s] \o queue[t] ELSE queue[u]
    BY <1>0, <1>7 DEF TypeOK
  <2>5. \A u \in Threads : Rising(queue'[u]) BY <2>3, <2>4 DEF OrderSound
  <2>6. ASSUME NEW r \in Steerers
        PROVE  /\ Rising(held'[r])
               /\ \A i \in ToSet(held'[r]) : \A j \in ToSet(queue'[Thread(i)']) : i < j
    <3>1. CASE r = s
      <4>1. held'[r] = <<>> BY <1>1, <3>1
      <4>2. QED BY <1>a, <4>1
    <3>2. CASE r # s
      <4>1. held'[r] = held[r] BY <1>1, <3>2
      <4>2. ASSUME NEW i \in ToSet(held[r]), NEW j \in ToSet(queue'[Thread(i)']) PROVE i < j
        <5>1. i \in Ids /\ Thread(i)' = Thread(i) BY <1>0, <1>1, ToSetType DEF TypeOK, Thread
        <5>2. Thread(i) \in Threads BY <1>0, <5>1, ThreadType
        <5>3. held[r] # <<>> BY <1>a
        <5>4. Thread(i) = Thread(held[r][1]) BY <1>0 DEF HeldSound
        <5>5. Thread(i) # t BY <1>2, <1>3, <3>2, <5>3, <5>4 DEF OneHoldPerThread
        <5>6. queue'[Thread(i)'] = queue[Thread(i)] BY <2>4, <5>1, <5>2, <5>5
        <5>7. j \in ToSet(queue[Thread(i)]) BY <4>2, <5>6
        <5>8. QED BY <5>7 DEF OrderSound
      <4>3. QED BY <4>1, <4>2 DEF OrderSound
    <3>3. QED BY <3>1, <3>2
  <2>7. QED BY <1>1, <2>5, <2>6 DEF OrderSound
<1>8. QED BY <1>3, <1>6, <1>7 DEF SteerContinues

(* A boot restores the oldest row first.                                   *)
LEMMA RestoreOrder ==
  ASSUME IInv, OrderSound, RestoreRow
  PROVE  OrderSound'
<1> USE DEF disk, work, calls
<1>0. TypeOK /\ BootSound BY DEF IInv
<1>a. ToSet(<<>>) = {} /\ Rising(<<>>) BY DEF ToSet, Rising
<1>b. Ids \subseteq Nat BY SteerQueueAssumption DEF Ids
<1>1. PICK i \in Unrestored :
         /\ \A j \in Unrestored : i <= j
         /\ queue' = [queue EXCEPT ![Thread(i)] = Append(@, i)]
  BY DEF RestoreRow
<1>2. i \in Ids /\ UNCHANGED <<status, word, up, held>> /\ up = "booting"
  BY <1>0 DEF Unrestored, RestoreRow, BootSound, BootFrames
<1>3. PICK t \in Threads : t = Thread(i) BY <1>0, <1>2, ThreadType
<1>4. \A u \in Threads : queue'[u] = IF u = t THEN Append(queue[t], i) ELSE queue[u]
  BY <1>0, <1>1, <1>3 DEF TypeOK
<1>5. /\ queue[t] \in Seq(Nat) /\ Rising(queue[t]) /\ i \in Nat
      /\ \A k \in ToSet(queue[t]) : k < i
  <2>1. queue[t] \in Seq(Ids) BY <1>0 DEF TypeOK
  <2>2. QED BY <1>b, <1>2, <2>1, IdsAreNumbers DEF OrderSound
<1>6. Rising(Append(queue[t], i)) /\ ToSet(Append(queue[t], i)) = ToSet(queue[t]) \cup {i}
  BY <1>5, RisingAppend, AppendElements
<1>7. \A u \in Threads : Rising(queue'[u]) BY <1>4, <1>6 DEF OrderSound
<1>8. \A s \in Steerers : held'[s] = <<>> BY <1>0, <1>2 DEF BootSound
<1>9. ASSUME NEW j \in Unrestored' PROVE j \in Unrestored /\ j # i /\ j \in Ids
  <2>1. /\ j \in Ids /\ status[j] = "pending" /\ Thread(j)' = Thread(j)
        /\ j \notin ToSet(queue'[Thread(j)'])
    BY <1>2 DEF Unrestored, Thread
  <2>2. Thread(j) \in Threads BY <1>0, <2>1, ThreadType
  <2>3. QED BY <1>3, <1>4, <1>6, <2>1, <2>2 DEF Unrestored
<1>10. ASSUME NEW u \in Threads, NEW k \in ToSet(queue'[u]), NEW j \in Unrestored' PROVE k < j
  <2>1. j \in Unrestored /\ j # i /\ j \in Nat /\ i <= j BY <1>b, <1>1, <1>9
  <2>2. CASE k \in ToSet(queue[u]) BY <1>2, <2>1, <2>2 DEF OrderSound
  <2>3. CASE k \notin ToSet(queue[u])
    <3>1. k = i BY <1>4, <1>6, <1>10, <2>3
    <3>2. QED BY <1>5, <2>1, <3>1
  <2>4. QED BY <2>2, <2>3
<1>11. QED BY <1>a, <1>7, <1>8, <1>10 DEF OrderSound

(* Every step keeps the order while no two steers hold words of one        *)
(* thread.                                                                 *)
LEMMA NextOrder ==
  ASSUME IInv, JInv, OrderSound, OneHoldPerThread, [Next]_vars, TypeOK'
  PROVE  OrderSound'
<1> USE DEF vars, disk, work, waiting, turns, calls, coordination, history
<1>0. TypeOK /\ BootSound /\ StagesSound BY DEF IInv, JInv
<1>a. ToSet(<<>>) = {} /\ Rising(<<>>) BY DEF ToSet, Rising
<1>1. CASE UNCHANGED vars BY <1>1 DEF OrderSound, Thread, Unrestored
<1>2. CASE Requests
  <2>0. up = "serving" /\ up' = "serving" BY <1>2, OutsideSteps
  <2>1. ASSUME NEW w \in Words, Send(w) \/ SendContinues(w) \/ OpenThread(w) PROVE OrderSound'
    <3>1. Enqueue(w) \/ UNCHANGED <<word, queue, held>>
      BY <2>1 DEF Send, SendContinues, OpenThread, StartOrQueue, StartDirect, Decline
    <3>2. QED BY <1>0, <2>0, <3>1, EnqueueOrder, StillOrder
  <2>2. ASSUME NEW i \in Ids, Cancel(i) PROVE OrderSound'
    <3>1. PICK t \in Threads : t = Thread(i) BY <1>0, ThreadType
    <3>2. queue[t] \in Seq(Ids) /\ Rising(queue[t]) BY <1>0 DEF TypeOK, OrderSound
    <3>3. PICK q \in Seq(Ids) : q = Without(queue[t], i) BY <3>2, WithoutElements
    <3>4. Rising(q) /\ ToSet(q) \subseteq ToSet(queue[t]) BY <3>2, <3>3, WithoutElements
    <3>5. queue' = [queue EXCEPT ![t] = q] /\ UNCHANGED <<word, held, up>>
      BY <2>2, <3>1, <3>3 DEF Cancel
    <3>6. QED BY <1>0, <2>0, <3>4, <3>5, ShortenOrder
  <2>3. ASSUME Coordinates \/ \E t \in Threads : SteerDeclined(t) PROVE OrderSound'
    <3>1. UNCHANGED <<word, queue, held>> BY <2>3, CoordinationSteps DEF SteerDeclined
    <3>2. QED BY <1>0, <2>0, <3>1, StillOrder
  <2>4. ASSUME NEW s \in Steerers, SteerContinues(s) PROVE OrderSound' BY <2>4, ContinueOrder
  <2>5. ASSUME NEW s \in Steerers, NEW t \in Threads, HoldForSteer(s, t) PROVE OrderSound'
    BY <2>5, HoldOrder
  <2>6. CASE DeleteBot
    <3>1. UNCHANGED <<word, queue, held>> BY <2>6 DEF DeleteBot
    <3>2. QED BY <1>0, <2>0, <3>1, StillOrder
  <2>7. QED BY <1>2, <2>1, <2>2, <2>3, <2>4, <2>5, <2>6 DEF Requests, Coordinates
<1>3. CASE Handler
  <2>1. CASE DrainVisit
    <3>1. UNCHANGED <<word, up, held>> /\ up = "serving" /\ frame = "visit"
      BY <1>0, <2>1 DEF DrainVisit, Skip, DropGone, Claim, BootSound, TypeOK, BootFrames
    <3>2. visit \in Seq(Threads) /\ visit # <<>> BY <1>0, <2>1 DEF TypeOK, DrainVisit
    <3>3. PICK t \in Threads : t = Head(visit) BY <3>2, TailElements
    <3>4. CASE Skip(t)
      <4>1. UNCHANGED <<word, queue, held>> BY <3>1, <3>4 DEF Skip
      <4>2. QED BY <1>0, <3>1, <4>1, StillOrder
    <3>5. CASE DropGone(t) \/ Claim(t)
      <4>0. <<>> \in Seq(Ids) OBVIOUS
      <4>1. PICK q \in Seq(Ids) : q = <<>> BY <4>0
      <4>2. queue' = [queue EXCEPT ![t] = q] BY <3>5, <4>1 DEF DropGone, Claim
      <4>3. Rising(q) /\ ToSet(q) \subseteq ToSet(queue[t]) BY <1>a, <4>1
      <4>4. QED BY <1>0, <3>1, <4>2, <4>3, ShortenOrder
    <3>6. QED BY <2>1, <3>3, <3>4, <3>5 DEF DrainVisit
  <2>2. CASE \/ DrainEnds \/ DrainAppend \/ DrainStart \/ FoldAppend \/ FoldSettle \/ Purge
             \/ DeleteEnds \/ HandoffStarts
    <3>1. UNCHANGED <<up, word, queue, held>> /\ frame \notin BootFrames
      BY <1>0, <2>2, DeletionSteps, HandoffStartSteps
         DEF DrainEnds, DrainAppend, DrainStart, FoldAppend, FoldSettle, Purge, BootFrames
    <3>2. up' # "booting" BY <1>0, <3>1 DEF BootSound
    <3>3. QED BY <1>0, <3>1, <3>2, StillOrder
  <2>3. CASE Boot \/ RecoverMark \/ RecoverLine \/ RecoverNotice \/ RecoverRetire \/ RecoverEnds
    <3>1. UNCHANGED <<word, queue, held>> /\ up # "serving" /\ frame # "restore"
      BY <1>0, <2>3 DEF Boot, RecoverMark, RecoverLine, RecoverNotice, RecoverRetire, RecoverEnds,
                        BootSound, BootFrames
    <3>2. \A t \in Threads : queue[t] = <<>> BY <1>0, <3>1 DEF StagesSound
    <3>3. QED BY <1>0, <3>1, <3>2, StillOrder
  <2>4. CASE RestoreRow BY <2>4, RestoreOrder
  <2>5. CASE Listen
    <3>1. UNCHANGED <<word, queue, held>> /\ up' = "serving" BY <2>5 DEF Listen
    <3>2. QED BY <1>0, <3>1, StillOrder
  <2>6. QED BY <1>3, <2>1, <2>2, <2>3, <2>4, <2>5 DEF Handler
<1>4. CASE Engine
  <2>1. up' = "serving" BY <1>4, OutsideSteps
  <2>2. UNCHANGED <<word, queue, held>>
    BY <1>4 DEF Engine, TurnCompleted, DispatchAcknowledged, DispatchFailed, TurnStalled, EngineTakes,
                EngineAnswers, RoomSpeaks, RoomTurnCompleted, RoomOperationFinished, OtherTurnCompleted,
                HandoffOpens, HandoffSettles, HandoffRuns
  <2>3. QED BY <1>0, <2>1, <2>2, StillOrder
<1>5. CASE Crash
  <2>1. /\ up' = "down" /\ word' = word /\ \A t \in Threads : queue'[t] = <<>>
        /\ \A s \in Steerers : held'[s] = <<>>
    BY <1>5 DEF Crash
  <2>2. QED BY <1>0, <1>a, <2>1, OrderStep
<1>6. QED BY <1>1, <1>2, <1>3, <1>4, <1>5 DEF Next

(* While no two steers hold words of one thread at a time, what waits is   *)
(* in the order of acceptance: across drains, holds that are put back      *)
(* (restoreHeldSteeredQueue) and restarts.                                 *)
THEOREM WordsWaitInOrder == Spec /\ []OneHoldPerThread => []QueueInOrder
<1>1. Init => OrderSound
  <2>1. SUFFICES ASSUME Init PROVE OrderSound OBVIOUS
  <2>2. /\ up = "serving" /\ \A t \in Threads : queue[t] = <<>>
        /\ \A s \in Steerers : held[s] = <<>>
    BY <2>1 DEF Init
  <2>3. ToSet(<<>>) = {} /\ Rising(<<>>) BY DEF ToSet, Rising
  <2>4. QED BY <2>2, <2>3 DEF OrderSound
<1>2. IInv /\ IInv' /\ JInv /\ OrderSound /\ OneHoldPerThread /\ [Next]_vars => OrderSound'
  <2>1. SUFFICES ASSUME IInv, IInv', JInv, OrderSound, OneHoldPerThread, [Next]_vars PROVE OrderSound'
    OBVIOUS
  <2>2. TypeOK' BY <2>1 DEF IInv
  <2>3. QED BY <2>1, <2>2, NextOrder
<1>3. OrderSound => QueueInOrder BY DEF OrderSound, QueueInOrder, Rising
<1>4. QED BY <1>1, <1>2, <1>3, Soundness, JournalSoundness, PTL DEF Spec

(* So with one request to steer at a time, as with none                    *)
(* (steeredHoldInFlight aside): no condition on behaviours is left.        *)
THEOREM OneSteererKeepsOrder ==
  ASSUME \A s, r \in Steerers : s = r
  PROVE  Spec => []QueueInOrder
<1>1. OneHoldPerThread BY DEF OneHoldPerThread
<1>2. QED BY <1>1, WordsWaitInOrder, PTL

-----------------------------------------------------------------------------
(* Words are said once *)

(* A row that settled left its words in the transcript, and so has one     *)
(* that was claimed, except while the drain that claimed it writes them    *)
(* or after a crash.                                                       *)
SettledSound ==
  \A i \in Ids : i < nextId /\ Thread(i) \notin gone =>
    /\ status[i] = "absent" => lines[i] > 0
    /\ up = "serving" /\ status[i] \in {"dispatching", "interrupted"} =>
         lines[i] > 0 \/ (frame = "append" /\ i \in ToSet(batch))

(* A step that claims and settles only what it says.                       *)
LEMMA SettledStep ==
  ASSUME SettledSound, UNCHANGED <<word, nextId>>, gone \subseteq gone',
         \A i \in Ids : i < nextId /\ Thread(i) \notin gone' =>
           /\ lines[i] > 0 => lines'[i] > 0
           /\ status'[i] = "absent" => status[i] = "absent" \/ lines'[i] > 0
           /\ up' = "serving" /\ status'[i] \in {"dispatching", "interrupted"} =>
                \/ /\ up = "serving" /\ status[i] \in {"dispatching", "interrupted"}
                   /\ frame # "append"
                \/ lines'[i] > 0
                \/ frame' = "append" /\ i \in ToSet(batch')
  PROVE  SettledSound'
<1>1. \A i : Thread(i)' = Thread(i) BY DEF Thread
<1>2. ASSUME NEW i \in Ids, i < nextId, Thread(i) \notin gone' PROVE Thread(i) \notin gone
  BY <1>2
<1>3. QED BY <1>1, <1>2 DEF SettledSound

(* A step that claims and settles nothing.                                 *)
LEMMA SettledStays ==
  ASSUME SettledSound, UNCHANGED <<word, nextId, lines>>, gone \subseteq gone', frame # "append",
         up' = "serving" => up = "serving",
         \A i \in Ids : status'[i] = status[i] \/ status'[i] = "cancelled" \/ Thread(i) \in gone'
  PROVE  SettledSound'
BY SettledStep

(* What has settled has been said, in every step of every handler.         *)
LEMMA NextSettled ==
  ASSUME IInv, JInv, SettledSound, [Next]_vars
  PROVE  SettledSound'
<1> USE DEF vars, disk, work, waiting, turns, calls, coordination, history
<1>0. TypeOK /\ BootSound /\ WordsSound /\ StagesSound /\ BatchSound /\ TurnSound /\ RecoverSound
  BY DEF IInv, JInv
<1>a. nextId \in Nat /\ Ids \subseteq Nat BY <1>0, SteerQueueAssumption DEF TypeOK, Ids
<1>b. \A i \in Ids : lines[i] \in 0..2 BY <1>0 DEF TypeOK
<1>1. CASE UNCHANGED vars BY <1>1 DEF SettledSound, Thread
<1>2. CASE Requests
  <2>0. up = "serving" /\ up' = "serving" /\ frame = "idle" BY <1>2, OutsideSteps
  <2>1. ASSUME NEW w \in Words, Enqueue(w) PROVE SettledSound'
    <3>1. PICK n \in Ids : n = nextId BY <1>0, <2>1 DEF Enqueue, TypeOK, Ids
    <3>2. /\ nextId' = n + 1 /\ status' = [status EXCEPT ![n] = "pending"]
          /\ word' = [word EXCEPT ![n] = w] /\ UNCHANGED <<lines, gone, up, frame, batch>>
      BY <2>1, <3>1 DEF Enqueue
    <3>3. status'[n] = "pending" BY <1>0, <3>2 DEF TypeOK
    <3>4. \A i \in Ids \ {n} : status'[i] = status[i] /\ Thread(i)' = Thread(i)
      BY <1>0, <3>2 DEF TypeOK, Thread
    <3>5. \A i \in Ids \ {n} : i < nextId' => i < nextId BY <1>a, <3>1, <3>2
    <3>6. QED BY <3>2, <3>3, <3>4, <3>5 DEF SettledSound
  <2>2. ASSUME NEW w \in Words, Send(w) \/ SendContinues(w) \/ OpenThread(w) PROVE SettledSound'
    <3>1. Enqueue(w) \/ UNCHANGED <<status, word, nextId, lines, gone>>
      BY <2>2 DEF Send, SendContinues, OpenThread, StartOrQueue, StartDirect, Decline
    <3>2. QED BY <2>0, <2>1, <3>1, SettledStays
  <2>3. ASSUME NEW i \in Ids, Cancel(i) PROVE SettledSound'
    <3>1. /\ status' = [status EXCEPT ![i] = "cancelled"] /\ UNCHANGED <<word, nextId, lines, gone>>
      BY <2>3 DEF Cancel
    <3>2. \A j \in Ids : status'[j] = status[j] \/ status'[j] = "cancelled" BY <1>0, <3>1 DEF TypeOK
    <3>3. QED BY <2>0, <3>1, <3>2, SettledStays
  <2>4. CASE Coordinates
    <3>1. UNCHANGED <<status, word, nextId, lines, gone>> BY <2>4, CoordinationSteps
    <3>2. QED BY <2>0, <3>1, SettledStays
  <2>5. ASSUME NEW t \in Threads, SteerDeclined(t) PROVE SettledSound'
    BY <2>0, <2>5, SettledStays DEF SteerDeclined
  <2>6. ASSUME NEW s \in Steerers, NEW t \in Threads, HoldForSteer(s, t) PROVE SettledSound'
    BY <2>0, <2>6, SettledStays DEF HoldForSteer
  <2>7. ASSUME NEW s \in Steerers, SteerContinues(s) PROVE SettledSound'
    <3>1. held[s] # <<>> BY <2>7 DEF SteerContinues, Answered, IInv, HeldSound
    <3>2. PICK t \in Threads : t = Thread(held[s][1]) BY <3>1, WaitingWords
    <3>3. ThreadOfCall(s) = t BY <3>2, SteerQueueAssumption DEF ThreadOfCall
    <3>4. /\ UNCHANGED <<word, nextId, lines, gone>>
          /\ status' = status \/ (t \in gone /\ status' = SetStatus(ToSet(held[s]), "absent"))
      BY <2>7, <3>3 DEF SteerContinues
    <3>5. \A i \in ToSet(held[s]) : Thread(i) = t BY <3>2, WaitingWords
    <3>6. \A i \in Ids : status'[i] = status[i] \/ Thread(i) \in gone' BY <3>4, <3>5 DEF SetStatus
    <3>7. QED BY <2>0, <3>4, <3>6, SettledStays
  <2>8. CASE DeleteBot
    <3>1. UNCHANGED <<status, word, nextId, lines>> /\ gone' = Threads BY <2>8 DEF DeleteBot
    <3>2. gone \subseteq gone' BY <1>0, <3>1 DEF TypeOK
    <3>3. QED BY <2>0, <3>1, <3>2, SettledStays
  <2>9. QED BY <1>2, <2>2, <2>3, <2>4, <2>5, <2>6, <2>7, <2>8 DEF Requests, Coordinates
<1>3. CASE Handler
  <2>1. CASE DrainVisit
    <3>1. /\ UNCHANGED <<word, nextId, lines, gone, up>> /\ frame = "visit"
      BY <2>1 DEF DrainVisit, Skip, DropGone, Claim
    <3>2. visit \in Seq(Threads) /\ visit # <<>> BY <1>0, <2>1 DEF TypeOK, DrainVisit
    <3>3. PICK t \in Threads : t = Head(visit) BY <3>2, TailElements
    <3>4. CASE Skip(t) BY <3>1, <3>4, SettledStays DEF Skip
    <3>5. CASE DropGone(t)
      <4>1. status' = SetStatus({i \in ToSet(queue[t]) : status[i] # "absent"}, "cancelled")
        BY <3>5 DEF DropGone
      <4>2. \A i \in Ids : status'[i] = status[i] \/ status'[i] = "cancelled" BY <4>1 DEF SetStatus
      <4>3. QED BY <3>1, <4>2, SettledStays
    <3>6. CASE Claim(t)
      <4>1. /\ status' = SetStatus(ToSet(queue[t]), "dispatching")
            /\ frame' = "append" /\ batch' = queue[t]
        BY <3>6 DEF Claim
      <4>2. \A i \in Ids : \/ i \in ToSet(batch') /\ status'[i] = "dispatching"
                           \/ status'[i] = status[i]
        BY <4>1 DEF SetStatus
      <4>3. QED BY <3>1, <4>1, <4>2, SettledStep
    <3>7. QED BY <2>1, <3>3, <3>4, <3>5, <3>6 DEF DrainVisit
  <2>2. CASE DrainEnds
    BY <2>2, SettledStays DEF DrainEnds
  <2>3. CASE DrainAppend \/ FoldAppend
    <3>1. /\ frame \in {"append", "fold"} /\ done < Len(batch) /\ done \in Nat /\ batch \in Seq(Ids)
          /\ lines' = [lines EXCEPT ![batch[done + 1]] = Bump(@)] /\ batch' = batch
          /\ frame = "append" => frame' = IF done + 1 = Len(batch) THEN "start" ELSE "append"
          /\ UNCHANGED <<status, word, nextId, gone, up>>
      BY <1>0, <2>3 DEF DrainAppend, FoldAppend, TypeOK
    <3>2. PICK n \in Ids : n = batch[done + 1] BY <3>1
    <3>3. \A i \in Ids : lines'[i] = IF i = n THEN Bump(lines[i]) ELSE lines[i]
      BY <1>0, <3>1, <3>2 DEF TypeOK
    <3>4. \A i \in Ids : lines[i] > 0 \/ i = n => lines'[i] > 0 BY <1>b, <3>3, BumpCounts
    <3>5. ASSUME NEW i \in Ids, frame = "append", frame' # "append", i \in ToSet(batch)
          PROVE  lines'[i] > 0
      <4>1. PICK k \in 1..Len(batch) : i = batch[k] BY <3>1, <3>5, ToSetType
      <4>2. done + 1 = Len(batch) /\ \A j \in 1..done : lines[batch[j]] > 0
        BY <1>0, <3>1, <3>5 DEF BatchSound, Drawn
      <4>3. k \in 1..done \/ k = done + 1 BY <3>1, <4>2
      <4>4. QED BY <3>2, <3>4, <4>1, <4>2, <4>3
    <3>6. ASSUME NEW i \in Ids, i < nextId, Thread(i) \notin gone', up' = "serving",
                 status'[i] \in {"dispatching", "interrupted"}
          PROVE  \/ up = "serving" /\ status[i] \in {"dispatching", "interrupted"} /\ frame # "append"
                 \/ lines'[i] > 0
                 \/ frame' = "append" /\ i \in ToSet(batch')
      BY <3>1, <3>4, <3>5, <3>6 DEF SettledSound
    <3>7. QED BY <3>1, <3>4, <3>6, SettledStep
  <2>4. CASE DrainStart \/ FoldSettle
    <3>1. /\ frame \in {"start", "settle"} /\ UNCHANGED <<word, nextId, lines, gone, up>>
          /\ \/ status' = status
             \/ \E st \in {"absent", "interrupted"} : status' = SetStatus(ToSet(batch), st)
      BY <2>4 DEF DrainStart, FoldSettle
    <3>2. ASSUME NEW i \in ToSet(batch) PROVE lines[i] > 0
      <4>1. batch \in Seq(Ids) BY <1>0 DEF TypeOK
      <4>2. PICK k \in 1..Len(batch) : i = batch[k] BY <4>1, ToSetType
      <4>3. done = Len(batch) /\ \A j \in 1..done : lines[batch[j]] > 0
        BY <1>0, <3>1 DEF BatchSound, Drawn, Folded
      <4>4. QED BY <4>2, <4>3
    <3>3. \A i \in Ids : status'[i] = status[i] \/ i \in ToSet(batch) BY <3>1 DEF SetStatus
    <3>4. QED BY <3>1, <3>2, <3>3, SettledStep
  <2>5. CASE Purge
    <3>1. /\ frame = "purge" /\ gone' = gone /\ UNCHANGED <<word, nextId, lines, up>>
      BY <2>5 DEF Purge
    <3>2. \A i \in Ids : Thread(i) \in gone' BY <1>0, <3>1, ThreadType DEF StagesSound
    <3>3. QED BY <3>1, <3>2, SettledStays
  <2>6. CASE Boot \/ RecoverEnds \/ RestoreRow
    <3>1. /\ UNCHANGED <<status, word, nextId, lines, gone>> /\ up' # "serving" /\ frame # "append"
      BY <1>0, <2>6 DEF Boot, RecoverEnds, RestoreRow, BootSound, BootFrames
    <3>2. QED BY <3>1, SettledStays
  <2>7. CASE RecoverMark
    <3>1. PICK i \in Unfinished :
            \/ status' = [status EXCEPT ![i] = "cancelled"]
            \/ status' = [status EXCEPT ![i] = "interrupted"]
      BY <2>7 DEF RecoverMark
    <3>2. \A j \in Ids : status'[j] \in {status[j], "cancelled", "interrupted"}
      BY <1>0, <3>1 DEF TypeOK
    <3>3. /\ UNCHANGED <<word, nextId, lines, gone, up>> /\ up # "serving" /\ frame = "mark"
      BY <1>0, <2>7 DEF RecoverMark, BootSound, BootFrames
    <3>4. QED BY <3>2, <3>3, SettledStep
  <2>8. CASE RecoverLine
    <3>1. /\ UNCHANGED <<status, word, nextId, gone, up>> /\ up # "serving" /\ frame = "recoverLine"
          /\ batch # <<>> /\ batch \in Seq(Ids)
          /\ lines' = IF lines[batch[1]] = 0 THEN [lines EXCEPT ![batch[1]] = Bump(@)] ELSE lines
      BY <1>0, <2>8 DEF RecoverLine, BootSound, BootFrames, RecoverSound, TypeOK
    <3>2. PICK n \in Ids : n = batch[1] BY <3>1
    <3>3. \A i \in Ids : lines'[i] = lines[i] \/ lines[i] = 0 BY <1>0, <3>1, <3>2 DEF TypeOK
    <3>4. \A i \in Ids : lines[i] > 0 => lines'[i] > 0 BY <3>3
    <3>5. QED BY <3>1, <3>4, SettledStep
  <2>9. CASE RecoverNotice
    <3>1. UNCHANGED <<status, word, nextId, lines, gone, up>> /\ frame = "recoverNotice"
      BY <2>9 DEF RecoverNotice
    <3>2. QED BY <3>1, SettledStays
  <2>10. CASE RecoverRetire
    <3>1. /\ UNCHANGED <<word, nextId, lines, gone, up>> /\ frame = "retire" /\ up # "serving"
          /\ status' = [status EXCEPT ![batch[1]] = "absent"] /\ lines[batch[1]] > 0
      BY <1>0, <2>10 DEF RecoverRetire, BootSound, BootFrames, RecoverSound
    <3>2. \A i \in Ids : status'[i] = status[i] \/ i = batch[1] BY <1>0, <3>1 DEF TypeOK
    <3>3. QED BY <3>1, <3>2, SettledStep
  <2>11. CASE Listen
    <3>1. /\ UNCHANGED <<status, word, nextId, lines, gone>> /\ frame = "restore"
      BY <2>11 DEF Listen
    <3>2. \A i \in Ids : status[i] \notin {"dispatching", "interrupted"}
      BY <1>0, <3>1 DEF StagesSound, Unfinished
    <3>3. QED BY <3>1, <3>2, SettledStep
  <2>12. CASE DeleteEnds
    <3>1. PICK t \in Threads :
            /\ gone' = gone \cup {t}
            /\ status' = SetStatus({i \in Ids : i < nextId /\ Thread(i) = t}, "absent")
      BY <1>0, <2>12, DeletionSteps
    <3>2. UNCHANGED <<word, nextId, lines, up>> /\ frame = "delete" BY <1>0, <2>12, DeletionSteps
    <3>3. \A j \in Ids : status'[j] = status[j] \/ Thread(j) \in gone' BY <3>1 DEF SetStatus
    <3>4. QED BY <3>1, <3>2, <3>3, SettledStays
  <2>13. CASE HandoffStarts
    <3>1. UNCHANGED <<status, word, nextId, lines, gone, up>> /\ frame = "handoff"
      BY <1>0, <2>13, HandoffStartSteps
    <3>2. QED BY <3>1, SettledStays
  <2>14. QED BY <1>3, <2>1, <2>2, <2>3, <2>4, <2>5, <2>6, <2>7, <2>8, <2>9, <2>10, <2>11, <2>12,
                <2>13 DEF Handler
<1>4. CASE Engine
  <2>1. up = "serving" /\ frame = "idle" BY <1>4, OutsideSteps
  <2>2. UNCHANGED <<word, nextId, lines, gone>>
    BY <1>4 DEF Engine, TurnCompleted, DispatchAcknowledged, DispatchFailed, TurnStalled, EngineTakes,
                EngineAnswers, RoomSpeaks, RoomTurnCompleted, RoomOperationFinished, OtherTurnCompleted,
                HandoffOpens, HandoffSettles, HandoffRuns
  <2>3. status' = status \/ \E t \in Threads : status' = SetStatus(turnIds[t], "absent")
    BY <1>4 DEF Engine, TurnCompleted, DispatchAcknowledged, DispatchFailed, TurnStalled, EngineTakes,
                Retire,
                EngineAnswers, RoomSpeaks, RoomTurnCompleted, RoomOperationFinished, OtherTurnCompleted,
                HandoffOpens, HandoffSettles, HandoffRuns
  <2>4. \A i \in Ids : status'[i] = status[i] \/ lines[i] > 0
    BY <1>0, <2>3 DEF SetStatus, TurnSound
  <2>5. QED BY <2>1, <2>2, <2>4, SettledStep
<1>5. CASE Crash
  <2>1. /\ UNCHANGED <<status, word, nextId, lines, gone>> /\ up' = "down" BY <1>5 DEF Crash
  <2>2. QED BY <2>1, SettledStep
<1>6. QED BY <1>1, <1>2, <1>3, <1>4, <1>5 DEF Next

(* Without steers: a line and a notice are written once, nothing that      *)
(* waits has a line yet, and of a batch only what comes next.              *)
FreshSound ==
  /\ frame \notin {"fold", "settle"}
  /\ \A i \in Ids : /\ lines[i] <= 1 /\ notices[i] <= 1
                    /\ status[i] = "pending" => lines[i] = 0
  /\ frame = "append" =>
       IsInjective(batch) /\ \A k \in 1..Len(batch) : k > done => lines[batch[k]] = 0

(* A step that writes nothing and makes nothing pending.                   *)
LEMMA FreshStays ==
  ASSUME FreshSound, UNCHANGED <<lines, notices>>, frame' \notin {"append", "fold", "settle"},
         \A i \in Ids : status'[i] = "pending" => status[i] = "pending" \/ lines[i] = 0
  PROVE  FreshSound'
BY DEF FreshSound

(* Every step of a bot that nobody steers keeps it.                        *)
LEMMA NextFresh ==
  ASSUME Steerers = {}, IInv, JInv, FreshSound, [Next]_vars
  PROVE  FreshSound'
<1> USE DEF vars, disk, work, waiting, turns, calls, coordination, history
<1>0. TypeOK /\ BootSound /\ WordsSound /\ StagesSound /\ BatchSound /\ RecoverSound
  BY DEF IInv, JInv
<1>b. Bump(0) = 1 BY DEF Bump
<1>1. CASE UNCHANGED vars BY <1>1 DEF FreshSound
<1>2. CASE Requests
  <2>0. frame' \in {"idle", "visit", "purge", "delete"} /\ UNCHANGED notices
    <3>1. /\ frame' \in {"idle", "visit", "fold", "purge", "delete"} /\ UNCHANGED notices
          /\ frame = "idle"
      BY <1>2, OutsideSteps
    <3>2. frame' # "fold"
      <4>1. CASE Coordinates BY <4>1, CoordinationSteps
      <4>2. CASE ~Coordinates
        BY <1>2, <3>1, <4>2
           DEF Requests, Coordinates, Send, SendContinues, OpenThread, Cancel, SteerDeclined,
               DeleteBot, StartOrQueue, Enqueue, StartDirect, Decline
      <4>3. QED BY <4>1, <4>2
    <3>3. QED BY <3>1, <3>2
  <2>1. ASSUME NEW w \in Words, Enqueue(w) PROVE FreshSound'
    <3>1. PICK n \in Ids : n = nextId BY <1>0, <2>1 DEF Enqueue, TypeOK, Ids
    <3>2. status' = [status EXCEPT ![n] = "pending"] /\ lines' = lines BY <2>1, <3>1 DEF Enqueue
    <3>3. lines[n] = 0 BY <1>0, <3>1, SteerQueueAssumption DEF WordsSound, TypeOK
    <3>4. \A i \in Ids : status'[i] = status[i] \/ lines[i] = 0 BY <1>0, <3>2, <3>3 DEF TypeOK
    <3>5. QED BY <2>0, <3>2, <3>4, FreshStays
  <2>2. ASSUME NEW w \in Words, Send(w) \/ SendContinues(w) \/ OpenThread(w) PROVE FreshSound'
    <3>1. Enqueue(w) \/ UNCHANGED <<status, lines>>
      BY <2>2 DEF Send, SendContinues, OpenThread, StartOrQueue, StartDirect, Decline
    <3>2. QED BY <2>0, <2>1, <3>1, FreshStays
  <2>3. ASSUME NEW i \in Ids, Cancel(i) PROVE FreshSound'
    <3>1. status' = [status EXCEPT ![i] = "cancelled"] /\ lines' = lines BY <2>3 DEF Cancel
    <3>2. \A j \in Ids : status'[j] = status[j] \/ status'[j] = "cancelled" BY <1>0, <3>1 DEF TypeOK
    <3>3. QED BY <2>0, <3>1, <3>2, FreshStays
  <2>4. CASE Coordinates
    <3>1. UNCHANGED <<status, lines>> BY <2>4, CoordinationSteps
    <3>2. QED BY <2>0, <3>1, FreshStays
  <2>5. CASE DeleteBot BY <2>0, <2>5, FreshStays DEF DeleteBot
  <2>6. QED BY <1>2, <2>2, <2>3, <2>4, <2>5 DEF Requests, Coordinates, SteerDeclined
<1>3. CASE Handler
  <2>1. CASE DrainVisit
    <3>1. UNCHANGED <<lines, notices, gone, word, nextId>> /\ frame = "visit"
      BY <2>1 DEF DrainVisit, Skip, DropGone, Claim
    <3>2. visit \in Seq(Threads) /\ visit # <<>> BY <1>0, <2>1 DEF TypeOK, DrainVisit
    <3>3. PICK t \in Threads : t = Head(visit) BY <3>2, TailElements
    <3>4. CASE Skip(t) BY <3>1, <3>4, FreshStays DEF Skip, AfterWalk
    <3>5. CASE DropGone(t)
      <4>1. /\ status' = SetStatus({i \in ToSet(queue[t]) : status[i] # "absent"}, "cancelled")
            /\ frame' \in {"idle", "visit", "delete", "handoff"}
        BY <3>5 DEF DropGone, AfterWalk
      <4>2. \A i \in Ids : status'[i] = status[i] \/ status'[i] = "cancelled" BY <4>1 DEF SetStatus
      <4>3. QED BY <3>1, <4>1, <4>2, FreshStays
    <3>6. CASE Claim(t)
      <4>1. /\ status' = SetStatus(ToSet(queue[t]), "dispatching") /\ t \notin gone
            /\ frame' = "append" /\ batch' = queue[t]
        BY <3>6 DEF Claim
      <4>2. \A i \in Ids : status'[i] = status[i] \/ status'[i] = "dispatching" BY <4>1 DEF SetStatus
      <4>3. \A i \in ToSet(queue[t]) : i \in Ids /\ status[i] = "pending"
        BY <4>1, WaitingWords, <1>0 DEF WordsSound, Journaled
      <4>4. \A k \in 1..Len(queue[t]) : queue[t][k] \in ToSet(queue[t])
        <5>1. queue[t] \in Seq(Ids) BY <1>0 DEF TypeOK
        <5>2. QED BY <5>1 DEF ToSet
      <4>5. \A k \in 1..Len(batch') : lines'[batch'[k]] = 0
        BY <3>1, <4>1, <4>3, <4>4 DEF FreshSound
      <4>6. IsInjective(batch') BY <1>0, <4>1 DEF WordsSound
      <4>7. QED BY <3>1, <4>1, <4>2, <4>5, <4>6 DEF FreshSound
    <3>7. QED BY <2>1, <3>3, <3>4, <3>5, <3>6 DEF DrainVisit
  <2>2. CASE DrainEnds BY <2>2, FreshStays DEF DrainEnds, AfterWalk
  <2>3. CASE DrainAppend
    <3>1. /\ frame = "append" /\ done < Len(batch) /\ done \in Nat /\ batch \in Seq(Ids)
          /\ lines' = [lines EXCEPT ![batch[done + 1]] = Bump(@)] /\ batch' = batch
          /\ done' = done + 1 /\ frame' \in {"append", "start"}
          /\ UNCHANGED <<status, notices>>
      BY <1>0, <2>3 DEF DrainAppend, TypeOK
    <3>2. PICK n \in Ids : n = batch[done + 1] BY <3>1
    <3>3. lines[n] = 0 /\ IsInjective(batch)
      <4>1. done + 1 \in 1..Len(batch) /\ done + 1 > done BY <3>1
      <4>2. QED BY <3>1, <3>2, <4>1 DEF FreshSound
    <3>4. \A i \in Ids : lines'[i] = IF i = n THEN 1 ELSE lines[i]
      BY <1>0, <1>b, <3>1, <3>2, <3>3 DEF TypeOK
    <3>5. status[n] # "pending"
      <4>1. n \in ToSet(batch) BY <3>1, <3>2 DEF ToSet
      <4>2. QED BY <1>0, <3>1, <4>1 DEF BatchSound, Drawn, InHand
    <3>6. ASSUME NEW k \in 1..Len(batch), k > done + 1 PROVE lines'[batch[k]] = 0
      <4>1. batch[k] \in Ids /\ k > done BY <3>1, <3>6
      <4>2. batch[k] # n
        <5>1. done + 1 \in DOMAIN batch /\ k \in DOMAIN batch /\ k # done + 1 BY <3>1, <3>6
        <5>2. QED BY <3>2, <3>3, <5>1 DEF IsInjective
      <4>3. QED BY <3>1, <3>4, <4>1, <4>2 DEF FreshSound
    <3>7. QED BY <3>1, <3>3, <3>4, <3>5, <3>6 DEF FreshSound
  <2>4. CASE DrainStart
    <3>1. /\ UNCHANGED <<lines, notices>> /\ frame' \in {"idle", "visit", "delete", "handoff"}
          /\ \/ status' = status
             \/ \E st \in {"absent", "interrupted"} : status' = SetStatus(ToSet(batch), st)
      BY <2>4 DEF DrainStart, AfterWalk
    <3>2. \A i \in Ids : status'[i] = status[i] \/ status'[i] \in {"absent", "interrupted"}
      BY <3>1 DEF SetStatus
    <3>3. QED BY <3>1, <3>2, FreshStays
  <2>5. CASE FoldAppend \/ FoldSettle BY <2>5 DEF FoldAppend, FoldSettle, FreshSound
  <2>6. CASE Purge BY <2>6, FreshStays DEF Purge
  <2>7. CASE Boot \/ RecoverEnds \/ RestoreRow \/ Listen
    <3>1. UNCHANGED <<status, lines, notices>> /\ frame' \in {"mark", "restore", "visit"}
      BY <2>7 DEF Boot, RecoverEnds, RestoreRow, Listen, DrainAll
    <3>2. QED BY <3>1, FreshStays
  <2>8. CASE RecoverMark
    <3>1. PICK i \in Unfinished :
            \/ status' = [status EXCEPT ![i] = "cancelled"] /\ frame' = frame
            \/ status' = [status EXCEPT ![i] = "interrupted"] /\ frame' = "recoverLine"
      BY <2>8 DEF RecoverMark
    <3>2. \A j \in Ids : status'[j] \in {status[j], "cancelled", "interrupted"}
      BY <1>0, <3>1 DEF TypeOK
    <3>3. /\ UNCHANGED <<lines, notices>> /\ frame = "mark" BY <2>8 DEF RecoverMark
    <3>4. QED BY <3>1, <3>2, <3>3, FreshStays
  <2>9. CASE RecoverLine
    <3>1. /\ UNCHANGED <<status, notices>> /\ frame' = "recoverNotice"
          /\ batch # <<>> /\ batch \in Seq(Ids) /\ status[batch[1]] = "interrupted"
          /\ lines' = IF lines[batch[1]] = 0 THEN [lines EXCEPT ![batch[1]] = Bump(@)] ELSE lines
      BY <1>0, <2>9 DEF RecoverLine, RecoverSound, TypeOK
    <3>2. PICK n \in Ids : n = batch[1] BY <3>1
    <3>3. \A i \in Ids : lines'[i] = lines[i] \/ (i = n /\ lines'[i] = 1)
      BY <1>0, <1>b, <3>1, <3>2 DEF TypeOK
    <3>4. QED BY <3>1, <3>2, <3>3 DEF FreshSound
  <2>10. CASE RecoverNotice
    <3>1. /\ UNCHANGED <<status, lines>> /\ frame' = "retire"
          /\ batch # <<>> /\ batch \in Seq(Ids)
          /\ notices' = IF notices[batch[1]] = 0 THEN [notices EXCEPT ![batch[1]] = Bump(@)] ELSE notices
      BY <1>0, <2>10 DEF RecoverNotice, RecoverSound, TypeOK
    <3>2. PICK n \in Ids : n = batch[1] BY <3>1
    <3>3. \A i \in Ids : notices'[i] = notices[i] \/ notices'[i] = 1
      BY <1>0, <1>b, <3>1, <3>2 DEF TypeOK
    <3>4. QED BY <3>1, <3>3 DEF FreshSound
  <2>11. CASE RecoverRetire
    <3>1. /\ UNCHANGED <<lines, notices>> /\ frame' = "mark"
          /\ status' = [status EXCEPT ![batch[1]] = "absent"]
      BY <2>11 DEF RecoverRetire
    <3>2. \A i \in Ids : status'[i] = status[i] \/ status'[i] = "absent" BY <1>0, <3>1 DEF TypeOK
    <3>3. QED BY <3>1, <3>2, FreshStays
  <2>12. CASE DeleteEnds
    <3>1. /\ UNCHANGED <<lines, notices>> /\ frame' = "idle"
          /\ \E t \in Threads :
               status' = SetStatus({i \in Ids : i < nextId /\ Thread(i) = t}, "absent")
      BY <1>0, <2>12, DeletionSteps
    <3>2. \A j \in Ids : status'[j] = status[j] \/ status'[j] = "absent" BY <3>1 DEF SetStatus
    <3>3. QED BY <3>1, <3>2, FreshStays
  <2>13. CASE HandoffStarts
    <3>1. UNCHANGED <<status, lines, notices>> /\ frame' \in {"idle", "visit"}
      BY <1>0, <2>13, HandoffStartSteps
    <3>2. QED BY <3>1, FreshStays
  <2>14. QED BY <1>3, <2>1, <2>2, <2>3, <2>4, <2>5, <2>6, <2>7, <2>8, <2>9, <2>10, <2>11, <2>12,
                <2>13 DEF Handler
<1>4. CASE Engine
  <2>1. frame' \in {"idle", "visit"} /\ UNCHANGED <<lines, notices>>
    BY <1>4 DEF Engine, TurnCompleted, DispatchAcknowledged, DispatchFailed, TurnStalled, EngineTakes,
                Serving,
                EngineAnswers, RoomSpeaks, RoomTurnCompleted, RoomOperationFinished, OtherTurnCompleted,
                HandoffOpens, HandoffSettles, HandoffRuns, DrainAll
  <2>2. status' = status \/ \E t \in Threads : status' = SetStatus(turnIds[t], "absent")
    BY <1>4 DEF Engine, TurnCompleted, DispatchAcknowledged, DispatchFailed, TurnStalled, EngineTakes,
                Retire,
                EngineAnswers, RoomSpeaks, RoomTurnCompleted, RoomOperationFinished, OtherTurnCompleted,
                HandoffOpens, HandoffSettles, HandoffRuns
  <2>3. \A i \in Ids : status'[i] = status[i] \/ status'[i] = "absent" BY <2>2 DEF SetStatus
  <2>4. QED BY <2>1, <2>3, FreshStays
<1>5. CASE Crash BY <1>5, FreshStays DEF Crash
<1>6. QED BY <1>1, <1>2, <1>3, <1>4, <1>5 DEF Next

(* A word has one queue id at most, or was said at once, or a send of it   *)
(* still waits for an answer.                                              *)
Used(w) == \E i \in Ids : i < nextId /\ word[i] = w

UsedOnce ==
  \A w \in Words :
    /\ direct[w] <= 1
    /\ \A i, j \in Ids : i < nextId /\ j < nextId /\ word[i] = w /\ word[j] = w => i = j
    /\ direct[w] > 0 \/ phase[w] # "idle" => ~Used(w)
    /\ phase[w] # "idle" => direct[w] = 0 /\ w \notin Opened

(* What the send route looks at before it accepts words, the transcript,   *)
(* the tombstones and the queue, tells it of every earlier send of them.   *)
LEMMA FreshWord ==
  ASSUME Steerers = {}, IInv, JInv, SettledSound, Serving, NEW w \in Words, Home[w] \notin gone,
         ~Tombstone(w), ~Said(w), ~Waiting(w)
  PROVE  direct[w] = 0 /\ ~Used(w)
<1>0. TypeOK /\ WordsSound BY DEF IInv, JInv
<1>1. direct[w] = 0
  <2>1. direct[w] \in 0..2 /\ ~(direct[w] > 0) BY <1>0 DEF Said, TypeOK
  <2>2. QED BY <2>1
<1>2. ASSUME NEW i \in Ids, i < nextId, word[i] = w PROVE FALSE
  <2>1. Thread(i) = Home[w] /\ up = "serving" /\ frame = "idle" BY <1>2 DEF Thread, Serving
  <2>2. lines[i] \in Nat /\ ~(lines[i] > 0)
    <3>1. lines[i] \in 0..2 BY <1>0 DEF TypeOK
    <3>2. ~(lines[i] > 0) BY <1>2 DEF Said
    <3>3. QED BY <3>1, <3>2
  <2>3. status[i] \notin {"absent", "dispatching", "interrupted"}
    BY <1>2, <2>1, <2>2 DEF SettledSound
  <2>4. status[i] # "cancelled" BY <1>2 DEF Tombstone
  <2>5. status[i] = "pending" BY <1>0, <2>3, <2>4 DEF TypeOK, Statuses
  <2>6. Waits(i) BY <1>0, <2>1, <2>5 DEF WordsSound
  <2>7. i \in ToSet(queue[Home[w]]) BY <2>1, <2>6 DEF Waits, InHold, Folding
  <2>8. QED BY <1>2, <2>7 DEF Waiting
<1>3. QED BY <1>1, <1>2 DEF Used

(* A step that sends nothing.                                              *)
LEMMA UsedStays ==
  ASSUME UsedOnce, UNCHANGED <<word, nextId, direct>>,
         \A w \in Words : phase'[w] # "idle" => phase[w] # "idle"
  PROVE  UsedOnce'
BY DEF UsedOnce, Used

(* Words that are queued were new.                                         *)
LEMMA EnqueueUsed ==
  ASSUME TypeOK, UsedOnce, NEW w \in Words, Enqueue(w), direct[w] = 0, ~Used(w), phase'[w] = "idle",
         \A v \in Words \ {w} : phase'[v] # "idle" => phase[v] # "idle"
  PROVE  UsedOnce'
<1>1. PICK n \in Ids : n = nextId BY DEF Enqueue, TypeOK, Ids
<1>2. word' = [word EXCEPT ![n] = w] /\ nextId' = n + 1 /\ direct' = direct BY <1>1 DEF Enqueue
<1>3. \A i \in Ids : word'[i] = IF i = n THEN w ELSE word[i] BY <1>2 DEF TypeOK
<1>4. \A i \in Ids : i < nextId' <=> i < nextId \/ i = n
  <2>1. n \in Nat /\ Ids \subseteq Nat BY SteerQueueAssumption DEF Ids
  <2>2. QED BY <1>1, <1>2, <2>1
<1>5. ASSUME NEW v \in Words \ {w} PROVE Used(v)' => Used(v) BY <1>3, <1>4, <1>5 DEF Used
<1>6. ASSUME NEW v \in Words, NEW i \in Ids, NEW j \in Ids,
             i < nextId', j < nextId', word'[i] = v, word'[j] = v
      PROVE  i = j
  <2>1. CASE v = w
    <3>1. i = n /\ j = n BY <1>3, <1>4, <1>6, <2>1 DEF Used
    <3>2. QED BY <3>1
  <2>2. CASE v # w
    <3>1. i # n /\ j # n BY <1>3, <1>6, <2>2
    <3>2. i < nextId /\ j < nextId /\ word[i] = v /\ word[j] = v BY <1>3, <1>4, <1>6, <3>1
    <3>3. QED BY <3>2 DEF UsedOnce
  <2>3. QED BY <2>1, <2>2
<1>7. ASSUME NEW v \in Words
      PROVE  /\ direct'[v] <= 1
             /\ direct'[v] > 0 \/ phase'[v] # "idle" => ~Used(v)'
             /\ phase'[v] # "idle" => direct'[v] = 0 /\ v \notin Opened
  <2>1. CASE v = w BY <1>2, <2>1
  <2>2. CASE v # w BY <1>2, <1>5, <2>2 DEF UsedOnce
  <2>3. QED BY <2>1, <2>2
<1>8. QED BY <1>6, <1>7 DEF UsedOnce

(* Words that are said at once, or offered to the running turn, were new.  *)
LEMMA SayUsed ==
  ASSUME TypeOK, UsedOnce, NEW w \in Words, direct[w] = 0, ~Used(w), UNCHANGED <<word, nextId>>,
         \/ /\ direct' = [direct EXCEPT ![w] = Bump(@)] /\ phase'[w] = "idle"
         \/ direct' = direct /\ w \notin Opened,
         \A v \in Words \ {w} : phase'[v] # "idle" => phase[v] # "idle"
  PROVE  UsedOnce'
<1>1. Bump(0) = 1 BY DEF Bump
<1>2. \A v \in Words \ {w} : direct'[v] = direct[v] BY DEF TypeOK
<1>3. \/ direct'[w] = 1 /\ phase'[w] = "idle"
      \/ direct'[w] = 0 /\ w \notin Opened
  BY <1>1 DEF TypeOK
<1>4. \A v : Used(v)' <=> Used(v) BY DEF Used
<1>5. ASSUME NEW v \in Words
      PROVE  /\ direct'[v] <= 1
             /\ direct'[v] > 0 \/ phase'[v] # "idle" => ~Used(v)'
             /\ phase'[v] # "idle" => direct'[v] = 0 /\ v \notin Opened
  <2>1. CASE v = w BY <1>3, <1>4, <2>1
  <2>2. CASE v # w BY <1>2, <1>4, <2>2 DEF UsedOnce
  <2>3. QED BY <2>1, <2>2
<1>6. QED BY <1>5 DEF UsedOnce

(* Every step of a bot that nobody steers uses words once.                 *)
LEMMA NextUsed ==
  ASSUME Steerers = {}, IInv, JInv, SettledSound, UsedOnce, [Next]_vars
  PROVE  UsedOnce'
<1> USE DEF vars, disk, work, waiting, turns, calls, coordination, history
<1>0. TypeOK BY DEF IInv
<1>1. CASE UNCHANGED vars BY <1>1 DEF UsedOnce, Used
<1>2. ASSUME NEW w \in Words, NEW st, phase' = [phase EXCEPT ![w] = st]
      PROVE  phase'[w] = st /\ \A v \in Words \ {w} : phase'[v] = phase[v]
  BY <1>0, <1>2 DEF TypeOK, Callers
<1>3. ASSUME NEW w \in Words, direct[w] = 0, ~Used(w), phase'[w] = "idle",
             \A v \in Words \ {w} : phase'[v] = phase[v],
             Enqueue(w) \/ StartDirect(w) \/ Decline
      PROVE  UsedOnce'
  <2>1. CASE Enqueue(w) BY <1>0, <1>3, <2>1, EnqueueUsed
  <2>2. CASE StartDirect(w)
    <3>1. UNCHANGED <<word, nextId>> /\ direct' = [direct EXCEPT ![w] = Bump(@)]
      BY <2>2 DEF StartDirect
    <3>2. QED BY <1>0, <1>3, <3>1, SayUsed
  <2>3. CASE Decline
    <3>1. UNCHANGED <<word, nextId, direct>> BY <2>3 DEF Decline
    <3>2. QED BY <1>3, <3>1, UsedStays
  <2>4. QED BY <1>3, <2>1, <2>2, <2>3
<1>4. CASE Requests
  <2>1. ASSUME NEW w \in Words, Send(w) PROVE UsedOnce'
    <3>1. direct[w] = 0 /\ ~Used(w) /\ w \notin Opened /\ phase[w] = "idle"
      BY <2>1, FreshWord DEF Send
    <3>2. \/ (Enqueue(w) \/ StartDirect(w) \/ Decline) /\ UNCHANGED phase
          \/ phase' = [phase EXCEPT ![w] = "asked"] /\ Decline
      BY <2>1 DEF Send, StartOrQueue
    <3>3. CASE (Enqueue(w) \/ StartDirect(w) \/ Decline) /\ UNCHANGED phase
      BY <1>3, <3>1, <3>3
    <3>4. CASE phase' = [phase EXCEPT ![w] = "asked"] /\ Decline
      <4>1. \A v \in Words \ {w} : phase'[v] = phase[v] BY <1>2, <3>4
      <4>2. UNCHANGED <<word, nextId, direct>> BY <3>4 DEF Decline
      <4>3. QED BY <1>0, <3>1, <4>1, <4>2, SayUsed
    <3>5. QED BY <3>2, <3>3, <3>4
  <2>2. ASSUME NEW w \in Words, SendContinues(w) PROVE UsedOnce'
    <3>1. phase[w] # "idle" /\ phase' = [phase EXCEPT ![w] = "idle"]
      BY <2>2 DEF SendContinues, Answered
    <3>2. direct[w] = 0 /\ ~Used(w) BY <3>1 DEF UsedOnce
    <3>3. phase'[w] = "idle" /\ \A v \in Words \ {w} : phase'[v] = phase[v] BY <1>2, <3>1
    <3>4. \/ Enqueue(w) \/ StartDirect(w) \/ Decline
          \/ UNCHANGED <<word, nextId>> /\ direct' = [direct EXCEPT ![w] = Bump(@)]
      BY <2>2 DEF SendContinues, StartOrQueue
    <3>5. CASE Enqueue(w) \/ StartDirect(w) \/ Decline BY <1>3, <3>2, <3>3, <3>5
    <3>6. CASE UNCHANGED <<word, nextId>> /\ direct' = [direct EXCEPT ![w] = Bump(@)]
      BY <1>0, <3>2, <3>3, <3>6, SayUsed
    <3>7. QED BY <3>4, <3>5, <3>6
  <2>3. ASSUME NEW w \in Words, OpenThread(w) PROVE UsedOnce'
    <3>1. w \in Opened /\ direct[w] = 0 /\ ~Used(w) /\ UNCHANGED phase BY <2>3 DEF OpenThread, Used
    <3>2. phase[w] = "idle" BY <3>1 DEF UsedOnce
    <3>3. Enqueue(w) \/ StartDirect(w) \/ Decline BY <2>3 DEF OpenThread
    <3>4. QED BY <1>3, <3>1, <3>2, <3>3
  <2>4. ASSUME NEW i \in Ids, Cancel(i) PROVE UsedOnce' BY <2>4, UsedStays DEF Cancel
  <2>5. ASSUME Coordinates \/ \E t \in Threads : SteerDeclined(t) PROVE UsedOnce'
    <3>1. UNCHANGED <<word, nextId, direct, phase>> BY <2>5, CoordinationSteps DEF SteerDeclined
    <3>2. QED BY <3>1, UsedStays
  <2>6. CASE DeleteBot BY <2>6, UsedStays DEF DeleteBot
  <2>7. QED BY <1>4, <2>1, <2>2, <2>3, <2>4, <2>5, <2>6 DEF Requests, Coordinates
<1>5. CASE Handler
  <2>1. UNCHANGED <<word, nextId, direct, phase>>
    BY <1>0, <1>5, DeletionSteps, HandoffStartSteps
       DEF Handler, DrainVisit, Skip, DropGone, Claim, DrainEnds, DrainAppend, DrainStart,
           FoldAppend, FoldSettle, Purge, Boot, RecoverMark, RecoverLine, RecoverNotice,
           RecoverRetire, RecoverEnds, RestoreRow, Listen
  <2>2. QED BY <2>1, UsedStays
<1>6. CASE Engine
  <2>1. UNCHANGED <<word, nextId, direct>>
    BY <1>6 DEF Engine, TurnCompleted, DispatchAcknowledged, DispatchFailed, TurnStalled, EngineTakes,
                EngineAnswers, RoomSpeaks, RoomTurnCompleted, RoomOperationFinished, OtherTurnCompleted,
                HandoffOpens, HandoffSettles, HandoffRuns
  <2>2. ASSUME NEW c \in Callers, NEW st, phase[c] # "idle", phase' = [phase EXCEPT ![c] = st]
        PROVE  \A v \in Words : phase'[v] # "idle" => phase[v] # "idle"
    BY <1>0, <2>2 DEF TypeOK, Callers
  <2>3. \A v \in Words : phase'[v] # "idle" => phase[v] # "idle"
    <3>1. ASSUME NEW t \in Threads, EndCalls(t)
          PROVE  \A v \in Words : phase'[v] # "idle" => phase[v] # "idle"
      BY <1>0, <3>1, EndCallsType DEF Callers
    <3>2. ASSUME NEW c \in Callers, EngineTakes(c) \/ EngineAnswers(c)
          PROVE  \A v \in Words : phase'[v] # "idle" => phase[v] # "idle"
      <4>1. CASE EngineTakes(c) BY <2>2, <4>1 DEF EngineTakes
      <4>2. CASE EngineAnswers(c) BY <2>2, <4>2 DEF EngineAnswers
      <4>3. QED BY <3>2, <4>1, <4>2
    <3>3. \/ \E t \in Threads : EndCalls(t)
          \/ \E c \in Callers : EngineTakes(c) \/ EngineAnswers(c)
          \/ UNCHANGED phase
      BY <1>6 DEF Engine, TurnCompleted, DispatchAcknowledged, DispatchFailed, TurnStalled,
                  RoomSpeaks, RoomTurnCompleted, RoomOperationFinished, OtherTurnCompleted,
                  HandoffOpens, HandoffSettles, HandoffRuns
    <3>4. QED BY <3>1, <3>2, <3>3
  <2>4. QED BY <2>1, <2>3, UsedStays
<1>7. CASE Crash
  <2>1. UNCHANGED <<word, nextId, direct>> /\ \A v \in Words : phase'[v] = "idle"
    BY <1>7 DEF Crash, Callers
  <2>2. QED BY <2>1, UsedStays
<1>8. QED BY <1>1, <1>4, <1>5, <1>6, <1>7 DEF Next

(* Without steers, words are in the transcript at most once, however often *)
(* their send is retried and wherever the process dies (sendId checks of   *)
(* the message route; the boot loop of recovery).                          *)
THEOREM WordsAreSaidOnce ==
  ASSUME Steerers = {}
  PROVE  Spec => []SaidOnce
<1> DEFINE SInv == SettledSound /\ FreshSound /\ UsedOnce
<1>1. Init => SInv
  <2>1. SUFFICES ASSUME Init PROVE SInv OBVIOUS
  <2>2. SettledSound
    <3>1. nextId = 1 /\ \A i \in Ids : ~(i < 1) BY <2>1, SteerQueueAssumption DEF Init, Ids
    <3>2. QED BY <3>1 DEF SettledSound
  <2>3. FreshSound BY <2>1 DEF Init, FreshSound
  <2>4. UsedOnce
    <3>1. \A i \in Ids : ~(i < nextId) BY <2>1, SteerQueueAssumption DEF Init, Ids
    <3>2. \A w \in Words : direct[w] = 0 /\ phase[w] = "idle" BY <2>1 DEF Init, Callers
    <3>3. QED BY <3>1, <3>2 DEF UsedOnce
  <2>5. QED BY <2>2, <2>3, <2>4
<1>2. IInv /\ JInv /\ SInv /\ [Next]_vars => SInv' BY NextSettled, NextFresh, NextUsed
<1>3. IInv /\ SInv => SaidOnce
  <2>1. SUFFICES ASSUME IInv, SInv PROVE SaidOnce OBVIOUS
  <2>2. TypeOK BY <2>1 DEF IInv
  <2>3. LineOnce BY <2>1 DEF FreshSound, LineOnce
  <2>4. ASSUME NEW w \in Words
        PROVE  direct[w] + Cardinality({i \in Ids : i < nextId /\ word[i] = w /\ lines[i] > 0}) <= 1
    <3>1. PICK S : S = {i \in Ids : i < nextId /\ word[i] = w /\ lines[i] > 0} OBVIOUS
    <3>2. direct[w] \in {0, 1} BY <2>1, <2>2 DEF UsedOnce, TypeOK
    <3>3. CASE S = {}
      <4>1. Cardinality(S) = 0 BY <3>3, FS_EmptySet
      <4>2. QED BY <3>1, <3>2, <4>1
    <3>4. CASE S # {}
      <4>1. PICK i : i \in S BY <3>4
      <4>2. S = {i} BY <2>1, <3>1, <4>1 DEF UsedOnce
      <4>3. Cardinality(S) = 1 BY <4>2, FS_Singleton
      <4>4. direct[w] = 0 BY <2>1, <3>1, <3>2, <4>1 DEF UsedOnce, Used
      <4>5. QED BY <3>1, <4>3, <4>4
    <3>5. QED BY <3>3, <3>4
  <2>5. QED BY <2>3, <2>4 DEF SaidOnce
<1> HIDE DEF SInv
<1>4. QED BY <1>1, <1>2, <1>3, Soundness, JournalSoundness, PTL DEF Spec

-----------------------------------------------------------------------------
(* The line for a slot *)

(* Without steers the line changes at its end, or somebody leaves it.      *)
LEMMA LineMoves ==
  ASSUME Steerers = {}, TypeOK, [Next]_vars
  PROVE  \/ line' = line \/ line' = <<>>
         \/ \E t \in Threads : line' = InLine(t) \/ line' = Without(line, t)
<1> USE DEF vars, disk, work, waiting, turns, calls, coordination, history
<1>1. CASE UNCHANGED vars BY <1>1
<1>2. CASE Requests
  <2>1. ASSUME NEW w \in Words, Send(w) \/ SendContinues(w) \/ OpenThread(w)
        PROVE  line' = line \/ line' = InLine(Home[w])
    BY <2>1 DEF Send, SendContinues, OpenThread, StartOrQueue, StartDirect, Decline, Enqueue
  <2>2. ASSUME NEW i \in Ids, Cancel(i) PROVE line' = line \/ line' = Without(line, Thread(i))
    BY <2>2 DEF Cancel
  <2>3. ASSUME Coordinates \/ \E t \in Threads : SteerDeclined(t) PROVE line' = line
    BY <2>3, CoordinationSteps DEF SteerDeclined
  <2>4. CASE DeleteBot BY <2>4 DEF DeleteBot
  <2>5. \A w \in Words : Home[w] \in Threads BY SteerQueueAssumption
  <2>6. \A i \in Ids : Thread(i) \in Threads BY ThreadType
  <2>7. QED BY <1>2, <2>1, <2>2, <2>3, <2>4, <2>5, <2>6 DEF Requests, Coordinates
<1>3. CASE Handler
  <2>1. CASE DrainVisit
    <3>1. visit \in Seq(Threads) /\ visit # <<>> BY <2>1 DEF TypeOK, DrainVisit
    <3>2. PICK t \in Threads : t = Head(visit) BY <3>1, TailElements
    <3>3. QED BY <2>1, <3>2 DEF DrainVisit, Skip, DropGone, Claim
  <2>2. CASE RestoreRow
    <3>1. PICK i \in Ids : line' = InLine(Thread(i)) BY <2>2 DEF RestoreRow, Unrestored
    <3>2. Thread(i) \in Threads BY <3>1, ThreadType
    <3>3. QED BY <3>1, <3>2
  <2>3. CASE ~DrainVisit /\ ~RestoreRow
    BY <1>3, <2>3, DeletionSteps, HandoffStartSteps
       DEF Handler, DrainEnds, DrainAppend, DrainStart, FoldAppend, FoldSettle, Purge, Boot,
           RecoverMark, RecoverLine, RecoverNotice, RecoverRetire, RecoverEnds, Listen
  <2>4. QED BY <2>1, <2>2, <2>3
<1>4. CASE Engine
  BY <1>4 DEF Engine, TurnCompleted, DispatchAcknowledged, DispatchFailed, TurnStalled, EngineTakes,
              EngineAnswers, RoomSpeaks, RoomTurnCompleted, RoomOperationFinished, OtherTurnCompleted,
              HandoffOpens, HandoffSettles, HandoffRuns
<1>5. CASE Crash BY <1>5 DEF Crash
<1>6. QED BY <1>1, <1>2, <1>3, <1>4, <1>5 DEF Next

(* No thread gets before one that was waiting.                             *)
LEMMA NobodyJumpsTheLine ==
  ASSUME Steerers = {}, TypeOK, [Next]_vars, NEW a \in ToSet(line), NEW b, Before(line', b, a)
  PROVE  Before(line, b, a)
<1>1. line \in Seq(Threads) BY DEF TypeOK
<1>2. CASE line' = line BY <1>2
<1>3. CASE line' = <<>> BY <1>3 DEF Before
<1>4. ASSUME NEW t \in Threads, line' = InLine(t) PROVE Before(line, b, a)
  <2>1. CASE t \in ToSet(line) BY <1>4, <2>1 DEF InLine
  <2>2. CASE t \notin ToSet(line)
    <3>1. Precedes(Append(line, t), b, a) BY <1>4, <2>2 DEF InLine, Before, Precedes
    <3>2. Precedes(line, b, a) BY <1>1, <2>2, <3>1, AppendOrder
    <3>3. QED BY <3>2 DEF Before, Precedes
  <2>3. QED BY <2>1, <2>2
<1>5. ASSUME NEW t \in Threads, line' = Without(line, t) PROVE Before(line, b, a)
  <2>1. Precedes(Removed(line, t), b, a) BY <1>5 DEF Without, Removed, Before, Precedes
  <2>2. Precedes(line, b, a) BY <1>1, <2>1, RemovedOrder
  <2>3. QED BY <2>2 DEF Before, Precedes
<1>6. QED BY <1>2, <1>3, <1>4, <1>5, LineMoves

(* Whoever stands in the line before a thread that a drain has yet to      *)
(* visit is visited before it, or the drain found that it cannot start.    *)
Passed(a) == ThreadBusy(a) \/ a \in gone \/ Parked(a) \/ room # "none" \/ AtCapacity
WalkSound ==
  frame \in {"visit", "append", "start"} =>
    /\ IsInjective(visit)
    /\ \A a \in ToSet(line), t \in ToSet(visit) :
         Before(line, a, t) => Before(visit, a, t) \/ Passed(a)

(* A drain that begins takes the line as it is.                            *)
LEMMA WalkBegins ==
  ASSUME LineSound', visit' = line'
  PROVE  WalkSound'
BY DEF WalkSound, LineSound

(* Each step of a drain keeps it: who is visited is passed or leaves.      *)
LEMMA NextWalk ==
  ASSUME Steerers = {}, IInv, JInv, TurnInv, WalkSound, LineSound', [Next]_vars
  PROVE  WalkSound'
<1> USE DEF vars, disk, work, waiting, turns, calls, coordination, history
<1>0. TypeOK /\ LineSound /\ line \in Seq(Threads) BY DEF IInv, JInv, TypeOK
<1>1. ASSUME UNCHANGED <<visit, line, turn, gone, room, parks, awaiting>>,
             frame \in {"visit", "append", "start"}
      PROVE  WalkSound'
  BY <1>1 DEF WalkSound, Passed, Parked, ThreadBusy, AtCapacity
<1>2. CASE UNCHANGED vars BY <1>2 DEF WalkSound, Passed, Parked, ThreadBusy, AtCapacity
<1>3. CASE Requests \/ Engine
  <2>1. frame' # "visit" \/ visit' = line'
    <3>0. CASE Coordinates BY <3>0, CoordinationSteps
    <3>1. CASE Requests /\ ~Coordinates
      <4>1. \A w \in Words : Send(w) \/ SendContinues(w) \/ OpenThread(w) => UNCHANGED frame
        BY DEF Send, SendContinues, OpenThread, StartOrQueue, Enqueue, StartDirect, Decline
      <4>2. ~\E t \in Threads : SteerDeclined(t) BY DEF SteerDeclined
      <4>3. \A i \in Ids : Cancel(i) => UNCHANGED frame BY DEF Cancel
      <4>4. DeleteBot => frame' = "purge" BY DEF DeleteBot
      <4>5. UNCHANGED frame \/ frame' = "purge" BY <3>1, <4>1, <4>2, <4>3, <4>4
            DEF Requests, Coordinates
      <4>6. frame = "idle" BY <3>1, OutsideSteps
      <4>7. QED BY <4>5, <4>6
    <3>2. CASE Engine /\ ~Coordinates
      BY <3>2 DEF Engine, Coordinates, TurnCompleted, DispatchAcknowledged, DispatchFailed,
                  TurnStalled, EngineTakes, EngineAnswers, RoomSpeaks, RoomTurnCompleted,
                  RoomOperationFinished, OtherTurnCompleted, DrainAll, Serving
    <3>3. QED BY <1>3, <3>0, <3>1, <3>2
  <2>2. frame' \in {"idle", "visit", "fold", "purge", "delete"} BY <1>3, OutsideSteps
  <2>3. QED BY <2>1, <2>2, WalkBegins DEF WalkSound
<1>4. CASE DrainVisit
  <2>1. /\ visit \in Seq(Threads) /\ visit # <<>> /\ frame = "visit"
        /\ UNCHANGED <<turn, room, gone, parks, awaiting>>
    BY <1>0, <1>4 DEF TypeOK, DrainVisit, Skip, DropGone, Claim
  <2>2. PICK t \in Threads : t = Head(visit) BY <2>1, TailElements
  <2>3. Skip(t) \/ DropGone(t) \/ Claim(t) BY <1>4, <2>2 DEF DrainVisit
  <2>4. visit' = Tail(visit) BY <2>3 DEF Skip, DropGone, Claim
  <2>5. /\ IsInjective(visit) /\ IsInjective(visit') /\ t \notin ToSet(visit')
        /\ ToSet(visit') \subseteq ToSet(visit)
    BY <2>1, <2>2, <2>4, TailElements DEF WalkSound
  <2>6. ToSet(line') \subseteq ToSet(line)
    <3>1. line' = line \/ line' = Without(line, t) BY <2>3 DEF Skip, DropGone, Claim
    <3>2. QED BY <1>0, <3>1, WithoutElements
  <2>7. ASSUME NEW a \in ToSet(line'), NEW u \in ToSet(visit'), Before(line', a, u)
        PROVE  Before(visit', a, u) \/ Passed(a)'
    <3>1. a \in ToSet(line) /\ u \in ToSet(visit) BY <2>5, <2>6
    <3>2. Before(line, a, u)
      <4>1. line' = line \/ line' = Without(line, t) BY <2>3 DEF Skip, DropGone, Claim
      <4>2. CASE line' = line BY <2>7, <4>2
      <4>3. CASE line' = Without(line, t)
        <5>1. Precedes(Removed(line, t), a, u) BY <2>7, <4>3 DEF Without, Removed, Before, Precedes
        <5>2. Precedes(line, a, u) BY <1>0, <5>1, RemovedOrder
        <5>3. QED BY <5>2 DEF Before, Precedes
      <4>4. QED BY <4>1, <4>2, <4>3
    <3>3. Before(visit, a, u) \/ Passed(a) BY <2>1, <3>1, <3>2 DEF WalkSound
    <3>4. Passed(a) => Passed(a)' BY <2>1 DEF Passed, Parked, ThreadBusy, AtCapacity
    <3>5. CASE Before(visit, a, u)
      <4>1. Precedes(visit, a, u) BY <3>5 DEF Before, Precedes
      <4>2. a = t \/ Precedes(visit', a, u) BY <2>1, <2>2, <2>4, <4>1, TailOrder
      <4>3. CASE a = t
        <5>1. CASE Skip(t) BY <3>4, <4>3, <5>1 DEF Skip, Blocked, Passed
        <5>2. CASE DropGone(t) BY <3>4, <4>3, <5>2 DEF DropGone, Passed
        <5>3. CASE Claim(t)
          <6>1. line' = Without(line, t) BY <5>3 DEF Claim
          <6>2. t \notin ToSet(line') BY <1>0, <6>1, WithoutElements DEF LineSound
          <6>3. QED BY <2>7, <4>3, <6>2
        <5>4. QED BY <2>3, <5>1, <5>2, <5>3
      <4>4. QED BY <4>2, <4>3 DEF Before, Precedes
    <3>6. QED BY <3>3, <3>4, <3>5
  <2>8. QED BY <2>5, <2>7 DEF WalkSound
<1>5. CASE DrainAppend
  <2>1. UNCHANGED <<visit, line, turn, gone, room, parks, awaiting>> /\ frame = "append"
    BY <1>5 DEF DrainAppend
  <2>2. QED BY <1>1, <2>1
<1>6. CASE DrainStart
  <2>1. /\ UNCHANGED <<visit, line, gone, room, parks, awaiting>> /\ frame = "start"
        /\ turn' = turn \/ turn' = [turn EXCEPT ![Thread(batch[1])] = "dispatching"]
    BY <1>6 DEF DrainStart
  <2>2. room = "none" /\ ~AtCapacity BY <2>1 DEF TurnInv
  <2>3. \A a \in Threads : ThreadBusy(a) => ThreadBusy(a)'
    BY <1>0, <2>1 DEF ThreadBusy, TypeOK
  <2>4. \A a \in ToSet(line) : a \in Threads BY <1>0, ToSetType
  <2>5. \A a \in ToSet(line) : Passed(a) => Passed(a)' BY <2>1, <2>2, <2>3, <2>4 DEF Passed, Parked
  <2>6. QED BY <2>1, <2>5 DEF WalkSound
<1>7. CASE Listen BY <1>7, WalkBegins DEF Listen, DrainAll
<1>8. CASE Handler /\ ~DrainVisit /\ ~DrainAppend /\ ~DrainStart /\ ~Listen /\ ~HandoffStarts
  <2>1. frame' \notin {"visit", "append", "start"}
    <3>1. frame' \in {"idle", "delete", "handoff", "fold", "settle", "mark", "recoverLine",
                      "recoverNotice", "retire", "restore"}
      BY <1>8 DEF Handler, DrainEnds, FoldAppend, FoldSettle, Purge, DeleteEnds, Boot, RecoverMark,
                  RecoverLine, RecoverNotice, RecoverRetire, RecoverEnds, RestoreRow, AfterWalk
    <3>2. QED BY <3>1
  <2>2. QED BY <2>1 DEF WalkSound
<1>9. CASE Crash BY <1>9 DEF Crash, WalkSound
<1>10. CASE HandoffStarts
  <2>1. UNCHANGED line /\ frame' \in {"idle", "visit"} /\ (frame' = "visit" => visit' = line)
    BY <1>0, <1>10, HandoffStartSteps
  <2>2. QED BY <2>1, WalkBegins DEF WalkSound
<1>11. QED BY <1>2, <1>3, <1>4, <1>5, <1>6, <1>7, <1>8, <1>9, <1>10 DEF Next

(* Without steers the line for a free slot is fair (steer-queue.ts,        *)
(* drainSteeredMessages: "insertion order is the line"), whatever is sent, *)
(* cancelled, delegated or deleted and wherever the process dies: a drain  *)
(* passes only threads that are busy, deleted or parked.                   *)
THEOREM TheLineIsServed ==
  ASSUME Steerers = {}
  PROVE  Spec => LineIsServed
<1>1. Init => WalkSound BY DEF Init, WalkSound
<1>2. IInv /\ JInv /\ JInv' /\ TurnInv /\ WalkSound /\ [Next]_vars => WalkSound'
  <2>1. SUFFICES ASSUME IInv, JInv, JInv', TurnInv, WalkSound, [Next]_vars PROVE WalkSound' OBVIOUS
  <2>2. LineSound' BY <2>1 DEF JInv
  <2>3. QED BY <2>1, <2>2, NextWalk
<1> DEFINE Fair == /\ \A a \in ToSet(line), b \in Threads : Before(line', b, a) => Before(line, b, a)
                   /\ frame = "visit" /\ frame' = "append" =>
                        \A a \in Threads : Before(line, a, Head(visit)) =>
                           ThreadBusy(a) \/ a \in gone \/ Parked(a)
<1>3. IInv /\ JInv /\ WalkSound /\ [Next]_vars => [Fair]_vars
  <2>1. SUFFICES ASSUME IInv, JInv, WalkSound, [Next]_vars PROVE Fair OBVIOUS
  <2>2. TypeOK /\ LineSound BY <2>1 DEF IInv, JInv
  <2>3. ASSUME frame = "visit", frame' = "append", NEW a \in Threads, Before(line, a, Head(visit))
        PROVE  ThreadBusy(a) \/ a \in gone \/ Parked(a)
    <3>1. DrainVisit
      <4>1. ~(Requests \/ Engine) BY <2>3, OutsideSteps
      <4>2. ~Crash /\ ~UNCHANGED vars BY <2>3 DEF Crash, vars, work
      <4>3. ~DeleteEnds /\ ~HandoffStarts BY <2>2, <2>3, DeletionSteps, HandoffStartSteps
      <4>4. QED BY <2>1, <2>3, <4>1, <4>2, <4>3
            DEF Next, Handler, DrainEnds, DrainAppend, DrainStart, FoldAppend, FoldSettle, Purge, Boot,
                RecoverMark, RecoverLine, RecoverNotice, RecoverRetire, RecoverEnds, RestoreRow, Listen,
                AfterWalk
    <3>2. visit \in Seq(Threads) /\ visit # <<>> BY <2>2, <3>1 DEF TypeOK, DrainVisit
    <3>3. PICK t \in Threads : t = Head(visit) BY <3>2, TailElements
    <3>4. ~Blocked(t) BY <2>3, <3>1, <3>3 DEF DrainVisit, Skip, DropGone, Claim, AfterWalk
    <3>5. t \in ToSet(visit) BY <3>2, <3>3, TailElements
    <3>6. a \in ToSet(line) BY <2>3 DEF Before, ToSet
    <3>7. Before(visit, a, t) \/ Passed(a) BY <2>1, <2>3, <3>3, <3>5, <3>6 DEF WalkSound
    <3>8. ~Before(visit, a, t)
      <4>1. IsInjective(visit) BY <2>1, <2>3 DEF WalkSound
      <4>2. ~Precedes(visit, a, t) BY <3>2, <3>3, <4>1, TailOrder
      <4>3. QED BY <4>2 DEF Before, Precedes
    <3>9. QED BY <3>4, <3>7, <3>8 DEF Passed, Blocked
  <2>4. \A a \in ToSet(line), b \in Threads : Before(line', b, a) => Before(line, b, a)
    BY <2>1, <2>2, NobodyJumpsTheLine
  <2>5. QED BY <2>3, <2>4
<1>4. LineIsServed <=> [][Fair]_vars BY DEF LineIsServed
<1> HIDE DEF Fair
<1>5. QED BY <1>1, <1>2, <1>3, <1>4, Soundness, JournalSoundness, TurnSoundness, PTL DEF Spec
=============================================================================
