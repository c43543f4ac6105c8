--------------------------- MODULE RoutinesProofs ---------------------------
(***************************************************************************)
(* Every safety property of the routines, for any routines, deliveries,    *)
(* slots and bounds.  Ids are given in sequence, so a run that is made     *)
(* never lies over an older one; a tick works through lists it took down   *)
(* before others acted, and what it finds in them is looked at again.      *)
(***************************************************************************)
EXTENDS Routines, FiniteSetTheorems, TLAPS

(* The parts of the inductive invariant that no run checks by themselves.  *)
DueIsFinite == IsFiniteSet(due) /\ tick.due \subseteq due
InSequence  == Made = 1 .. Cardinality(Made)

Same(i, j) == run[i].of = run[j].of
OneAtWork ==
  \A i, j \in Ids : Same(i, j) /\ Scheduled(i) /\ Scheduled(j) /\ Working(i) /\ Working(j) => i = j
OnePending ==
  \A i, j \in Ids : Same(i, j) /\ run[i].of \in Deliveries /\ Pending(i) /\ Pending(j) => i = j

RunInv ==
  /\ TypeOK /\ DueIsFinite /\ InSequence /\ NoOrphanTurn
  /\ OneAtWork /\ OnePending

RunType == [status : Waits \cup Over \cup {"none"}, of : Routines \cup Deliveries \cup {0},
            by : {"none", "schedule", "manual", "webhook"}, limit : BOOLEAN]

(* What each step does to the line of a routine.                           *)
LineHeld(r) == r \in Is("once") \/ Line(r)' \subseteq Line(r) \/ Cardinality(Line(r)') <= 1

Keeps ==
  /\ RunInv'
  /\ \A i \in Ids : GoesForward(i)
  /\ \A r \in Routines : LineHeld(r)

-----------------------------------------------------------------------------
(* A step in which no run is made and none leaves the queue for a turn.    *)
Moves(i) ==
  /\ run'[i].of = run[i].of /\ run'[i].by = run[i].by
  /\ \/ run'[i].status = run[i].status
     \/ Pending(i) /\ run'[i].status \in Over
     \/ Working(i) /\ run'[i].status \in {"running", "waiting"}

LEMMA Bounds == Slots \in Nat /\ MaxRuns \in Nat /\ MaxHandouts \in Nat /\ MaxOthers \in Nat /\ MaxCrashes \in Nat
BY BoundsAssumption

LEMMA RunsAreTyped ==
  ASSUME TypeOK
  PROVE  \A i \in Ids : /\ run[i] \in RunType
                        /\ run[i].status \in Waits \cup Over \cup {"none"}
                        /\ run[i].by \in {"none", "schedule", "manual", "webhook"}
                        /\ run[i] = [status |-> run[i].status, of |-> run[i].of, by |-> run[i].by,
                                  limit |-> run[i].limit]
BY DEF TypeOK, RunType

LEMMA MovesKeep ==
  ASSUME RunInv, TypeOK', \A i \in Ids : Moves(i)
  PROVE  /\ InSequence' /\ OneAtWork' /\ OnePending'
         /\ \A i \in Ids : GoesForward(i)
         /\ \A r \in Routines : LineHeld(r)
<1>1. TypeOK BY DEF RunInv
<1>2. \A i \in Ids : run[i].status \in Waits \cup Over \cup {"none"} BY <1>1, RunsAreTyped
<1>3. \A i \in Ids : run'[i].status = "none" <=> run[i].status = "none"
  BY <1>2 DEF Moves, Pending, Working, Waits, Over
<1>4. Made' = Made BY <1>3 DEF Made
<1>5. InSequence' BY <1>4 DEF RunInv, InSequence
<1>6. \A i \in Ids : /\ Pending(i)' => Pending(i)
                     /\ Working(i)' => Working(i)
                     /\ run'[i].status = "queued" => run[i].status = "queued"
                     /\ Scheduled(i)' = Scheduled(i)
                     /\ run'[i].of = run[i].of
  BY <1>2 DEF Moves, Pending, Working, Waits, Over, Scheduled
<1>8. ASSUME NEW r \in Routines PROVE LineHeld(r)
  <2>1. \A i \in Ids : run'[i].by = run[i].by BY DEF Moves
  <2>2. Line(r)' \subseteq Line(r) BY <1>6, <2>1 DEF Line, Of
  <2>3. QED BY <2>2 DEF LineHeld
<1>9. OneAtWork' BY <1>6 DEF RunInv, OneAtWork, Same
<1>10. OnePending' BY <1>6 DEF RunInv, OnePending, Same
<1>11. \A i \in Ids : GoesForward(i)
  BY <1>2 DEF GoesForward, Moves, Pending, Working, Waits, Over
<1>12. QED BY <1>5, <1>8, <1>9, <1>10, <1>11

-----------------------------------------------------------------------------
(* Ids and finite sets. *)

LEMMA MadeIsFinite == IsFiniteSet(Made) /\ Cardinality(Made) \in Nat
<1>1. IsFiniteSet(Ids) BY Bounds, FS_Interval DEF Ids
<1>2. Made \in SUBSET Ids BY DEF Made
<1>3. QED BY <1>1, <1>2, FS_Subset, FS_CardinalityType

LEMMA RoomForOne ==
  ASSUME TypeOK, DueIsFinite, Room
  PROVE  NextId \in Ids
<1>1. Cardinality(due) \in Nat BY FS_CardinalityType DEF DueIsFinite
<1>2. QED BY <1>1, MadeIsFinite, Bounds DEF Room, NextId, Ids

LEMMA NextIsNew ==
  ASSUME InSequence, NEW i \in Ids, i >= NextId
  PROVE  run[i].status = "none"
<1>1. i \notin Made BY MadeIsFinite DEF InSequence, NextId, Ids
<1>2. QED BY <1>1 DEF Made

LEMMA MadeOneMore ==
  ASSUME InSequence, NextId \in Ids,
         \A i \in Ids \ {NextId} : run'[i] = run[i], run'[NextId].status # "none"
  PROVE  InSequence'
<1>1. DEFINE n == Cardinality(Made)
<1>2. n \in Nat /\ NextId = n + 1 BY MadeIsFinite DEF NextId
<1>3. Made' = Made \cup {NextId} BY DEF Made
<1>4. Made' = 1 .. (n + 1) BY <1>2, <1>3 DEF InSequence
<1>5. Cardinality(1 .. (n + 1)) = n + 1 BY <1>2, FS_Interval
<1>6. QED BY <1>4, <1>5 DEF InSequence

LEMMA AtMostOne ==
  ASSUME NEW S, \A i, j \in S : i = j
  PROVE  Cardinality(S) <= 1
<1>1. CASE S = {} BY <1>1, FS_EmptySet
<1>2. CASE S # {}
  <2>1. PICK x \in S : TRUE BY <1>2
  <2>2. S = {x} BY <2>1
  <2>3. QED BY <2>2, FS_Singleton
<1>3. QED BY <1>1, <1>2

(* The runs made in one pass have ids in sequence.                         *)
LEMMA RanksAreOnto ==
  ASSUME NEW S \in SUBSET Nat, IsFiniteSet(S)
  PROVE  /\ \A r \in S : Cardinality({q \in S : q < r}) \in 0 .. Cardinality(S) - 1
         /\ \A k \in 0 .. Cardinality(S) - 1 : \E r \in S : Cardinality({q \in S : q < r}) = k
<1> DEFINE below(r) == {q \in S : q < r}
           T == 0 .. Cardinality(S) - 1
           rank == [r \in S |-> Cardinality(below(r))]
<1>1. \A r \in S : IsFiniteSet(below(r)) /\ Cardinality(below(r)) \in Nat
  <2>1. \A r \in S : below(r) \in SUBSET S OBVIOUS
  <2>2. QED BY <2>1, FS_Subset, FS_CardinalityType
<1>2. Cardinality(S) \in Nat BY FS_CardinalityType
<1>3. \A q, r \in S : q < r => Cardinality(below(q)) < Cardinality(below(r))
  <2>1. SUFFICES ASSUME NEW q \in S, NEW r \in S, q < r
                 PROVE Cardinality(below(q)) < Cardinality(below(r))
    OBVIOUS
  <2>2. below(q) \in SUBSET below(r) /\ q \in below(r) /\ q \notin below(q)
    <3>1. q \in Nat /\ r \in Nat OBVIOUS
    <3>2. q \in below(r) /\ q \notin below(q) BY <3>1, <2>1
    <3>3. \A x \in below(q) : x \in below(r) BY <3>1, <2>1
    <3>4. QED BY <3>2, <3>3
  <2>3. /\ Cardinality(below(q)) <= Cardinality(below(r))
        /\ Cardinality(below(q)) = Cardinality(below(r)) => below(q) = below(r)
    BY <1>1, <2>2, FS_Subset
  <2>4. Cardinality(below(q)) \in Nat /\ Cardinality(below(r)) \in Nat BY <1>1
  <2>5. QED BY <2>2, <2>3, <2>4
<1>4. \A r \in S : Cardinality(below(r)) \in T
  <2>1. SUFFICES ASSUME NEW r \in S PROVE Cardinality(below(r)) < Cardinality(S) BY <1>1, <1>2
  <2>2. below(r) \in SUBSET S /\ r \notin below(r) OBVIOUS
  <2>3. /\ Cardinality(below(r)) <= Cardinality(S)
        /\ Cardinality(below(r)) = Cardinality(S) => below(r) = S
    BY <2>2, FS_Subset
  <2>4. QED BY <1>1, <1>2, <2>2, <2>3
<1>5. rank \in Injection(S, T)
  <2>1. rank \in [S -> T] BY <1>4
  <2>2. \A q, r \in S : rank[q] = rank[r] => q = r
    <3>1. SUFFICES ASSUME NEW q \in S, NEW r \in S, rank[q] = rank[r], q # r PROVE FALSE OBVIOUS
    <3>2. q < r \/ r < q BY <3>1
    <3>3. Cardinality(below(q)) = Cardinality(below(r)) BY <3>1
    <3>4. QED BY <1>1, <1>3, <3>2, <3>3
  <2>3. QED BY <2>1, <2>2 DEF Injection, IsInjective
<1>6. IsFiniteSet(T) /\ Cardinality(T) = Cardinality(S)
  <2>1. 0 \in Int /\ Cardinality(S) - 1 \in Int BY <1>2
  <2>2. /\ IsFiniteSet(T)
        /\ Cardinality(T) = IF 0 > Cardinality(S) - 1 THEN 0 ELSE (Cardinality(S) - 1) - 0 + 1
    BY <2>1, FS_Interval
  <2>3. QED BY <1>2, <2>2
<1>7. rank \in Surjection(S, T) BY <1>5, <1>6, FS_Injection
<1>8. \A k \in T : \E r \in S : rank[r] = k BY <1>7 DEF Surjection
<1>9. QED BY <1>4, <1>8

-----------------------------------------------------------------------------
(* The pass that makes the runs of the routines that are due.              *)

LEMMA PlanKeeps ==
  ASSUME RunInv, NEW late \in SUBSET Routines, Plan(late)
  PROVE  Keeps
<1> DEFINE found  == tick.due \cap enabled
           makers == {r \in found : MakesRun(r)}
           below(r) == {q \in makers : q < r}
           id(r)  == NextId + Cardinality(below(r))
           New(i) == {r \in makers : id(r) = i}
           n == Cardinality(Made)
           c == Cardinality(makers)
<1>1. TypeOK /\ DueIsFinite /\ InSequence /\ NoOrphanTurn BY DEF RunInv
<1>2. makers \in SUBSET Nat /\ makers \in SUBSET Routines /\ IsFiniteSet(makers)
  <2>1. makers \in SUBSET due BY <1>1 DEF DueIsFinite
  <2>2. makers \in SUBSET Routines BY <1>1 DEF TypeOK
  <2>3. makers \in SUBSET Nat BY <2>2, KindsAssumption
  <2>4. IsFiniteSet(makers) BY <1>1, <2>1, FS_Subset DEF DueIsFinite
  <2>5. QED BY <2>2, <2>3, <2>4
<1>3. c \in Nat BY <1>2, FS_CardinalityType
<1>4. n \in Nat /\ NextId = n + 1 BY MadeIsFinite DEF NextId
<1>5. /\ \A r \in makers : Cardinality(below(r)) \in 0 .. c - 1
      /\ \A k \in 0 .. c - 1 : \E r \in makers : Cardinality(below(r)) = k
  BY <1>2, RanksAreOnto
<1>6. \A i \in Ids : New(i) # {} <=> i \in NextId .. n + c
  <2>1. ASSUME NEW i \in Ids, New(i) # {} PROVE i \in NextId .. n + c
    <3>1. PICK r \in makers : i = id(r) BY <2>1
    <3>2. Cardinality(below(r)) \in 0 .. c - 1 BY <1>5
    <3>3. i = NextId + Cardinality(below(r)) BY <3>1
    <3> HIDE DEF n, c, below
    <3>4. QED BY <1>3, <1>4, <3>2, <3>3
  <2>2. ASSUME NEW i \in Ids, i \in NextId .. n + c PROVE New(i) # {}
    <3>1. i - NextId \in 0 .. c - 1 BY <1>3, <1>4, <2>2
    <3>2. PICK r \in makers : Cardinality(below(r)) = i - NextId BY <1>5, <3>1
    <3>3. id(r) = i BY <1>4, <2>2, <3>2
    <3>4. QED BY <3>3
  <2>3. QED BY <2>1, <2>2
<1>7. \A i \in Ids : New(i) # {} => run[i].status = "none"
  <2> HIDE DEF n, c, New
  <2>1. \A i \in Ids : New(i) # {} => i >= NextId BY <1>3, <1>4, <1>6 DEF Ids
  <2>2. QED BY <1>1, <2>1, NextIsNew
<1>8. \A i \in Ids :
        /\ New(i) = {} => run'[i] = run[i]
        /\ New(i) # {} => /\ run'[i].of \in New(i) /\ run'[i].by = "schedule"
                          /\ run'[i].status \in {"missed", "queued"}
                          /\ run'[i].limit \in BOOLEAN
                          /\ run'[i] = [status |-> run'[i].status, of |-> run'[i].of, by |-> "schedule",
                                       limit |-> run'[i].limit]
  <2>1. run' = [i \in Ids |->
                   IF New(i) = {} THEN run[i]
                   ELSE [status |-> IF New(i) \subseteq late THEN "missed" ELSE "queued",
                         of |-> CHOOSE r \in New(i) : TRUE, by |-> "schedule",
                         limit |-> New(i) \subseteq Is("limit")]]
    BY DEF Plan
  <2>2. ASSUME NEW i \in Ids, New(i) # {} PROVE (CHOOSE r \in New(i) : TRUE) \in New(i)
    BY <2>2
  <2> HIDE DEF New
  <2>3. QED BY <2>1, <2>2
<1>9. /\ DOMAIN run' = Ids
      /\ run' = [i \in Ids |-> run'[i]]
  BY DEF Plan
<1>10. /\ UNCHANGED <<kind, removed, receipt, turn, out, taken, botGone, handouts, others, crashes>>
       /\ due' = due \ found /\ enabled' = enabled \ (found \cap Is("once"))
       /\ tick' = [NoTick EXCEPT !.phase = "dispatching",
                                 !.todo = {i \in Ids : run'[i].status = "queued"}]
  BY DEF Plan
<1>10a. \A i \in Ids : \A r \in New(i) : r \in makers /\ id(r) = i OBVIOUS
<1> HIDE DEF id, below, n, c, New
<1>11. TypeOK'
  <2>1. \A i \in Ids : run'[i] \in RunType
    <3>1. \A i \in Ids : New(i) = {} => run'[i] \in RunType BY <1>1, <1>8, RunsAreTyped
    <3>2. ASSUME NEW i \in Ids, New(i) # {} PROVE run'[i] \in RunType
      <4>1. run'[i].of \in Routines BY <1>2, <1>8, <1>10a, <3>2
      <4>2. run'[i].status \in Waits \cup Over BY <1>8, <3>2 DEF Waits, Over
      <4>3. /\ run'[i].limit \in BOOLEAN
            /\ run'[i] = [status |-> run'[i].status, of |-> run'[i].of, by |-> "schedule",
                         limit |-> run'[i].limit]
        BY <1>8, <3>2
      <4>4. QED BY <4>1, <4>2, <4>3 DEF RunType
    <3>3. QED BY <3>1, <3>2
  <2>2. run' \in [Ids -> RunType] BY <1>9, <2>1
  <2>3. tick' \in [phase : {"idle", "limits", "awaiting", "dispatching"},
                   over : SUBSET Ids, due : SUBSET Routines, todo : SUBSET Ids]
    BY <1>10 DEF NoTick
  <2>4. QED BY <1>1, <1>10, <2>2, <2>3 DEF TypeOK, RunType
<1>12. DueIsFinite'
  <2>1. due' \in SUBSET due /\ tick'.due = {} BY <1>10 DEF NoTick
  <2>2. QED BY <1>1, <2>1, FS_Subset DEF DueIsFinite
<1>13. InSequence'
  <2>1. Made = 1 .. n BY <1>1 DEF InSequence, n
  <2>2. \A i \in Ids : run'[i].status # "none" <=> i \in Made \/ New(i) # {}
    BY <1>7, <1>8 DEF Made
  <2>3. Made' = {i \in Ids : i \in 1 .. n \/ i \in NextId .. n + c}
    BY <1>6, <2>1, <2>2 DEF Made
  <2>4. DEFINE k == IF n + c <= MaxRuns THEN n + c ELSE MaxRuns
  <2>5. k \in Nat BY <1>3, <1>4, Bounds
  <2>6. Made' = 1 .. k BY <1>3, <1>4, <2>3, Bounds DEF Ids
  <2>7. Cardinality(1 .. k) = k BY <2>5, FS_Interval
  <2>8. QED BY <2>6, <2>7 DEF InSequence
<1>14. \A i \in Ids : /\ New(i) = {} => Pending(i)' = Pending(i) /\ Working(i)' = Working(i)
                                        /\ Scheduled(i)' = Scheduled(i)
                      /\ New(i) # {} => ~Working(i)' /\ ~Working(i)
  BY <1>7, <1>8 DEF Pending, Working, Scheduled
<1>15. NoOrphanTurn' BY <1>1, <1>10, <1>14 DEF NoOrphanTurn
<1>16. \A i, j \in Ids : New(i) # {} /\ New(j) # {} /\ run'[i].of = run'[j].of => i = j
  BY <1>8, <1>10a
<1>17. ASSUME NEW r \in Routines PROVE LineHeld(r)
  <2>1. SUFFICES ASSUME r \notin Is("once"), ~(Line(r)' \subseteq Line(r))
                 PROVE  Cardinality(Line(r)') <= 1
    BY DEF LineHeld
  <2>2. \A i \in Line(r)' : i \in Ids /\ run'[i].of = r /\ run'[i].by = "schedule" /\ run'[i].status = "queued"
    BY DEF Line, Of, Scheduled
  <2>3. \A i \in Line(r)' : New(i) = {} => i \in Line(r)
    BY <1>8, <2>2 DEF Line, Of, Scheduled
  <2>4. PICK j \in Line(r)' : New(j) # {} BY <2>1, <2>3
  <2>5. r \in makers /\ MakesRun(r)
    <3>1. j \in Ids /\ run'[j].of = r BY <2>2
    <3>2. r \in New(j) BY <1>8, <2>4, <3>1
    <3>3. r \in makers BY <1>10a, <3>1, <3>2
    <3>4. QED BY <3>3
  <2>6. Line(r) = {}
    <3>1. ASSUME NEW i \in Line(r) PROVE FALSE
      <4>1. i \in Of(r) /\ Scheduled(i) /\ run[i].status = "queued" BY DEF Line
      <4>2. Pending(i) /\ i \in QueuedOf(r) BY <4>1 DEF Pending, Waits, QueuedOf
      <4>3. QED BY <2>1, <2>5, <4>1, <4>2 DEF MakesRun, Overlapping, ScheduledQueued
    <3>2. QED BY <3>1
  <2>7. \A i, k \in Line(r)' : i = k BY <1>16, <2>2, <2>3, <2>6
  <2>8. QED BY <2>7, AtMostOne
<1>18. OneAtWork'
  <2>1. \A i \in Ids : Working(i)' => New(i) = {} BY <1>14
  <2>2. QED BY <1>8, <1>14, <2>1 DEF RunInv, OneAtWork, Same
<1>19. OnePending'
  <2>1. \A i \in Ids : run'[i].of \in Deliveries => New(i) = {}
    BY <1>2, <1>8, <1>10a, DeliveriesAssumption
  <2>2. QED BY <1>8, <1>14, <2>1 DEF RunInv, OnePending, Same
<1>20. \A i \in Ids : GoesForward(i) BY <1>7, <1>8 DEF GoesForward, Over
<1>21. QED BY <1>11, <1>12, <1>13, <1>15, <1>17, <1>18, <1>19, <1>20 DEF RunInv, Keeps

-----------------------------------------------------------------------------
(* What the operators on runs and turns return.                            *)

LEMMA NowReturns ==
  ASSUME TypeOK, NEW i \in Ids, NEW s \in Waits \cup Over
  PROVE  /\ Now(i, s) \in [Ids -> RunType]
         /\ \A j \in Ids : /\ Now(i, s)[j].of = run[j].of /\ Now(i, s)[j].by = run[j].by
                           /\ Now(i, s)[j].status = IF j = i THEN s ELSE run[j].status
BY DEF TypeOK, RunType, Now

LEMMA CancelledReturns ==
  ASSUME TypeOK, NEW S \in SUBSET Ids
  PROVE  /\ Cancelled(S) \in [Ids -> RunType]
         /\ \A j \in Ids : /\ Cancelled(S)[j].of = run[j].of /\ Cancelled(S)[j].by = run[j].by
                           /\ Cancelled(S)[j].status = IF j \in S THEN "cancelled" ELSE run[j].status
BY DEF TypeOK, RunType, Cancelled, Over

LEMMA TurnsReturn ==
  ASSUME TypeOK, NEW S \in SUBSET Ids
  PROVE  /\ Interrupted(S) \in [Ids -> {"none", "setup", "working", "asking", "stopping"}]
         /\ \A j \in Ids : Interrupted(S)[j] = IF j \in S /\ turn[j] # "none" THEN "stopping" ELSE turn[j]
         /\ Dropped(S) \in [Ids -> {"none", "queued", "away", "parked"}]
BY DEF TypeOK, Interrupted, Dropped

LEMMA DueKeeps ==
  ASSUME DueIsFinite, due' \subseteq due, tick'.due \subseteq due'
  PROVE  DueIsFinite'
BY FS_Subset DEF DueIsFinite

LEMMA CalmKeeps ==
  ASSUME RunInv, TypeOK', DueIsFinite', NoOrphanTurn', \A i \in Ids : Moves(i)
  PROVE  Keeps
BY MovesKeep DEF RunInv, Keeps

(* A step that moves no run. *)
LEMMA StillKeeps ==
  ASSUME RunInv, TypeOK', DueIsFinite', run' = run,
         \A i \in Ids : \/ turn'[i] = turn[i]
                        \/ turn'[i] \in {"setup", "working", "asking"} => Working(i)
  PROVE  Keeps
<1>1. \A i \in Ids : Moves(i) BY DEF Moves
<1>2. \A i \in Ids : Working(i)' = Working(i) BY DEF Working
<1>3. NoOrphanTurn' BY <1>2 DEF RunInv, NoOrphanTurn
<1>4. QED BY <1>1, <1>3, CalmKeeps

-----------------------------------------------------------------------------
(* Definitions, and the clock.                                             *)

LEMMA ComesDueKeeps ==
  ASSUME RunInv, NEW r \in Routines, ComesDue(r)
  PROVE  Keeps
<1>1. TypeOK' BY DEF RunInv, TypeOK, ComesDue
<1>2. DueIsFinite' BY FS_AddElement DEF RunInv, DueIsFinite, ComesDue
<1>3. QED BY <1>1, <1>2, StillKeeps DEF ComesDue

LEMMA NotDueReturns ==
  ASSUME RunInv, NEW r \in Routines, NotDue(r)
  PROVE  /\ due' \subseteq Routines /\ DueIsFinite'
         /\ tick' \in [phase : {"idle", "limits", "awaiting", "dispatching"},
                       over : SUBSET Ids, due : SUBSET Routines, todo : SUBSET Ids]
<1>1. tick'.due = tick.due \ {r} BY DEF RunInv, TypeOK, NotDue
<1>2. tick'.due \subseteq due' /\ due' \subseteq due BY <1>1 DEF RunInv, DueIsFinite, NotDue
<1>3. DueIsFinite' BY <1>2, DueKeeps DEF RunInv
<1>4. QED BY <1>3 DEF RunInv, TypeOK, NotDue

LEMMA LongDueReturns ==
  ASSUME RunInv, NEW r \in Routines, LongDue(r)
  PROVE  /\ due' \subseteq Routines /\ DueIsFinite'
         /\ tick' \in [phase : {"idle", "limits", "awaiting", "dispatching"},
                       over : SUBSET Ids, due : SUBSET Routines, todo : SUBSET Ids]
<1>1. tick'.due \subseteq tick.due \cup {r} BY DEF RunInv, TypeOK, LongDue
<1>2. tick'.due \subseteq due' BY <1>1 DEF RunInv, DueIsFinite, LongDue
<1>3. IsFiniteSet(due') BY FS_AddElement DEF RunInv, DueIsFinite, LongDue
<1>4. QED BY <1>2, <1>3 DEF RunInv, TypeOK, LongDue, DueIsFinite

LEMMA DefineReturns ==
  ASSUME RunInv, NEW r \in Routines, NEW k \in Kinds, Define(r, k)
  PROVE  kind' \in [Routines -> Kinds]
BY DEF RunInv, TypeOK, Define

LEMMA SetScheduleKeeps ==
  ASSUME RunInv, NEW r \in Routines, NEW k \in Kinds, SetSchedule(r, k)
  PROVE  Keeps
<1>1. NotDue(r) \/ LongDue(r) BY DEF SetSchedule
<1>2. /\ due' \subseteq Routines /\ DueIsFinite'
      /\ tick' \in [phase : {"idle", "limits", "awaiting", "dispatching"},
                    over : SUBSET Ids, due : SUBSET Routines, todo : SUBSET Ids]
  BY <1>1, NotDueReturns, LongDueReturns
<1>3. kind' \in [Routines -> Kinds] BY DefineReturns DEF SetSchedule
<1>4. TypeOK' BY <1>2, <1>3 DEF RunInv, TypeOK, SetSchedule
<1>5. QED BY <1>2, <1>4, StillKeeps DEF SetSchedule

LEMMA EditDefinitionKeeps ==
  ASSUME RunInv, NEW r \in Routines, NEW k \in Kinds, EditDefinition(r, k)
  PROVE  Keeps
<1>1. kind' \in [Routines -> Kinds] BY DefineReturns DEF EditDefinition
<1>2. TypeOK' BY <1>1 DEF RunInv, TypeOK, EditDefinition
<1>3. DueIsFinite' BY DEF RunInv, DueIsFinite, EditDefinition
<1>4. QED BY <1>2, <1>3, StillKeeps DEF EditDefinition

(* Queued runs are cancelled. *)
LEMMA QueueCancelled ==
  ASSUME RunInv, TypeOK', DueIsFinite', turn' = turn,
         NEW S \in SUBSET {i \in Ids : run[i].status = "queued"}, run' = Cancelled(S)
  PROVE  Keeps
<1>1. TypeOK BY DEF RunInv
<1>2. \A j \in Ids : /\ run'[j].of = run[j].of /\ run'[j].by = run[j].by
                     /\ run'[j].status = IF j \in S THEN "cancelled" ELSE run[j].status
  BY <1>1, CancelledReturns
<1>3. \A i \in Ids : Moves(i) BY <1>2 DEF Moves, Pending, Waits, Over
<1>4. \A i \in Ids : Working(i)' = Working(i) BY <1>2 DEF Working
<1>5. NoOrphanTurn' BY <1>4 DEF RunInv, NoOrphanTurn
<1>6. QED BY <1>3, <1>5, CalmKeeps

LEMMA PauseKeeps ==
  ASSUME RunInv, NEW r \in Routines, NEW k \in Kinds, Pause(r, k)
  PROVE  Keeps
<1>1. NotDue(r) BY DEF Pause
<1>2. QueuedOf(r) \in SUBSET {i \in Ids : run[i].status = "queued"} BY DEF QueuedOf, Of
<1>3. run' \in [Ids -> RunType] BY <1>2, CancelledReturns DEF RunInv, Pause
<1>3a. kind' \in [Routines -> Kinds] BY DefineReturns DEF Pause
<1>4. TypeOK' BY <1>1, <1>3, <1>3a, NotDueReturns DEF RunInv, TypeOK, Pause, RunType
<1>5. QED BY <1>1, <1>2, <1>4, NotDueReturns, QueueCancelled DEF Pause

LEMMA RemoveKeeps ==
  ASSUME RunInv, NEW r \in Routines, Remove(r)
  PROVE  Keeps
<1>1. NotDue(r) BY DEF Remove
<1>2. QueuedOf(r) \in SUBSET {i \in Ids : run[i].status = "queued"} BY DEF QueuedOf, Of
<1>3. run' \in [Ids -> RunType] BY <1>2, CancelledReturns DEF RunInv, Remove
<1>4. TypeOK' BY <1>1, <1>3, NotDueReturns DEF RunInv, TypeOK, Remove, RunType
<1>5. QED BY <1>1, <1>2, <1>4, NotDueReturns, QueueCancelled DEF Remove

(* Runs that are not over are cancelled, and their turns are stopped. *)
LEMMA StoppedKeeps ==
  ASSUME RunInv, TypeOK', DueIsFinite', NEW S \in SUBSET {i \in Ids : Pending(i)},
         run' = Cancelled(S), turn' = Interrupted(S)
  PROVE  Keeps
<1>1. TypeOK BY DEF RunInv
<1>2. \A j \in Ids : /\ run'[j].of = run[j].of /\ run'[j].by = run[j].by
                     /\ run'[j].status = IF j \in S THEN "cancelled" ELSE run[j].status
  BY <1>1, CancelledReturns
<1>3. \A j \in Ids : turn'[j] = IF j \in S /\ turn[j] # "none" THEN "stopping" ELSE turn[j]
  BY <1>1, TurnsReturn
<1>4. \A i \in Ids : Moves(i) BY <1>2 DEF Moves, Over
<1>5. \A i \in Ids : i \notin S => Working(i)' = Working(i) BY <1>2 DEF Working
<1>6. NoOrphanTurn' BY <1>3, <1>5 DEF RunInv, NoOrphanTurn
<1>7. QED BY <1>4, <1>6, CalmKeeps

LEMMA DisableForBotKeeps ==
  ASSUME RunInv, DisableForBot
  PROVE  Keeps
<1> DEFINE all == {i \in Ids : Pending(i)}
<1>1. all \in SUBSET Ids OBVIOUS
<1>2. run' = Cancelled(all) /\ turn' = Interrupted(all) /\ out' = Dropped(all) BY DEF DisableForBot
<1>3. /\ run' \in [Ids -> RunType]
      /\ turn' \in [Ids -> {"none", "setup", "working", "asking", "stopping"}]
      /\ out' \in [Ids -> {"none", "queued", "away", "parked"}]
  BY <1>1, <1>2, CancelledReturns, TurnsReturn DEF RunInv
<1>4. TypeOK' BY <1>3 DEF RunInv, TypeOK, DisableForBot, RunType
<1>5. due' = {} /\ tick'.due = {} BY DEF RunInv, TypeOK, DisableForBot
<1>6. DueIsFinite' BY <1>5, FS_EmptySet DEF DueIsFinite
<1>7. QED BY <1>2, <1>4, <1>6, StoppedKeeps DEF DisableForBot

-----------------------------------------------------------------------------
(* Requests.                                                               *)

(* A run is made at the head of the ids, and waits in the queue. *)
LEMMA OneMadeKeeps ==
  ASSUME RunInv, TypeOK', DueIsFinite', turn' = turn, Room,
         NEW o, NEW b \in {"manual", "webhook"}, NEW m,
         run' = [run EXCEPT ![NextId] = [status |-> "queued", of |-> o, by |-> b, limit |-> m]],
         o \in Deliveries => \A i \in Ids : run[i].of = o => ~Pending(i)
  PROVE  Keeps
<1>1. PICK k \in Ids : k = NextId BY RoomForOne DEF RunInv
<1>2. run[k].status = "none" BY <1>1, NextIsNew DEF RunInv, Ids
<1>3. /\ \A i \in Ids \ {k} : run'[i] = run[i]
      /\ run'[k] = [status |-> "queued", of |-> o, by |-> b, limit |-> m]
  BY <1>1 DEF RunInv, TypeOK
<1>4. InSequence' BY <1>1, <1>3, MadeOneMore DEF RunInv
<1>5. \A i \in Ids \ {k} : /\ Pending(i)' = Pending(i) /\ Working(i)' = Working(i)
                                /\ Scheduled(i)' = Scheduled(i)
  BY <1>3 DEF Pending, Working, Scheduled
<1>6. ~Working(k)' /\ ~Scheduled(k)' /\ ~Working(k)
  BY <1>2, <1>3 DEF Working, Scheduled
<1>7. NoOrphanTurn' BY <1>5, <1>6 DEF RunInv, NoOrphanTurn
<1>8. ASSUME NEW r \in Routines PROVE LineHeld(r)
  <2>1. \A i \in Ids : Scheduled(i)' => i # k /\ Scheduled(i) BY <1>5, <1>6
  <2>2. Line(r)' \subseteq Line(r) BY <1>3, <2>1 DEF Line, Of
  <2>3. QED BY <2>2 DEF LineHeld
<1>9. OneAtWork'
  <2>1. \A i \in Ids : Working(i)' /\ Scheduled(i)' => i # k /\ Working(i) /\ Scheduled(i) BY <1>5, <1>6
  <2>2. QED BY <1>3, <2>1 DEF RunInv, OneAtWork, Same
<1>10. OnePending'
  <2>1. \A i \in Ids \ {k} : run'[i].of \in Deliveries /\ Pending(i)' => run'[i].of # o
    BY <1>3, <1>5
  <2>2. run'[k].of = o BY <1>3
  <2>3. QED BY <1>3, <1>5, <2>1, <2>2 DEF RunInv, OnePending, Same
<1>11. \A i \in Ids : GoesForward(i) BY <1>2, <1>3 DEF GoesForward, Over
<1>12. QED BY <1>4, <1>7, <1>8, <1>9, <1>10, <1>11 DEF RunInv, Keeps

LEMMA RunNowKeeps ==
  ASSUME RunInv, NEW r \in Routines, RunNow(r)
  PROVE  Keeps
<1>1. NextId \in Ids BY RoomForOne DEF RunInv, RunNow
<1>2. TypeOK' BY <1>1 DEF RunInv, TypeOK, RunNow, Waits
<1>3. DueIsFinite' BY DEF RunInv, DueIsFinite, RunNow
<1>4. QED BY <1>2, <1>3, DeliveriesAssumption, OneMadeKeeps DEF RunNow

LEMMA EnqueueWebhookKeeps ==
  ASSUME RunInv, NEW d \in Deliveries, EnqueueWebhook(d)
  PROVE  Keeps
<1>1. NextId \in Ids BY RoomForOne DEF RunInv, EnqueueWebhook
<1>2. NextId \in 0 .. MaxRuns BY <1>1, Bounds DEF Ids
<1>3. TypeOK' BY <1>1, <1>2 DEF RunInv, TypeOK, EnqueueWebhook, Waits
<1>4. DueIsFinite' BY DEF RunInv, DueIsFinite, EnqueueWebhook
<1>5. QED BY <1>3, <1>4, OneMadeKeeps DEF EnqueueWebhook

LEMMA ReceiptExpiresKeeps ==
  ASSUME RunInv, NEW d \in Deliveries, ReceiptExpires(d)
  PROVE  Keeps
<1>1. TypeOK' BY Bounds DEF RunInv, TypeOK, ReceiptExpires
<1>2. DueIsFinite' BY DEF RunInv, DueIsFinite, ReceiptExpires
<1>3. QED BY <1>1, <1>2, StillKeeps DEF ReceiptExpires

LEMMA CancelQueuedWebhookKeeps ==
  ASSUME RunInv, CancelQueuedWebhook
  PROVE  Keeps
<1> DEFINE S == {i \in Ids : run[i].by = "webhook" /\ run[i].status = "queued"}
<1>1. S \in SUBSET {i \in Ids : run[i].status = "queued"} /\ run' = Cancelled(S)
  BY DEF CancelQueuedWebhook
<1>2. run' \in [Ids -> RunType] BY <1>1, CancelledReturns DEF RunInv
<1>3. TypeOK' BY <1>2 DEF RunInv, TypeOK, CancelQueuedWebhook, RunType
<1>4. DueIsFinite' BY DEF RunInv, DueIsFinite, CancelQueuedWebhook
<1>5. QED BY <1>1, <1>3, <1>4, QueueCancelled DEF CancelQueuedWebhook

LEMMA CancelRunKeeps ==
  ASSUME RunInv, NEW i \in Ids, CancelRun(i)
  PROVE  Keeps
<1>1. run' = Cancelled({i}) /\ {i} \in SUBSET Ids BY DEF CancelRun
<1>2. run' \in [Ids -> RunType] BY <1>1, CancelledReturns DEF RunInv
<1>3. DueIsFinite' BY DEF RunInv, DueIsFinite, CancelRun
<1>4. CASE run[i].status = "queued"
  <2>1. TypeOK' BY <1>2, <1>4 DEF RunInv, TypeOK, CancelRun, RunType
  <2>2. QED BY <1>1, <1>3, <1>4, <2>1, QueueCancelled DEF CancelRun
<1>5. CASE run[i].status # "queued"
  <2>1. turn' = Interrupted({i}) /\ out' = Dropped({i}) BY <1>5 DEF CancelRun
  <2>2. /\ turn' \in [Ids -> {"none", "setup", "working", "asking", "stopping"}]
        /\ out' \in [Ids -> {"none", "queued", "away", "parked"}]
    BY <1>1, <2>1, TurnsReturn DEF RunInv
  <2>3. TypeOK' BY <1>2, <2>2 DEF RunInv, TypeOK, CancelRun, RunType
  <2>4. QED BY <1>1, <1>3, <2>1, <2>3, StoppedKeeps DEF CancelRun
<1>6. QED BY <1>4, <1>5

-----------------------------------------------------------------------------
(* A tick.                                                                 *)

TickType == [phase : {"idle", "limits", "awaiting", "dispatching"},
             over : SUBSET Ids, due : SUBSET Routines, todo : SUBSET Ids]

LEMMA TickBeginKeeps ==
  ASSUME RunInv, NEW S \in SUBSET Ids, TickBegin(S)
  PROVE  Keeps
<1>1. TypeOK' BY DEF RunInv, TypeOK, TickBegin
<1>2. tick'.due = due /\ due' = due BY DEF TickBegin
<1>3. DueIsFinite' BY <1>2 DEF RunInv, DueIsFinite
<1>4. QED BY <1>1, <1>3, StillKeeps DEF TickBegin

(* One run moves on, or ends; its turn goes on only while the run does. *)
LEMMA OneMoves ==
  ASSUME RunInv, TypeOK', DueIsFinite', NEW i \in Ids, NEW s \in Waits \cup Over,
         run' = Now(i, s),
         (s \in Over /\ Pending(i)) \/ (s \in {"running", "waiting"} /\ Working(i)),
         turn'[i] \in {"setup", "working", "asking"} => s \in {"running", "waiting"},
         \A j \in Ids \ {i} : turn'[j] = turn[j]
  PROVE  Keeps
<1>1. TypeOK BY DEF RunInv
<1>2. \A j \in Ids : /\ run'[j].of = run[j].of /\ run'[j].by = run[j].by
                     /\ run'[j].status = IF j = i THEN s ELSE run[j].status
  BY <1>1, NowReturns
<1>3. \A j \in Ids : Moves(j) BY <1>2 DEF Moves
<1>4. \A j \in Ids \ {i} : Working(j)' = Working(j) BY <1>2 DEF Working
<1>5. Working(i)' <=> s \in {"running", "waiting"} BY <1>2 DEF Working
<1>6. NoOrphanTurn' BY <1>4, <1>5 DEF RunInv, NoOrphanTurn
<1>7. QED BY <1>3, <1>6, CalmKeeps

(* One run ends. *)
LEMMA OneEnds ==
  ASSUME RunInv, TypeOK', DueIsFinite', NEW i \in Ids, NEW s \in Over,
         run' = Now(i, s), Pending(i), turn'[i] \notin {"setup", "working", "asking"},
         \A j \in Ids \ {i} : turn'[j] = turn[j]
  PROVE  Keeps
<1>1. s \in Waits \cup Over OBVIOUS
<1>2. (s \in Over /\ Pending(i)) \/ (s \in {"running", "waiting"} /\ Working(i)) OBVIOUS
<1>3. turn'[i] \in {"setup", "working", "asking"} => s \in {"running", "waiting"} OBVIOUS
<1>4. QED BY <1>1, <1>2, <1>3, OneMoves

LEMMA StopOverlongKeeps ==
  ASSUME RunInv, NEW i \in Ids, StopOverlong(i)
  PROVE  Keeps
<1>1. tick' \in TickType /\ tick'.due = tick.due
  <2>1. tick \in TickType BY DEF RunInv, TypeOK, TickType
  <2>2. \/ tick' = [tick EXCEPT !.over = @ \ {i}, !.phase = "awaiting"]
        \/ tick' = [tick EXCEPT !.over = @ \ {i}]
    BY DEF StopOverlong
  <2>3. QED BY <2>1, <2>2 DEF TickType
<1>2. DueIsFinite' BY <1>1 DEF RunInv, DueIsFinite, StopOverlong
<1>3. CASE Working(i)
  <2>1. run' = Now(i, "failed") /\ out' = Dropped({i}) /\ turn' = Interrupted({i})
    BY <1>3 DEF StopOverlong, Fail
  <2>2. /\ run' \in [Ids -> RunType]
        /\ turn' \in [Ids -> {"none", "setup", "working", "asking", "stopping"}]
        /\ out' \in [Ids -> {"none", "queued", "away", "parked"}]
        /\ \A j \in Ids : turn'[j] = IF j \in {i} /\ turn[j] # "none" THEN "stopping" ELSE turn[j]
    BY <2>1, NowReturns, TurnsReturn DEF RunInv, Over
  <2>3. TypeOK' BY <1>1, <2>2 DEF RunInv, TypeOK, StopOverlong, RunType, TickType
  <2>4. Pending(i) BY <1>3 DEF Pending, Working, Waits
  <2>5. turn'[i] \notin {"setup", "working", "asking"} BY <2>2 DEF RunInv, TypeOK
  <2>6. \A j \in Ids \ {i} : turn'[j] = turn[j] BY <2>2
  <2>7. "failed" \in Over BY DEF Over
  <2>8. QED BY <1>2, <2>1, <2>3, <2>4, <2>5, <2>6, <2>7, OneEnds
<1>4. CASE ~Working(i)
  <2>1. TypeOK' BY <1>1, <1>4 DEF RunInv, TypeOK, StopOverlong, TickType
  <2>2. QED BY <1>2, <1>4, <2>1, StillKeeps DEF StopOverlong
<1>5. QED BY <1>3, <1>4

LEMMA InterruptReturnsKeeps ==
  ASSUME RunInv, InterruptReturns
  PROVE  Keeps
<1>1. tick' \in TickType /\ tick'.due = tick.due BY DEF RunInv, TypeOK, InterruptReturns, TickType
<1>2. TypeOK' BY <1>1 DEF RunInv, TypeOK, InterruptReturns, TickType
<1>3. DueIsFinite' BY <1>1 DEF RunInv, DueIsFinite, InterruptReturns
<1>4. QED BY <1>2, <1>3, StillKeeps DEF InterruptReturns

LEMMA AtReturns ==
  ASSUME RunInv, NEW i \in Ids, At(i), due' = due
  PROVE  tick' \in TickType /\ DueIsFinite'
<1>1. tick' \in TickType /\ tick'.due = tick.due BY DEF RunInv, TypeOK, At, TickType
<1>2. DueIsFinite' BY <1>1 DEF RunInv, DueIsFinite
<1>3. QED BY <1>1, <1>2

LEMMA PassOverKeeps ==
  ASSUME RunInv, NEW i \in Ids, PassOver(i)
  PROVE  Keeps
<1>1. tick' \in TickType /\ DueIsFinite' BY AtReturns DEF PassOver
<1>2. TypeOK' BY <1>1 DEF RunInv, TypeOK, PassOver, TickType
<1>3. QED BY <1>1, <1>2, StillKeeps DEF PassOver

LEMMA MissKeeps ==
  ASSUME RunInv, NEW i \in Ids, Miss(i)
  PROVE  Keeps
<1>1. tick' \in TickType /\ DueIsFinite' BY AtReturns DEF Miss
<1>2. run' = Now(i, "missed") /\ run[i].status = "queued" BY DEF Miss
<1>3. run' \in [Ids -> RunType] BY <1>2, NowReturns DEF RunInv, Over
<1>4. TypeOK' BY <1>1, <1>3 DEF RunInv, TypeOK, Miss, RunType, TickType
<1>5. Pending(i) /\ ~Working(i) BY <1>2 DEF Pending, Working, Waits
<1>6. turn'[i] \notin {"setup", "working", "asking"} BY <1>5 DEF RunInv, NoOrphanTurn, Miss
<1>7. "missed" \in Over BY DEF Over
<1>8. turn' = turn BY DEF Miss
<1>9. QED BY <1>1, <1>2, <1>4, <1>5, <1>6, <1>7, <1>8, OneEnds

LEMMA RefuseKeeps ==
  ASSUME RunInv, NEW i \in Ids, Refuse(i)
  PROVE  Keeps
<1>1. tick' \in TickType /\ DueIsFinite' BY AtReturns DEF Refuse
<1>2. run' = Now(i, "failed") /\ out' = Dropped({i}) /\ run[i].status = "queued" BY DEF Refuse, Fail
<1>3. run' \in [Ids -> RunType] /\ out' \in [Ids -> {"none", "queued", "away", "parked"}]
  BY <1>2, NowReturns, TurnsReturn DEF RunInv, Over
<1>4. TypeOK' BY <1>1, <1>3 DEF RunInv, TypeOK, Refuse, RunType, TickType
<1>5. Pending(i) /\ ~Working(i) BY <1>2 DEF Pending, Working, Waits
<1>6. turn'[i] \notin {"setup", "working", "asking"} BY <1>5 DEF RunInv, NoOrphanTurn, Refuse
<1>7. "failed" \in Over BY DEF Over
<1>8. turn' = turn BY DEF Refuse
<1>9. QED BY <1>1, <1>2, <1>4, <1>5, <1>6, <1>7, <1>8, OneEnds

(* A scheduled run leaves the queue only when no other of its routine works. *)
LEMMA LaunchKeeps ==
  ASSUME RunInv, NEW i \in Ids, Launch(i)
  PROVE  Keeps
<1>1. tick' \in TickType /\ DueIsFinite' BY AtReturns DEF Launch
<1>2. run' = Now(i, "running") /\ run[i].status = "queued" BY DEF Launch
<1>3. TypeOK BY DEF RunInv
<1>4. /\ run' \in [Ids -> RunType]
      /\ \A j \in Ids : /\ run'[j].of = run[j].of /\ run'[j].by = run[j].by
                        /\ run'[j].status = IF j = i THEN "running" ELSE run[j].status
  BY <1>2, <1>3, NowReturns DEF Waits
<1>5. TypeOK' BY <1>1, <1>4 DEF RunInv, TypeOK, Launch, RunType, TickType
<1>6. \A j \in Ids : /\ Pending(j)' = Pending(j) /\ Scheduled(j)' = Scheduled(j)
                     /\ run'[j].status = "queued" => run[j].status = "queued"
                     /\ run'[j].status = "none" <=> run[j].status = "none"
                     /\ j # i => Working(j)' = Working(j)
  BY <1>2, <1>4 DEF Pending, Scheduled, Working, Waits
<1>7. Working(i)' BY <1>4 DEF Working
<1>8. InSequence'
  <2>1. Made' = Made BY <1>6 DEF Made
  <2>2. QED BY <2>1 DEF RunInv, InSequence
<1>9. NoOrphanTurn'
  <2>1. \A j \in Ids \ {i} : turn'[j] = turn[j] BY <1>3 DEF TypeOK, Launch
  <2>2. QED BY <1>6, <1>7, <2>1 DEF RunInv, NoOrphanTurn
<1>10. ASSUME NEW r \in Routines PROVE LineHeld(r)
  <2>1. Line(r)' \subseteq Line(r) BY <1>4, <1>6 DEF Line, Of
  <2>2. QED BY <2>1 DEF LineHeld
<1>11. OneAtWork'
  <2>1. ASSUME NEW j \in Ids, j # i, run[j].of = run[i].of, Scheduled(j), Scheduled(i), Working(j)
        PROVE  FALSE
    <3>1. j \in Of(run[i].of) \ {i} BY <2>1 DEF Of, Scheduled
    <3>2. QED BY <2>1, <3>1 DEF Launch, BehindOwn
  <2>2. QED BY <1>4, <1>6, <2>1 DEF RunInv, OneAtWork, Same
<1>12. OnePending' BY <1>4, <1>6 DEF RunInv, OnePending, Same
<1>13. \A j \in Ids : GoesForward(j) BY <1>2, <1>4 DEF GoesForward, Over
<1>14. QED BY <1>1, <1>5, <1>8, <1>9, <1>10, <1>11, <1>12, <1>13 DEF RunInv, Keeps

LEMMA TickEndKeeps ==
  ASSUME RunInv, TickEnd
  PROVE  Keeps
<1>1. tick' \in TickType /\ tick'.due = {} BY DEF TickEnd, NoTick, TickType
<1>2. TypeOK' BY <1>1 DEF RunInv, TypeOK, TickEnd, TickType
<1>3. DueIsFinite' BY <1>1 DEF RunInv, DueIsFinite, TickEnd
<1>4. QED BY <1>2, <1>3, StillKeeps DEF TickEnd

-----------------------------------------------------------------------------
(* Turns, and work that is handed out.                                     *)

LEMMA StartsKeeps ==
  ASSUME RunInv, NEW i \in Ids, Starts(i)
  PROVE  Keeps
<1>1. DueIsFinite' BY DEF RunInv, DueIsFinite, Starts
<1>2. /\ turn' \in [Ids -> {"none", "setup", "working", "asking", "stopping"}]
      /\ \A j \in Ids \ {i} : turn'[j] = turn[j]
  BY DEF RunInv, TypeOK, Starts
<1>3. Working(i) BY DEF RunInv, NoOrphanTurn, Starts
<1>4. run' = Now(i, "running") BY <1>3 DEF Starts
<1>5. "running" \in Waits \cup Over BY DEF Waits
<1>6. run' \in [Ids -> RunType] BY <1>4, <1>5, NowReturns DEF RunInv
<1>7. TypeOK' BY <1>2, <1>6 DEF RunInv, TypeOK, Starts, RunType
<1>8. QED BY <1>1, <1>2, <1>3, <1>4, <1>5, <1>7, OneMoves

LEMMA AsksKeeps ==
  ASSUME RunInv, NEW i \in Ids, Asks(i)
  PROVE  Keeps
<1>1. DueIsFinite' BY DEF RunInv, DueIsFinite, Asks
<1>2. /\ turn' \in [Ids -> {"none", "setup", "working", "asking", "stopping"}]
      /\ \A j \in Ids \ {i} : turn'[j] = turn[j]
  BY DEF RunInv, TypeOK, Asks
<1>3. Working(i) BY DEF RunInv, NoOrphanTurn, Asks
<1>4. run' = Now(i, "waiting") BY <1>3 DEF Asks
<1>5. "waiting" \in Waits \cup Over BY DEF Waits
<1>6. run' \in [Ids -> RunType] BY <1>4, <1>5, NowReturns DEF RunInv
<1>7. TypeOK' BY <1>2, <1>6 DEF RunInv, TypeOK, Asks, RunType
<1>8. QED BY <1>1, <1>2, <1>3, <1>4, <1>5, <1>7, OneMoves

LEMMA AnsweredKeeps ==
  ASSUME RunInv, NEW i \in Ids, Answered(i)
  PROVE  Keeps
<1>1. DueIsFinite' BY DEF RunInv, DueIsFinite, Answered
<1>2. /\ turn' \in [Ids -> {"none", "setup", "working", "asking", "stopping"}]
      /\ \A j \in Ids \ {i} : turn'[j] = turn[j]
  BY DEF RunInv, TypeOK, Answered
<1>3. Working(i) BY DEF RunInv, NoOrphanTurn, Answered
<1>4. run' = Now(i, "running") BY <1>3 DEF Answered
<1>5. "running" \in Waits \cup Over BY DEF Waits
<1>6. run' \in [Ids -> RunType] BY <1>4, <1>5, NowReturns DEF RunInv
<1>7. TypeOK' BY <1>2, <1>6 DEF RunInv, TypeOK, Answered, RunType
<1>8. QED BY <1>1, <1>2, <1>3, <1>4, <1>5, <1>7, OneMoves

(* A run fails in a step that ends or stops its turn. *)
LEMMA RunFails ==
  ASSUME RunInv, NEW i \in Ids, Fail(i), Pending(i),
         turn' \in [Ids -> {"none", "setup", "working", "asking", "stopping"}],
         turn'[i] \notin {"setup", "working", "asking"}, \A j \in Ids \ {i} : turn'[j] = turn[j],
         UNCHANGED <<kind, enabled, removed, due, receipt, tick, taken, botGone, handouts, others, crashes>>
  PROVE  Keeps
<1>1. run' = Now(i, "failed") /\ out' = Dropped({i}) BY DEF Fail
<1>2. "failed" \in Over BY DEF Over
<1>3. run' \in [Ids -> RunType] /\ out' \in [Ids -> {"none", "queued", "away", "parked"}]
  BY <1>1, <1>2, NowReturns, TurnsReturn DEF RunInv
<1>4. TypeOK' BY <1>3 DEF RunInv, TypeOK, RunType
<1>5. DueIsFinite' BY DEF RunInv, DueIsFinite
<1>6. QED BY <1>1, <1>2, <1>4, <1>5, OneEnds

LEMMA WorkingIsPending == ASSUME NEW i \in Ids, Working(i) PROVE Pending(i)
BY DEF Working, Pending, Waits

LEMMA SetupFailsKeeps ==
  ASSUME RunInv, NEW i \in Ids, SetupFails(i)
  PROVE  Keeps
<1>1. Working(i) BY DEF RunInv, NoOrphanTurn, SetupFails
<1>2. /\ turn' \in [Ids -> {"none", "setup", "working", "asking", "stopping"}]
      /\ turn'[i] = "none" /\ \A j \in Ids \ {i} : turn'[j] = turn[j]
  BY DEF RunInv, TypeOK, SetupFails
<1>3. Fail(i) /\ UNCHANGED <<kind, enabled, removed, due, receipt, tick, taken, botGone, handouts, others, crashes>>
  BY <1>1 DEF SetupFails
<1>4. QED BY <1>1, <1>2, <1>3, WorkingIsPending, RunFails

LEMMA EndsKeeps ==
  ASSUME RunInv, NEW i \in Ids, NEW ok \in BOOLEAN, Ends(i, ok)
  PROVE  Keeps
<1>1. DueIsFinite' BY DEF RunInv, DueIsFinite, Ends
<1>2. /\ turn' \in [Ids -> {"none", "setup", "working", "asking", "stopping"}]
      /\ turn'[i] = "none" /\ \A j \in Ids \ {i} : turn'[j] = turn[j]
  BY DEF RunInv, TypeOK, Ends
<1>3. CASE ~Working(i)
  <2>1. run' = run /\ out' = out BY <1>3 DEF Ends
  <2>2. TypeOK' BY <1>2, <2>1 DEF RunInv, TypeOK, Ends
  <2>3. \A j \in Ids : turn'[j] = turn[j] \/ turn'[j] \notin {"setup", "working", "asking"} BY <1>2
  <2>4. QED BY <1>1, <2>1, <2>2, <2>3, StillKeeps
<1>4. CASE Working(i) /\ ~ok
  <2>1. Fail(i) /\ UNCHANGED <<kind, enabled, removed, due, receipt, tick, taken, botGone, handouts, others, crashes>>
    BY <1>4 DEF Ends
  <2>2. QED BY <1>2, <1>4, <2>1, WorkingIsPending, RunFails
<1>5. CASE Working(i) /\ ok /\ out[i] = "none"
  <2>1. run' = Now(i, "completed") /\ out' = out BY <1>5 DEF Ends
  <2>2. "completed" \in Over BY DEF Over
  <2>3. run' \in [Ids -> RunType] BY <2>1, <2>2, NowReturns DEF RunInv
  <2>4. TypeOK' BY <1>2, <2>1, <2>3 DEF RunInv, TypeOK, Ends, RunType
  <2>5. Pending(i) BY <1>5, WorkingIsPending
  <2>6. QED BY <1>1, <1>2, <2>1, <2>2, <2>4, <2>5, OneEnds
<1>6. CASE Working(i) /\ ok /\ out[i] # "none"
  <2>1. run' = Now(i, "waiting") /\ out' = out BY <1>6 DEF Ends
  <2>2. "waiting" \in Waits \cup Over BY DEF Waits
  <2>3. run' \in [Ids -> RunType] BY <2>1, <2>2, NowReturns DEF RunInv
  <2>4. TypeOK' BY <1>2, <2>1, <2>3 DEF RunInv, TypeOK, Ends, RunType
  <2>5. QED BY <1>1, <1>2, <1>6, <2>1, <2>2, <2>4, OneMoves
<1>7. QED BY <1>3, <1>4, <1>5, <1>6

LEMMA StallsKeeps ==
  ASSUME RunInv, NEW i \in Ids, Stalls(i)
  PROVE  Keeps
<1>1. turn' = Interrupted({i}) BY DEF Stalls
<1>2. /\ turn' \in [Ids -> {"none", "setup", "working", "asking", "stopping"}]
      /\ \A j \in Ids : turn'[j] = IF j \in {i} /\ turn[j] # "none" THEN "stopping" ELSE turn[j]
  BY <1>1, TurnsReturn DEF RunInv
<1>3. turn'[i] = "stopping" /\ \A j \in Ids \ {i} : turn'[j] = turn[j] BY <1>2 DEF Stalls
<1>4. /\ Working(i) /\ Fail(i)
      /\ UNCHANGED <<kind, enabled, removed, due, receipt, tick, taken, botGone, handouts, others, crashes>>
  BY DEF Stalls
<1>5. QED BY <1>2, <1>3, <1>4, WorkingIsPending, RunFails

LEMMA HandOutKeeps ==
  ASSUME RunInv, NEW i \in Ids, HandOut(i)
  PROVE  Keeps
<1>1. TypeOK' BY Bounds DEF RunInv, TypeOK, HandOut
<1>2. DueIsFinite' BY DEF RunInv, DueIsFinite, HandOut
<1>3. QED BY <1>1, <1>2, StillKeeps DEF HandOut

LEMMA LeavesKeeps ==
  ASSUME RunInv, NEW i \in Ids, Leaves(i)
  PROVE  Keeps
<1>1. TypeOK' BY DEF RunInv, TypeOK, Leaves
<1>2. DueIsFinite' BY DEF RunInv, DueIsFinite, Leaves
<1>3. QED BY <1>1, <1>2, StillKeeps DEF Leaves

LEMMA ReturnsKeeps ==
  ASSUME RunInv, NEW i \in Ids, Returns(i)
  PROVE  Keeps
<1>1. TypeOK' BY DEF RunInv, TypeOK, Returns
<1>2. DueIsFinite' BY DEF RunInv, DueIsFinite, Returns
<1>3. QED BY <1>1, <1>2, StillKeeps DEF Returns

LEMMA WakeKeeps ==
  ASSUME RunInv, NEW i \in Ids, Wake(i)
  PROVE  Keeps
<1>1. TypeOK' BY DEF RunInv, TypeOK, Wake
<1>2. DueIsFinite' BY DEF RunInv, DueIsFinite, Wake
<1>3. QED BY <1>1, <1>2, StillKeeps DEF Wake

LEMMA WakeFailsKeeps ==
  ASSUME RunInv, NEW i \in Ids, WakeFails(i)
  PROVE  Keeps
<1>1. /\ turn' \in [Ids -> {"none", "setup", "working", "asking", "stopping"}]
      /\ turn'[i] = "none" /\ \A j \in Ids \ {i} : turn'[j] = turn[j]
  BY DEF RunInv, TypeOK, WakeFails
<1>2. /\ Working(i) /\ Fail(i)
      /\ UNCHANGED <<kind, enabled, removed, due, receipt, tick, taken, botGone, handouts, others, crashes>>
  BY DEF WakeFails
<1>3. QED BY <1>1, <1>2, WorkingIsPending, RunFails

LEMMA OthersTakeKeeps ==
  ASSUME RunInv, OthersTake
  PROVE  Keeps
<1>1. TypeOK' BY Bounds DEF RunInv, TypeOK, OthersTake
<1>2. DueIsFinite' BY DEF RunInv, DueIsFinite, OthersTake
<1>3. QED BY <1>1, <1>2, StillKeeps DEF OthersTake

LEMMA OthersLeaveKeeps ==
  ASSUME RunInv, OthersLeave
  PROVE  Keeps
<1>1. TypeOK' BY DEF RunInv, TypeOK, OthersLeave
<1>2. DueIsFinite' BY DEF RunInv, DueIsFinite, OthersLeave
<1>3. QED BY <1>1, <1>2, StillKeeps DEF OthersLeave

(* The runs that worked have failed, and no turn is left. *)
LEMMA RestartKeeps ==
  ASSUME RunInv, Restart
  PROVE  Keeps
<1>1. \A j \in Ids : /\ run'[j] \in RunType
                     /\ run'[j].of = run[j].of /\ run'[j].by = run[j].by
                     /\ run'[j].status = IF Working(j) THEN "failed" ELSE run[j].status
  BY DEF RunInv, TypeOK, RunType, Restart, Over
<1>2. \A j \in Ids : Moves(j) BY <1>1, WorkingIsPending DEF Moves, Over
<1>3. run' \in [Ids -> RunType] BY <1>1 DEF Restart
<1>4. tick' \in TickType /\ tick'.due = {} BY DEF Restart, NoTick, TickType
<1>5. TypeOK'
  <2>1. /\ turn' \in [Ids -> {"none", "setup", "working", "asking", "stopping"}]
        /\ out' \in [Ids -> {"none", "queued", "away", "parked"}]
    BY DEF Restart
  <2>2. crashes' \in 0 .. MaxCrashes BY Bounds DEF RunInv, TypeOK, Restart
  <2>3. QED BY <1>3, <1>4, <2>1, <2>2 DEF RunInv, TypeOK, Restart, RunType, TickType
<1>6. DueIsFinite' BY <1>4 DEF RunInv, DueIsFinite, Restart
<1>7. NoOrphanTurn' BY DEF NoOrphanTurn, Restart
<1>8. QED BY <1>2, <1>5, <1>6, <1>7, CalmKeeps

-----------------------------------------------------------------------------
(* The specification.                                                      *)

LEMMA RunInvInit ==
  ASSUME Init
  PROVE  RunInv
<1>1. TypeOK
  <2>1. /\ run \in [Ids -> RunType]
        /\ turn \in [Ids -> {"none", "setup", "working", "asking", "stopping"}]
        /\ out \in [Ids -> {"none", "queued", "away", "parked"}]
    BY DEF Init, NoRun, RunType
  <2>2. receipt \in [Deliveries -> 0 .. MaxRuns] BY Bounds DEF Init
  <2>3. tick \in TickType BY DEF Init, NoTick, TickType
  <2>4. handouts \in 0 .. MaxHandouts /\ others \in 0 .. MaxOthers /\ crashes \in 0 .. MaxCrashes
    BY Bounds DEF Init
  <2>5. QED BY <2>1, <2>2, <2>3, <2>4 DEF Init, TypeOK, RunType, TickType
<1>2. DueIsFinite BY FS_EmptySet DEF Init, DueIsFinite, NoTick
<1>3. \A i \in Ids : run[i].status = "none" /\ run[i].of = 0 /\ ~Working(i) /\ ~Pending(i)
  BY DEF Init, NoRun, Working, Pending, Waits
<1>4. InSequence
  <2>1. Made = {} BY <1>3 DEF Made
  <2>2. Cardinality(Made) = 0 BY <2>1, FS_EmptySet
  <2>3. QED BY <2>1, <2>2 DEF InSequence
<1>5. NoOrphanTurn BY DEF NoOrphanTurn, Init
<1>7. OneAtWork BY <1>3 DEF OneAtWork
<1>8. OnePending BY <1>3 DEF OnePending
<1>9. QED BY <1>1, <1>2, <1>4, <1>5, <1>7, <1>8 DEF RunInv

LEMMA NextKeeps ==
  ASSUME RunInv, Next
  PROVE  Keeps
<1>1. ASSUME NEW r \in Routines, ComesDue(r) \/ Remove(r) \/ RunNow(r) PROVE Keeps
  BY <1>1, ComesDueKeeps, RemoveKeeps, RunNowKeeps
<1>1a. ASSUME NEW r \in Routines, NEW k \in Kinds, SetSchedule(r, k) \/ EditDefinition(r, k) \/ Pause(r, k)
       PROVE  Keeps
  BY <1>1a, SetScheduleKeeps, EditDefinitionKeeps, PauseKeeps
<1>2. ASSUME NEW d \in Deliveries, EnqueueWebhook(d) \/ ReceiptExpires(d) PROVE Keeps
  BY <1>2, EnqueueWebhookKeeps, ReceiptExpiresKeeps
<1>3. ASSUME NEW i \in Ids, CancelRun(i) \/ Asks(i) \/ Answered(i) \/ HandOut(i) \/ Stalls(i) PROVE Keeps
  BY <1>3, CancelRunKeeps, AsksKeeps, AnsweredKeeps, HandOutKeeps, StallsKeeps
<1>4. CASE DisableForBot \/ CancelQueuedWebhook BY <1>4, DisableForBotKeeps, CancelQueuedWebhookKeeps
<1>5. CASE TickStep
  <2>1. CASE InterruptReturns \/ TickEnd BY <2>1, InterruptReturnsKeeps, TickEndKeeps
  <2>2. ASSUME NEW S \in SUBSET Ids, TickBegin(S) PROVE Keeps BY <2>2, TickBeginKeeps
  <2>3. ASSUME NEW S \in SUBSET Routines, Plan(S) PROVE Keeps BY <2>3, PlanKeeps
  <2>4. ASSUME NEW i \in Ids, StopOverlong(i) \/ PassOver(i) \/ Miss(i) \/ Refuse(i) \/ Launch(i) PROVE Keeps
    BY <2>4, StopOverlongKeeps, PassOverKeeps, MissKeeps, RefuseKeeps, LaunchKeeps
  <2>5. QED BY <1>5, <2>1, <2>2, <2>3, <2>4 DEF TickStep
<1>6. CASE TurnStep
  <2>1. ASSUME NEW i \in Ids, Starts(i) \/ SetupFails(i) PROVE Keeps BY <2>1, StartsKeeps, SetupFailsKeeps
  <2>2. ASSUME NEW i \in Ids, NEW ok \in BOOLEAN, Ends(i, ok) PROVE Keeps BY <2>2, EndsKeeps
  <2>3. QED BY <1>6, <2>1, <2>2 DEF TurnStep
<1>7. CASE WorkStep
  <2>1. ASSUME NEW i \in Ids, Leaves(i) \/ Returns(i) \/ Wake(i) \/ WakeFails(i) PROVE Keeps
    BY <2>1, LeavesKeeps, ReturnsKeeps, WakeKeeps, WakeFailsKeeps
  <2>2. QED BY <1>7, <2>1 DEF WorkStep
<1>8. CASE OthersTake \/ OthersLeave \/ Restart BY <1>8, OthersTakeKeeps, OthersLeaveKeeps, RestartKeeps
<1>9. QED BY <1>1, <1>1a, <1>2, <1>3, <1>4, <1>5, <1>6, <1>7, <1>8 DEF Next

LEMMA StutterKeeps ==
  ASSUME RunInv, UNCHANGED vars
  PROVE  RunInv'
BY DEF RunInv, TypeOK, DueIsFinite, InSequence, Made, NoOrphanTurn, OneAtWork, OnePending,
       Same, Scheduled, Working, Pending, Is, vars

LEMMA RunInvHolds == Spec => []RunInv
<1>1. Init => RunInv BY RunInvInit
<1>2. RunInv /\ [Next]_vars => RunInv' BY NextKeeps, StutterKeeps DEF Keeps
<1>3. QED BY <1>1, <1>2, PTL DEF Spec

(* Routines, runs, receipts, turns, handed-out work and the tick stay within  *)
(* their types: no id beyond the bound is given (RoutineManager, 841-1640).    *)
THEOREM RoutinesTyped == Spec => []TypeOK
<1>1. RunInv => TypeOK BY DEF RunInv
<1>2. QED BY <1>1, RunInvHolds, PTL

(* Every step of every schedule moves runs forward only: no run leaves the    *)
(* queue twice and none that is over changes, across ticks, late answers,     *)
(* watchdog and restarts (tick, cancelRun, handleRuntimeEvent, failThread).    *)
THEOREM RunsGoForward == Spec => OnlyForward
<1>1. RunInv /\ [Next]_vars => [\A i \in Ids : GoesForward(i)]_vars BY NextKeeps DEF Keeps
<1>2. QED BY <1>1, RunInvHolds, PTL DEF Spec, OnlyForward

(* A turn that starts, works or asks belongs to a run that is not over        *)
(* (cancelRun, tick, disableForBot, routineDelegationCanResume).               *)
THEOREM NoTurnIsOrphaned == Spec => []NoOrphanTurn
<1>1. RunInv => NoOrphanTurn BY DEF RunInv
<1>2. QED BY <1>1, RunInvHolds, PTL

(* However ticks, requests, changes of the definition and restarts           *)
(* interleave, a routine has one scheduled run at work, and the line of a      *)
(* recurring routine never grows past one (update, tick 1407-1412 and 1483).    *)
THEOREM ScheduledRunsTakeTurns == Spec => ScheduledInTurn
<1>1. ASSUME OneAtWork', NEW r \in Routines PROVE Cardinality(AtWork(r)') <= 1
  <2>1. \A i \in AtWork(r)' : i \in Ids /\ run'[i].of = r /\ Scheduled(i)' /\ Working(i)'
    BY DEF AtWork, Of
  <2>2. \A i, j \in AtWork(r)' : i = j BY <1>1, <2>1 DEF OneAtWork, Same
  <2>3. QED BY <2>2, AtMostOne
<1>2. RunInv /\ [Next]_vars => [\A r \in Routines : InTurn(r)]_vars
  BY <1>1, NextKeeps DEF Keeps, RunInv, InTurn, LineHeld
<1>3. QED BY <1>2, RunInvHolds, PTL DEF Spec, ScheduledInTurn

(* However often a delivery is sent again, one run of it is pending           *)
(* (enqueueWebhook, webhookRunReceipt 1204-1213).                              *)
THEOREM DeliveriesRunOnce == Spec => []DeliveryOnce
<1>1. RunInv => DeliveryOnce
  <2>1. SUFFICES ASSUME RunInv, NEW d \in Deliveries
                 PROVE  Cardinality({i \in Ids : run[i].of = d /\ Pending(i)}) <= 1
    BY DEF DeliveryOnce
  <2>2. \A i, j \in {i \in Ids : run[i].of = d /\ Pending(i)} : i = j
    BY <2>1 DEF RunInv, OnePending, Same
  <2>3. QED BY <2>2, AtMostOne
<1>2. QED BY <1>1, RunInvHolds, PTL
=============================================================================
