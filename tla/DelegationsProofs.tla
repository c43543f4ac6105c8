------------------------- MODULE DelegationsProofs -------------------------
(***************************************************************************)
(* Every safety property of the delegations, for any bots and bounds.  A   *)
(* drain works on one item at a time, which is the oldest of its snapshot; *)
(* others may end that item while it waits, and never touch its turn.      *)
(***************************************************************************)
EXTENDS Delegations, FiniteSetTheorems, WellFoundedInduction, TLAPS

ItemType  == [state : {"none", "pending", "gone"}, from : Bots \cup {"none"},
              to : Bots \cup {"none"}, opened : BOOLEAN, held : BOOLEAN,
              granted : BOOLEAN, late : BOOLEAN, fresh : BOOLEAN]
DrainType == [phase : {"idle", "ready", "asking", "settled", "launched"},
              todo : SUBSET Ids, seen : SUBSET Ids]

Queued     == {i \in Ids : item[i].state # "none"}
InSequence == Queued = 1 .. Cardinality(Queued)
Routed     == \A i \in Queued : item[i].from \in Bots /\ item[i].to \in Bots
Unused     == \A i \in Ids \ Queued : starts[i] = 0 /\ turn[i] = "none"
Snapshots  ==
  \A b \in Bots : /\ \A i \in drain[b].todo : item[i].state # "none" /\ item[i].from = b
                  /\ drain[b].phase \in {"asking", "settled", "launched"} => drain[b].todo # {}

(* The item that is watched in p runs in p, and was started.               *)
WatchedIn(p, i) == turn[p] = "job" /\ i \in Queued /\ Place(i) = p /\ starts[i] > 0
Watched == \A p \in Places : watch[p] # Nothing => WatchedIn(p, watch[p])

(* Started, and the drain has yet to take it off the queue.                *)
Begun(i) == \E b \in Bots : item[i].from = b /\ drain[b].phase = "launched" /\ Due(b) = i
StartsBound ==
  \A i \in Ids : /\ starts[i] <= 1 + crashes
                 /\ item[i].state = "pending" /\ ~Begun(i) => starts[i] <= crashes

Informed(i) ==
  \/ receipt[i] # "none"
  \/ \E p \in Places : watch[p] = i /\ turn[p] = "job"
  \/ starts[i] > 0 /\ crashes > 0
Told == \A b \in Bots, i \in Ids : drain[b].phase \in {"settled", "launched"} /\ Due(b) = i => Informed(i)

DInv == /\ TypeOK /\ InSequence /\ Routed /\ Unused /\ Snapshots /\ Watched
        /\ StartsBound /\ Told /\ Known /\ WithinSlots

Keeps == DInv' /\ \A i \in Ids : StaysOver(i)

-----------------------------------------------------------------------------
(* Constants, ids and places.                                              *)

LEMMA Bounds ==
  /\ Slots \in Nat /\ MaxQueued \in Nat /\ WakeLimit \in Nat /\ MaxItems \in Nat
  /\ MaxTurns \in Nat /\ MaxBarred \in Nat /\ MaxCrashes \in Nat
  /\ Slots > 0 /\ Ids \subseteq Nat /\ Bots \cap Ids = {} /\ Nothing \notin Ids
BY BoundsAssumption, BotsAssumption DEF Ids, Nothing

LEMMA Typed ==
  ASSUME TypeOK
  PROVE  /\ item \in [Ids -> ItemType] /\ drain \in [Bots -> DrainType]
         /\ \A i \in Ids : /\ item[i].state \in {"none", "pending", "gone"}
                           /\ receipt[i] \in Verdicts \cup {"none"} /\ starts[i] \in Nat
         /\ \A b \in Bots : /\ drain[b].todo \in SUBSET Ids /\ drain[b].seen \in SUBSET Ids
                            /\ drain[b].phase \in {"idle", "ready", "asking", "settled", "launched"}
         /\ \A p \in Places : watch[p] = Nothing \/ watch[p] \in Ids
         /\ crashes \in Nat
BY Bounds DEF TypeOK, ItemType, DrainType, Ids, Nothing

LEMMA Least ==
  ASSUME NEW S \in SUBSET Nat, S # {}
  PROVE  \E m \in S : \A k \in S : m <= k
<1> DEFINE R == OpToRel(<, Nat)
<1>1. IsWellFoundedOn(R, Nat) BY NatLessThanWellFounded
<1>2. \E m \in S : \A k \in S : ~(<<k, m>> \in R) BY <1>1, WFMin
<1>3. \A k, m \in Nat : <<k, m>> \in R <=> k < m BY DEF OpToRel
<1> HIDE DEF R
<1>4. PICK m \in S : \A k \in S : ~(<<k, m>> \in R) BY <1>2
<1>5. ASSUME NEW k \in S PROVE m <= k
  <2>1. k \in Nat /\ m \in Nat OBVIOUS
  <2>2. ~(k < m) BY <1>3, <1>4, <2>1
  <2>3. QED BY <2>1, <2>2
<1>6. QED BY <1>5

(* A drain that has something to do works on an item of its snapshot. *)
LEMMA DueIsInHand ==
  ASSUME TypeOK, NEW b \in Bots, drain[b].todo # {}
  PROVE  Due(b) \in drain[b].todo /\ Due(b) \in Ids
<1>1. drain[b].todo \in SUBSET Ids BY Typed
<1>2. \E m \in drain[b].todo : \A k \in drain[b].todo : m <= k BY <1>1, Bounds, Least
<1>3. QED BY <1>1, <1>2 DEF Due, Oldest

LEMMA QueuedIsFinite == IsFiniteSet(Queued) /\ Cardinality(Queued) \in Nat
<1>1. IsFiniteSet(Ids) BY Bounds, FS_Interval DEF Ids
<1>2. Queued \in SUBSET Ids BY DEF Queued
<1>3. QED BY <1>1, <1>2, FS_Subset, FS_CardinalityType

LEMMA BusyIsFinite ==
  ASSUME NEW b \in Bots
  PROVE  IsFiniteSet(Busy(b)) /\ Cardinality(Busy(b)) \in Nat
<1>1. IsFiniteSet(Ids) BY Bounds, FS_Interval DEF Ids
<1>2. IsFiniteSet(Ids \cup {b}) BY <1>1, FS_AddElement
<1>3. Busy(b) \in SUBSET (Ids \cup {b}) BY DEF Busy, BotOf, Places
<1>4. QED BY <1>2, <1>3, FS_Subset, FS_CardinalityType

LEMMA PlaceIsPlace ==
  ASSUME Routed, NEW i \in Queued
  PROVE  Place(i) \in Places /\ BotOf(Place(i)) = item[i].to
BY Bounds DEF Routed, Place, Places, BotOf, Queued

-----------------------------------------------------------------------------
(* Steps that keep the routes: an item only ends.                          *)

Kept(i) ==
  /\ item'[i].from = item[i].from /\ item'[i].to = item[i].to /\ item'[i].opened = item[i].opened
  /\ item'[i].state # item[i].state => item[i].state = "pending" /\ item'[i].state = "gone"

LEMMA RoutesKeep ==
  ASSUME TypeOK, InSequence, Routed, \A i \in Ids : Kept(i)
  PROVE  /\ InSequence' /\ Routed' /\ Queued' = Queued
         /\ \A i \in Ids : Place(i)' = Place(i)
         /\ \A p \in Places : BotOf(p)' = BotOf(p)
<1>1. Queued' = Queued BY Typed DEF Queued, Kept
<1>2. InSequence' BY <1>1 DEF InSequence
<1>3. Routed' BY <1>1 DEF Routed, Queued, Kept
<1>4. \A i \in Ids : Place(i)' = Place(i) BY DEF Place, Kept
<1>5. \A p \in Places : BotOf(p)' = BotOf(p) BY DEF BotOf, Kept, Places
<1>6. QED BY <1>1, <1>2, <1>3, <1>4, <1>5

LEMMA SlotsKeep ==
  ASSUME WithinSlots, \A p \in Places : BotOf(p)' = BotOf(p),
         \A p \in Places : turn'[p] # "none" => turn[p] # "none"
  PROVE  WithinSlots'
<1>1. SUFFICES ASSUME NEW b \in Bots PROVE Cardinality(Busy(b)') <= Slots BY DEF WithinSlots
<1>2. Busy(b)' \in SUBSET Busy(b) BY DEF Busy
<1>3. Cardinality(Busy(b)') <= Cardinality(Busy(b)) /\ Cardinality(Busy(b)') \in Nat
  BY <1>2, BusyIsFinite, FS_Subset, FS_CardinalityType
<1>4. QED BY <1>3, BusyIsFinite, Bounds DEF WithinSlots

LEMMA SlotTaken ==
  ASSUME WithinSlots, \A p \in Places : BotOf(p)' = BotOf(p),
         NEW q \in Places, NEW a \in Bots, BotOf(q) = a,
         Busy(a) = {} \/ Cardinality(Busy(a)) < Slots,
         \A p \in Places \ {q} : turn'[p] # "none" => turn[p] # "none"
  PROVE  WithinSlots'
<1>1. SUFFICES ASSUME NEW b \in Bots PROVE Cardinality(Busy(b)') <= Slots BY DEF WithinSlots
<1>2. CASE b # a
  <2>1. Busy(b)' \in SUBSET Busy(b) BY <1>2 DEF Busy
  <2>2. Cardinality(Busy(b)') <= Cardinality(Busy(b)) /\ Cardinality(Busy(b)') \in Nat
    BY <2>1, BusyIsFinite, FS_Subset, FS_CardinalityType
  <2>3. QED BY <2>2, BusyIsFinite, Bounds DEF WithinSlots
<1>3. CASE b = a
  <2>1. Busy(b)' \in SUBSET (Busy(b) \cup {q}) BY DEF Busy
  <2>2. /\ IsFiniteSet(Busy(b) \cup {q})
        /\ Cardinality(Busy(b) \cup {q}) = IF q \in Busy(b) THEN Cardinality(Busy(b)) ELSE Cardinality(Busy(b)) + 1
    BY BusyIsFinite, FS_AddElement
  <2>3. Cardinality(Busy(b)) < Slots BY <1>3, FS_EmptySet, Bounds
  <2>4. Cardinality(Busy(b) \cup {q}) <= Slots /\ Cardinality(Busy(b) \cup {q}) \in Nat
    BY <2>2, <2>3, BusyIsFinite, Bounds
  <2>5. Cardinality(Busy(b)') <= Cardinality(Busy(b) \cup {q}) /\ Cardinality(Busy(b)') \in Nat
    BY <2>1, <2>2, FS_Subset, FS_CardinalityType
  <2>6. QED BY <2>4, <2>5, Bounds
<1>4. QED BY <1>2, <1>3

-----------------------------------------------------------------------------
(* What a step does to a drain, to a watched place, and to what is known.  *)

DrainGoes(b) ==
  \/ drain'[b] = drain[b]
  \/ drain'[b] = Idle \/ drain'[b] = Snapshot(item', b)
  \/ drain'[b].phase = "ready" /\ drain'[b].todo \subseteq drain[b].todo
  \/ /\ drain'[b].phase \in {"asking", "settled", "launched"}
     /\ drain'[b].todo = drain[b].todo /\ drain[b].todo # {}

WatchGoes(p) == \/ watch'[p] = Nothing
                \/ watch'[p] = watch[p] /\ turn'[p] = turn[p]

LEMMA SnapshotsKeep ==
  ASSUME DInv, \A i \in Ids : Kept(i), \A b \in Bots : DrainGoes(b)
  PROVE  Snapshots'
<1>1. SUFFICES ASSUME NEW b \in Bots
               PROVE  /\ \A i \in drain'[b].todo : item'[i].state # "none" /\ item'[i].from = b
                      /\ drain'[b].phase \in {"asking", "settled", "launched"} => drain'[b].todo # {}
  BY DEF Snapshots
<1>2. /\ \A i \in drain[b].todo : i \in Ids /\ item[i].state # "none" /\ item[i].from = b
      /\ drain[b].phase \in {"asking", "settled", "launched"} => drain[b].todo # {}
  BY Typed DEF DInv, Snapshots
<1>3. \A i \in drain[b].todo : item'[i].state # "none" /\ item'[i].from = b BY <1>2 DEF Kept
<1>4. CASE drain'[b] = drain[b] BY <1>2, <1>3, <1>4
<1>5. CASE drain'[b] = Idle BY <1>5 DEF Idle
<1>6. CASE drain'[b] = Snapshot(item', b) BY <1>6 DEF Snapshot, QueueIn, Idle
<1>7. CASE drain'[b].phase = "ready" /\ drain'[b].todo \subseteq drain[b].todo BY <1>3, <1>7
<1>8. CASE drain'[b].todo = drain[b].todo /\ drain[b].todo # {} BY <1>3, <1>8
<1>9. QED BY <1>4, <1>5, <1>6, <1>7, <1>8 DEF DrainGoes

LEMMA WatchedKeeps ==
  ASSUME DInv, \A i \in Ids : Kept(i), starts' = starts, \A p \in Places : WatchGoes(p)
  PROVE  Watched'
<1>1. SUFFICES ASSUME NEW p \in Places, watch'[p] # Nothing
               PROVE  WatchedIn(p, watch[p])' /\ watch'[p] = watch[p]
  BY DEF Watched, WatchedIn, Place, Queued
<1>2. watch'[p] = watch[p] /\ turn'[p] = turn[p] BY <1>1 DEF WatchGoes
<1>3. PICK i \in Ids : i = watch[p] BY <1>1, <1>2, Typed DEF DInv
<1>4. WatchedIn(p, i) BY <1>1, <1>2, <1>3 DEF DInv, Watched
<1>5. Queued' = Queued /\ Place(i)' = Place(i) BY RoutesKeep DEF DInv
<1>6. WatchedIn(p, i)' BY <1>2, <1>4, <1>5 DEF WatchedIn
<1>7. QED BY <1>2, <1>3, <1>6

LEMMA StartsKeep ==
  ASSUME DInv, \A i \in Ids : Kept(i), starts' = starts, crashes' = crashes,
         \A b \in Bots : \A i \in Ids : drain[b].phase = "launched" /\ Due(b) = i =>
           drain'[b] = drain[b] \/ item'[i].state # "pending"
  PROVE  StartsBound'
<1>1. SUFFICES ASSUME NEW i \in Ids, item'[i].state = "pending", ~Begun(i)'
               PROVE  starts[i] <= crashes
  BY DEF DInv, StartsBound
<1>2. item[i].state = "pending" /\ item'[i].from = item[i].from BY <1>1, Typed DEF Kept, DInv
<1>3. ASSUME Begun(i) PROVE FALSE
  <2>1. PICK b \in Bots : item[i].from = b /\ drain[b].phase = "launched" /\ Due(b) = i BY <1>3 DEF Begun
  <2>2. drain'[b] = drain[b] BY <1>1, <2>1
  <2>3. Due(b)' = Due(b) BY <2>2 DEF Due
  <2>4. Begun(i)' BY <1>2, <2>1, <2>2, <2>3 DEF Begun
  <2>5. QED BY <1>1, <2>4
<1>4. QED BY <1>2, <1>3 DEF DInv, StartsBound

(* What is known stays known; what goes is known. *)
LEMMA KnownKeeps ==
  ASSUME DInv, \A i \in Ids : Kept(i), starts' = starts, crashes' = crashes,
         \A i \in Ids : receipt[i] # "none" => receipt'[i] # "none",
         \A p \in Places : WatchGoes(p),
         \A p \in Places : \A i \in Ids : watch[p] = i /\ watch'[p] = Nothing => receipt'[i] # "none",
         \A b \in Bots : \A i \in Ids :
           drain'[b].phase \in {"settled", "launched"} /\ Due(b)' = i =>
             drain'[b] = drain[b] \/ Informed(i) \/ receipt'[i] # "none",
         \A i \in Ids : item[i].state = "pending" /\ item'[i].state = "gone" => Informed(i) \/ receipt'[i] # "none"
  PROVE  Told' /\ Known'
<1>1. ASSUME NEW i \in Ids, Informed(i) PROVE Informed(i)'
  <2>1. CASE receipt[i] # "none" BY <2>1 DEF Informed
  <2>2. CASE \E p \in Places : watch[p] = i /\ turn[p] = "job"
    <3>1. PICK p \in Places : watch[p] = i /\ turn[p] = "job" BY <2>2
    <3>2. CASE watch'[p] = Nothing BY <3>1, <3>2 DEF Informed
    <3>3. CASE watch'[p] = watch[p] /\ turn'[p] = turn[p] BY <3>1, <3>3 DEF Informed
    <3>4. QED BY <3>2, <3>3 DEF WatchGoes
  <2>3. CASE starts[i] > 0 /\ crashes > 0 BY <2>3 DEF Informed
  <2>4. QED BY <1>1, <2>1, <2>2, <2>3 DEF Informed
<1>2. \A i \in Ids : receipt'[i] # "none" => Informed(i)' BY DEF Informed
<1>3. Told'
  <2>1. SUFFICES ASSUME NEW b \in Bots, NEW i \in Ids, drain'[b].phase \in {"settled", "launched"}, Due(b)' = i
                 PROVE  Informed(i)'
    BY DEF Told
  <2>2. CASE receipt'[i] # "none" BY <1>2, <2>2
  <2>3. CASE drain'[b] = drain[b]
    <3>1. Due(b) = i BY <2>1, <2>3 DEF Due
    <3>2. Informed(i) BY <2>1, <2>3, <3>1 DEF DInv, Told
    <3>3. QED BY <1>1, <3>2
  <2>4. QED BY <1>1, <2>1, <2>2, <2>3
<1>4. Known'
  <2>1. SUFFICES ASSUME NEW i \in Ids, item'[i].state = "gone" PROVE Informed(i)' BY DEF Known, Informed
  <2>2. item[i].state = "gone" => Informed(i) BY DEF DInv, Known, Informed
  <2>3. item[i].state = "gone" \/ item[i].state = "pending" BY <2>1 DEF Kept
  <2>4. QED BY <1>1, <1>2, <2>1, <2>2, <2>3
<1>5. QED BY <1>3, <1>4

(* A step that starts no item. *)
LEMMA CalmKeeps ==
  ASSUME DInv, TypeOK', \A i \in Ids : Kept(i), starts' = starts, crashes' = crashes,
         \A b \in Bots : DrainGoes(b),
         \A p \in Places : WatchGoes(p),
         WithinSlots', \A i \in Ids : turn'[i] # "none" => turn[i] # "none",
         \A i \in Ids : receipt[i] # "none" => receipt'[i] # "none",
         \A i \in Ids : receipt'[i] # receipt[i] => item[i].state = "pending" \/ \E p \in Places : watch[p] = i,
         \A p \in Places : \A i \in Ids : watch[p] = i /\ watch'[p] = Nothing => receipt'[i] # "none",
         \A b \in Bots : \A i \in Ids :
           drain'[b].phase \in {"settled", "launched"} /\ Due(b)' = i =>
             drain'[b] = drain[b] \/ Informed(i) \/ receipt'[i] # "none",
         \A b \in Bots : \A i \in Ids : drain[b].phase = "launched" /\ Due(b) = i =>
           drain'[b] = drain[b] \/ item'[i].state # "pending",
         \A i \in Ids : item[i].state = "pending" /\ item'[i].state = "gone" => Informed(i) \/ receipt'[i] # "none"
  PROVE  Keeps
<1>1. InSequence' /\ Routed' /\ Queued' = Queued BY RoutesKeep DEF DInv
<1>2. Unused' BY <1>1 DEF DInv, Unused
<1>3. Snapshots' BY SnapshotsKeep
<1>4. Watched' BY WatchedKeeps
<1>5. StartsBound' BY StartsKeep
<1>6. Told' /\ Known' BY KnownKeeps
<1>7. \A i \in Ids : StaysOver(i) BY DEF StaysOver, Over, Kept
<1>8. QED BY <1>1, <1>2, <1>3, <1>4, <1>5, <1>6, <1>7 DEF DInv, Keeps

LEMMA SameItems == ASSUME item' = item PROVE \A i \in Ids : Kept(i)
BY DEF Kept

LEMMA PlacesKeep ==
  ASSUME DInv, \A i \in Ids : Kept(i)
  PROVE  \A p \in Places : BotOf(p)' = BotOf(p)
BY RoutesKeep DEF DInv

(* A turn belongs to a bot. *)
LEMMA BotOfTurn ==
  ASSUME DInv, NEW p \in Places, turn[p] # "none"
  PROVE  BotOf(p) \in Bots
<1>1. CASE p \in Bots BY <1>1 DEF BotOf
<1>2. CASE p \in Ids /\ p \notin Bots
  <2>1. p \in Queued BY <1>2 DEF DInv, Unused
  <2>2. QED BY <1>2, <2>1 DEF DInv, Routed, BotOf
<1>3. QED BY <1>1, <1>2 DEF Places

-----------------------------------------------------------------------------
(* Turns of persons, and what they hand out.                               *)

LEMMA StartTurnKeeps ==
  ASSUME DInv, NEW b \in Bots, StartTurn(b)
  PROVE  Keeps
<1>1. TypeOK' BY Bounds DEF DInv, TypeOK, StartTurn, Places
<1>2. \A i \in Ids : Kept(i) BY SameItems DEF StartTurn
<1>3. b \in Places /\ BotOf(b) = b BY DEF Places, BotOf
<1>4. \A p \in Places \ {b} : turn'[p] = turn[p] BY DEF DInv, TypeOK, StartTurn
<1>5. WithinSlots' BY <1>2, <1>3, <1>4, PlacesKeep, SlotTaken DEF DInv, StartTurn
<1>6. \A i \in Ids : turn'[i] # "none" => turn[i] # "none" BY <1>4, Bounds DEF Places
<1>7. \A p \in Places : WatchGoes(p)
  <2>1. watch[b] = Nothing BY <1>3 DEF DInv, Watched, WatchedIn, StartTurn
  <2>2. QED BY <1>4, <2>1 DEF WatchGoes, StartTurn
<1>8. \A a \in Bots : DrainGoes(a) /\ drain'[a] = drain[a] BY DEF DrainGoes, StartTurn
<1>9. receipt' = receipt /\ watch' = watch /\ item' = item /\ starts' = starts /\ crashes' = crashes
  BY DEF StartTurn
<1>10. \A p \in Places : \A i \in Ids : watch[p] = i => watch'[p] # Nothing BY <1>9, Bounds
<1>11. QED BY <1>1, <1>2, <1>5, <1>6, <1>7, <1>8, <1>9, <1>10, CalmKeeps

(* A turn ends in p, and with it the watch. *)
LEMMA TurnOver ==
  ASSUME DInv, TypeOK', NEW p \in Places, NEW t \in {"none", "settling"}, turn[p] # "none",
         turn' = [turn EXCEPT ![p] = t], watch' = [watch EXCEPT ![p] = Nothing],
         \A i \in Ids : Kept(i), starts' = starts, crashes' = crashes,
         \A b \in Bots : DrainGoes(b),
         \A b \in Bots : drain'[b].phase \notin {"settled", "launched"} /\ drain[b].phase # "launched",
         \A i \in Ids : receipt'[i] # receipt[i] =>
           receipt'[i] # "none" /\ (item[i].state = "pending" \/ watch[p] = i),
         \A i \in Ids : watch[p] = i => receipt'[i] # "none",
         \A i \in Ids : item[i].state = "pending" /\ item'[i].state = "gone" => receipt'[i] # "none"
  PROVE  Keeps
<1>1. /\ turn'[p] = t /\ watch'[p] = Nothing
      /\ \A q \in Places \ {p} : turn'[q] = turn[q] /\ watch'[q] = watch[q]
  BY DEF DInv, TypeOK
<1>2. \A q \in Places : turn'[q] # "none" => turn[q] # "none" BY <1>1
<1>3. WithinSlots' BY <1>2, PlacesKeep, SlotsKeep DEF DInv
<1>4. \A q \in Places : WatchGoes(q) BY <1>1 DEF WatchGoes
<1>5. \A i \in Ids : turn'[i] # "none" => turn[i] # "none" BY <1>2 DEF Places
<1>6. \A q \in Places : \A i \in Ids : watch[q] = i /\ watch'[q] = Nothing => receipt'[i] # "none"
  BY <1>1, Bounds
<1>7. \A i \in Ids : receipt[i] # "none" => receipt'[i] # "none" OBVIOUS
<1>8. \A i \in Ids : receipt'[i] # receipt[i] => item[i].state = "pending" \/ \E q \in Places : watch[q] = i
  OBVIOUS
<1>9. QED BY <1>3, <1>4, <1>5, <1>6, <1>7, <1>8, CalmKeeps

LEMMA FinalizedReturns ==
  ASSUME DInv, NEW p \in Places, NEW ok \in BOOLEAN
  PROVE  /\ Finalized(p, ok) \in [Ids -> Verdicts \cup {"none"}]
         /\ \A i \in Ids : Finalized(p, ok)[i] # receipt[i] => watch[p] = i /\ Finalized(p, ok)[i] # "none"
         /\ \A i \in Ids : watch[p] = i => Finalized(p, ok)[i] # "none"
         /\ Source(p) \in SUBSET Bots
<1>1. receipt \in [Ids -> Verdicts \cup {"none"}] BY DEF DInv, TypeOK
<1>2. CASE watch[p] = Nothing BY <1>1, <1>2, Bounds DEF Finalized, Source
<1>3. CASE watch[p] # Nothing
  <2>1. PICK k \in Ids : k = watch[p] BY <1>3, Typed DEF DInv
  <2>2. item[k].from \in Bots BY <1>3, <2>1 DEF DInv, Watched, WatchedIn, Routed
  <2>3. Finalized(p, ok) = [receipt EXCEPT ![k] = IF ok /\ k \notin barred THEN "done" ELSE "failed"]
    BY <1>3, <2>1 DEF Finalized
  <2>4. QED BY <1>1, <1>3, <2>1, <2>2, <2>3 DEF Source, Verdicts
<1>4. QED BY <1>2, <1>3

LEMMA QuietDrains ==
  ASSUME DInv, Quiet
  PROVE  \A b \in Bots : drain[b].phase \notin {"settled", "launched", "ready"}
BY DEF Quiet

LEMMA DrainedGoes ==
  ASSUME DInv, NEW S, drain' = Drained(item', S),
         item' \in [Ids -> ItemType]
  PROVE  /\ \A b \in Bots : DrainGoes(b)
         /\ \A b \in Bots : \/ drain'[b] = drain[b]
                            \/ drain[b].phase = "idle" /\ drain'[b].phase \in {"idle", "ready"}
         /\ drain' \in [Bots -> DrainType]
<1>1. \A b \in Bots : drain'[b] = IF b \in S /\ drain[b].phase = "idle" THEN Snapshot(item', b) ELSE drain[b]
  BY DEF Drained
<1>2. \A b \in Bots : Snapshot(item', b) \in DrainType /\ Snapshot(item', b).phase \in {"idle", "ready"}
  BY DEF Snapshot, QueueIn, Idle, DrainType
<1>3. \A b \in Bots : DrainGoes(b) BY <1>1 DEF DrainGoes
<1>4. \A b \in Bots : drain'[b] \in DrainType BY <1>1, <1>2, Typed DEF DInv
<1>5. drain' \in [Bots -> DrainType] BY <1>4 DEF Drained
<1>6. QED BY <1>1, <1>2, <1>3, <1>5

LEMMA CompletedKeeps ==
  ASSUME DInv, NEW p \in Places, NEW ok \in BOOLEAN, NEW lingers \in BOOLEAN, Completed(p, ok, lingers)
  PROVE  Keeps
<1> DEFINE drops == ~ok /\ p \in Bots
           base  == IF ok \/ p \notin Bots THEN item ELSE Discarded(p)
<1>1. \A i \in Ids : /\ item'[i].from = item[i].from /\ item'[i].to = item[i].to
                     /\ item'[i].opened = item[i].opened
                     /\ item'[i].state = IF drops /\ i \in Pending(p) THEN "gone" ELSE item[i].state
                     /\ item'[i] \in ItemType
  <2>1. base \in [Ids -> ItemType] BY Typed DEF DInv, Discarded, ItemType
  <2>2. \A i \in Ids : /\ base[i].from = item[i].from /\ base[i].to = item[i].to
                       /\ base[i].opened = item[i].opened
                       /\ base[i].state = IF drops /\ i \in Pending(p) THEN "gone" ELSE item[i].state
    BY Typed DEF DInv, Discarded, ItemType
  <2>3. item' = Settle(base, p) BY DEF Completed
  <2> HIDE DEF base
  <2>4. \A i \in Ids : item'[i] = IF p \in Bots /\ base[i].from = p THEN [base[i] EXCEPT !.fresh = FALSE] ELSE base[i]
    BY <2>3 DEF Settle
  <2>5. ASSUME NEW i \in Ids
        PROVE  /\ item'[i] \in ItemType /\ item'[i].state = base[i].state /\ item'[i].from = base[i].from
               /\ item'[i].to = base[i].to /\ item'[i].opened = base[i].opened
    BY <2>1, <2>4 DEF ItemType
  <2>6. QED BY <2>2, <2>5
<1>2. item' \in [Ids -> ItemType] BY <1>1 DEF Completed, Settle
<1>3. \A i \in Ids : Kept(i) BY <1>1 DEF Kept, Pending
<1>4. turn[p] # "none" /\ BotOf(p) \in Bots BY BotOfTurn DEF Completed
<1>5. /\ receipt' \in [Ids -> Verdicts \cup {"none"}]
      /\ \A i \in Ids : receipt'[i] # receipt[i] =>
           receipt'[i] # "none" /\ (item[i].state = "pending" \/ watch[p] = i)
      /\ \A i \in Ids : watch[p] = i => receipt'[i] # "none"
      /\ \A i \in Ids : drops /\ i \in Pending(p) => receipt'[i] # "none"
  <2> DEFINE f == Finalized(p, ok)
  <2>1. /\ f \in [Ids -> Verdicts \cup {"none"}]
        /\ \A i \in Ids : f[i] # receipt[i] => watch[p] = i /\ f[i] # "none"
        /\ \A i \in Ids : watch[p] = i => f[i] # "none"
    BY FinalizedReturns
  <2>2. receipt' = IF drops THEN Stopped(f, p) ELSE f BY DEF Completed
  <2> HIDE DEF f, drops
  <2>3. receipt' = [i \in Ids |-> IF drops /\ i \in Pending(p) THEN "stopped" ELSE f[i]]
    BY <2>1, <2>2 DEF Stopped
  <2>4. "stopped" \in Verdicts BY DEF Verdicts
  <2>5. \A i \in Ids : i \in Pending(p) => item[i].state = "pending" BY DEF Pending
  <2>6. QED BY <2>1, <2>3, <2>4, <2>5
<1>6. /\ \A b \in Bots : DrainGoes(b)
      /\ \A b \in Bots : drain'[b] = drain[b] \/ drain'[b].phase \in {"idle", "ready"}
      /\ drain' \in [Bots -> DrainType] /\ redrain' \subseteq Bots
  <2>1. CASE ok /\ p \in Bots
    <3>1. drain' = Drained(item', {p}) /\ redrain' = Redrains({p}) BY <2>1 DEF Completed
    <3>2. redrain' \subseteq Bots BY <2>1, <3>1 DEF DInv, TypeOK, Redrains
    <3>3. QED BY <1>2, <3>1, <3>2, DrainedGoes
  <2>2. CASE ~(ok /\ p \in Bots)
    <3>1. drain' = drain /\ redrain' = redrain BY <2>2 DEF Completed
    <3>2. QED BY <3>1, Typed DEF DInv, TypeOK, DrainGoes
  <2>3. QED BY <2>1, <2>2
<1>7. \A b \in Bots : drain'[b].phase \notin {"settled", "launched"} /\ drain[b].phase # "launched"
  BY <1>6, QuietDrains DEF Completed
<1>8. TypeOK'
  <2>1. /\ turn' \in [Places -> {"none", "own", "wake", "job", "settling"}]
        /\ watch' \in [Places -> 0 .. MaxItems]
    BY Bounds DEF DInv, TypeOK, Completed, Nothing
  <2>2. Source(p) \in SUBSET Bots BY FinalizedReturns
  <2>3. retry' \subseteq Bots /\ waking' \subseteq Bots /\ wakes' \subseteq Bots
    BY <1>4, <2>2 DEF DInv, TypeOK, Completed
  <2>4. QED BY <1>2, <1>5, <1>6, <2>1, <2>3 DEF DInv, TypeOK, Completed, ItemType, DrainType
<1>9. \A i \in Ids : item[i].state = "pending" /\ item'[i].state = "gone" => receipt'[i] # "none"
  BY <1>1, <1>5
<1>10. PICK t \in {"none", "settling"} : turn' = [turn EXCEPT ![p] = t] BY DEF Completed
<1>11. watch' = [watch EXCEPT ![p] = Nothing] /\ starts' = starts /\ crashes' = crashes BY DEF Completed
<1>12. QED BY <1>3, <1>4, <1>5, <1>6, <1>7, <1>8, <1>9, <1>10, <1>11, TurnOver

LEMMA ReleasedKeeps ==
  ASSUME DInv, NEW p \in Places, Released(p)
  PROVE  Keeps
<1>1. BotOf(p) \in Bots BY BotOfTurn DEF Released
<1>2. TypeOK' BY <1>1 DEF DInv, TypeOK, Released
<1>3. \A i \in Ids : Kept(i) BY SameItems DEF Released
<1>4. watch[p] = Nothing BY DEF DInv, Watched, WatchedIn, Released
<1>5. watch' = [watch EXCEPT ![p] = Nothing]
  BY <1>4 DEF DInv, TypeOK, Released
<1>6. \A b \in Bots : DrainGoes(b) BY DEF DrainGoes, Released
<1>7. \A b \in Bots : drain'[b].phase \notin {"settled", "launched"} /\ drain[b].phase # "launched"
  BY QuietDrains DEF Released
<1>8. /\ receipt' = receipt /\ item' = item /\ starts' = starts /\ crashes' = crashes
      /\ turn' = [turn EXCEPT ![p] = "none"] /\ turn[p] # "none"
  BY DEF Released
<1>9. \A i \in Ids : watch[p] # i BY <1>4, Bounds
<1>10. QED BY <1>2, <1>3, <1>5, <1>6, <1>7, <1>8, <1>9, TurnOver

LEMMA SetupFailedKeeps ==
  ASSUME DInv, NEW p \in Places, SetupFailed(p)
  PROVE  Keeps
<1>1. BotOf(p) \in Bots BY BotOfTurn DEF SetupFailed
<1>2. /\ receipt' \in [Ids -> Verdicts \cup {"none"}] /\ Source(p) \in SUBSET Bots
      /\ \A i \in Ids : receipt'[i] # receipt[i] => watch[p] = i /\ receipt'[i] # "none"
      /\ \A i \in Ids : watch[p] = i => receipt'[i] # "none"
  BY FinalizedReturns DEF SetupFailed
<1>3. TypeOK'
  <2>1. watch' \in [Places -> 0 .. MaxItems] BY Bounds DEF DInv, TypeOK, SetupFailed, Nothing
  <2>2. QED BY <1>1, <1>2, <2>1 DEF DInv, TypeOK, SetupFailed
<1>4. \A i \in Ids : Kept(i) BY SameItems DEF SetupFailed
<1>5. \A b \in Bots : DrainGoes(b) BY DEF DrainGoes, SetupFailed
<1>6. \A b \in Bots : drain'[b].phase \notin {"settled", "launched"} /\ drain[b].phase # "launched"
  BY QuietDrains DEF SetupFailed
<1>7. /\ item' = item /\ starts' = starts /\ crashes' = crashes
      /\ watch' = [watch EXCEPT ![p] = Nothing]
      /\ turn' = [turn EXCEPT ![p] = "none"] /\ turn[p] # "none"
  BY DEF SetupFailed
<1>8. QED BY <1>2, <1>3, <1>4, <1>5, <1>6, <1>7, TurnOver

(* The new item is known to nobody yet. *)
LEMMA QueueKeeps ==
  ASSUME DInv, NEW b \in Bots, NEW to \in Bots, NEW opened \in BOOLEAN, Queue(b, to, opened)
  PROVE  Keeps
<1>1. PICK k \in Ids : k = NextId BY DEF Queue
<1>2. k = Cardinality(Queued) + 1 /\ Queued = 1 .. Cardinality(Queued) BY <1>1 DEF NextId, Queued, DInv, InSequence
<1>3. k \notin Queued BY <1>2, QueuedIsFinite
<1>4. /\ item'[k] = [NoItem EXCEPT !.state = "pending", !.from = b, !.to = to, !.opened = opened, !.fresh = TRUE]
      /\ \A i \in Ids \ {k} : item'[i] = item[i]
  BY <1>1 DEF DInv, TypeOK, Queue
<1>5. item'[k].state = "pending" /\ item'[k].from = b /\ item'[k].to = to /\ item'[k] \in ItemType
  BY <1>4 DEF NoItem, ItemType
<1>6. UNCHANGED <<drain, redrain, retry, turn, watch, receipt, wakes, waking, budget, starts, barred, turns, crashes>>
  BY DEF Queue
<1>7. TypeOK'
  <2>1. item' \in [Ids -> ItemType] BY <1>4, <1>5, Typed DEF DInv, Queue
  <2>2. QED BY <1>6, <2>1 DEF DInv, TypeOK, ItemType
<1>8. Queued' = Queued \cup {k} BY <1>4, <1>5 DEF Queued
<1>9. InSequence'
  <2> DEFINE n == Cardinality(Queued)
  <2>1. n \in Nat /\ Queued = 1 .. n /\ k = n + 1 BY <1>2, QueuedIsFinite
  <2> HIDE DEF n
  <2>2. Queued' = 1 .. (n + 1) BY <1>8, <2>1
  <2>3. Cardinality(1 .. (n + 1)) = n + 1 BY <2>1, FS_Interval
  <2>4. QED BY <2>2, <2>3 DEF InSequence
<1>10. Routed' BY <1>4, <1>5, <1>8 DEF DInv, Routed, Queued
<1>11. Unused' BY <1>6, <1>8 DEF DInv, Unused
<1>12. \A i \in Queued : i # k /\ item'[i] = item[i] /\ Place(i)' = Place(i) BY <1>3, <1>4 DEF Queued, Place
<1>13. Snapshots'
  <2>1. \A a \in Bots : \A i \in drain[a].todo : i \in Queued BY Typed DEF DInv, Snapshots, Queued
  <2>2. QED BY <1>6, <1>12, <2>1 DEF DInv, Snapshots
<1>14. Watched'
  <2>1. SUFFICES ASSUME NEW p \in Places, watch[p] # Nothing PROVE WatchedIn(p, watch[p])'
    BY <1>6 DEF Watched
  <2>2. PICK i \in Ids : i = watch[p] BY <2>1, Typed DEF DInv
  <2>3. WatchedIn(p, i) BY <2>1, <2>2 DEF DInv, Watched
  <2>4. WatchedIn(p, i)' BY <1>6, <1>8, <1>12, <2>3 DEF WatchedIn
  <2>5. QED BY <1>6, <2>2, <2>4
<1>15. StartsBound'
  <2>1. \A i \in Ids \ {k} : Begun(i)' <=> Begun(i) BY <1>4, <1>6 DEF Begun, Due
  <2>2. starts[k] = 0 BY <1>3 DEF DInv, Unused
  <2>3. crashes \in Nat BY Typed DEF DInv
  <2>4. QED BY <1>4, <1>6, <2>1, <2>2, <2>3 DEF DInv, StartsBound
<1>16. \A i \in Ids : Informed(i)' <=> Informed(i) BY <1>6 DEF Informed
<1>17. Told' BY <1>6, <1>16 DEF DInv, Told, Due
<1>18. Known'
  <2>1. SUFFICES ASSUME NEW i \in Ids, item'[i].state = "gone" PROVE Informed(i)' BY DEF Known, Informed
  <2>2. item[i].state = "gone" BY <1>4, <1>5, <2>1
  <2>3. QED BY <1>16, <2>2 DEF DInv, Known, Informed
<1>19. WithinSlots'
  <2>1. \A p \in Places : turn[p] # "none" => BotOf(p)' = BotOf(p)
    BY <1>3, <1>4 DEF DInv, Unused, BotOf, Places
  <2>2. \A a \in Bots : Busy(a)' = Busy(a) BY <1>6, <2>1 DEF Busy
  <2>3. QED BY <2>2 DEF DInv, WithinSlots
<1>20. \A i \in Ids : StaysOver(i)
  <2>1. \A i \in Ids : Over(i) => i # k BY <1>3 DEF Over, Queued
  <2>2. QED BY <1>4, <1>6, <2>1 DEF StaysOver, Over
<1>21. QED
  BY <1>7, <1>9, <1>10, <1>11, <1>13, <1>14, <1>15, <1>17, <1>18, <1>19, <1>20 DEF DInv, Keeps

-----------------------------------------------------------------------------
(* Steps that touch no turn.                                               *)

LEMMA TurnsStay ==
  ASSUME DInv, TypeOK', \A i \in Ids : Kept(i), UNCHANGED <<turn, watch, starts, crashes>>,
         \A b \in Bots : DrainGoes(b),
         \A i \in Ids : receipt'[i] # receipt[i] => item[i].state = "pending" /\ receipt'[i] # "none",
         \A b \in Bots : \A i \in Ids :
           drain'[b].phase \in {"settled", "launched"} /\ Due(b)' = i =>
             drain'[b] = drain[b] \/ Informed(i) \/ receipt'[i] # "none",
         \A b \in Bots : \A i \in Ids : drain[b].phase = "launched" /\ Due(b) = i =>
           drain'[b] = drain[b] \/ item'[i].state # "pending",
         \A i \in Ids : item[i].state = "pending" /\ item'[i].state = "gone" => Informed(i) \/ receipt'[i] # "none"
  PROVE  Keeps
<1>1. WithinSlots' BY PlacesKeep, SlotsKeep DEF DInv
<1>2. \A p \in Places : WatchGoes(p) BY DEF WatchGoes
<1>3. \A p \in Places : \A i \in Ids : watch[p] = i => watch'[p] # Nothing BY Bounds
<1>4. \A i \in Ids : receipt[i] # "none" => receipt'[i] # "none" OBVIOUS
<1>5. QED BY <1>1, <1>2, <1>3, <1>4, CalmKeeps

LEMMA BarKeeps ==
  ASSUME DInv, NEW i \in Ids, Bar(i)
  PROVE  Keeps
<1>1. TypeOK' BY DEF DInv, TypeOK, Bar
<1>2. \A j \in Ids : Kept(j) BY SameItems DEF Bar
<1>3. \A b \in Bots : DrainGoes(b) BY DEF DrainGoes, Bar
<1>4. UNCHANGED <<item, drain, turn, watch, receipt, starts, crashes>> BY DEF Bar
<1>5. QED BY <1>1, <1>2, <1>3, <1>4, TurnsStay

LEMMA ElapseKeeps ==
  ASSUME DInv, NEW i \in Ids, Elapse(i)
  PROVE  Keeps
<1>1. /\ item' \in [Ids -> ItemType]
      /\ \A j \in Ids : /\ item'[j].state = item[j].state /\ item'[j].from = item[j].from
                        /\ item'[j].to = item[j].to /\ item'[j].opened = item[j].opened
  BY ZenonT(20), Typed DEF DInv, Elapse, ItemType
<1>2. TypeOK' BY <1>1 DEF DInv, TypeOK, Elapse, ItemType
<1>3. \A j \in Ids : Kept(j) BY <1>1 DEF Kept
<1>4. \A b \in Bots : DrainGoes(b) BY DEF DrainGoes, Elapse
<1>5. UNCHANGED <<drain, turn, watch, receipt, starts, crashes>> BY DEF Elapse
<1>6. QED BY <1>1, <1>2, <1>3, <1>4, <1>5, TurnsStay

LEMMA SweepKeeps ==
  ASSUME DInv, Sweep
  PROVE  Keeps
<1>1. Stale \in SUBSET Ids /\ \A i \in Stale : item[i].state = "pending" /\ item[i].from \in Bots
  BY DEF Stale, DInv, Routed, Queued
<1>2. /\ item' \in [Ids -> ItemType]
      /\ \A j \in Ids : /\ item'[j].state = IF j \in Stale THEN "gone" ELSE item[j].state
                        /\ item'[j].from = item[j].from
                        /\ item'[j].to = item[j].to /\ item'[j].opened = item[j].opened
  BY SMTT(20), Typed DEF DInv, Sweep, ItemType
<1>3. \A j \in Ids : receipt'[j] = IF j \in Stale THEN "expired" ELSE receipt[j] BY DEF Sweep
<1>4. receipt' \in [Ids -> Verdicts \cup {"none"}] BY <1>3, Typed DEF DInv, Sweep, Verdicts
<1>5. waking' \subseteq Bots BY <1>1 DEF DInv, TypeOK, Sweep
<1>6. TypeOK' BY <1>2, <1>4, <1>5 DEF DInv, TypeOK, Sweep, ItemType
<1>7. \A j \in Ids : Kept(j) BY <1>1, <1>2 DEF Kept
<1>8. \A b \in Bots : DrainGoes(b) BY DEF DrainGoes, Sweep
<1>9. UNCHANGED <<drain, turn, watch, starts, crashes>> BY DEF Sweep
<1>10. QED BY <1>1, <1>2, <1>3, <1>6, <1>7, <1>8, <1>9, TurnsStay

-----------------------------------------------------------------------------
(* The steps of a drain.  Others of the drain b work on their own items.    *)

ItemsMarked ==
  /\ item' \in [Ids -> ItemType]
  /\ \A j \in Ids : /\ item'[j].state = item[j].state /\ item'[j].from = item[j].from
                    /\ item'[j].to = item[j].to /\ item'[j].opened = item[j].opened
InHand(b, i) == i \in Ids /\ i = Due(b) /\ drain[b].todo # {} /\ drain[b].phase \in {"ready", "asking"}
Rest == <<redrain, retry, wakes, waking, budget, barred, turns, crashes>>

LEMMA MarkedKept == ASSUME ItemsMarked PROVE \A j \in Ids : Kept(j)
BY DEF ItemsMarked, Kept

LEMMA SameMarked == ASSUME DInv, item' = item PROVE ItemsMarked
BY Typed DEF DInv, ItemsMarked

LEMMA MarkingMarks ==
  ASSUME DInv, NEW i \in Ids, NEW v \in BOOLEAN, NEW w \in BOOLEAN,
         \/ item' = [item EXCEPT ![i].held = v]
         \/ item' = [item EXCEPT ![i].granted = v]
         \/ item' = [[item EXCEPT ![i].granted = v] EXCEPT ![i].held = w]
  PROVE  ItemsMarked
<1>1. item \in [Ids -> ItemType] BY Typed DEF DInv
<1>2. CASE item' = [item EXCEPT ![i].held = v] BY <1>1, <1>2 DEF ItemsMarked, ItemType
<1>3. CASE item' = [item EXCEPT ![i].granted = v] BY <1>1, <1>3 DEF ItemsMarked, ItemType
<1>4. CASE item' = [[item EXCEPT ![i].granted = v] EXCEPT ![i].held = w]
  <2> DEFINE g == [item EXCEPT ![i].granted = v]
  <2>1. /\ g \in [Ids -> ItemType]
        /\ \A j \in Ids : /\ g[j].state = item[j].state /\ g[j].from = item[j].from
                          /\ g[j].to = item[j].to /\ g[j].opened = item[j].opened
    BY <1>1 DEF ItemType
  <2>2. item' = [g EXCEPT ![i].held = w] BY <1>4
  <2> HIDE DEF g
  <2>3. QED BY <2>1, <2>2 DEF ItemsMarked, ItemType
<1>5. QED BY <1>2, <1>3, <1>4

LEMMA ToReturns ==
  ASSUME DInv, NEW b \in Bots, NEW f \in {"asking", "settled", "launched"}, To(b, f)
  PROVE  /\ drain' \in [Bots -> DrainType]
         /\ drain'[b].phase = f /\ drain'[b].todo = drain[b].todo
         /\ \A a \in Bots \ {b} : drain'[a] = drain[a]
         /\ Due(b)' = Due(b)
<1>1. drain \in [Bots -> DrainType] BY Typed DEF DInv
<1>2. /\ drain' \in [Bots -> DrainType]
      /\ drain'[b].phase = f /\ drain'[b].todo = drain[b].todo
      /\ \A a \in Bots \ {b} : drain'[a] = drain[a]
  BY <1>1 DEF To, DrainType
<1>3. Due(b)' = Due(b) BY <1>2 DEF Due
<1>4. QED BY <1>2, <1>3

LEMMA PassReturns ==
  ASSUME DInv, NEW b \in Bots, Pass(b)
  PROVE  /\ drain' \in [Bots -> DrainType]
         /\ drain'[b].phase = "ready" /\ drain'[b].todo \subseteq drain[b].todo
         /\ \A a \in Bots \ {b} : drain'[a] = drain[a]
<1>1. drain \in [Bots -> DrainType] BY Typed DEF DInv
<1>2. QED BY <1>1 DEF Pass, DrainType

(* The item ends without a turn, or a person is asked. *)
LEMMA ToKeeps ==
  ASSUME DInv, NEW b \in Bots, NEW i, InHand(b, i), ItemsMarked,
         NEW f \in {"asking", "settled", "launched"}, To(b, f),
         receipt' \in [Ids -> Verdicts \cup {"none"}],
         \A j \in Ids : receipt'[j] # receipt[j] => item[j].state = "pending" /\ receipt'[j] # "none",
         f # "asking" => item[i].state # "pending" \/ receipt'[i] # "none",
         UNCHANGED <<turn, watch, starts>>, UNCHANGED Rest
  PROVE  Keeps
<1>1. /\ drain' \in [Bots -> DrainType]
      /\ drain'[b].phase = f /\ drain'[b].todo = drain[b].todo
      /\ \A a \in Bots \ {b} : drain'[a] = drain[a]
      /\ Due(b)' = i
  BY ToReturns DEF InHand
<1>2. TypeOK' BY <1>1 DEF DInv, TypeOK, ItemsMarked, ItemType, DrainType, Rest
<1>3. \A a \in Bots : DrainGoes(a) BY <1>1 DEF DrainGoes, InHand
<1>4. item[i].state # "pending" => Informed(i)
  <2>1. i \in drain[b].todo BY DueIsInHand DEF InHand, DInv
  <2>2. item[i].state # "none" BY <2>1 DEF DInv, Snapshots
  <2>3. item[i].state = "gone" => Informed(i) BY DEF DInv, Known, Informed, InHand
  <2>4. QED BY <2>2, <2>3, Typed DEF InHand, DInv
<1>5. \A a \in Bots : \A j \in Ids : drain'[a].phase \in {"settled", "launched"} /\ Due(a)' = j =>
        drain'[a] = drain[a] \/ Informed(j) \/ receipt'[j] # "none"
  BY <1>1, <1>4
<1>6. \A a \in Bots : \A j \in Ids : drain[a].phase = "launched" /\ Due(a) = j => drain'[a] = drain[a]
  BY <1>1 DEF InHand
<1>7. \A j \in Ids : ~(item[j].state = "pending" /\ item'[j].state = "gone") BY DEF ItemsMarked
<1>8. UNCHANGED <<turn, watch, starts, crashes>> BY DEF Rest
<1>9. QED BY <1>2, <1>3, <1>5, <1>6, <1>7, <1>8, MarkedKept, TurnsStay

LEMMA PassKeeps ==
  ASSUME DInv, NEW b \in Bots, NEW i, InHand(b, i), ItemsMarked, Pass(b),
         UNCHANGED <<receipt, turn, watch, starts>>, UNCHANGED Rest
  PROVE  Keeps
<1>1. /\ drain' \in [Bots -> DrainType]
      /\ drain'[b].phase = "ready" /\ drain'[b].todo \subseteq drain[b].todo
      /\ \A a \in Bots \ {b} : drain'[a] = drain[a]
  BY PassReturns
<1>2. TypeOK' BY <1>1 DEF DInv, TypeOK, ItemsMarked, ItemType, DrainType, Rest
<1>3. \A a \in Bots : DrainGoes(a) BY <1>1 DEF DrainGoes
<1>4. \A a \in Bots : drain'[a].phase \in {"settled", "launched"} => drain'[a] = drain[a] BY <1>1
<1>5. \A a \in Bots : drain[a].phase = "launched" => drain'[a] = drain[a] BY <1>1 DEF InHand
<1>6. \A j \in Ids : ~(item[j].state = "pending" /\ item'[j].state = "gone") BY DEF ItemsMarked
<1>7. UNCHANGED <<turn, watch, receipt, starts, crashes>> BY DEF Rest
<1>8. QED BY <1>2, <1>3, <1>4, <1>5, <1>6, <1>7, MarkedKept, TurnsStay

(* The item starts: its place is free, and no watch is lost. *)
LEMMA StartKeeps ==
  ASSUME DInv, NEW b \in Bots, NEW i, InHand(b, i), item[i].state = "pending", CanTake(i), ItemsMarked,
         To(b, "launched"), NEW q, q = Place(i),
         turn' = [turn EXCEPT ![q] = "job"], watch' = [watch EXCEPT ![q] = i],
         starts' = [starts EXCEPT ![i] = @ + 1], receipt' = receipt, UNCHANGED Rest
  PROVE  Keeps
<1>1. /\ drain' \in [Bots -> DrainType]
      /\ drain'[b].phase = "launched" /\ drain'[b].todo = drain[b].todo
      /\ \A a \in Bots \ {b} : drain'[a] = drain[a]
      /\ Due(b)' = i
  BY ToReturns DEF InHand
<1>2. i \in Ids /\ i \in Queued /\ item[i].from = b
  <2>1. i \in drain[b].todo BY DueIsInHand DEF InHand, DInv
  <2>2. QED BY <2>1 DEF InHand, DInv, Snapshots, Queued
<1>3. q \in Places /\ BotOf(q) = item[i].to /\ item[i].to \in Bots
  BY <1>2, PlaceIsPlace DEF DInv, Routed
<1>4. /\ turn'[q] = "job" /\ watch'[q] = i /\ starts'[i] = starts[i] + 1
      /\ \A p \in Places \ {q} : turn'[p] = turn[p] /\ watch'[p] = watch[p]
      /\ \A j \in Ids \ {i} : starts'[j] = starts[j]
  BY <1>2, <1>3 DEF DInv, TypeOK
<1>5. \A j \in Ids : starts[j] \in Nat /\ crashes \in Nat BY Typed DEF DInv
<1>6. TypeOK'
  <2>1. i \in 0 .. MaxItems BY <1>2, Bounds DEF Ids
  <2>2. watch' \in [Places -> 0 .. MaxItems] BY <1>3, <2>1 DEF DInv, TypeOK
  <2>3. turn' \in [Places -> {"none", "own", "wake", "job", "settling"}] BY <1>3 DEF DInv, TypeOK
  <2>4. starts' \in [Ids -> Nat] BY <1>2, <1>5 DEF DInv, TypeOK
  <2>5. QED BY <1>1, <2>2, <2>3, <2>4 DEF DInv, TypeOK, ItemsMarked, ItemType, DrainType, Rest
<1>7. \A j \in Ids : Kept(j) BY MarkedKept
<1>8. /\ InSequence' /\ Routed' /\ Queued' = Queued
      /\ \A j \in Ids : Place(j)' = Place(j)
      /\ \A p \in Places : BotOf(p)' = BotOf(p)
  BY <1>7, RoutesKeep DEF DInv
<1>9. Unused'
  <2>1. \A j \in Ids \ Queued : j # q
    BY <1>2, <1>3, Bounds DEF Place
  <2>2. QED BY <1>2, <1>4, <1>8, <2>1 DEF DInv, Unused, Places
<1>10. Snapshots'
  <2>1. \A a \in Bots : DrainGoes(a) BY <1>1 DEF DrainGoes, InHand
  <2>2. QED BY <1>7, <2>1, SnapshotsKeep
<1>11. Watched'
  <2>1. SUFFICES ASSUME NEW p \in Places, watch'[p] # Nothing PROVE WatchedIn(p, watch[p])' BY DEF Watched
  <2>2. CASE p = q
    <3>1. Place(i)' = q BY <1>2, <1>8
    <3>2. WatchedIn(q, i)' BY <1>2, <1>4, <1>5, <1>8, <3>1 DEF WatchedIn
    <3>3. QED BY <1>4, <2>2, <3>2
  <2>3. CASE p # q
    <3>1. watch'[p] = watch[p] /\ turn'[p] = turn[p] BY <1>4, <2>3
    <3>2. PICK j \in Ids : j = watch[p] BY <2>1, <3>1, Typed DEF DInv
    <3>3. WatchedIn(p, j) BY <2>1, <3>1, <3>2 DEF DInv, Watched
    <3>4. starts'[j] > 0 BY <1>4, <1>5, <3>3 DEF WatchedIn
    <3>5. WatchedIn(p, j)' BY <1>8, <3>1, <3>3, <3>4 DEF WatchedIn
    <3>6. QED BY <3>1, <3>2, <3>5
  <2>4. QED BY <2>2, <2>3
<1>12. crashes' = crashes BY DEF Rest
<1>13. StartsBound'
  <2>1. \A j \in Ids \ {i} : Begun(j) => Begun(j)'
    <3>1. SUFFICES ASSUME NEW j \in Ids \ {i}, NEW a \in Bots,
                          item[j].from = a, drain[a].phase = "launched", Due(a) = j
                   PROVE  Begun(j)'
      BY DEF Begun
    <3>2. a # b BY <3>1 DEF InHand
    <3>3. drain'[a] = drain[a] BY <1>1, <3>2
    <3>4. Due(a)' = j /\ item'[j].from = a BY <3>1, <3>3 DEF Due, ItemsMarked
    <3>5. QED BY <3>1, <3>3, <3>4 DEF Begun
  <2>2. ~Begun(i) BY <1>2 DEF Begun, InHand
  <2>3. Begun(i)' BY <1>1, <1>2 DEF Begun, ItemsMarked
  <2>4. starts[i] <= crashes BY <1>2, <2>2 DEF DInv, StartsBound
  <2>5. starts'[i] <= 1 + crashes BY <1>2, <1>4, <1>5, <2>4
  <2>6. QED BY <1>4, <1>12, <2>1, <2>3, <2>5 DEF DInv, StartsBound, ItemsMarked
<1>14. \A j \in Ids : Informed(j) => Informed(j)'
  <2>1. SUFFICES ASSUME NEW j \in Ids, Informed(j) PROVE Informed(j)' OBVIOUS
  <2>2. CASE receipt[j] # "none" BY <2>2 DEF Informed
  <2>3. CASE starts[j] > 0 /\ crashes > 0 BY <1>4, <1>5, <1>12, <2>3 DEF Informed
  <2>4. CASE \E p \in Places : watch[p] = j /\ turn[p] = "job"
    <3>1. PICK p \in Places : watch[p] = j /\ turn[p] = "job" BY <2>4
    <3>2. CASE p # q BY <1>4, <3>1, <3>2 DEF Informed
    <3>3. CASE p = q
      <4>1. j \in Queued /\ Place(j) = q BY <3>1, <3>3, Bounds DEF DInv, Watched, WatchedIn
      <4>2. item[i].opened
        <5>1. SUFFICES ASSUME ~item[i].opened PROVE FALSE OBVIOUS
        <5>2. Busy(item[i].to) = {} BY <5>1 DEF CanTake
        <5>3. q \in Busy(item[i].to) BY <1>3, <3>1, <3>3 DEF Busy
        <5>4. QED BY <5>2, <5>3
      <4>3. q = i BY <4>2 DEF Place
      <4>4. j = i
        <5>1. item[j].to \in Bots BY <4>1 DEF DInv, Routed
        <5>2. QED BY <1>2, <4>1, <4>3, <5>1, Bounds DEF Place
      <4>5. QED BY <1>3, <1>4, <4>4 DEF Informed
    <3>4. QED BY <3>2, <3>3
  <2>5. QED BY <2>1, <2>2, <2>3, <2>4 DEF Informed
<1>15. Informed(i)' BY <1>3, <1>4 DEF Informed
<1>16. Told'
  <2>1. SUFFICES ASSUME NEW a \in Bots, NEW j \in Ids, drain'[a].phase \in {"settled", "launched"}, Due(a)' = j
                 PROVE  Informed(j)'
    BY DEF Told
  <2>2. CASE a = b BY <1>1, <1>15, <2>1, <2>2
  <2>3. CASE a # b
    <3>1. drain'[a] = drain[a] BY <1>1, <2>3
    <3>2. Due(a) = j BY <2>1, <3>1 DEF Due
    <3>3. QED BY <1>14, <2>1, <3>1, <3>2 DEF DInv, Told
  <2>4. QED BY <2>2, <2>3
<1>17. Known' BY <1>14 DEF DInv, Known, Informed, ItemsMarked
<1>18. WithinSlots'
  <2>1. Busy(item[i].to) = {} \/ Cardinality(Busy(item[i].to)) < Slots BY DEF CanTake
  <2>2. \A p \in Places \ {q} : turn'[p] # "none" => turn[p] # "none" BY <1>4
  <2>3. PICK a \in Bots : a = item[i].to BY <1>3
  <2>4. QED BY <1>3, <1>8, <2>1, <2>2, <2>3, SlotTaken DEF DInv
<1>19. \A j \in Ids : StaysOver(j) BY <1>4 DEF StaysOver, Over, ItemsMarked
<1>20. QED BY <1>6, <1>8, <1>9, <1>10, <1>11, <1>13, <1>16, <1>17, <1>18, <1>19 DEF DInv, Keeps

(* runTarget: the turn starts, or is refused. *)
LEMMA LaunchKeeps ==
  ASSUME DInv, NEW b \in Bots, NEW i, InHand(b, i), item[i].state = "pending", CanTake(i),
         NEW it, Launch(b, i, it), ItemsMarked, UNCHANGED Rest
  PROVE  Keeps
<1>1. CASE /\ turn' = [turn EXCEPT ![Place(i)] = "job"] /\ watch' = [watch EXCEPT ![Place(i)] = i]
           /\ starts' = [starts EXCEPT ![i] = @ + 1] /\ UNCHANGED receipt
  BY <1>1, StartKeeps DEF Launch
<1>2. CASE receipt' = [receipt EXCEPT ![i] = "failed"] /\ UNCHANGED <<turn, watch, starts>>
  <2>1. receipt \in [Ids -> Verdicts \cup {"none"}] /\ i \in Ids BY DEF DInv, TypeOK, InHand
  <2>2. /\ receipt' \in [Ids -> Verdicts \cup {"none"}]
        /\ \A j \in Ids : receipt'[j] # receipt[j] => item[j].state = "pending" /\ receipt'[j] # "none"
        /\ receipt'[i] # "none"
    BY <1>2, <2>1 DEF Verdicts
  <2>3. To(b, "launched") BY DEF Launch
  <2>4. QED BY <1>2, <2>2, <2>3, ToKeeps
<1>3. QED BY <1>1, <1>2 DEF Launch

(* The item ends without a turn. *)
LEMMA EndKeeps ==
  ASSUME DInv, NEW b \in Bots, NEW i, InHand(b, i), item[i].state = "pending", ItemsMarked,
         NEW v \in Verdicts, receipt' = [receipt EXCEPT ![i] = v], To(b, "settled"),
         UNCHANGED <<turn, watch, starts>>, UNCHANGED Rest
  PROVE  Keeps
<1>1. receipt \in [Ids -> Verdicts \cup {"none"}] /\ i \in Ids BY DEF DInv, TypeOK, InHand
<1>2. v # "none" BY DEF Verdicts
<1>3. /\ receipt' \in [Ids -> Verdicts \cup {"none"}]
      /\ \A j \in Ids : receipt'[j] # receipt[j] => item[j].state = "pending" /\ receipt'[j] # "none"
      /\ receipt'[i] # "none"
  BY <1>1, <1>2
<1>4. QED BY <1>3, ToKeeps

LEMMA DrainItemKeeps ==
  ASSUME DInv, NEW b \in Bots, DrainItem(b)
  PROVE  Keeps
<1>1. PICK i : i = Due(b) OBVIOUS
<1>2. InHand(b, i) BY <1>1, DueIsInHand DEF InHand, DrainItem, DInv
<1>3. i \in Ids BY <1>2 DEF InHand
<1>4. UNCHANGED Rest BY DEF DrainItem, Rest
<1>5. CASE item[i].state # "pending" /\ Pass(b) /\ UNCHANGED <<item, receipt, turn, watch, starts>>
  BY <1>2, <1>4, <1>5, SameMarked, PassKeeps
<1>6. CASE item[i].state = "pending" /\ Ends(b, i, "dropped")
  <2>1. "dropped" \in Verdicts BY DEF Verdicts
  <2>2. QED BY <1>2, <1>4, <1>6, <2>1, SameMarked, EndKeeps DEF Ends
<1>7. CASE item[i].state = "pending" /\ Waits(b, i)
  <2>1. CASE Ends(b, i, "expired")
    <3>1. "expired" \in Verdicts BY DEF Verdicts
    <3>2. QED BY <1>2, <1>4, <1>7, <2>1, <3>1, SameMarked, EndKeeps DEF Ends
  <2>2. CASE Pass(b) /\ item' = [item EXCEPT ![i].held = TRUE] /\ UNCHANGED <<receipt, turn, watch, starts>>
    <3>1. ItemsMarked BY <1>3, <2>2, MarkingMarks
    <3>2. QED BY <1>2, <1>4, <2>2, <3>1, PassKeeps
  <2>3. QED BY <1>7, <2>1, <2>2 DEF Waits
<1>8. CASE item' = [item EXCEPT ![i].held = FALSE] /\ To(b, "asking") /\ UNCHANGED <<receipt, turn, watch, starts>>
  <2>1. ItemsMarked BY <1>3, <1>8, MarkingMarks
  <2>2. receipt' \in [Ids -> Verdicts \cup {"none"}] BY <1>8 DEF DInv, TypeOK
  <2>3. QED BY <1>2, <1>4, <1>8, <2>1, <2>2, ToKeeps
<1>9. CASE item[i].state = "pending" /\ CanTake(i) /\ Launch(b, i, [item EXCEPT ![i].held = FALSE])
  <2>1. ItemsMarked BY <1>3, <1>9, MarkingMarks DEF Launch
  <2>2. QED BY <1>2, <1>4, <1>9, <2>1, LaunchKeeps
<1>10. QED BY <1>1, <1>5, <1>6, <1>7, <1>8, <1>9 DEF DrainItem

LEMMA VerdictKeeps ==
  ASSUME DInv, NEW b \in Bots, NEW allow \in BOOLEAN, Verdict(b, allow)
  PROVE  Keeps
<1>1. PICK i : i = Due(b) OBVIOUS
<1>2. InHand(b, i)
  <2>1. drain[b].todo # {} BY DEF DInv, Snapshots, Verdict
  <2>2. QED BY <1>1, <2>1, DueIsInHand DEF InHand, Verdict, DInv
<1>3. i \in Ids BY <1>2 DEF InHand
<1>4. UNCHANGED Rest BY DEF Verdict, Rest
<1>5. CASE item[i].state # "pending" /\ To(b, "settled") /\ UNCHANGED <<item, receipt, turn, watch, starts>>
  <2>1. receipt' \in [Ids -> Verdicts \cup {"none"}] BY <1>5 DEF DInv, TypeOK
  <2>2. QED BY <1>2, <1>4, <1>5, <2>1, SameMarked, ToKeeps
<1>6. CASE item[i].state = "pending" /\ (Ends(b, i, "dropped") \/ Ends(b, i, "denied"))
  <2>1. "dropped" \in Verdicts /\ "denied" \in Verdicts BY DEF Verdicts
  <2>2. QED BY <1>2, <1>4, <1>6, <2>1, SameMarked, EndKeeps DEF Ends
<1>7. CASE item[i].state = "pending" /\ CanTake(i) /\ Launch(b, i, [item EXCEPT ![i].granted = TRUE])
  <2>1. ItemsMarked BY <1>3, <1>7, MarkingMarks DEF Launch
  <2>2. QED BY <1>2, <1>4, <1>7, <2>1, LaunchKeeps
<1>8. CASE /\ item[i].state = "pending" /\ item' = [item EXCEPT ![i].granted = TRUE]
           /\ receipt' = [receipt EXCEPT ![i] = "expired"] /\ To(b, "settled") /\ UNCHANGED <<turn, watch, starts>>
  <2>1. "expired" \in Verdicts BY DEF Verdicts
  <2>2. ItemsMarked BY <1>3, <1>8, MarkingMarks
  <2>3. QED BY <1>2, <1>4, <1>8, <2>1, <2>2, EndKeeps
<1>9. CASE /\ item[i].state = "pending" /\ item' = [[item EXCEPT ![i].granted = TRUE] EXCEPT ![i].held = TRUE]
           /\ Pass(b) /\ UNCHANGED <<receipt, turn, watch, starts>>
  <2>1. ItemsMarked BY <1>3, <1>9, MarkingMarks
  <2>2. QED BY <1>2, <1>4, <1>9, <2>1, PassKeeps
<1>10. QED BY <1>1, <1>5, <1>6, <1>7, <1>8, <1>9 DEF Verdict

LEMMA AcknowledgeKeeps ==
  ASSUME DInv, NEW b \in Bots, Acknowledge(b)
  PROVE  Keeps
<1>1. drain[b].todo # {} BY DEF DInv, Snapshots, Acknowledge
<1>2. PICK i \in Ids : i = Due(b) BY <1>1, DueIsInHand DEF DInv
<1>3. i \in drain[b].todo BY <1>1, <1>2, DueIsInHand DEF DInv
<1>4. item[i].state \in {"pending", "gone"} BY <1>3, Typed DEF DInv, Snapshots
<1>5. item' = [item EXCEPT ![i].state = "gone"] BY <1>2 DEF Acknowledge
<1>6. /\ item' \in [Ids -> ItemType]
      /\ \A j \in Ids : /\ item'[j].state = IF j = i THEN "gone" ELSE item[j].state
                        /\ item'[j].from = item[j].from
                        /\ item'[j].to = item[j].to /\ item'[j].opened = item[j].opened
  BY <1>5, Typed DEF DInv, ItemType
<1>7. \A j \in Ids : Kept(j) BY <1>4, <1>6 DEF Kept
<1>8. /\ drain' \in [Bots -> DrainType]
      /\ drain'[b].phase = "ready" /\ drain'[b].todo \subseteq drain[b].todo
      /\ \A a \in Bots \ {b} : drain'[a] = drain[a]
  BY PassReturns DEF Acknowledge
<1>9. waking' \subseteq Bots BY DEF DInv, TypeOK, Acknowledge
<1>10. TypeOK' BY <1>6, <1>8, <1>9 DEF DInv, TypeOK, Acknowledge, ItemType, DrainType
<1>11. \A a \in Bots : DrainGoes(a) BY <1>8 DEF DrainGoes
<1>12. Informed(i) BY <1>2 DEF DInv, Told, Acknowledge
<1>13. \A a \in Bots : drain'[a].phase \in {"settled", "launched"} => drain'[a] = drain[a] BY <1>8
<1>14. \A a \in Bots : \A j \in Ids : drain[a].phase = "launched" /\ Due(a) = j =>
         drain'[a] = drain[a] \/ item'[j].state # "pending"
  BY <1>2, <1>6, <1>8
<1>15. \A j \in Ids : item[j].state = "pending" /\ item'[j].state = "gone" => Informed(j) BY <1>6, <1>12
<1>16. UNCHANGED <<turn, watch, receipt, starts, crashes>> BY DEF Acknowledge
<1>17. QED BY <1>7, <1>10, <1>11, <1>13, <1>14, <1>15, <1>16, TurnsStay

LEMMA DrainEndKeeps ==
  ASSUME DInv, NEW b \in Bots, DrainEnd(b)
  PROVE  Keeps
<1>1. \A j \in Ids : Kept(j) BY SameItems DEF DrainEnd
<1>2. /\ drain'[b] = Idle \/ drain'[b] = Snapshot(item', b)
      /\ \A a \in Bots \ {b} : drain'[a] = drain[a]
  BY Typed DEF DInv, DrainEnd
<1>3. Idle \in DrainType /\ Snapshot(item', b) \in DrainType BY DEF Idle, Snapshot, QueueIn, DrainType
<1>4. drain' \in [Bots -> DrainType] BY <1>2, <1>3, Typed DEF DInv, DrainEnd
<1>5. TypeOK' BY <1>4 DEF DInv, TypeOK, DrainEnd, DrainType
<1>6. \A a \in Bots : DrainGoes(a) BY <1>2 DEF DrainGoes
<1>7. drain'[b].phase \in {"idle", "ready"} /\ drain[b].phase = "ready"
  BY <1>2 DEF Idle, Snapshot, DrainEnd
<1>8. \A a \in Bots : drain'[a].phase \in {"settled", "launched"} => drain'[a] = drain[a] BY <1>2, <1>7
<1>9. \A a \in Bots : drain[a].phase = "launched" => drain'[a] = drain[a] BY <1>2, <1>7
<1>10. UNCHANGED <<item, turn, watch, receipt, starts, crashes>> BY DEF DrainEnd
<1>11. QED BY <1>1, <1>5, <1>6, <1>8, <1>9, <1>10, TurnsStay

LEMMA RetryKeeps ==
  ASSUME DInv, NEW b \in Bots, Retry(b)
  PROVE  Keeps
<1> DEFINE free == {i \in Ids : /\ item[i].state = "pending" /\ item[i].to = b /\ item[i].held
                                /\ Busy(b) = {} \/ (item[i].opened /\ Cardinality(Busy(b)) < Slots)}
           S    == {item[i].from : i \in free}
<1>1. item' = [i \in Ids |-> IF i \in free THEN [item[i] EXCEPT !.held = FALSE] ELSE item[i]]
  BY DEF Retry
<1>2. drain' = Drained(item', S) /\ redrain' = Redrains(S) BY DEF Retry
<1> HIDE DEF free
<1>3. ItemsMarked
  <2>1. \A j \in Ids : item[j] \in ItemType BY Typed DEF DInv
  <2>2. \A j \in Ids : item'[j] = item[j] \/ item'[j] = [item[j] EXCEPT !.held = FALSE] BY <1>1
  <2>3. ASSUME NEW j \in Ids
        PROVE  /\ item'[j] \in ItemType /\ item'[j].state = item[j].state /\ item'[j].from = item[j].from
               /\ item'[j].to = item[j].to /\ item'[j].opened = item[j].opened
    BY ZenonT(20), <2>1, <2>2 DEF ItemType
  <2>4. QED BY <1>1, <2>3 DEF ItemsMarked
<1>4. \A j \in Ids : Kept(j) BY <1>3, MarkedKept
<1> HIDE DEF S
<1>5. /\ \A a \in Bots : DrainGoes(a)
      /\ \A a \in Bots : \/ drain'[a] = drain[a]
                         \/ drain[a].phase = "idle" /\ drain'[a].phase \in {"idle", "ready"}
      /\ drain' \in [Bots -> DrainType]
  BY <1>2, <1>3, DrainedGoes DEF ItemsMarked
<1>6. redrain' \subseteq Bots
  <2>1. \A a \in S : drain[a].phase # "idle" => a \in Bots BY DEF S, free, DInv, Routed, Queued
  <2>2. QED BY <1>2, <2>1 DEF DInv, TypeOK, Redrains
<1>7. TypeOK' BY <1>3, <1>5, <1>6 DEF DInv, TypeOK, Retry, ItemsMarked, ItemType, DrainType
<1>8. UNCHANGED <<turn, watch, receipt, starts, crashes>> BY DEF Retry
<1>9. \A j \in Ids : ~(item[j].state = "pending" /\ item'[j].state = "gone") BY <1>3 DEF ItemsMarked
<1>10. QED BY <1>4, <1>5, <1>7, <1>8, <1>9, TurnsStay

LEMMA WakeKeeps ==
  ASSUME DInv, NEW b \in Bots, Wake(b)
  PROVE  Keeps
<1>1. TypeOK' BY SMTT(20), Bounds DEF DInv, TypeOK, Wake, Places
<1>2. \A i \in Ids : Kept(i) BY SameItems DEF Wake
<1>3. \A a \in Bots : DrainGoes(a) BY DEF DrainGoes, Wake
<1>4. UNCHANGED <<item, drain, watch, receipt, starts, crashes>> BY DEF Wake
<1>5. CASE turn' = turn BY <1>1, <1>2, <1>3, <1>4, <1>5, TurnsStay
<1>6. CASE turn[b] = "none" /\ Cardinality(Busy(b)) < Slots /\ turn' = [turn EXCEPT ![b] = "wake"]
  <2>1. b \in Places /\ BotOf(b) = b BY DEF Places, BotOf
  <2>2. \A p \in Places \ {b} : turn'[p] = turn[p] BY <1>6 DEF DInv, TypeOK
  <2>3. WithinSlots' BY <1>2, <1>6, <2>1, <2>2, PlacesKeep, SlotTaken DEF DInv
  <2>4. \A i \in Ids : turn'[i] # "none" => turn[i] # "none" BY <2>2, Bounds DEF Places
  <2>5. \A p \in Places : WatchGoes(p)
    <3>1. watch[b] = Nothing BY <1>6, <2>1 DEF DInv, Watched, WatchedIn
    <3>2. QED BY <1>4, <2>2, <3>1 DEF WatchGoes
  <2>6. \A p \in Places : \A i \in Ids : watch[p] = i => watch'[p] # Nothing BY <1>4, Bounds
  <2>7. QED BY <1>1, <1>2, <1>3, <1>4, <2>3, <2>4, <2>5, <2>6, CalmKeeps
<1>7. QED BY <1>5, <1>6 DEF Wake

-----------------------------------------------------------------------------
(* Restarts, and the specification.                                        *)

LEMMA RestartKeeps ==
  ASSUME DInv, Restart
  PROVE  Keeps
<1>1. /\ item' \in [Ids -> ItemType] /\ item' = Renewed
      /\ \A j \in Ids : /\ item'[j].state = item[j].state /\ item'[j].from = item[j].from
                        /\ item'[j].to = item[j].to /\ item'[j].opened = item[j].opened
  <2>1. \A j \in Ids : item[j] \in ItemType BY Typed DEF DInv
  <2>2. item' = [j \in Ids |-> [item[j] EXCEPT !.late = FALSE, !.fresh = FALSE]] BY DEF Restart, Renewed
  <2>3. ASSUME NEW j \in Ids
        PROVE  /\ item'[j] \in ItemType /\ item'[j].state = item[j].state /\ item'[j].from = item[j].from
               /\ item'[j].to = item[j].to /\ item'[j].opened = item[j].opened
    BY <2>1, <2>2 DEF ItemType
  <2>4. QED BY <2>2, <2>3 DEF Renewed
<1>2. \A j \in Ids : Kept(j) BY <1>1 DEF Kept
<1>3. \A b \in Bots : drain'[b] = Snapshot(item', b) BY <1>1 DEF Restart
<1>4. \A b \in Bots : Snapshot(item', b) \in DrainType /\ Snapshot(item', b).phase \in {"idle", "ready"}
  BY DEF Snapshot, QueueIn, Idle, DrainType
<1>5. drain' \in [Bots -> DrainType] BY <1>3, <1>4 DEF Restart
<1>6. TypeOK'
  <2>1. /\ turn' \in [Places -> {"none", "own", "wake", "job", "settling"}]
        /\ watch' \in [Places -> 0 .. MaxItems] /\ budget' \in [Bots -> 0 .. WakeLimit]
        /\ crashes' \in 0 .. MaxCrashes
    BY Bounds DEF DInv, TypeOK, Restart, Nothing
  <2>2. QED BY <1>1, <1>5, <2>1 DEF DInv, TypeOK, Restart, ItemType, DrainType
<1>7. InSequence' /\ Routed' /\ Queued' = Queued /\ \A p \in Places : BotOf(p)' = BotOf(p)
  BY <1>2, RoutesKeep DEF DInv
<1>8. \A p \in Places : turn'[p] = "none" /\ watch'[p] = Nothing BY DEF Restart
<1>9. starts' = starts /\ receipt' = receipt /\ crashes' = crashes + 1 BY DEF Restart
<1>10. \A i \in Ids : starts[i] \in Nat /\ crashes \in Nat BY Typed DEF DInv
<1>11. Unused' BY <1>7, <1>8, <1>9 DEF DInv, Unused, Places
<1>12. Snapshots'
  <2>1. \A b \in Bots : DrainGoes(b) BY <1>3 DEF DrainGoes
  <2>2. QED BY <1>2, <2>1, SnapshotsKeep
<1>13. Watched' BY <1>8 DEF Watched
<1>14. StartsBound' BY <1>9, <1>10 DEF DInv, StartsBound
<1>15. Told' BY <1>3, <1>4 DEF Told
<1>16. Known'
  <2>1. SUFFICES ASSUME NEW i \in Ids, item[i].state = "gone" PROVE Informed(i)'
    BY <1>1 DEF Known, Informed
  <2>2. Informed(i) BY <2>1 DEF DInv, Known, Informed
  <2>3. CASE receipt[i] # "none" BY <1>9, <2>3 DEF Informed
  <2>4. CASE starts[i] > 0 BY <1>9, <1>10, <2>4 DEF Informed
  <2>5. CASE \E p \in Places : watch[p] = i
    <3>1. starts[i] > 0 BY <2>5, Bounds DEF DInv, Watched, WatchedIn
    <3>2. QED BY <2>4, <3>1
  <2>6. QED BY <2>2, <2>3, <2>4, <2>5 DEF Informed
<1>17. WithinSlots' BY <1>7, <1>8, SlotsKeep DEF DInv
<1>18. \A i \in Ids : StaysOver(i) BY <1>1, <1>9 DEF StaysOver, Over
<1>19. QED BY <1>6, <1>7, <1>11, <1>12, <1>13, <1>14, <1>15, <1>16, <1>17, <1>18 DEF DInv, Keeps

LEMMA DInvInit ==
  ASSUME Init
  PROVE  DInv
<1>1. TypeOK
  <2>1. /\ item \in [Ids -> ItemType] /\ drain \in [Bots -> DrainType]
        /\ turn \in [Places -> {"none", "own", "wake", "job", "settling"}]
        /\ receipt \in [Ids -> Verdicts \cup {"none"}]
    BY DEF Init, NoItem, ItemType, Idle, DrainType
  <2>2. /\ watch \in [Places -> 0 .. MaxItems] /\ budget \in [Bots -> 0 .. WakeLimit]
        /\ starts \in [Ids -> Nat] /\ turns \in 0 .. MaxTurns /\ crashes \in 0 .. MaxCrashes
    BY Bounds DEF Init, Nothing
  <2>3. QED BY <2>1, <2>2 DEF Init, TypeOK, ItemType, DrainType
<1>2. Queued = {} BY DEF Init, Queued, NoItem
<1>3. \A b \in Bots : drain[b].phase = "idle" /\ drain[b].todo = {} BY DEF Init, Idle
<1>4. \A p \in Places : turn[p] = "none" /\ watch[p] = Nothing BY DEF Init
<1>5. \A i \in Ids : starts[i] = 0 BY DEF Init
<1>6. InSequence
  <2>1. Cardinality(Queued) = 0 BY <1>2, FS_EmptySet
  <2>2. QED BY <1>2, <2>1 DEF InSequence
<1>7. Routed BY <1>2 DEF Routed
<1>8. Unused BY <1>4, <1>5 DEF Unused, Places
<1>9. Snapshots BY <1>3 DEF Snapshots
<1>10. Watched BY <1>4 DEF Watched
<1>11. StartsBound BY <1>5 DEF Init, StartsBound
<1>12. Told BY <1>3 DEF Told
<1>13. Known BY <1>2 DEF Known, Queued
<1>14. WithinSlots
  <2>1. SUFFICES ASSUME NEW b \in Bots PROVE Cardinality(Busy(b)) <= Slots BY DEF WithinSlots
  <2>2. Busy(b) = {} BY <1>4 DEF Busy
  <2>3. QED BY <2>2, FS_EmptySet, Bounds
<1>15. QED BY <1>1, <1>6, <1>7, <1>8, <1>9, <1>10, <1>11, <1>12, <1>13, <1>14 DEF DInv

LEMMA NextKeeps ==
  ASSUME DInv, Next
  PROVE  Keeps
<1>1. ASSUME NEW b \in Bots, StartTurn(b) \/ \E to \in Bots, opened \in BOOLEAN : Queue(b, to, opened)
      PROVE  Keeps
  BY <1>1, StartTurnKeeps, QueueKeeps
<1>2. ASSUME NEW p \in Places, \/ \E ok, lingers \in BOOLEAN : Completed(p, ok, lingers)
                               \/ Released(p) \/ SetupFailed(p)
      PROVE  Keeps
  BY <1>2, CompletedKeeps, ReleasedKeeps, SetupFailedKeeps
<1>3. ASSUME NEW i \in Ids, Bar(i) \/ Elapse(i) PROVE Keeps BY <1>3, BarKeeps, ElapseKeeps
<1>4. ASSUME NEW b \in Bots, NEW allow \in BOOLEAN, Verdict(b, allow) PROVE Keeps BY <1>4, VerdictKeeps
<1>5. CASE Microtask
  <2>1. ASSUME NEW b \in Bots, DrainItem(b) \/ Acknowledge(b) \/ DrainEnd(b) \/ Retry(b) \/ Wake(b)
        PROVE  Keeps
    BY <2>1, DrainItemKeeps, AcknowledgeKeeps, DrainEndKeeps, RetryKeeps, WakeKeeps
  <2>2. QED BY <1>5, <2>1 DEF Microtask
<1>6. CASE Sweep \/ Restart BY <1>6, SweepKeeps, RestartKeeps
<1>7. QED BY <1>1, <1>2, <1>3, <1>4, <1>5, <1>6 DEF Next

LEMMA StutterKeeps ==
  ASSUME DInv, UNCHANGED vars
  PROVE  DInv'
<1>1. UNCHANGED <<item, drain, redrain, retry, turn, watch, receipt, wakes, waking, budget, starts,
                  barred, turns, crashes>>
  BY DEF vars
<1>2. TypeOK' BY <1>1 DEF DInv, TypeOK
<1>3. \A i \in Ids : Kept(i) BY <1>1, SameItems
<1>4. \A b \in Bots : DrainGoes(b) BY <1>1 DEF DrainGoes
<1>5. QED BY <1>1, <1>2, <1>3, <1>4, TurnsStay DEF Keeps

LEMMA DInvHolds == Spec => []DInv
<1>1. Init => DInv BY DInvInit
<1>2. DInv /\ [Next]_vars => DInv' BY NextKeeps, StutterKeeps DEF Keeps
<1>3. QED BY <1>1, <1>2, PTL DEF Spec

(* Handoffs, drains, watches and receipts stay within their types; a drain    *)
(* that works has an item in hand (drainDelegations, 410; processOne, 675).    *)
THEOREM DelegationsTyped == Spec => []TypeOK
<1>1. DInv => TypeOK BY DEF DInv
<1>2. QED BY <1>1, DInvHolds, PTL

(* A handoff is started once in a life of the process, and once more at most  *)
(* after each restart (acknowledgeDelegation, 455, follows runTarget, 745).    *)
THEOREM HandoffsStartOnce == Spec => []StartsOnce
<1>1. DInv => StartsOnce BY DEF DInv, StartsBound, StartsOnce
<1>2. QED BY <1>1, DInvHolds, PTL

(* Drains that waited, wakes and people together never give a bot more turns  *)
(* than it has slots (processOne, 718-727; dispatchDelegationWake).            *)
THEOREM BotsKeepToSlots == Spec => []WithinSlots
<1>1. DInv => WithinSlots BY DEF DInv
<1>2. QED BY <1>1, DInvHolds, PTL

(* A handoff that left the queue has a receipt or runs, unless a restart cut  *)
(* its turn short (finalizeDelegationWatch, index.ts:5083).                    *)
THEOREM HandoffsAreKnown == Spec => []Known
<1>1. DInv => Known BY DEF DInv
<1>2. QED BY <1>1, DInvHolds, PTL

(* No snapshot, approval or restart runs or settles again what is over        *)
(* (drainDelegations, 410; processOne, 675).                                   *)
THEOREM HandoffsStayOver == Spec => OverIsOver
<1>1. DInv /\ [Next]_vars => [\A i \in Ids : StaysOver(i)]_vars BY NextKeeps DEF Keeps
<1>2. QED BY <1>1, DInvHolds, PTL DEF Spec, OverIsOver
=============================================================================
