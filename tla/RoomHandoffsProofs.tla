------------------------- MODULE RoomHandoffsProofs -------------------------
(***************************************************************************)
(* The safety of the handed-out work, for any bots, rooms and bounds.  The *)
(* line from a node to its ancestors and the tree below it are recursive   *)
(* functions: each is shown to exist as a least fixed point, and what      *)
(* holds along a line of ancestors is shown by its least counterexample.   *)
(***************************************************************************)
EXTENDS RoomHandoffs, FiniteSetTheorems, WellFoundedInduction, TLAPS

TickType == [pass : {"idle", "expire", "visit", "said"}, at : 0 .. MaxNodes + 1]

(* Ids are given out in order; a node stays what it was made, and is made  *)
(* under an older node of the same tree.                                   *)
Issued     == {m \in Ids : nodes[m].root # 0}
InSequence == Present \subseteq Issued /\ \E k \in 0 .. MaxNodes : Issued = 1 .. k
Descent ==
  \A c \in Issued : nodes[c].parent # 0 => /\ nodes[c].parent \in Issued
                                           /\ nodes[c].parent < c
                                           /\ nodes[nodes[c].parent].root = nodes[c].root

(* Nothing is open, and nothing runs, in a conversation that was deleted.  *)
Standing ==
  /\ \A n \in Live : nodes[n].place \notin gone
  /\ \A p \in Places : Busy(p) => p \notin gone

(* A turn works for a node of its own place, which is a root that has not  *)
(* gone on, or runs; or it was settled meanwhile.                          *)
WorksFor(t) == IF t.run THEN Settled \cup {"running", "absent"}
                        ELSE {"source", "failed", "cancelled", "absent"}
TurnAt(p) ==
  /\ turn[p].run => turn[p].node # Person
  /\ turn[p].node # Person => /\ turn[p].node \in Issued
                              /\ nodes[turn[p].node].place = p
                              /\ nodes[turn[p].node].status \in WorksFor(turn[p])
AtHome == \A p \in Places : TurnAt(p)

(* The author of open work has not completed, and waits once it has begun. *)
AuthorOf(c) == nodes[nodes[c].parent].status
InOrder ==
  \A c \in Live : HasParent(c) =>
    /\ AuthorOf(c) \in {"source", "running", "waiting", "failed", "cancelled"}
    /\ nodes[c].status # "queued" => AuthorOf(c) \notin {"source", "running"}

(* The children a run found had all settled.                               *)
KidsHadSettled(p) ==
  turn[p].run /\ turn[p].node \in Live => turn[p].kids <= Cardinality(Children(turn[p].node) \ Live)
Counted == \A p \in Places : KidsHadSettled(p)

(* A report was said, or needs no saying; a resume was told everything.    *)
Accounted(c) == \/ told[c] = 1
                \/ Assignment(c) /\ nodes[c].status = "completed"
                \/ nodes[nodes[c].parent].place \in gone
ReportsSaid ==
  \A c \in Present : nodes[c].parent # 0 /\ nodes[c].reported => c \notin Live /\ Accounted(c)
Saying ==
  tick.pass = "said" => /\ tick.at \in Present \ Live
                        /\ nodes[tick.at].parent # 0 /\ Accounted(tick.at)
Resumes == \A n \in Live : nodes[n].status = "resume" => \A c \in Children(n) : nodes[c].reported

RInv == /\ TypeOK /\ InSequence /\ Descent /\ Standing /\ AtHome /\ InOrder /\ Counted
        /\ ResultSaidOnce /\ ReportsSaid /\ Saying /\ Resumes

Keeps == RInv' /\ \A n \in Ids : KeepsOutcome(n)

-----------------------------------------------------------------------------
(* Constants, nodes and ids.                                               *)

LEMMA Bounds ==
  /\ MaxNodes \in Nat /\ MaxTurns \in Nat /\ MaxRestarts \in Nat /\ ExecutionLimit \in Nat
  /\ Ids \subseteq Nat \ {0} /\ Ids \subseteq 0 .. MaxNodes
BY BoundsAssumption DEF Ids

LEMMA Typed ==
  ASSUME TypeOK
  PROVE  /\ nodes \in [Ids -> Node] /\ turn \in [Places -> Turn] /\ tick \in TickType
         /\ \A n \in Ids : /\ nodes[n].status \in Settled \cup Open \cup {"absent"}
                           /\ nodes[n].parent \in 0 .. MaxNodes /\ nodes[n].root \in 0 .. MaxNodes
                           /\ nodes[n].parent \in Nat /\ nodes[n].root \in Nat
                           /\ told[n] \in Nat
         /\ \A p \in Places : /\ turn[p].node \in 0 .. MaxNodes /\ turn[p].run \in BOOLEAN
                              /\ turn[p].kids \in 0 .. MaxNodes /\ turn[p].kids \in Nat
<1>1. nodes \in [Ids -> Node] /\ turn \in [Places -> Turn] /\ tick \in TickType
  BY DEF TypeOK, TickType
<1>2. ASSUME NEW n \in Ids
      PROVE  /\ nodes[n].status \in Settled \cup Open \cup {"absent"}
             /\ nodes[n].parent \in 0 .. MaxNodes /\ nodes[n].root \in 0 .. MaxNodes
             /\ nodes[n].parent \in Nat /\ nodes[n].root \in Nat
             /\ told[n] \in Nat
  BY <1>1, Bounds DEF Node, TypeOK
<1>3. ASSUME NEW p \in Places
      PROVE  /\ turn[p].node \in 0 .. MaxNodes /\ turn[p].run \in BOOLEAN
             /\ turn[p].kids \in 0 .. MaxNodes /\ turn[p].kids \in Nat
  BY <1>1, Bounds DEF Turn
<1>4. QED BY <1>1, <1>2, <1>3

LEMMA OpenIsPresent == Live \subseteq Present /\ Present \subseteq Ids /\ "absent" \notin Open
BY DEF Live, Present, Open

LEMMA FiniteIds ==
  ASSUME NEW S \in SUBSET Ids
  PROVE  IsFiniteSet(S) /\ Cardinality(S) \in 0 .. MaxNodes
<1>1. IsFiniteSet(Ids) /\ Cardinality(Ids) = MaxNodes BY Bounds, FS_Interval DEF Ids
<1>2. IsFiniteSet(S) /\ Cardinality(S) <= Cardinality(Ids) BY <1>1, FS_Subset
<1>3. Cardinality(S) \in Nat BY <1>2, FS_CardinalityType
<1>4. QED BY <1>1, <1>2, <1>3, Bounds

LEMMA Fewer ==
  ASSUME NEW S \in SUBSET Ids, NEW T \in SUBSET S
  PROVE  /\ Cardinality(T) <= Cardinality(S)
         /\ Cardinality(S) <= Cardinality(T) => T = S
<1>1. IsFiniteSet(S) /\ Cardinality(S) \in Nat BY FiniteIds, Bounds
<1>2. Cardinality(T) \in Nat BY FiniteIds, Bounds
<1>3. Cardinality(T) <= Cardinality(S) /\ (Cardinality(T) = Cardinality(S) => S = T)
  BY <1>1, FS_Subset
<1>4. QED BY <1>1, <1>2, <1>3

LEMMA NextIsFresh ==
  ASSUME TypeOK, InSequence
  PROVE  /\ NextId \in Nat \ {0} /\ Issued = 1 .. (NextId - 1)
         /\ \A m \in Nat : m \in Issued => m < NextId
<1>1. PICK k \in 0 .. MaxNodes : Issued = 1 .. k BY DEF InSequence
<1>2. Cardinality(1 .. k) = k BY <1>1, Bounds, FS_Interval
<1>3. NextId = k + 1 BY <1>1, <1>2 DEF NextId, Issued
<1>4. QED BY <1>1, <1>3, Bounds

LEMMA Least ==
  ASSUME NEW S \in SUBSET Nat, S # {}
  PROVE  \E m \in S : \A k \in S : m <= k
<1> DEFINE R == OpToRel(<, Nat)
<1>1. IsWellFoundedOn(R, Nat) BY NatLessThanWellFounded
<1>2. \E m \in S : \A k \in S : ~(<<k, m>> \in R) BY <1>1, WFMin
<1>3. \A k, m \in Nat : <<k, m>> \in R <=> k < m BY DEF OpToRel
<1> HIDE DEF R
<1>4. PICK m \in S : \A k \in S : ~(<<k, m>> \in R) BY <1>2
<1>5. ASSUME NEW k \in S PROVE m <= k
  <2>1. k \in Nat /\ m \in Nat OBVIOUS
  <2>2. ~(k < m) BY <1>3, <1>4, <2>1
  <2>3. QED BY <2>1, <2>2
<1>6. QED BY <1>5

-----------------------------------------------------------------------------
(* Steps that hand out nothing and start no run: nodes only settle, and     *)
(* turns only end.                                                          *)

Kin(n) ==
  /\ nodes'[n].parent = nodes[n].parent /\ nodes'[n].root = nodes[n].root
  /\ nodes'[n].place = nodes[n].place
  /\ \/ nodes'[n].reported = nodes[n].reported
     \/ nodes'[n].reported = TRUE /\ n \notin Live /\ Accounted(n)
  /\ \/ nodes'[n].status = nodes[n].status
     \/ n \in Live /\ nodes'[n].status \in {"failed", "cancelled"}
SameTurn(p) ==
  /\ turn'[p].node = turn[p].node /\ turn'[p].run = turn[p].run /\ turn'[p].kids = turn[p].kids
Unbound(p) == turn'[p].node = Person /\ turn'[p].run = FALSE

LEMMA KinSets ==
  ASSUME TypeOK, TypeOK', \A n \in Ids : Kin(n)
  PROVE  /\ Live' \subseteq Live /\ Present' = Present /\ Issued' = Issued
         /\ \A n \in Live' : nodes'[n].status = nodes[n].status
         /\ \A n \in Ids : Children(n)' = Children(n)
<1>1. ASSUME NEW n \in Ids
      PROVE  /\ n \in Live' => n \in Live /\ nodes'[n].status = nodes[n].status
             /\ n \in Present' <=> n \in Present
             /\ n \in Issued' <=> n \in Issued
  <2>1. Kin(n) OBVIOUS
  <2>2. {"failed", "cancelled"} \cap Open = {} /\ "absent" \notin Open BY DEF Open
  <2>3. QED BY <2>1, <2>2 DEF Kin, Live, Present, Issued
<1>2. Live' \subseteq Ids /\ Live \subseteq Ids /\ Present' \subseteq Ids /\ Present \subseteq Ids
      /\ Issued' \subseteq Ids /\ Issued \subseteq Ids
  BY DEF Live, Present, Issued
<1>3. Present' = Present BY <1>1, <1>2
<1>4. ASSUME NEW n \in Ids PROVE Children(n)' = Children(n)
  BY <1>2, <1>3 DEF Children, Kin
<1>5. QED BY <1>1, <1>2, <1>3, <1>4

LEMMA CalmStep ==
  ASSUME RInv, TypeOK', Standing', \A n \in Ids : Kin(n),
         \A p \in Places : SameTurn(p) \/ Unbound(p),
         told' = told, gone \subseteq gone', tick'.pass # "said"
  PROVE  Keeps
<1>1. TypeOK BY DEF RInv
<1>2. /\ Live' \subseteq Live /\ Present' = Present /\ Issued' = Issued
      /\ \A n \in Live' : nodes'[n].status = nodes[n].status
      /\ \A n \in Ids : Children(n)' = Children(n)
  BY <1>1, KinSets
<1>3. Live \subseteq Present /\ Present \subseteq Ids /\ Issued \subseteq Ids
  BY DEF Live, Present, Open, Issued
<1>4. InSequence' BY <1>2 DEF RInv, InSequence
<1>5. Descent'
  <2>1. ASSUME NEW c \in Issued, nodes'[c].parent # 0
        PROVE  /\ nodes'[c].parent \in Issued /\ nodes'[c].parent < c
               /\ nodes'[nodes'[c].parent].root = nodes'[c].root
    <3>1. nodes'[c].parent = nodes[c].parent /\ nodes'[c].root = nodes[c].root
      BY <1>3 DEF Kin
    <3>2. /\ nodes[c].parent \in Issued /\ nodes[c].parent < c
          /\ nodes[nodes[c].parent].root = nodes[c].root
      BY <2>1, <3>1 DEF RInv, Descent
    <3>3. nodes'[nodes[c].parent].root = nodes[nodes[c].parent].root BY <3>2, <1>3 DEF Kin
    <3>4. QED BY <3>1, <3>2, <3>3
  <2>2. QED BY <2>1, <1>2 DEF Descent
<1>6. AtHome'
  <2>1. ASSUME NEW p \in Places PROVE TurnAt(p)'
    <3>1. CASE Unbound(p) BY <3>1 DEF Unbound, TurnAt
    <3>2. CASE SameTurn(p)
      <4>1. TurnAt(p) BY DEF RInv, AtHome
      <4>2. CASE turn[p].node = Person BY <3>2, <4>1, <4>2 DEF TurnAt, SameTurn
      <4>3. CASE turn[p].node # Person
        <5> DEFINE k == turn[p].node
        <5>1. k \in Issued /\ nodes[k].place = p /\ nodes[k].status \in WorksFor(turn[p])
          BY <4>1, <4>3 DEF TurnAt
        <5>2. Kin(k) BY <5>1, <1>3
        <5>3. nodes'[k].status \in WorksFor(turn[p])
          BY <5>1, <5>2 DEF Kin, WorksFor, Settled
        <5>4. WorksFor(turn'[p]) = WorksFor(turn[p]) BY <3>2 DEF SameTurn, WorksFor
        <5>5. nodes'[k].place = p BY <5>1, <5>2 DEF Kin
        <5>6. turn'[p].node = k /\ k \in Issued' BY <3>2, <5>1, <1>2 DEF SameTurn
        <5> HIDE DEF k
        <5>7. nodes'[turn'[p].node].place = p /\ nodes'[turn'[p].node].status \in WorksFor(turn'[p])
              /\ turn'[p].node \in Issued'
          BY <5>3, <5>4, <5>5, <5>6
        <5>8. turn'[p].node # Person BY <5>6, <4>3 DEF k
        <5>9. QED BY <5>7, <5>8 DEF TurnAt
      <4>4. QED BY <4>2, <4>3
    <3>3. QED BY <3>1, <3>2
  <2>2. QED BY <2>1 DEF AtHome
<1>7. InOrder'
  <2>1. ASSUME NEW c \in Live', HasParent(c)'
        PROVE  /\ AuthorOf(c)' \in {"source", "running", "waiting", "failed", "cancelled"}
               /\ nodes'[c].status # "queued" => AuthorOf(c)' \notin {"source", "running"}
    <3>1. c \in Live /\ nodes'[c].status = nodes[c].status BY <1>2
    <3>2. nodes'[c].parent = nodes[c].parent BY <3>1, <1>3 DEF Kin
    <3> DEFINE k == nodes[c].parent
    <3>3. k \in Present /\ HasParent(c) BY <2>1, <3>2, <1>2 DEF HasParent
    <3>4. /\ nodes[k].status \in {"source", "running", "waiting", "failed", "cancelled"}
          /\ nodes[c].status # "queued" => nodes[k].status \notin {"source", "running"}
      BY <3>1, <3>3 DEF RInv, InOrder, AuthorOf
    <3>5. Kin(k) BY <3>3, <1>3
    <3>6. nodes'[k].status = nodes[k].status \/ nodes'[k].status \in {"failed", "cancelled"}
      BY <3>5 DEF Kin
    <3>7. AuthorOf(c)' = nodes'[k].status BY <3>2 DEF AuthorOf
    <3> HIDE DEF k
    <3>8. QED BY <3>1, <3>4, <3>6, <3>7
  <2>2. QED BY <2>1 DEF InOrder
<1>8. Counted'
  <2>1. ASSUME NEW p \in Places PROVE KidsHadSettled(p)'
    <3>1. SUFFICES ASSUME turn'[p].run, turn'[p].node \in Live'
                   PROVE  turn'[p].kids <= Cardinality((Children(turn[p].node) \ Live)')
      BY DEF KidsHadSettled
    <3>2. SameTurn(p) BY <3>1 DEF Unbound
    <3>3. PICK k \in Live' : k = turn'[p].node BY <3>1
    <3>4. turn[p].node = k /\ turn'[p].kids = turn[p].kids /\ turn[p].run
      BY <3>1, <3>2, <3>3 DEF SameTurn
    <3>5. k \in Live /\ k \in Ids BY <3>3, <1>2, <1>3
    <3>6. turn[p].kids <= Cardinality(Children(k) \ Live)
      BY <3>4, <3>5 DEF RInv, Counted, KidsHadSettled
    <3>7. Children(k)' = Children(k) BY <3>5, <1>2
    <3>8. Children(k) \ Live \subseteq Children(k) \ Live' BY <1>2
    <3>9. Children(k) \in SUBSET Ids BY <1>3 DEF Children
    <3>10. Cardinality(Children(k) \ Live) <= Cardinality(Children(k) \ Live')
      BY <3>8, <3>9, Fewer
    <3>11. /\ turn[p].kids \in Nat /\ Cardinality(Children(k) \ Live) \in Nat
           /\ Cardinality(Children(k) \ Live') \in Nat
      BY <3>9, <1>1, Typed, FiniteIds, Bounds
    <3>12. turn[p].kids <= Cardinality(Children(k) \ Live') BY <3>6, <3>10, <3>11
    <3>13. (Children(turn[p].node) \ Live)' = Children(k) \ Live'
      BY <3>3, <3>7 DEF Children
    <3>14. QED BY <3>4, <3>12, <3>13
  <2>2. QED BY <2>1 DEF Counted
<1>9. ASSUME NEW c \in Present, nodes[c].parent # 0, c \notin Live, Accounted(c)
      PROVE  c \notin Live' /\ Accounted(c)'
  <2>1. c \notin Live' /\ Kin(c) BY <1>9, <1>2, <1>3
  <2>2. nodes'[c].status = nodes[c].status BY <1>9, <2>1 DEF Kin
  <2>3. c \in Issued BY <1>9 DEF RInv, InSequence
  <2>4. nodes[c].parent \in Ids BY <1>3, <1>9, <2>3 DEF RInv, Descent
  <2>5. /\ nodes'[nodes[c].parent].place = nodes[nodes[c].parent].place
        /\ nodes'[c].parent = nodes[c].parent /\ nodes'[c].place = nodes[c].place
    BY <2>1, <2>4 DEF Kin
  <2>6. Assignment(c)' <=> Assignment(c) BY <2>5 DEF Assignment
  <2>7. QED BY <1>9, <2>1, <2>2, <2>5, <2>6 DEF Accounted
<1>10. ReportsSaid'
  <2>1. ASSUME NEW c \in Present, nodes'[c].parent # 0, nodes'[c].reported
        PROVE  c \notin Live' /\ Accounted(c)'
    <3>1. nodes[c].parent # 0 /\ (nodes[c].reported \/ (c \notin Live /\ Accounted(c)))
      BY <2>1, <1>3 DEF Kin
    <3>2. c \notin Live /\ Accounted(c) BY <3>1 DEF RInv, ReportsSaid
    <3>3. QED BY <3>1, <3>2, <1>9
  <2>2. QED BY <2>1, <1>2 DEF ReportsSaid
<1>11. Resumes'
  <2>1. ASSUME NEW n \in Live', nodes'[n].status = "resume", NEW c \in Children(n)'
        PROVE  nodes'[c].reported
    <3>1. n \in Live /\ nodes[n].status = "resume" /\ n \in Ids BY <2>1, <1>2, <1>3
    <3>2. c \in Children(n) BY <3>1, <1>2
    <3>3. nodes[c].reported BY <3>1, <3>2 DEF RInv, Resumes
    <3>4. c \in Ids BY <3>2, <1>3 DEF Children
    <3>5. QED BY <3>3, <3>4 DEF Kin
  <2>2. QED BY <2>1 DEF Resumes
<1>12. ResultSaidOnce' /\ Saying' BY DEF RInv, ResultSaidOnce, Saying
<1>13. ASSUME NEW n \in Ids PROVE KeepsOutcome(n)
  <2>1. Settled \cap Open = {} BY DEF Settled, Open
  <2>2. n \in Live => nodes[n].status \notin Settled BY <2>1 DEF Live
  <2>3. QED BY <2>2 DEF Kin, KeepsOutcome
<1>14. QED BY <1>4, <1>5, <1>6, <1>7, <1>8, <1>10, <1>11, <1>12, <1>13 DEF RInv, Keeps

-----------------------------------------------------------------------------
(* What a cancelled tree reaches.                                          *)

(* Whatever A and E are, some set holds just A and what leads into it along *)
(* E: the least one does.                                                   *)
Fills(C, Dom, A, E) == \A m \in Dom : m \in C <=> (m \in A \/ \E y \in C : <<m, y>> \in E)

LEMMA Reach ==
  ASSUME NEW Dom, NEW A \in SUBSET Dom, NEW E \in SUBSET (Dom \X Dom)
  PROVE  \E C \in SUBSET Dom : Fills(C, Dom, A, E)
<1> DEFINE Leads(m, D) == m \in A \/ \E y \in D : <<m, y>> \in E
           Holds(D) == \A m \in Dom : Leads(m, D) => m \in D
           C == {m \in Dom : \A D \in SUBSET Dom : Holds(D) => m \in D}
<1>1. ASSUME NEW m \in Dom, Leads(m, C) PROVE m \in C
  <2>1. ASSUME NEW D \in SUBSET Dom, Holds(D) PROVE m \in D
    <3>1. C \subseteq D BY <2>1
    <3>2. Leads(m, D) BY <3>1, <1>1
    <3>3. QED BY <3>2, <2>1
  <2>2. QED BY <2>1
<1>2. ASSUME NEW m \in C PROVE Leads(m, C)
  <2> DEFINE D == C \ {m}
  <2>1. SUFFICES ASSUME ~Leads(m, C) PROVE FALSE OBVIOUS
  <2>2. ASSUME NEW x \in Dom, Leads(x, D) PROVE x \in D
    <3>1. Leads(x, C) BY <2>2
    <3>2. x \in C /\ x # m BY <3>1, <2>1, <1>1
    <3>3. QED BY <3>2
  <2>3. Holds(D) /\ D \in SUBSET Dom BY <2>2
  <2>4. m \in D BY <2>3
  <2>5. QED BY <2>4
<1>3. C \in SUBSET Dom OBVIOUS
<1> HIDE DEF C
<1>4. QED BY <1>1, <1>2, <1>3 DEF Fills

(* The function that walks down the tree exists.                           *)
LEMMA FallsExists ==
  ASSUME TypeOK, NEW n \in Ids
  PROVE  \E f : f = [m \in 0 .. MaxNodes |->
                       m = n \/ (m > n /\ m \in Live /\ f[nodes[m].parent])]
<1> DEFINE Dom == 0 .. MaxNodes
           A == {n}
           E == {e \in Dom \X Dom : e[1] > n /\ e[1] \in Live /\ e[2] = nodes[e[1]].parent}
<1>sets. A \in SUBSET Dom /\ E \in SUBSET (Dom \X Dom) BY Bounds
<1> HIDE DEF A, E, Dom
<1>fill. PICK C \in SUBSET Dom : Fills(C, Dom, A, E) BY <1>sets, Reach
<1>1. \A m \in Dom : m \in C <=> (m \in A \/ \E y \in C : <<m, y>> \in E) BY <1>fill DEF Fills
<1> USE DEF Dom
<1> DEFINE f == [m \in Dom |-> m \in C]
<1>2. ASSUME NEW m \in Dom
      PROVE  (m \in C) = (m = n \/ (m > n /\ m \in Live /\ f[nodes[m].parent]))
  <2>1. \A y \in Dom : <<m, y>> \in E <=> m > n /\ m \in Live /\ y = nodes[m].parent BY DEF E
  <2>2. m \in Live => nodes[m].parent \in Dom BY Typed DEF Live
  <2>3. m \in Live => f[nodes[m].parent] = (nodes[m].parent \in C) BY <2>2
  <2>4. m \in C <=> (m = n \/ (m > n /\ m \in Live /\ nodes[m].parent \in C)) BY <1>1, <2>1, <2>2 DEF A
  <2> HIDE DEF f
  <2>5. m \in C <=> (m = n \/ (m > n /\ m \in Live /\ f[nodes[m].parent])) BY <2>3, <2>4
  <2>6. QED BY <2>5
<1>3. f = [m \in Dom |-> m = n \/ (m > n /\ m \in Live /\ f[nodes[m].parent])]
  BY <1>2
<1>4. QED BY <1>3

(* A tree that is cancelled holds its root, and of every other node that is *)
(* swept, the author is swept with it.                                      *)
LEMMA SweptTree ==
  ASSUME TypeOK, NEW n \in Live
  PROVE  /\ Swept(n) \subseteq Live /\ n \in Swept(n)
         /\ \A m \in Swept(n) : m # n => m > n /\ nodes[m].parent \in Swept(n)
<1> DEFINE F(f) == [m \in 0 .. MaxNodes |->
                      m = n \/ (m > n /\ m \in Live /\ f[nodes[m].parent])]
           falls == CHOOSE f : f = F(f)
<1>1. n \in Ids BY DEF Live
<1>2. falls = F(falls) BY <1>1, FallsExists
<1>3. Swept(n) = {m \in Live : falls[m]} BY DEF Swept
<1>4. Live \subseteq 0 .. MaxNodes BY Bounds DEF Live
<1> HIDE DEF falls
<1>5. \A m \in 0 .. MaxNodes : falls[m] = (m = n \/ (m > n /\ m \in Live /\ falls[nodes[m].parent]))
  BY <1>2
<1>6. n \in Swept(n) BY <1>3, <1>4, <1>5
<1>7. ASSUME NEW m \in Swept(n), m # n PROVE m > n /\ nodes[m].parent \in Swept(n)
  <2>1. m \in Live /\ falls[m] BY <1>3
  <2>2. m > n /\ falls[nodes[m].parent] BY <2>1, <1>4, <1>5, <1>7
  <2>3. nodes[m].parent \in 0 .. MaxNodes BY <2>1, Typed DEF Live
  <2>4. nodes[m].parent = n \/ nodes[m].parent \in Live BY <2>2, <2>3, <1>5
  <2>5. QED BY <2>2, <2>4, <1>3
<1>8. QED BY <1>3, <1>6, <1>7

LEMMA SweptLive == ASSUME NEW n \in Ids PROVE Swept(n) \in SUBSET Live
BY DEF Swept

(* Whatever a settled node takes with it was live, and nothing else moves.  *)
LEMMA Settling ==
  ASSUME TypeOK, NEW S \in SUBSET Live, NEW s \in {"failed", "cancelled"},
         nodes' = AfterSettling(S, s)
  PROVE  /\ nodes' \in [Ids -> Node] /\ \A n \in Ids : Kin(n)
         /\ \A n \in S : n \notin Live'
         /\ \A n \in Ids : nodes'[n].status = "failed" => nodes[n].status = "failed" \/ n \in S
<1> DEFINE X == StoppedIn(Aborted(S))
<1>1. X \cup DroppedBy(X) \subseteq Live BY DEF StoppedIn, DroppedBy
<1>2. Live \subseteq Ids BY DEF Live
<1>3. nodes \in [Ids -> Node] BY Typed
<1>4. \A n \in Live : nodes[n].status \notin {"failed", "cancelled", "completed", "absent"}
  BY DEF Live, Open
<1>5. ASSUME NEW n \in Live, NEW r \in {"failed", "cancelled"}
      PROVE  /\ Closed(n, r) \in Node /\ Closed(n, r).parent = nodes[n].parent
             /\ Closed(n, r).root = nodes[n].root /\ Closed(n, r).place = nodes[n].place
             /\ Closed(n, r).reported = nodes[n].reported /\ Closed(n, r).status = r
  <2>1. nodes[n] \in Node /\ r \in Settled BY <1>2, <1>3 DEF Settled
  <2>2. QED BY <2>1 DEF Closed, Node
<1>6. nodes' = [n \in Ids |-> CASE n \in S -> Closed(n, s)
                                [] n \in (X \cup DroppedBy(X)) \ S -> Closed(n, "cancelled")
                                [] OTHER -> nodes[n]]
  BY DEF AfterSettling
<1> HIDE DEF X
<1>7. ASSUME NEW n \in Ids
      PROVE  \/ n \in S /\ nodes'[n] = Closed(n, s)
             \/ n \in Live \ S /\ nodes'[n] = Closed(n, "cancelled")
             \/ n \notin S /\ nodes'[n] = nodes[n]
  BY <1>1, <1>6
<1>8. ASSUME NEW n \in Ids
      PROVE  nodes'[n] \in Node /\ Kin(n) /\ (n \in S => nodes'[n].status = s)
             /\ (nodes'[n].status = "failed" => nodes[n].status = "failed" \/ n \in S)
  <2>1. CASE n \in S /\ nodes'[n] = Closed(n, s) BY <2>1, <1>5 DEF Kin
  <2>2. CASE n \in Live \ S /\ nodes'[n] = Closed(n, "cancelled") BY <2>2, <1>5 DEF Kin
  <2>3. CASE n \notin S /\ nodes'[n] = nodes[n] BY <2>3, <1>3 DEF Kin
  <2>4. QED BY <2>1, <2>2, <2>3, <1>7
<1>9. nodes' \in [Ids -> Node] BY <1>6, <1>8
<1>10. ASSUME NEW n \in S PROVE n \notin Live' BY <1>2, <1>8 DEF Live, Open
<1>11. QED BY <1>8, <1>9, <1>10

LEMMA Revoked ==
  ASSUME TypeOK, NEW P
  PROVE  /\ Revoking(P) \in [Places -> Turn]
         /\ \A p \in Places : /\ Revoking(P)[p].node = turn[p].node /\ Revoking(P)[p].run = turn[p].run
                              /\ Revoking(P)[p].kids = turn[p].kids
                              /\ Revoking(P)[p] # NoTurn => Busy(p)
<1>1. turn \in [Places -> Turn] BY Typed
<1>2. ASSUME NEW p \in Places
      PROVE  /\ Revoking(P)[p] \in Turn
             /\ Revoking(P)[p].node = turn[p].node /\ Revoking(P)[p].run = turn[p].run
             /\ Revoking(P)[p].kids = turn[p].kids /\ (Revoking(P)[p] # NoTurn => Busy(p))
  <2>1. turn[p] \in Turn BY <1>1
  <2>2. CASE p \in P /\ Busy(p)
    <3>1. Revoking(P)[p] = [turn[p] EXCEPT !.may = FALSE] BY <2>2 DEF Revoking
    <3>2. QED BY <3>1, <2>1, <2>2 DEF Turn
  <2>3. CASE ~(p \in P /\ Busy(p))
    <3>1. Revoking(P)[p] = turn[p] BY <2>3 DEF Revoking
    <3>2. QED BY <3>1, <2>1 DEF Busy
  <2>4. QED BY <2>2, <2>3
<1>3. QED BY <1>2 DEF Revoking

LEMMA StandingStays ==
  ASSUME RInv, TypeOK', \A n \in Ids : Kin(n), \A p \in Places : turn'[p] # NoTurn => Busy(p),
         gone' = gone
  PROVE  Standing'
<1>1. TypeOK BY DEF RInv
<1>2. Live' \subseteq Live BY <1>1, KinSets
<1>3. ASSUME NEW n \in Live' PROVE nodes'[n].place \notin gone'
  <2>1. n \in Live /\ n \in Ids BY <1>2 DEF Live
  <2>2. QED BY <2>1 DEF Kin, RInv, Standing
<1>4. ASSUME NEW p \in Places, Busy(p)' PROVE p \notin gone'
  BY <1>4 DEF Busy, RInv, Standing
<1>5. QED BY <1>3, <1>4 DEF Standing

LEMMA Still ==
  ASSUME nodes' = nodes
  PROVE  \A n \in Ids : Kin(n)
BY DEF Kin

-----------------------------------------------------------------------------
(* One action after another: the calm ones.                                *)

LEMMA StartTurnStep ==
  ASSUME RInv, NEW p \in Places, NEW b \in Bots, StartTurn(p, b)
  PROVE  Keeps
<1>1. TypeOK /\ turn \in [Places -> Turn] BY Typed DEF RInv
<1> DEFINE t == [NoTurn EXCEPT !.bot = b, !.may = TRUE]
<1>2. t \in Turn /\ t.node = Person /\ t.run = FALSE
  <2>1. NoTurn \in Turn /\ NoTurn.node = Person /\ NoTurn.run = FALSE BY Bounds DEF NoTurn, Turn, Person
  <2>2. QED BY <2>1 DEF Turn
<1>3. turn' = [turn EXCEPT ![p] = t] BY DEF StartTurn
<1> HIDE DEF t
<1>4. turn' \in [Places -> Turn] BY <1>1, <1>2, <1>3
<1>5. turns \in Nat /\ turns < MaxTurns /\ turns' = turns + 1 BY <1>1, Bounds DEF TypeOK, StartTurn
<1>6. turns' \in 0 .. MaxTurns BY <1>5, Bounds
<1>7. TypeOK' BY <1>1, <1>4, <1>6 DEF StartTurn, TypeOK
<1>8. \A q \in Places : SameTurn(q) \/ Unbound(q)
  BY <1>1, <1>2, <1>3 DEF SameTurn, Unbound
<1>9. Standing'
  <2>1. p \notin gone BY <1>1, PlacesAssumption DEF StartTurn, Places, TypeOK
  <2>2. ASSUME NEW q \in Places, Busy(q)' PROVE q \notin gone
    <3>1. CASE q = p BY <2>1, <3>1
    <3>2. CASE q # p
      <4>1. turn'[q] = turn[q] BY <1>1, <1>3, <3>2
      <4>2. QED BY <4>1, <2>2 DEF Busy, RInv, Standing
    <3>3. QED BY <3>1, <3>2
  <2>3. nodes' = nodes /\ gone' = gone BY DEF StartTurn
  <2>4. Live' = Live BY <2>3 DEF Live
  <2>5. QED BY <2>2, <2>3, <2>4 DEF Standing, RInv
<1>10. \A n \in Ids : Kin(n) BY Still DEF StartTurn
<1>11. tick'.pass # "said" BY DEF StartTurn, Serving, Idle
<1>12. told' = told /\ gone \subseteq gone' BY DEF StartTurn
<1>13. QED BY <1>7, <1>8, <1>9, <1>10, <1>11, <1>12, CalmStep

LEMMA InterruptStep ==
  ASSUME RInv, NEW p \in Places, Interrupt(p)
  PROVE  Keeps
<1> DEFINE X == StoppedIn({p})
           S == X \cup DroppedBy(X)
<1>1. TypeOK BY DEF RInv
<1>2. S \in SUBSET Live BY DEF StoppedIn, DroppedBy
<1>3. nodes' = AfterSettling(S, "cancelled") /\ turn' = Revoking({p}) BY DEF Interrupt
<1> HIDE DEF S
<1>4. /\ turn' \in [Places -> Turn]
      /\ \A q \in Places : SameTurn(q) /\ (turn'[q] # NoTurn => Busy(q))
  BY <1>1, <1>3, Revoked DEF SameTurn
<1>5. nodes' \in [Ids -> Node] /\ \A n \in Ids : Kin(n) BY <1>1, <1>2, <1>3, Settling
<1>6. TypeOK' BY <1>1, <1>4, <1>5 DEF TypeOK, Interrupt
<1>7. Standing' BY <1>4, <1>5, <1>6, StandingStays DEF Interrupt
<1>8. tick'.pass # "said" /\ told' = told /\ gone' = gone BY DEF Interrupt, Serving, Idle
<1>9. QED BY <1>4, <1>5, <1>6, <1>7, <1>8, CalmStep

LEMMA StopRoomStep ==
  ASSUME RInv, NEW p \in Places, StopRoom(p)
  PROVE  Keeps
<1> DEFINE S == UNION {Swept(n) : n \in StoppedIn({p})}
<1>1. TypeOK BY DEF RInv
<1>2. S \in SUBSET Live BY SweptLive DEF StoppedIn, Live
<1>3. nodes' = AfterSettling(S, "cancelled") /\ turn' = Revoking(Aborted(S) \cup {p}) BY DEF StopRoom
<1> HIDE DEF S
<1>4. /\ turn' \in [Places -> Turn]
      /\ \A q \in Places : SameTurn(q) /\ (turn'[q] # NoTurn => Busy(q))
  BY <1>1, <1>3, Revoked DEF SameTurn
<1>5. nodes' \in [Ids -> Node] /\ \A n \in Ids : Kin(n) BY <1>1, <1>2, <1>3, Settling
<1>6. TypeOK' BY <1>1, <1>4, <1>5 DEF TypeOK, StopRoom
<1>7. Standing' BY <1>4, <1>5, <1>6, StandingStays DEF StopRoom
<1>8. tick'.pass # "said" /\ told' = told /\ gone' = gone BY DEF StopRoom, Serving, Idle
<1>9. QED BY <1>4, <1>5, <1>6, <1>7, <1>8, CalmStep

(* The conversation is idle, and every node that is open in it is swept.   *)
LEMMA DeleteThreadStep ==
  ASSUME RInv, NEW p \in Places, DeleteThread(p)
  PROVE  Keeps
<1> DEFINE S == UNION {Swept(n) : n \in StoppedIn({p})}
<1>1. TypeOK BY DEF RInv
<1>2. S \in SUBSET Live BY SweptLive DEF StoppedIn, Live
<1>3. nodes' = AfterSettling(S, "cancelled") /\ turn' = Revoking(Aborted(S)) BY DEF DeleteThread
<1>4. ASSUME NEW n \in Live, nodes[n].place = p PROVE n \in S
  <2>1. n \in StoppedIn({p}) BY <1>4 DEF StoppedIn
  <2>2. n \in Swept(n) BY <1>1, SweptTree
  <2>3. QED BY <2>1, <2>2
<1>5. p \in Threads /\ gone' = gone \cup {p} /\ ~Busy(p) BY DEF DeleteThread
<1>6. revoked' \subseteq Ids BY <1>1 DEF DeleteThread, TypeOK, Live
<1> HIDE DEF S
<1>7. /\ turn' \in [Places -> Turn]
      /\ \A q \in Places : SameTurn(q) /\ (turn'[q] # NoTurn => Busy(q))
  BY <1>1, <1>3, Revoked DEF SameTurn
<1>8. /\ nodes' \in [Ids -> Node] /\ \A n \in Ids : Kin(n)
      /\ \A n \in S : n \notin Live'
  BY <1>1, <1>2, <1>3, Settling
<1>9. TypeOK' BY <1>1, <1>5, <1>6, <1>7, <1>8 DEF TypeOK, DeleteThread
<1>10. Live' \subseteq Live BY <1>1, <1>8, <1>9, KinSets
<1>11. Standing'
  <2>1. ASSUME NEW n \in Live' PROVE nodes'[n].place \notin gone'
    <3>1. n \in Live /\ n \in Ids /\ n \notin S BY <1>8, <1>10 DEF Live
    <3>2. nodes'[n].place = nodes[n].place /\ nodes[n].place # p BY <3>1, <1>4, <1>8 DEF Kin
    <3>3. nodes[n].place \notin gone BY <3>1 DEF RInv, Standing
    <3>4. QED BY <3>2, <3>3, <1>5
  <2>2. ASSUME NEW q \in Places, Busy(q)' PROVE q \notin gone'
    <3>1. Busy(q) BY <2>2, <1>7 DEF Busy
    <3>2. QED BY <3>1, <1>5 DEF RInv, Standing
  <2>3. QED BY <2>1, <2>2 DEF Standing
<1>12. tick'.pass # "said" /\ told' = told BY DEF DeleteThread, Serving, Idle
<1>13. QED BY <1>5, <1>7, <1>8, <1>9, <1>11, <1>12, CalmStep

(* A turn that fails, or whose node has gone on without it.                 *)
LEMMA EndTurnFails ==
  ASSUME RInv, NEW p \in Places, NEW ok \in BOOLEAN, EndTurn(p, ok),
         ~(Expects(turn[p].node, turn[p]) /\ ok)
  PROVE  Keeps
<1> DEFINE n == turn[p].node
           S == IF Expects(n, turn[p]) /\ ~ok THEN Swept(n) ELSE {}
<1>1. TypeOK BY DEF RInv
<1>2. S \in SUBSET Live BY SweptLive DEF Expects, Present
<1>3. nodes' = AfterSettling(S, "failed") /\ turn' = [Revoking(Aborted(S)) EXCEPT ![p] = NoTurn]
  BY DEF EndTurn
<1> HIDE DEF S
<1>4. NoTurn \in Turn /\ NoTurn.node = Person /\ NoTurn.run = FALSE BY Bounds DEF NoTurn, Turn, Person
<1>5. /\ Revoking(Aborted(S)) \in [Places -> Turn]
      /\ \A q \in Places : /\ Revoking(Aborted(S))[q].node = turn[q].node
                           /\ Revoking(Aborted(S))[q].run = turn[q].run
                           /\ Revoking(Aborted(S))[q].kids = turn[q].kids
                           /\ Revoking(Aborted(S))[q] # NoTurn => Busy(q)
  BY <1>1, Revoked
<1>6. turn' \in [Places -> Turn] BY <1>3, <1>4, <1>5
<1>7. ASSUME NEW q \in Places
      PROVE  (SameTurn(q) \/ Unbound(q)) /\ (turn'[q] # NoTurn => Busy(q))
  <2>1. CASE q = p BY <2>1, <1>3, <1>4, <1>5 DEF Unbound
  <2>2. CASE q # p BY <2>2, <1>3, <1>5 DEF SameTurn
  <2>3. QED BY <2>1, <2>2
<1>8. nodes' \in [Ids -> Node] /\ \A m \in Ids : Kin(m) BY <1>1, <1>2, <1>3, Settling
<1>9. TypeOK' BY <1>1, <1>6, <1>8 DEF TypeOK, EndTurn
<1>10. Standing' BY <1>7, <1>8, <1>9, StandingStays DEF EndTurn
<1>11. tick'.pass # "said" /\ told' = told /\ gone' = gone BY DEF EndTurn, Serving, Idle
<1>12. QED BY <1>7, <1>8, <1>9, <1>10, <1>11, CalmStep

LEMMA RevokeStep ==
  ASSUME RInv, NEW n \in Ids, Revoke(n)
  PROVE  Keeps
<1>1. nodes' = nodes /\ turn' = turn /\ gone' = gone /\ told' = told /\ tick'.pass # "said"
  BY DEF Revoke, Serving, Idle
<1>2. TypeOK' BY DEF RInv, TypeOK, Revoke
<1>3. \A m \in Ids : Kin(m) BY <1>1, Still
<1>4. Standing' BY <1>1, <1>2, <1>3, StandingStays DEF Busy
<1>5. QED BY <1>1, <1>2, <1>3, <1>4, CalmStep DEF SameTurn

(* The clock: a window elapses, a tree ages.                               *)
LEMMA ClockStep ==
  ASSUME RInv, NEW n \in Ids, Elapse(n) \/ Grow(n)
  PROVE  Keeps
<1>1. turn' = turn /\ gone' = gone /\ told' = told /\ tick'.pass # "said"
  BY DEF Elapse, Grow, Serving, Idle
<1>2. nodes \in [Ids -> Node] BY Typed DEF RInv
<1>3. nodes[n] \in Node BY <1>2
<1>4. \E r \in Node : /\ nodes' = [nodes EXCEPT ![n] = r]
                     /\ r.status = nodes[n].status /\ r.parent = nodes[n].parent
                     /\ r.root = nodes[n].root /\ r.place = nodes[n].place
                     /\ r.reported = nodes[n].reported
  <2>1. CASE Elapse(n)
    <3> DEFINE r == [nodes[n] EXCEPT !.late = TRUE]
    <3>1. nodes' = [nodes EXCEPT ![n] = r] BY <2>1, <1>2 DEF Elapse
    <3>2. r \in Node BY <1>3 DEF Node
    <3>3. QED BY <3>1, <3>2, <1>3 DEF Node
  <2>2. CASE Grow(n)
    <3>1. PICK a \in {"spent", "capped"} : nodes' = [nodes EXCEPT ![n].age = a] BY <2>2 DEF Grow
    <3> DEFINE r == [nodes[n] EXCEPT !.age = a]
    <3>2. nodes' = [nodes EXCEPT ![n] = r] BY <3>1, <1>2
    <3>3. r \in Node BY <1>3 DEF Node
    <3>4. QED BY <3>2, <3>3, <1>3 DEF Node
  <2>3. QED BY <2>1, <2>2
<1>5. nodes' \in [Ids -> Node] /\ \A m \in Ids : Kin(m) BY <1>2, <1>4 DEF Kin
<1>6. TypeOK' BY <1>1, <1>5 DEF RInv, TypeOK, Elapse, Grow
<1>7. Standing' BY <1>1, <1>5, <1>6, StandingStays DEF Busy
<1>8. QED BY <1>1, <1>5, <1>6, <1>7, CalmStep DEF SameTurn

(* The steps of the tick that change nothing but the tick.                 *)
LEMMA TickMoves ==
  ASSUME RInv, TickBegin \/ TickExpired \/ TickEnd
  PROVE  Keeps
<1>1. /\ nodes' = nodes /\ turn' = turn /\ gone' = gone /\ told' = told
      /\ UNCHANGED <<revoked, loadError, turns, restarts>>
  BY DEF TickBegin, TickExpired, TickEnd
<1>2. tick' \in {[pass |-> "expire", at |-> MaxNodes + 1], [pass |-> "visit", at |-> 0], Idle}
  BY DEF TickBegin, TickExpired, TickEnd
<1>3. tick'.pass # "said" /\ tick' \in TickType BY <1>2, Bounds DEF Idle, TickType
<1>4. TypeOK' BY <1>1, <1>3 DEF RInv, TypeOK, TickType
<1>5. \A m \in Ids : Kin(m) BY <1>1, Still
<1>6. Standing' BY <1>1, <1>4, <1>5, StandingStays DEF Busy
<1>7. QED BY <1>1, <1>3, <1>4, <1>5, <1>6, CalmStep DEF SameTurn

LEMMA TickExpireStep ==
  ASSUME RInv, NEW n \in Ids, TickExpire(n)
  PROVE  Keeps
<1>1. TypeOK /\ n \in Live BY DEF RInv, TickExpire, ExpiryAt
<1>2. gone' = gone /\ told' = told /\ UNCHANGED <<revoked, loadError, turns, restarts>>
  BY DEF TickExpire
<1>3. tick \in TickType /\ tick.pass = "expire" BY <1>1, Typed DEF TickExpire
<1>4. CASE Rootless(n)
  <2>1. nodes' = nodes /\ turn' = turn /\ tick' = Idle BY <1>4 DEF TickExpire
  <2>2. TypeOK' BY <1>1, <1>2, <2>1, Bounds DEF TypeOK, Idle
  <2>3. \A m \in Ids : Kin(m) BY <2>1, Still
  <2>4. Standing' BY <1>2, <2>1, <2>2, <2>3, StandingStays DEF Busy
  <2>5. QED BY <1>2, <2>1, <2>2, <2>3, <2>4, CalmStep DEF SameTurn, Idle
<1>5. CASE ~Rootless(n)
  <2> DEFINE S == Swept(n)
  <2>1. /\ nodes' = AfterSettling(S, "failed") /\ turn' = Revoking(Aborted(S))
        /\ tick' = [tick EXCEPT !.at = n]
    BY <1>5 DEF TickExpire
  <2>2. S \in SUBSET Live BY SweptLive
  <2> HIDE DEF S
  <2>3. /\ turn' \in [Places -> Turn]
        /\ \A q \in Places : SameTurn(q) /\ (turn'[q] # NoTurn => Busy(q))
    BY <1>1, <2>1, Revoked DEF SameTurn
  <2>4. nodes' \in [Ids -> Node] /\ \A m \in Ids : Kin(m) BY <1>1, <2>1, <2>2, Settling
  <2>5. n \in 0 .. MaxNodes + 1 BY Bounds
  <2>6. tick' \in TickType /\ tick'.pass = "expire" BY <1>3, <2>1, <2>5 DEF TickType
  <2>7. TypeOK' BY <1>1, <1>2, <2>3, <2>4, <2>6 DEF TypeOK, TickType
  <2>8. Standing' BY <1>2, <2>3, <2>4, <2>7, StandingStays
  <2>9. QED BY <1>2, <2>3, <2>4, <2>6, <2>7, <2>8, CalmStep
<1>6. QED BY <1>4, <1>5

(* Work that is dropped, or would exceed the executions of its tree.       *)
LEMMA TickSettles ==
  ASSUME RInv, NEW n \in Ids, TickDrop(n) \/ (TickDispatch(n) /\ Exhausted(n))
  PROVE  Keeps
<1>1. TypeOK BY DEF RInv
<1>2. gone' = gone /\ told' = told /\ turn' = turn /\ UNCHANGED <<revoked, loadError, turns, restarts>>
  BY DEF TickDrop, TickDispatch
<1>3. tick \in TickType /\ tick.pass = "visit" BY <1>1, Typed DEF TickDrop, TickDispatch, AtNode
<1>4. n \in 0 .. MaxNodes + 1 BY Bounds
<1>5. tick' = [tick EXCEPT !.at = n] BY DEF TickDrop, TickDispatch
<1>6. tick' \in TickType /\ tick'.pass = "visit" BY <1>3, <1>4, <1>5 DEF TickType
<1>7. PICK s \in {"failed", "cancelled"} : nodes' = AfterSettling(Swept(n), s)
  BY DEF TickDrop, TickDispatch
<1>8. nodes' \in [Ids -> Node] /\ \A m \in Ids : Kin(m) BY <1>1, <1>7, SweptLive, Settling
<1>9. TypeOK' BY <1>1, <1>2, <1>6, <1>8 DEF TypeOK, TickType
<1>10. Standing' BY <1>2, <1>8, <1>9, StandingStays DEF Busy
<1>11. QED BY <1>2, <1>6, <1>8, <1>9, <1>10, CalmStep DEF SameTurn

(* A restart fails what is live, or refuses the whole file.                *)
LEMMA RestartStep ==
  ASSUME RInv, Restart
  PROVE  Keeps
<1>1. TypeOK /\ nodes \in [Ids -> Node] BY Typed DEF RInv
<1>2. /\ turn' = [p \in Places |-> NoTurn] /\ tick' = Idle /\ gone' = gone /\ told' = told
      /\ revoked' = revoked /\ turns' = turns
  BY DEF Restart
<1>3. NoTurn \in Turn /\ NoTurn.node = Person /\ NoTurn.run = FALSE BY Bounds DEF NoTurn, Turn, Person
<1>4. turn' \in [Places -> Turn] /\ \A p \in Places : Unbound(p) /\ turn'[p] = NoTurn
  BY <1>2, <1>3 DEF Unbound
<1>5. restarts' \in 0 .. MaxRestarts /\ loadError' \in BOOLEAN /\ tick' \in TickType
  <2>1. restarts \in Nat /\ restarts < MaxRestarts /\ restarts' = restarts + 1
    BY <1>1, Bounds DEF TypeOK, Restart
  <2>2. loadError' \in BOOLEAN BY DEF Restart
  <2>3. QED BY <2>1, <2>2, <1>2, Bounds DEF Idle, TickType
<1>6. tick'.pass # "said" BY <1>2 DEF Idle
<1>7. CASE ~loadError'
  <2>1. nodes' = [n \in Ids |-> IF n \in Live THEN Closed(n, "failed") ELSE nodes[n]]
    BY <1>7 DEF Restart
  <2>2. ASSUME NEW n \in Ids PROVE nodes'[n] \in Node /\ Kin(n)
    <3>1. nodes[n] \in Node BY <1>1
    <3>2. CASE n \in Live
      <4>1. nodes'[n] = Closed(n, "failed") BY <2>1, <3>2
      <4>2. QED BY <4>1, <3>1, <3>2 DEF Closed, Node, Kin, Settled
    <3>3. CASE n \notin Live BY <2>1, <3>1, <3>3 DEF Kin
    <3>4. QED BY <3>2, <3>3
  <2>3. nodes' \in [Ids -> Node] BY <2>1, <2>2
  <2>4. TypeOK' BY <1>1, <1>2, <1>4, <1>5, <2>3 DEF TypeOK, TickType
  <2>5. Standing' BY <1>2, <1>4, <2>2, <2>4, StandingStays
  <2>6. QED BY <1>2, <1>4, <1>6, <2>2, <2>4, <2>5, CalmStep
<1>8. CASE loadError'
  <2>1. nodes' = [n \in Ids |-> [nodes[n] EXCEPT !.status = "absent"]] BY <1>8 DEF Restart
  <2>2. ASSUME NEW n \in Ids
        PROVE  /\ nodes'[n] \in Node /\ nodes'[n].status = "absent"
               /\ nodes'[n].root = nodes[n].root /\ nodes'[n].parent = nodes[n].parent
    <3>1. nodes[n] \in Node BY <1>1
    <3>2. QED BY <2>1, <3>1 DEF Node
  <2>3. nodes' \in [Ids -> Node] BY <2>1, <2>2
  <2>4. TypeOK' BY <1>1, <1>2, <1>4, <1>5, <2>3 DEF TypeOK, TickType
  <2>5. Present' = {} /\ Live' = {} /\ Issued' = Issued
    <3>1. \A n \in Ids : nodes'[n].status \notin Open BY <2>2 DEF Open
    <3>2. QED BY <2>2, <3>1 DEF Present, Live, Issued
  <2>6. InSequence' BY <2>5 DEF RInv, InSequence
  <2>7. Descent'
    <3>1. Issued \subseteq Ids BY DEF Issued
    <3>2. \A c \in Issued : nodes[c].parent # 0 => nodes[c].parent \in Ids BY <3>1 DEF RInv, Descent
    <3>3. QED BY <2>2, <2>5, <3>1, <3>2 DEF RInv, Descent
  <2>8. Standing' BY <1>4, <2>5 DEF Standing, Busy
  <2>9. AtHome' BY <1>4 DEF AtHome, TurnAt, Unbound
  <2>10. Counted' BY <1>4 DEF Counted, KidsHadSettled, Unbound
  <2>11. InOrder' /\ ReportsSaid' /\ Resumes' BY <2>5 DEF InOrder, ReportsSaid, Resumes
  <2>12. ResultSaidOnce' /\ Saying' BY <1>2, <1>6 DEF RInv, ResultSaidOnce, Saying
  <2>13. \A n \in Ids : KeepsOutcome(n) BY <2>2 DEF KeepsOutcome
  <2>14. QED BY <2>4, <2>6, <2>7, <2>8, <2>9, <2>10, <2>11, <2>12, <2>13 DEF RInv, Keeps
<1>9. QED BY <1>7, <1>8

LEMMA StutterStep ==
  ASSUME RInv, UNCHANGED vars
  PROVE  Keeps
<1>1. nodes' = nodes /\ turn' = turn /\ gone' = gone /\ told' = told /\ tick' = tick BY DEF vars
<1>2. RInv'
  BY DEF RInv, vars, TypeOK, InSequence, Issued, Present, Live, Descent, Standing, Busy, AtHome, TurnAt,
         WorksFor, InOrder, AuthorOf, HasParent, Counted, KidsHadSettled, Children, ResultSaidOnce,
         ReportsSaid, Accounted, Assignment, Saying, Resumes
<1>3. \A n \in Ids : KeepsOutcome(n) BY <1>1 DEF KeepsOutcome
<1>4. QED BY <1>2, <1>3 DEF Keeps

(* The mark after the row: what is marked was accounted for.               *)
LEMMA TickReportedStep ==
  ASSUME RInv, NEW n \in Ids, TickReported(n)
  PROVE  Keeps
<1>1. nodes \in [Ids -> Node] BY Typed DEF RInv
<1>2. /\ turn' = turn /\ gone' = gone /\ told' = told
      /\ UNCHANGED <<revoked, loadError, turns, restarts>>
      /\ tick = [pass |-> "said", at |-> n] /\ tick' = [pass |-> "visit", at |-> n]
  BY DEF TickReported
<1> DEFINE r == [nodes[n] EXCEPT !.reported = TRUE]
<1>3. nodes' = [nodes EXCEPT ![n] = r] BY <1>1 DEF TickReported
<1>4. /\ r \in Node /\ r.status = nodes[n].status /\ r.parent = nodes[n].parent
      /\ r.root = nodes[n].root /\ r.place = nodes[n].place /\ r.reported = TRUE
  <2>1. nodes[n] \in Node BY <1>1
  <2>2. QED BY <2>1 DEF Node
<1> HIDE DEF r
<1>5. n \notin Live /\ Accounted(n) BY <1>2 DEF RInv, Saying
<1>6. nodes' \in [Ids -> Node] BY <1>1, <1>3, <1>4
<1>7. ASSUME NEW m \in Ids PROVE Kin(m)
  <2>1. CASE m = n BY <2>1, <1>1, <1>3, <1>4, <1>5 DEF Kin
  <2>2. CASE m # n BY <2>2, <1>1, <1>3 DEF Kin
  <2>3. QED BY <2>1, <2>2
<1>8. tick' \in TickType /\ tick'.pass # "said" BY <1>2, Bounds DEF TickType
<1>9. TypeOK' BY <1>2, <1>6, <1>8 DEF RInv, TypeOK, TickType
<1>10. Standing' BY <1>2, <1>7, <1>9, StandingStays DEF Busy
<1>11. QED BY <1>2, <1>7, <1>8, <1>9, <1>10, CalmStep DEF SameTurn

(* The row: said only when it is needed and not there.                     *)
LEMMA TickSayStep ==
  ASSUME RInv, NEW n \in Ids, TickSay(n)
  PROVE  Keeps
<1>1. TypeOK /\ told \in [Ids -> Nat] BY DEF RInv, TypeOK
<1>2. /\ nodes' = nodes /\ turn' = turn /\ gone' = gone
      /\ UNCHANGED <<revoked, loadError, turns, restarts>>
      /\ tick' = [pass |-> "said", at |-> n]
      /\ told' = IF Speaks(n) THEN [told EXCEPT ![n] = @ + 1] ELSE told
  BY DEF TickSay
<1>3. n \in Present \ Live /\ HasParent(n) BY DEF TickSay, Unreported
<1>4. told[n] = 0 \/ told[n] = 1
  <2>1. told[n] \in Nat /\ told[n] <= 1 BY <1>1 DEF RInv, ResultSaidOnce
  <2>2. QED BY <2>1
<1>5. told' \in [Ids -> Nat] /\ (\A m \in Ids : m # n => told'[m] = told[m])
      /\ (told[n] = 1 => told'[n] = 1) /\ told'[n] <= 1
      /\ (Speaks(n) => told'[n] = 1)
  <2>1. CASE Speaks(n)
    <3>1. told' = [told EXCEPT ![n] = told[n] + 1] BY <2>1, <1>2
    <3>2. told[n] = 0 BY <2>1 DEF Speaks
    <3>3. QED BY <1>1, <3>1, <3>2
  <2>2. CASE ~Speaks(n)
    <3>1. told' = told BY <2>2, <1>2
    <3>2. QED BY <3>1, <2>2, <1>1, <1>4
  <2>3. QED BY <2>1, <2>2
<1>6. ASSUME NEW c \in Ids, Accounted(c) PROVE Accounted(c)'
  <2>1. told[c] = 1 => told'[c] = 1 BY <1>5
  <2>2. QED BY <2>1, <1>2, <1>6 DEF Accounted, Assignment
<1>7. Accounted(n)'
  <2>1. CASE Speaks(n) BY <2>1, <1>5 DEF Accounted
  <2>2. CASE ~Speaks(n)
    <3>1. Accounted(n) BY <2>2, <1>4 DEF Speaks, Accounted
    <3>2. QED BY <3>1, <1>6
  <2>3. QED BY <2>1, <2>2
<1>8. tick' \in TickType BY <1>2, Bounds DEF TickType
<1>9. TypeOK' BY <1>1, <1>2, <1>5, <1>8 DEF TypeOK, TickType
<1>10. Present' = Present /\ Live' = Live /\ Present \subseteq Ids BY <1>2 DEF Present, Live
<1>11. Saying'
  <2>1. nodes[n].parent # 0 BY <1>3, <1>10, Bounds DEF HasParent
  <2>2. tick'.at = n BY <1>2
  <2>3. Accounted(tick.at)' BY <2>2, <1>7 DEF Accounted, Assignment
  <2>4. QED BY <2>1, <2>2, <2>3, <1>2, <1>3, <1>10 DEF Saying
<1>12. ReportsSaid' BY <1>2, <1>6, <1>10 DEF RInv, ReportsSaid
<1>13. ResultSaidOnce'
  <2>1. \A m \in Ids : told'[m] <= 1 BY <1>5 DEF RInv, ResultSaidOnce
  <2>2. QED BY <2>1 DEF ResultSaidOnce
<1>14. InSequence' /\ Descent' /\ Standing' /\ AtHome' /\ InOrder' /\ Counted' /\ Resumes'
  BY <1>2 DEF RInv, InSequence, Issued, Present, Live, Descent, Standing, Busy, AtHome, TurnAt,
              WorksFor, InOrder, AuthorOf, HasParent, Counted, KidsHadSettled, Children, Resumes
<1>15. \A m \in Ids : KeepsOutcome(m) BY <1>2 DEF KeepsOutcome
<1>16. QED BY <1>9, <1>11, <1>12, <1>13, <1>14, <1>15 DEF RInv, Keeps

-----------------------------------------------------------------------------
(* One live node goes on: to wait, to complete, to be resumed, to run.     *)

LEMMA MoveStep ==
  ASSUME RInv, TypeOK', Standing', NEW k \in Live,
         NEW s \in {"completed", "waiting", "resume", "running"},
         \A n \in Ids : /\ nodes'[n].parent = nodes[n].parent /\ nodes'[n].root = nodes[n].root
                       /\ nodes'[n].place = nodes[n].place /\ nodes'[n].reported = nodes[n].reported
                       /\ nodes'[n].status = IF n = k THEN s ELSE nodes[n].status,
         HasParent(k) /\ nodes[k].status = "queued" => AuthorOf(k) \notin {"source", "running"},
         s # "waiting" => Children(k) \cap Live = {},
         s = "resume" => \A c \in Children(k) : nodes[c].reported,
         \A p \in Places :
           \/ SameTurn(p) /\ turn[p].node # k
           \/ Unbound(p)
           \/ /\ s = "running" /\ nodes[k].place = p /\ turn'[p].node = k /\ turn'[p].run = TRUE
              /\ turn'[p].kids = Cardinality(Children(k)),
         told' = told, gone' = gone, tick'.pass # "said"
  PROVE  Keeps
<1>1. TypeOK /\ k \in Ids BY DEF RInv, Live
<1>2. Live \subseteq Present /\ Present \subseteq Ids /\ Issued \subseteq Ids
  BY DEF Live, Present, Open, Issued
<1>3. s # "absent" /\ s \in WorksFor([run |-> TRUE]) \cup {"waiting", "resume"} BY DEF WorksFor, Settled
<1>4. Present' = Present /\ Issued' = Issued /\ Live' \subseteq Live
      /\ \A n \in Live' : n # k => nodes'[n].status = nodes[n].status
  <2>1. \A n \in Ids : (n \in Present' <=> n \in Present) /\ (n \in Issued' <=> n \in Issued)
                      /\ (n \in Live' => n \in Live)
    BY <1>2, <1>3 DEF Present, Live, Issued
  <2>2. Present' \subseteq Ids /\ Issued' \subseteq Ids /\ Live' \subseteq Ids BY DEF Present, Issued, Live
  <2>3. QED BY <2>1, <2>2, <1>2
<1>5. ASSUME NEW n \in Ids PROVE Children(n)' = Children(n) BY <1>2, <1>4 DEF Children
<1>6. InSequence' BY <1>4 DEF RInv, InSequence
<1>7. Descent'
  <2>1. \A c \in Issued : nodes[c].parent # 0 => nodes[c].parent \in Ids BY <1>2 DEF RInv, Descent
  <2>2. QED BY <2>1, <1>2, <1>4 DEF RInv, Descent
<1>8. AtHome'
  <2>1. ASSUME NEW p \in Places PROVE TurnAt(p)'
    <3>1. CASE Unbound(p) BY <3>1 DEF Unbound, TurnAt
    <3>2. CASE SameTurn(p) /\ turn[p].node # k
      <4>1. TurnAt(p) BY DEF RInv, AtHome
      <4>2. CASE turn[p].node = Person BY <3>2, <4>1, <4>2 DEF TurnAt, SameTurn
      <4>3. CASE turn[p].node # Person
        <5>1. PICK m \in Issued : m = turn[p].node BY <4>1, <4>3 DEF TurnAt
        <5>2. nodes[m].place = p /\ nodes[m].status \in WorksFor(turn[p]) BY <4>1, <4>3, <5>1 DEF TurnAt
        <5>3. nodes'[m].place = p /\ nodes'[m].status \in WorksFor(turn[p]) BY <5>1, <5>2, <3>2, <1>2
        <5>4. WorksFor(turn'[p]) = WorksFor(turn[p]) BY <3>2 DEF SameTurn, WorksFor
        <5>5. turn'[p].node = m /\ m # Person BY <3>2, <4>3, <5>1 DEF SameTurn
        <5>6. QED BY <5>1, <5>3, <5>4, <5>5, <1>4 DEF TurnAt
      <4>4. QED BY <4>2, <4>3
    <3>3. CASE s = "running" /\ nodes[k].place = p /\ turn'[p].node = k /\ turn'[p].run = TRUE
      <4>1. nodes'[k].status \in WorksFor(turn'[p]) BY <3>3, <1>1 DEF WorksFor
      <4>2. k \in Issued' BY <1>2, <1>4 DEF RInv, InSequence
      <4>3. nodes'[k].place = p /\ k # Person BY <3>3, <1>1, Bounds DEF Person
      <4>4. QED BY <3>3, <4>1, <4>2, <4>3 DEF TurnAt
    <3>4. QED BY <3>1, <3>2, <3>3
  <2>2. QED BY <2>1 DEF AtHome
<1>9. InOrder'
  <2>1. ASSUME NEW c \in Live', HasParent(c)'
        PROVE  /\ AuthorOf(c)' \in {"source", "running", "waiting", "failed", "cancelled"}
               /\ nodes'[c].status # "queued" => AuthorOf(c)' \notin {"source", "running"}
    <3>1. c \in Live /\ c \in Ids /\ nodes'[c].parent = nodes[c].parent BY <1>2, <1>4
    <3>2. PICK a \in Present : a = nodes[c].parent BY <2>1, <3>1, <1>4 DEF HasParent
    <3>3. HasParent(c) /\ AuthorOf(c) = nodes[a].status /\ AuthorOf(c)' = nodes'[a].status
      BY <3>1, <3>2 DEF HasParent, AuthorOf
    <3>4. /\ nodes[a].status \in {"source", "running", "waiting", "failed", "cancelled"}
          /\ nodes[c].status # "queued" => nodes[a].status \notin {"source", "running"}
      BY <3>1, <3>3 DEF RInv, InOrder
    <3>5. CASE a = k
      <4>1. c \in Children(k) \cap Live BY <3>1, <3>2, <3>5, <1>2 DEF Children
      <4>2. s = "waiting" BY <4>1
      <4>3. QED BY <4>2, <3>3, <3>5, <1>1
    <3>6. CASE a # k
      <4>1. nodes'[a].status = nodes[a].status BY <3>6, <3>2, <1>2
      <4>2. CASE c = k
        <5>1. nodes[k].status = "queued" => nodes[a].status \notin {"source", "running"}
          BY <4>2, <3>3
        <5>2. QED BY <5>1, <4>1, <4>2, <3>3, <3>4
      <4>3. CASE c # k
        <5>1. nodes'[c].status = nodes[c].status BY <4>3, <3>1
        <5>2. QED BY <5>1, <4>1, <3>3, <3>4
      <4>4. QED BY <4>2, <4>3
    <3>7. QED BY <3>5, <3>6
  <2>2. QED BY <2>1 DEF InOrder
<1>10. Counted'
  <2>1. ASSUME NEW p \in Places PROVE KidsHadSettled(p)'
    <3>1. SUFFICES ASSUME turn'[p].run, turn'[p].node \in Live'
                   PROVE  turn'[p].kids <= Cardinality((Children(turn[p].node) \ Live)')
      BY DEF KidsHadSettled
    <3>2. PICK m \in Live' : m = turn'[p].node BY <3>1
    <3>3. m \in Live /\ m \in Ids BY <1>2, <1>4
    <3>4. (Children(turn[p].node) \ Live)' = Children(m) \ Live'
      <4>1. Children(m)' = Children(m) BY <3>3, <1>5
      <4>2. QED BY <4>1, <3>2 DEF Children
    <3>5. Children(m) \in SUBSET Ids BY <1>2 DEF Children
    <3>6. CASE SameTurn(p)
      <4>1. turn[p].node = m /\ turn'[p].kids = turn[p].kids /\ turn[p].run
        BY <3>1, <3>2, <3>6 DEF SameTurn
      <4>2. turn[p].kids <= Cardinality(Children(m) \ Live)
        BY <4>1, <3>3 DEF RInv, Counted, KidsHadSettled
      <4>3. Children(m) \ Live \subseteq Children(m) \ Live' BY <1>4
      <4>4. Cardinality(Children(m) \ Live) <= Cardinality(Children(m) \ Live')
        BY <4>3, <3>5, Fewer
      <4>5. /\ turn[p].kids \in Nat /\ Cardinality(Children(m) \ Live) \in Nat
            /\ Cardinality(Children(m) \ Live') \in Nat
        BY <3>5, <1>1, Typed, FiniteIds, Bounds
      <4>6. turn[p].kids <= Cardinality(Children(m) \ Live') BY <4>2, <4>4, <4>5
      <4>7. QED BY <4>1, <4>6, <3>4
    <3>7. CASE s = "running" /\ turn'[p].node = k /\ turn'[p].kids = Cardinality(Children(k))
      <4>1. m = k BY <3>2, <3>7
      <4>2. Children(k) \cap Live' = {} BY <3>7, <1>4
      <4>3. Children(m) \ Live' = Children(k) BY <4>1, <4>2
      <4>4. turn'[p].kids = Cardinality(Children(m) \ Live') BY <4>3, <3>7
      <4>5. Cardinality(Children(m) \ Live') \in Nat BY <3>5, FiniteIds, Bounds
      <4>6. turn'[p].kids <= Cardinality(Children(m) \ Live') BY <4>4, <4>5
      <4>7. QED BY <4>6, <3>4
    <3>8. QED BY <3>1, <3>6, <3>7 DEF Unbound
  <2>2. QED BY <2>1 DEF Counted
<1>11. ASSUME NEW c \in Present, nodes[c].parent # 0, c \notin Live, Accounted(c)
       PROVE  c \notin Live' /\ Accounted(c)'
  <2>1. c \notin Live' /\ c \in Ids /\ c # k BY <1>11, <1>2, <1>4
  <2>2. c \in Issued BY <1>11 DEF RInv, InSequence
  <2>3. nodes[c].parent \in Ids BY <1>2, <1>11, <2>2 DEF RInv, Descent
  <2>4. Assignment(c)' <=> Assignment(c) BY <2>1, <2>3 DEF Assignment
  <2>5. QED BY <1>11, <2>1, <2>3, <2>4 DEF Accounted
<1>12. ReportsSaid'
  <2>1. ASSUME NEW c \in Present, nodes'[c].parent # 0, nodes'[c].reported
        PROVE  c \notin Live' /\ Accounted(c)'
    <3>1. nodes[c].parent # 0 /\ nodes[c].reported BY <2>1, <1>2
    <3>2. c \notin Live /\ Accounted(c) BY <3>1 DEF RInv, ReportsSaid
    <3>3. QED BY <3>1, <3>2, <1>11
  <2>2. QED BY <2>1, <1>4 DEF ReportsSaid
<1>13. Resumes'
  <2>1. ASSUME NEW n \in Live', nodes'[n].status = "resume", NEW c \in Children(n)'
        PROVE  nodes'[c].reported
    <3>1. n \in Live /\ n \in Ids BY <1>2, <1>4
    <3>2. c \in Children(n) /\ c \in Ids BY <3>1, <1>2, <1>5 DEF Children
    <3>3. CASE n = k BY <3>3, <3>2, <2>1, <3>1
    <3>4. CASE n # k
      <4>1. nodes[n].status = "resume" BY <3>4, <3>1, <2>1
      <4>2. QED BY <4>1, <3>1, <3>2 DEF RInv, Resumes
    <3>5. QED BY <3>3, <3>4
  <2>2. QED BY <2>1 DEF Resumes
<1>14. ResultSaidOnce' /\ Saying' BY DEF RInv, ResultSaidOnce, Saying
<1>15. ASSUME NEW n \in Ids PROVE KeepsOutcome(n)
  <2>1. Settled \cap Open = {} BY DEF Settled, Open
  <2>2. nodes[k].status \notin Settled BY <2>1 DEF Live
  <2>3. QED BY <2>2 DEF KeepsOutcome
<1>16. QED BY <1>6, <1>7, <1>8, <1>9, <1>10, <1>12, <1>13, <1>14, <1>15 DEF RInv, Keeps

(* The turn of a run whose children all had settled completes its node; any *)
(* other turn that ends well leaves its node to wait.                       *)
LEMMA EndTurnGoesOn ==
  ASSUME RInv, NEW p \in Places, EndTurn(p, TRUE), Expects(turn[p].node, turn[p])
  PROVE  Keeps
<1>1. TypeOK /\ nodes \in [Ids -> Node] /\ turn \in [Places -> Turn] BY Typed DEF RInv
<1>2. PICK k \in Ids : k = turn[p].node BY DEF Expects, Present
<1> DEFINE s == Outcome(k, turn[p])
<1>3. /\ nodes' = [nodes EXCEPT ![k] = Closed(k, s)]
      /\ turn' = [Revoking(Aborted({})) EXCEPT ![p] = NoTurn]
      /\ gone' = gone /\ told' = told /\ tick' = tick /\ tick = Idle
      /\ UNCHANGED <<revoked, loadError, turns, restarts>>
  BY <1>2 DEF EndTurn, Serving
<1>4. s \in {"completed", "waiting"} BY DEF Outcome
<1>5. k \in Live BY <1>2 DEF Expects, Live, Open
<1>6. TurnAt(p) /\ k # Person BY <1>2, Bounds DEF RInv, AtHome, Person
<1>7. nodes[k].place = p /\ nodes[k].status \in WorksFor(turn[p]) BY <1>2, <1>6 DEF TurnAt
<1>8. nodes[k].status \in {"source", "running"}
  BY <1>5, <1>7 DEF WorksFor, Live, Open, Settled
<1>9. s # "waiting" => Children(k) \cap Live = {}
  <2>1. SUFFICES ASSUME s # "waiting" PROVE Children(k) \cap Live = {} OBVIOUS
  <2>2. turn[p].run /\ Cardinality(Children(k)) <= turn[p].kids BY <2>1 DEF Outcome
  <2>3. turn[p].kids <= Cardinality(Children(k) \ Live)
    BY <2>2, <1>2, <1>5 DEF RInv, Counted, KidsHadSettled
  <2>4. Children(k) \in SUBSET Ids BY DEF Children, Present
  <2>5. /\ Cardinality(Children(k)) \in Nat /\ Cardinality(Children(k) \ Live) \in Nat
        /\ turn[p].kids \in Nat
    BY <2>4, FiniteIds, Bounds, <1>1, Typed
  <2>6. Cardinality(Children(k)) <= Cardinality(Children(k) \ Live) BY <2>2, <2>3, <2>5
  <2>7. Children(k) \ Live = Children(k) BY <2>4, <2>6, Fewer
  <2>8. QED BY <2>7
<1> HIDE DEF s
<1>10. /\ Closed(k, s) \in Node /\ Closed(k, s).status = s /\ Closed(k, s).parent = nodes[k].parent
       /\ Closed(k, s).root = nodes[k].root /\ Closed(k, s).place = nodes[k].place
       /\ Closed(k, s).reported = nodes[k].reported
  <2>1. nodes[k] \in Node /\ s \in Settled \cup Open BY <1>1, <1>4 DEF Settled, Open
  <2>2. QED BY <2>1 DEF Closed, Node
<1>11. nodes' \in [Ids -> Node] BY <1>1, <1>3, <1>10
<1>12. \A n \in Ids : /\ nodes'[n].parent = nodes[n].parent /\ nodes'[n].root = nodes[n].root
                     /\ nodes'[n].place = nodes[n].place /\ nodes'[n].reported = nodes[n].reported
                     /\ nodes'[n].status = IF n = k THEN s ELSE nodes[n].status
  BY <1>1, <1>3, <1>10
<1>13. NoTurn \in Turn /\ NoTurn.node = Person /\ NoTurn.run = FALSE BY Bounds DEF NoTurn, Turn, Person
<1> DEFINE R == Revoking(Aborted({}))
<1>14. /\ R \in [Places -> Turn]
       /\ \A q \in Places : /\ R[q].node = turn[q].node /\ R[q].run = turn[q].run
                            /\ R[q].kids = turn[q].kids /\ (R[q] # NoTurn => Busy(q))
  BY <1>1, Revoked
<1>15. turn' = [R EXCEPT ![p] = NoTurn] BY <1>3
<1> HIDE DEF R
<1>16. turn' \in [Places -> Turn] BY <1>13, <1>14, <1>15
<1>17. ASSUME NEW q \in Places
       PROVE  ((SameTurn(q) /\ turn[q].node # k) \/ Unbound(q)) /\ (turn'[q] # NoTurn => Busy(q))
  <2>1. CASE q = p BY <2>1, <1>13, <1>14, <1>15 DEF Unbound
  <2>2. CASE q # p
    <3>1. SameTurn(q) /\ (turn'[q] # NoTurn => Busy(q)) BY <2>2, <1>14, <1>15 DEF SameTurn
    <3>2. turn[q].node # k
      <4>1. TurnAt(q) BY DEF RInv, AtHome
      <4>2. QED BY <4>1, <2>2, <1>6, <1>7 DEF TurnAt
    <3>3. QED BY <3>1, <3>2
  <2>3. QED BY <2>1, <2>2
<1>18. TypeOK' BY <1>1, <1>3, <1>11, <1>16 DEF TypeOK
<1>19. Standing'
  <2>1. ASSUME NEW n \in Live' PROVE nodes'[n].place \notin gone'
    <3>1. n \in Ids BY DEF Live
    <3>2. n \in Live BY <3>1, <1>5, <1>12 DEF Live
    <3>3. QED BY <3>1, <3>2, <1>3, <1>12 DEF RInv, Standing
  <2>2. ASSUME NEW q \in Places, Busy(q)' PROVE q \notin gone'
    BY <2>2, <1>3, <1>17 DEF Busy, RInv, Standing
  <2>3. QED BY <2>1, <2>2 DEF Standing
<1>20. tick'.pass # "said" /\ s \in {"completed", "waiting", "resume", "running"}
  BY <1>3, <1>4 DEF Idle
<1>21. ~(HasParent(k) /\ nodes[k].status = "queued") /\ s # "resume" BY <1>4, <1>8
<1>22. QED BY ZenonT(20), <1>3, <1>5, <1>9, <1>12, <1>17, <1>18, <1>19, <1>20, <1>21, MoveStep

(* A parent that is due, and must wait for its conversation or its bot.    *)
LEMMA TickRejoinStep ==
  ASSUME RInv, NEW k \in Ids, TickRejoin(k)
  PROVE  Keeps
<1>1. TypeOK /\ nodes \in [Ids -> Node] BY Typed DEF RInv
<1>2. /\ nodes' = [nodes EXCEPT ![k].status = "resume"] /\ tick' = [tick EXCEPT !.at = k]
      /\ gone' = gone /\ told' = told /\ turn' = turn
      /\ UNCHANGED <<revoked, loadError, turns, restarts>>
  BY DEF TickRejoin
<1>3. /\ k \in Live /\ nodes[k].status = "waiting"
      /\ \A c \in Children(k) : c \notin Live /\ nodes[c].reported
  BY DEF TickRejoin, Rejoins
<1> DEFINE r == [nodes[k] EXCEPT !.status = "resume"]
<1>4. /\ r \in Node /\ r.status = "resume" /\ r.parent = nodes[k].parent /\ r.root = nodes[k].root
      /\ r.place = nodes[k].place /\ r.reported = nodes[k].reported
  <2>1. nodes[k] \in Node BY <1>1
  <2>2. "resume" \in Open BY DEF Open
  <2>3. QED BY <2>1, <2>2 DEF Node
<1>5. nodes' = [nodes EXCEPT ![k] = r] BY <1>1, <1>2
<1> HIDE DEF r
<1>6. nodes' \in [Ids -> Node] BY <1>1, <1>4, <1>5
<1>7. \A n \in Ids : /\ nodes'[n].parent = nodes[n].parent /\ nodes'[n].root = nodes[n].root
                    /\ nodes'[n].place = nodes[n].place /\ nodes'[n].reported = nodes[n].reported
                    /\ nodes'[n].status = IF n = k THEN "resume" ELSE nodes[n].status
  BY <1>1, <1>4, <1>5
<1>8. ASSUME NEW p \in Places PROVE SameTurn(p) /\ turn[p].node # k
  <2>1. TurnAt(p) /\ k # Person BY Bounds DEF RInv, AtHome, Person
  <2>2. turn[p].node = k => FALSE
    BY <2>1, <1>3 DEF TurnAt, WorksFor, Settled
  <2>3. QED BY <2>2, <1>2 DEF SameTurn
<1>9. tick \in TickType /\ tick.pass = "visit" BY <1>1, Typed DEF TickRejoin, AtNode
<1>10. k \in 0 .. MaxNodes + 1 BY Bounds
<1>11. tick' \in TickType /\ tick'.pass # "said" BY <1>2, <1>9, <1>10 DEF TickType
<1>12. TypeOK' BY <1>1, <1>2, <1>6, <1>11 DEF TypeOK, TickType
<1>13. Standing'
  <2>1. ASSUME NEW n \in Live' PROVE nodes'[n].place \notin gone'
    <3>1. n \in Ids BY DEF Live
    <3>2. n \in Live BY <3>1, <1>3, <1>7 DEF Live
    <3>3. QED BY <3>1, <3>2, <1>2, <1>7 DEF RInv, Standing
  <2>2. QED BY <2>1, <1>2 DEF Busy, RInv, Standing
<1>14. QED BY <1>2, <1>3, <1>7, <1>8, <1>11, <1>12, <1>13, MoveStep

(* What is due to run has no live child: it never ran, or all have settled. *)
LEMMA DueHasNoLiveChild ==
  ASSUME RInv, NEW k \in Ids, Runnable(k)
  PROVE  k \in Live /\ Children(k) \cap Live = {}
<1>1. k \in Live BY DEF Runnable, Rejoins
<1>2. ASSUME NEW c \in Children(k), c \in Live PROVE FALSE
  <2>1. c \in Present /\ nodes[c].parent = k /\ k \in Present /\ k # 0
    BY <1>1, Bounds DEF Children, Live, Present, Open
  <2>2. AuthorOf(c) \in {"source", "running", "waiting", "failed", "cancelled"}
    BY <1>2, <2>1 DEF RInv, InOrder, HasParent
  <2>3. nodes[k].status # "queued" BY <2>1, <2>2 DEF AuthorOf
  <2>4. nodes[k].status = "resume"
    <3>1. ~Rejoins(k) BY <1>2 DEF Rejoins
    <3>2. QED BY <2>3, <3>1 DEF Runnable
  <2>5. nodes[c].reported BY <1>1, <1>2, <2>4 DEF RInv, Resumes
  <2>6. QED BY <1>2, <2>1, <2>5 DEF RInv, ReportsSaid
<1>3. QED BY <1>1, <1>2

LEMMA TickDispatchRuns ==
  ASSUME RInv, NEW k \in Ids, TickDispatch(k), ~Exhausted(k)
  PROVE  Keeps
<1>1. TypeOK /\ nodes \in [Ids -> Node] /\ turn \in [Places -> Turn] BY Typed DEF RInv
<1>2. Runnable(k) /\ ~AuthorAtWork(k) BY DEF TickDispatch, Dispatches
<1>3. k \in Live /\ Children(k) \cap Live = {} BY <1>2, DueHasNoLiveChild
<1> DEFINE g == nodes[k].root
           P == nodes[k].place
           t == [bot |-> nodes[k].bot, node |-> k, run |-> TRUE,
                 kids |-> Cardinality(Children(k)), may |-> TRUE]
<1>4. /\ nodes' = [nodes EXCEPT ![k] = Closed(k, "running"), ![g].executions = @ + 1]
      /\ turn' = [turn EXCEPT ![P] = t] /\ tick' = [tick EXCEPT !.at = k]
      /\ gone' = gone /\ told' = told /\ UNCHANGED <<revoked, loadError, turns, restarts>>
  BY DEF TickDispatch
<1>5. g \in Ids
  <2>1. k \in Issued BY <1>3 DEF RInv, InSequence, Live, Present, Open
  <2>2. g # 0 /\ g \in 0 .. MaxNodes BY <2>1, <1>1, Typed DEF Issued
  <2>3. QED BY <2>2, Bounds DEF Ids
<1>6. nodes[g].executions \in Nat /\ nodes[g].executions + 1 \in 0 .. ExecutionLimit
  <2>1. nodes[g].executions \in 0 .. ExecutionLimit BY <1>1, <1>5 DEF Node
  <2>2. ~(nodes[g].executions >= ExecutionLimit) BY DEF Exhausted
  <2>3. QED BY <2>1, <2>2, Bounds
<1> DEFINE r == Closed(k, "running")
           e == [nodes EXCEPT ![k] = r]
           h == [e[g] EXCEPT !.executions = nodes[g].executions + 1]
<1>7. /\ r \in Node /\ r.status = "running" /\ r.parent = nodes[k].parent /\ r.root = nodes[k].root
      /\ r.place = nodes[k].place /\ r.reported = nodes[k].reported
      /\ r.executions = nodes[k].executions
  <2>1. nodes[k] \in Node BY <1>1
  <2>2. "running" \in Open BY DEF Open
  <2>3. QED BY <2>1, <2>2 DEF Closed, Node
<1>8. nodes' = [e EXCEPT ![g] = h]
  <2>1. nodes' = [nodes EXCEPT ![k] = r, ![g].executions = @ + 1] BY <1>4
  <2> HIDE DEF r, g
  <2>2. [nodes EXCEPT ![k] = r, ![g].executions = @ + 1] = [e EXCEPT ![g] = h] BY <1>1, <1>5
  <2>3. QED BY <2>1, <2>2
<1> HIDE DEF r
<1>9. e \in [Ids -> Node] /\ e[g].executions = nodes[g].executions BY <1>1, <1>5, <1>7
<1>10. \A n \in Ids : /\ e[n].parent = nodes[n].parent /\ e[n].root = nodes[n].root
                     /\ e[n].place = nodes[n].place /\ e[n].reported = nodes[n].reported
                     /\ e[n].status = IF n = k THEN "running" ELSE nodes[n].status
  BY <1>1, <1>7
<1> HIDE DEF e, g
<1>11. /\ h \in Node /\ h.status = e[g].status /\ h.parent = e[g].parent /\ h.root = e[g].root
       /\ h.place = e[g].place /\ h.reported = e[g].reported
  <2>1. e[g] \in Node BY <1>5, <1>9
  <2>2. nodes[g].executions + 1 \in 0 .. ExecutionLimit BY <1>6
  <2>3. QED BY <2>1, <2>2 DEF Node
<1> HIDE DEF h
<1>12. nodes' \in [Ids -> Node] BY <1>5, <1>8, <1>9, <1>11
<1>13. \A n \in Ids : /\ nodes'[n].parent = e[n].parent /\ nodes'[n].root = e[n].root
                     /\ nodes'[n].place = e[n].place /\ nodes'[n].reported = e[n].reported
                     /\ nodes'[n].status = e[n].status
  BY <1>5, <1>8, <1>9, <1>11
<1>14. \A n \in Ids : /\ nodes'[n].parent = nodes[n].parent /\ nodes'[n].root = nodes[n].root
                     /\ nodes'[n].place = nodes[n].place /\ nodes'[n].reported = nodes[n].reported
                     /\ nodes'[n].status = IF n = k THEN "running" ELSE nodes[n].status
  BY <1>10, <1>13
<1>15. /\ t \in Turn /\ t.node = k /\ t.run = TRUE /\ t.kids = Cardinality(Children(k))
  <2>1. nodes[k].bot \in Bots \cup {"none"} /\ k \in 0 .. MaxNodes BY <1>1, Bounds DEF Node
  <2>2. Children(k) \in SUBSET Ids BY DEF Children, Present
  <2>3. Cardinality(Children(k)) \in 0 .. MaxNodes BY <2>2, FiniteIds
  <2>4. QED BY <2>1, <2>3 DEF Turn
<1> HIDE DEF t
<1>16. turn' \in [Places -> Turn] BY <1>1, <1>4, <1>15
<1>17. ASSUME NEW p \in Places
       PROVE  \/ SameTurn(p) /\ turn[p].node # k /\ turn'[p] = turn[p]
              \/ /\ nodes[k].place = p /\ turn'[p].node = k /\ turn'[p].run = TRUE
                 /\ turn'[p].kids = Cardinality(Children(k))
  <2>1. CASE p = P BY <2>1, <1>1, <1>4, <1>15
  <2>2. CASE p # P
    <3>1. turn'[p] = turn[p] BY <2>2, <1>1, <1>4
    <3>2. TurnAt(p) /\ k # Person BY Bounds DEF RInv, AtHome, Person
    <3>3. turn[p].node # k BY <3>2, <2>2 DEF TurnAt
    <3>4. QED BY <3>1, <3>3 DEF SameTurn
  <2>3. QED BY <2>1, <2>2
<1>18. tick \in TickType /\ tick.pass = "visit" BY <1>1, Typed DEF TickDispatch, AtNode
<1>19. k \in 0 .. MaxNodes + 1 BY Bounds
<1>20. tick' \in TickType /\ tick'.pass # "said" BY <1>4, <1>18, <1>19 DEF TickType
<1>21. TypeOK' BY <1>1, <1>4, <1>12, <1>16, <1>20 DEF TypeOK, TickType
<1>22. Standing'
  <2>1. ASSUME NEW n \in Live' PROVE nodes'[n].place \notin gone'
    <3>1. n \in Ids BY DEF Live
    <3>2. n \in Live BY <3>1, <1>3, <1>14 DEF Live
    <3>3. nodes'[n].place = nodes[n].place /\ gone' = gone BY <3>1, <1>4, <1>14
    <3>4. nodes[n].place \notin gone BY <3>2 DEF RInv, Standing
    <3>5. QED BY <3>3, <3>4
  <2>2. ASSUME NEW p \in Places, Busy(p)' PROVE p \notin gone'
    <3>1. CASE turn'[p] = turn[p] BY <3>1, <2>2, <1>4 DEF Busy, RInv, Standing
    <3>2. CASE nodes[k].place = p BY <3>2, <1>3, <1>4 DEF RInv, Standing
    <3>3. QED BY <3>1, <3>2, <1>17
  <2>3. QED BY <2>1, <2>2 DEF Standing
<1>23. HasParent(k) => AuthorOf(k) \notin {"source", "running"} BY <1>2 DEF AuthorAtWork, AuthorOf
<1>24. gone' = gone /\ told' = told BY <1>4
<1>25. QED BY <1>3, <1>14, <1>17, <1>20, <1>21, <1>22, <1>23, <1>24, MoveStep

-----------------------------------------------------------------------------
(* A request adds a child c under the author k, which may itself be new,   *)
(* and whole trees leave the map.                                          *)

LEMMA AddStep ==
  ASSUME RInv, TypeOK', InSequence', Standing', NEW k \in Ids, NEW c \in Ids,
         c \notin Issued, k < c, Issued' = Issued \cup {k, c},
         /\ nodes'[c].parent = k /\ nodes'[c].root = nodes'[k].root
         /\ nodes'[c].status = "queued" /\ nodes'[c].reported = FALSE,
         nodes'[k].status \in {"source", "running", "failed", "cancelled", "absent"},
         k \notin Issued => nodes'[k].parent = 0,
         \A n \in Issued : /\ nodes'[n].parent = nodes[n].parent /\ nodes'[n].root = nodes[n].root
                          /\ nodes'[n].place = nodes[n].place /\ nodes'[n].reported = nodes[n].reported
                          /\ nodes'[n].status \in {nodes[n].status, "absent"},
         \A m, n \in Present : nodes[m].root = nodes[n].root /\ nodes'[m].status = "absent"
                               => nodes'[n].status = "absent",
         \A p \in Places : \/ SameTurn(p)
                           \/ /\ turn'[p].node = k /\ turn'[p].run = FALSE
                              /\ nodes'[k].place = p /\ nodes'[k].status = "source",
         told' = told, gone' = gone, tick'.pass # "said"
  PROVE  Keeps
<1>1. TypeOK BY DEF RInv
<1>2. Live \subseteq Present /\ Present \subseteq Issued /\ Issued \subseteq Ids
  BY DEF Live, Present, Open, Issued, RInv, InSequence
<1>3. Live' \subseteq Present' /\ Present' \subseteq Issued' BY DEF Live, Present, Open, InSequence
<1>4. ASSUME NEW n \in Issued
      PROVE  /\ n \in Present' => n \in Present /\ nodes'[n].status = nodes[n].status
             /\ n \in Live' => n \in Live
  <2>1. nodes'[n].status \in {nodes[n].status, "absent"} OBVIOUS
  <2>2. QED BY <2>1, <1>2, <1>3 DEF Present, Live
<1>5. k \notin Issued => nodes'[k].status # "resume" /\ nodes'[k].parent = 0 OBVIOUS
<1>6. Descent'
  <2>1. ASSUME NEW n \in Issued', nodes'[n].parent # 0
        PROVE  /\ nodes'[n].parent \in Issued' /\ nodes'[n].parent < n
               /\ nodes'[nodes'[n].parent].root = nodes'[n].root
    <3>1. CASE n = c BY <3>1
    <3>2. CASE n # c
      <4>1. n \in Issued BY <2>1, <3>2, <1>5
      <4>2. /\ nodes[n].parent \in Issued /\ nodes[n].parent < n
            /\ nodes[nodes[n].parent].root = nodes[n].root
        BY <2>1, <4>1 DEF RInv, Descent
      <4>3. QED BY <4>1, <4>2
    <3>3. QED BY <3>1, <3>2
  <2>2. QED BY <2>1 DEF Descent
<1>7. AtHome'
  <2>1. ASSUME NEW p \in Places PROVE TurnAt(p)'
    <3>1. CASE SameTurn(p)
      <4>1. TurnAt(p) BY DEF RInv, AtHome
      <4>2. CASE turn[p].node = Person BY <3>1, <4>1, <4>2 DEF TurnAt, SameTurn
      <4>3. CASE turn[p].node # Person
        <5>1. PICK m \in Issued : m = turn[p].node BY <4>1, <4>3 DEF TurnAt
        <5>2. nodes[m].place = p /\ nodes[m].status \in WorksFor(turn[p]) BY <4>1, <4>3, <5>1 DEF TurnAt
        <5>3. "absent" \in WorksFor(turn[p]) BY DEF WorksFor
        <5>4. nodes'[m].place = p /\ nodes'[m].status \in WorksFor(turn[p]) BY <5>1, <5>2, <5>3
        <5>5. WorksFor(turn'[p]) = WorksFor(turn[p]) BY <3>1 DEF SameTurn, WorksFor
        <5>6. turn'[p].node = m /\ m # Person BY <3>1, <4>3, <5>1 DEF SameTurn
        <5>7. QED BY <5>1, <5>4, <5>5, <5>6 DEF TurnAt
      <4>4. QED BY <4>2, <4>3
    <3>2. CASE /\ turn'[p].node = k /\ turn'[p].run = FALSE
               /\ nodes'[k].place = p /\ nodes'[k].status = "source"
      <4>1. nodes'[k].status \in WorksFor(turn'[p]) BY <3>2 DEF WorksFor
      <4>2. QED BY <3>2, <4>1 DEF TurnAt
    <3>3. QED BY <3>1, <3>2
  <2>2. QED BY <2>1 DEF AtHome
<1>8. InOrder'
  <2>1. ASSUME NEW n \in Live', HasParent(n)'
        PROVE  /\ AuthorOf(n)' \in {"source", "running", "waiting", "failed", "cancelled"}
               /\ nodes'[n].status # "queued" => AuthorOf(n)' \notin {"source", "running"}
    <3>1. PICK a \in Present' : a = nodes'[n].parent BY <2>1 DEF HasParent
    <3>2. AuthorOf(n)' = nodes'[a].status /\ nodes'[a].status # "absent" /\ a \in Ids
      BY <3>1 DEF AuthorOf, Present
    <3>3. CASE n = c
      <4>1. a = k BY <3>1, <3>3
      <4>2. QED BY <3>2, <3>3, <4>1
    <3>4. CASE n # c
      <4>1. n \in Issued' /\ a # 0 BY <1>3, <3>2, Bounds
      <4>2. n \in Issued BY <4>1, <3>1, <3>4, <1>5
      <4>3. n \in Live /\ nodes'[n].status = nodes[n].status BY <4>2, <1>3, <1>4
      <4>4. nodes[n].parent = a BY <4>2, <3>1
      <4>5. a \in Issued BY <4>1, <4>2, <4>4 DEF RInv, Descent
      <4>6. a \in Present /\ nodes'[a].status = nodes[a].status BY <4>5, <3>1, <1>4
      <4>7. HasParent(n) /\ AuthorOf(n) = nodes[a].status BY <4>4, <4>6 DEF HasParent, AuthorOf
      <4>8. QED BY <4>3, <4>6, <4>7, <3>2 DEF RInv, InOrder
    <3>5. QED BY <3>3, <3>4
  <2>2. QED BY <2>1 DEF InOrder
<1>9. Counted'
  <2>1. ASSUME NEW p \in Places PROVE KidsHadSettled(p)'
    <3>1. SUFFICES ASSUME turn'[p].run, turn'[p].node \in Live'
                   PROVE  turn'[p].kids <= Cardinality((Children(turn[p].node) \ Live)')
      BY DEF KidsHadSettled
    <3>2. SameTurn(p) BY <3>1
    <3>3. PICK m \in Live' : m = turn'[p].node BY <3>1
    <3>4. turn[p].node = m /\ turn'[p].kids = turn[p].kids /\ turn[p].run BY <3>1, <3>2, <3>3 DEF SameTurn
    <3>5. m \in Issued BY <3>4 DEF RInv, AtHome, TurnAt
    <3>6. m \in Live /\ m \in Present /\ nodes'[m].status # "absent" BY <3>5, <1>2, <1>3, <1>4 DEF Present
    <3>7. turn[p].kids <= Cardinality(Children(m) \ Live)
      BY <3>4, <3>6 DEF RInv, Counted, KidsHadSettled
    <3>8. ASSUME NEW x \in Children(m) \ Live PROVE x \in Children(m)' \ Live'
      <4>1. x \in Present /\ nodes[x].parent = m /\ m # 0 BY <3>5, <1>2, Bounds DEF Children
      <4>2. x \in Issued BY <4>1, <1>2
      <4>3. nodes[x].root = nodes[m].root BY <4>1, <4>2 DEF RInv, Descent
      <4>4. nodes'[x].status # "absent" BY <4>1, <4>3, <3>6
      <4>5. x \in Present' BY <4>2, <4>4, <1>2 DEF Present
      <4>6. nodes'[x].parent = m /\ x \notin Live' BY <4>1, <4>2, <1>4
      <4>7. QED BY <4>5, <4>6 DEF Children
    <3>9. (Children(turn[p].node) \ Live)' = Children(m)' \ Live' BY <3>3 DEF Children
    <3>10. Children(m) \in SUBSET Ids /\ Children(m)' \in SUBSET Ids
      BY DEF Children, Present
    <3>11. Children(m) \ Live \subseteq Children(m)' \ Live' BY <3>8
    <3>12. Cardinality(Children(m) \ Live) <= Cardinality(Children(m)' \ Live')
      BY <3>10, <3>11, Fewer
    <3>13. /\ turn[p].kids \in Nat /\ Cardinality(Children(m) \ Live) \in Nat
           /\ Cardinality(Children(m)' \ Live') \in Nat
      BY <3>10, <1>1, Typed, FiniteIds, Bounds
    <3>14. turn[p].kids <= Cardinality(Children(m)' \ Live') BY <3>7, <3>12, <3>13
    <3>15. QED BY <3>4, <3>9, <3>14
  <2>2. QED BY <2>1 DEF Counted
<1>10. ReportsSaid'
  <2>1. ASSUME NEW n \in Present', nodes'[n].parent # 0, nodes'[n].reported
        PROVE  n \notin Live' /\ Accounted(n)'
    <3>1. n # c BY <2>1
    <3>2. n \in Issued BY <2>1, <3>1, <1>3, <1>5
    <3>3. n \in Present /\ nodes'[n].status = nodes[n].status BY <3>2, <1>4
    <3>4. nodes[n].parent # 0 /\ nodes[n].reported BY <2>1, <3>2
    <3>5. n \notin Live /\ Accounted(n) BY <3>3, <3>4 DEF RInv, ReportsSaid
    <3>6. nodes[n].parent \in Issued BY <3>2, <3>4 DEF RInv, Descent
    <3>7. Assignment(n)' <=> Assignment(n) BY <3>2, <3>6 DEF Assignment
    <3>8. Accounted(n)' BY <3>2, <3>3, <3>5, <3>6, <3>7 DEF Accounted
    <3>9. QED BY <3>2, <3>5, <3>8, <1>4
  <2>2. QED BY <2>1 DEF ReportsSaid
<1>11. Resumes'
  <2>1. ASSUME NEW n \in Live', nodes'[n].status = "resume", NEW x \in Children(n)'
        PROVE  nodes'[x].reported
    <3>1. n # k /\ n # c BY <2>1
    <3>2. n \in Issued BY <3>1, <1>3
    <3>3. n \in Live /\ nodes[n].status = "resume" /\ n # 0
      BY <3>2, <2>1, <1>2, <1>3, <1>4, Bounds
    <3>4. x \in Present' /\ nodes'[x].parent = n BY DEF Children
    <3>5. x # c BY <3>1, <3>4
    <3>6. x \in Issued BY <3>3, <3>4, <3>5, <1>3, <1>5
    <3>7. x \in Children(n) BY <3>4, <3>6, <1>4 DEF Children
    <3>8. QED BY <3>3, <3>6, <3>7 DEF RInv, Resumes
  <2>2. QED BY <2>1 DEF Resumes
<1>12. ResultSaidOnce' /\ Saying' BY DEF RInv, ResultSaidOnce, Saying
<1>13. ASSUME NEW n \in Ids PROVE KeepsOutcome(n)
  <2>1. CASE n \in Issued BY <2>1 DEF KeepsOutcome
  <2>2. CASE n \notin Issued
    <3>1. nodes[n].status = "absent" BY <2>2, <1>2 DEF Present
    <3>2. QED BY <3>1 DEF KeepsOutcome, Settled
  <2>3. QED BY <2>1, <2>2
<1>14. QED BY <1>6, <1>7, <1>8, <1>9, <1>10, <1>11, <1>12, <1>13 DEF RInv, Keeps

(* A tree is pruned as a whole.                                            *)
LEMMA PrunedTrees ==
  /\ Pruned \subseteq Present
  /\ \A m, n \in Present : nodes[m].root = nodes[n].root /\ m \in Pruned => n \in Pruned
<1>1. Pruned = {} \/ \E R : Pruned = TreeOf(R) BY DEF Pruned
<1>2. QED BY <1>1 DEF TreeOf

LEMMA NobodyTyped == Nobody \in Node /\ Nobody.reported = FALSE
BY Bounds DEF Nobody, Node

(* Where a request may go to, and where it comes from, still stands.       *)
LEMMA RequestStands ==
  ASSUME RInv, NEW p \in Places, NEW q \in Places, NEW b \in Bots, Enqueue(p, q, b)
  PROVE  p \notin gone /\ q \notin gone
<1>1. gone \subseteq Threads BY DEF RInv, TypeOK
<1>2. p \notin gone BY DEF Enqueue, RInv, Standing
<1>3. q \notin gone
  <2>1. CASE q \in Threads BY <2>1 DEF Enqueue, Addressable
  <2>2. CASE q \in Rooms BY <2>2, <1>1, PlacesAssumption
  <2>3. QED BY <2>1, <2>2 DEF Places
<1>4. QED BY <1>2, <1>3

LEMMA EnqueueUnderStep ==
  ASSUME RInv, NEW p \in Places, NEW q \in Places, NEW b \in Bots,
         Enqueue(p, q, b), EnqueueUnder(p, q, b)
  PROVE  Keeps
<1>1. TypeOK /\ InSequence /\ nodes \in [Ids -> Node] BY Typed DEF RInv
<1>2. PICK k \in Present : k = turn[p].node BY DEF EnqueueUnder
<1>3. PICK c \in Ids : c = NextId BY DEF EnqueueUnder
<1> DEFINE f == Fresh(k, nodes[k].root, q, b, "queued")
<1>4. nodes' = [n \in Ids |-> CASE n = c -> f
                                [] n \in Pruned -> [nodes[n] EXCEPT !.status = "absent"]
                                [] OTHER -> nodes[n]]
  BY <1>2, <1>3 DEF EnqueueUnder
<1>5. turn' = turn /\ gone' = gone /\ told' = told /\ tick' = tick /\ tick = Idle
      /\ UNCHANGED <<revoked, loadError, turns, restarts>>
  BY DEF Enqueue, EnqueueUnder, Serving
<1>6. k \in Issued /\ k \in Ids /\ nodes[k].root \in 0 .. MaxNodes /\ nodes[k].root # 0
  BY <1>1, <1>2, Typed DEF InSequence, Issued
<1>7. c \notin Issued /\ k < c /\ Issued = 1 .. (c - 1)
  BY <1>1, <1>3, <1>6, NextIsFresh, Bounds
<1>8. /\ f \in Node /\ f.parent = k /\ f.root = nodes[k].root /\ f.place = q
      /\ f.status = "queued" /\ f.reported = FALSE
  <2>1. "queued" \in Open /\ k \in 0 .. MaxNodes /\ b \in Bots \cup {"none"} BY <1>6, Bounds DEF Open
  <2>2. QED BY <2>1, <1>6, NobodyTyped DEF Fresh, Node
<1>9. Pruned \subseteq Present /\ Present \subseteq Issued /\ Live \subseteq Present
  BY <1>1, PrunedTrees DEF InSequence, Live, Present, Open
<1> HIDE DEF f
<1>10. nodes'[c] = f BY <1>4, <1>7, <1>9
<1>11. ASSUME NEW n \in Ids, n # c
       PROVE  /\ nodes'[n] \in Node /\ nodes'[n].parent = nodes[n].parent /\ nodes'[n].root = nodes[n].root
              /\ nodes'[n].place = nodes[n].place /\ nodes'[n].reported = nodes[n].reported
              /\ nodes'[n].status = IF n \in Pruned THEN "absent" ELSE nodes[n].status
  <2>1. nodes[n] \in Node BY <1>1
  <2>2. CASE n \in Pruned
    <3>1. nodes'[n] = [nodes[n] EXCEPT !.status = "absent"] BY <2>2, <1>4, <1>11
    <3>2. QED BY <3>1, <2>1, <2>2 DEF Node
  <2>3. CASE n \notin Pruned
    <3>1. nodes'[n] = nodes[n] BY <2>3, <1>4, <1>11
    <3>2. QED BY <3>1, <2>1, <2>3
  <2>4. QED BY <2>2, <2>3
<1>12. nodes' \in [Ids -> Node] BY <1>4, <1>8, <1>10, <1>11
<1>13. TypeOK' BY <1>1, <1>5, <1>12 DEF TypeOK
<1>14. Issued' = Issued \cup {c}
  <2>1. \A n \in Ids : n \in Issued' <=> n \in Issued \cup {c}
    BY <1>6, <1>8, <1>10, <1>11 DEF Issued
  <2>2. Issued' \subseteq Ids /\ Issued \subseteq Ids BY DEF Issued
  <2>3. QED BY <2>1, <2>2
<1>15. InSequence'
  <2>1. ASSUME NEW n \in Present' PROVE n \in Issued'
    <3>1. n \in Ids /\ nodes'[n].status # "absent" BY DEF Present
    <3>2. n # c => n \in Present BY <3>1, <1>11 DEF Present
    <3>3. QED BY <3>2, <1>9, <1>14
  <2>2. c \in 0 .. MaxNodes /\ c \in Nat \ {0} BY Bounds
  <2>3. Issued' = 1 .. c BY <2>2, <1>7, <1>14
  <2>4. QED BY <2>1, <2>2, <2>3 DEF InSequence
<1>16. ASSUME NEW n \in Ids, n \in Live', n # c PROVE n \in Live
  BY <1>11, <1>16 DEF Live, Open
<1>17. Standing'
  <2>1. q \notin gone BY RequestStands
  <2>2. ASSUME NEW n \in Live' PROVE nodes'[n].place \notin gone'
    <3>1. n \in Ids BY DEF Live
    <3>2. CASE n = c BY <3>2, <2>1, <1>5, <1>8, <1>10
    <3>3. CASE n # c
      <4>1. nodes[n].place \notin gone BY <3>1, <3>3, <1>16 DEF RInv, Standing
      <4>2. QED BY <4>1, <3>1, <3>3, <1>5, <1>11
    <3>4. QED BY <3>2, <3>3
  <2>3. QED BY <2>2, <1>5 DEF Busy, RInv, Standing
<1>18. nodes'[k].status \in {"source", "running", "failed", "cancelled", "absent"}
  <2>1. TurnAt(p) /\ k # Person BY <1>6, Bounds DEF RInv, AtHome, Person
  <2>2. nodes[k].status \in WorksFor(turn[p]) BY <2>1, <1>2 DEF TurnAt
  <2>3. turn[p].run => nodes[k].status = "running" BY <1>2 DEF EnqueueUnder
  <2>4. nodes[k].status \in {"source", "running", "failed", "cancelled", "absent"}
    BY <2>2, <2>3 DEF WorksFor
  <2>5. k # c BY <1>6, <1>7
  <2>6. QED BY <2>4, <2>5, <1>6, <1>11
<1>19. \A n \in Issued : n \in Ids /\ n # c BY <1>7 DEF Issued
<1>20. \A m, n \in Present : nodes[m].root = nodes[n].root /\ nodes'[m].status = "absent"
                            => nodes'[n].status = "absent"
  <2>1. \A n \in Present : nodes[n].status # "absent" BY DEF Present
  <2>2. \A n \in Present : nodes'[n].status = "absent" <=> n \in Pruned
    BY <2>1, <1>9, <1>11, <1>19
  <2>3. QED BY <2>2, PrunedTrees
<1>21. /\ Issued' = Issued \cup {k, c} /\ tick'.pass # "said" BY <1>5, <1>6, <1>14 DEF Idle
<1>22. /\ nodes'[c].parent = k /\ nodes'[c].root = nodes'[k].root
       /\ nodes'[c].status = "queued" /\ nodes'[c].reported = FALSE
  BY <1>6, <1>8, <1>10, <1>11, <1>19
<1>23. \A n \in Issued : /\ nodes'[n].parent = nodes[n].parent /\ nodes'[n].root = nodes[n].root
                        /\ nodes'[n].place = nodes[n].place /\ nodes'[n].reported = nodes[n].reported
                        /\ nodes'[n].status \in {nodes[n].status, "absent"}
  BY <1>11, <1>19
<1>24. \A x \in Places : SameTurn(x) BY <1>5 DEF SameTurn
<1>25. told' = told /\ gone' = gone BY <1>5
<1>26. QED BY <1>6, <1>7, <1>13, <1>15, <1>17, <1>18, <1>20, <1>21, <1>22, <1>23, <1>24, <1>25, AddStep

LEMMA EnqueueFirstStep ==
  ASSUME RInv, NEW p \in Places, NEW q \in Places, NEW b \in Bots,
         Enqueue(p, q, b), EnqueueFirst(p, q, b)
  PROVE  Keeps
<1>1. TypeOK /\ InSequence /\ nodes \in [Ids -> Node] /\ turn \in [Places -> Turn] BY Typed DEF RInv
<1>2. NextId \in Nat \ {0} BY <1>1, NextIsFresh
<1>3. PICK c \in Ids : c = NextId + 1 BY DEF EnqueueFirst
<1>4. PICK r \in Ids : r = NextId BY <1>2, <1>3, Bounds DEF Ids
<1> DEFINE f == Fresh(r, r, q, b, "queued")
           g == [Fresh(0, r, p, turn[p].bot, "source") EXCEPT !.reported = TRUE]
<1>5. /\ nodes' = [n \in Ids |-> CASE n = r -> g
                                 [] n = c -> f
                                 [] n \in Pruned -> [nodes[n] EXCEPT !.status = "absent"]
                                 [] OTHER -> nodes[n]]
      /\ turn' = [turn EXCEPT ![p].node = r]
      /\ ~turn[p].run
  BY <1>3, <1>4 DEF EnqueueFirst
<1>6. gone' = gone /\ told' = told /\ tick' = tick /\ tick = Idle
      /\ UNCHANGED <<revoked, loadError, turns, restarts>>
  BY DEF Enqueue, Serving
<1>7. r \notin Issued /\ c \notin Issued /\ r < c /\ r # c /\ c = r + 1 /\ Issued = 1 .. (r - 1)
      /\ r \in Nat \ {0} /\ r \in 0 .. MaxNodes
  BY <1>1, <1>2, <1>3, <1>4, NextIsFresh, Bounds
<1>8. /\ f \in Node /\ f.parent = r /\ f.root = r /\ f.place = q
      /\ f.status = "queued" /\ f.reported = FALSE
  <2>1. "queued" \in Open /\ b \in Bots \cup {"none"} BY DEF Open
  <2>2. QED BY <2>1, <1>7, NobodyTyped DEF Fresh, Node
<1>9. /\ g \in Node /\ g.parent = 0 /\ g.root = r /\ g.place = p /\ g.status = "source"
  <2> DEFINE x == Fresh(0, r, p, turn[p].bot, "source")
  <2>1. "source" \in Open /\ turn[p].bot \in Bots \cup {"none"} /\ 0 \in 0 .. MaxNodes
    BY <1>1, Bounds DEF Open, Turn
  <2>2. x \in Node /\ x.parent = 0 /\ x.root = r /\ x.place = p /\ x.status = "source"
    BY <2>1, <1>7, NobodyTyped DEF Fresh, Node
  <2> HIDE DEF x
  <2>3. g = [x EXCEPT !.reported = TRUE] BY DEF x
  <2> HIDE DEF g
  <2>4. QED BY <2>2, <2>3 DEF Node
<1>10. Pruned \subseteq Present /\ Present \subseteq Issued /\ Live \subseteq Present
  BY <1>1, PrunedTrees DEF InSequence, Live, Present, Open
<1> HIDE DEF f, g
<1>11. nodes'[c] = f /\ nodes'[r] = g BY <1>5, <1>7, <1>10
<1>12. ASSUME NEW n \in Ids, n # c, n # r
       PROVE  /\ nodes'[n] \in Node /\ nodes'[n].parent = nodes[n].parent /\ nodes'[n].root = nodes[n].root
              /\ nodes'[n].place = nodes[n].place /\ nodes'[n].reported = nodes[n].reported
              /\ nodes'[n].status = IF n \in Pruned THEN "absent" ELSE nodes[n].status
  <2>1. nodes[n] \in Node BY <1>1
  <2>2. CASE n \in Pruned
    <3>1. nodes'[n] = [nodes[n] EXCEPT !.status = "absent"] BY <2>2, <1>5, <1>12
    <3>2. QED BY <3>1, <2>1, <2>2 DEF Node
  <2>3. CASE n \notin Pruned
    <3>1. nodes'[n] = nodes[n] BY <2>3, <1>5, <1>12
    <3>2. QED BY <3>1, <2>1, <2>3
  <2>4. QED BY <2>2, <2>3
<1>13. nodes' \in [Ids -> Node]
  <2>1. \A n \in Ids : nodes'[n] \in Node BY <1>8, <1>9, <1>11, <1>12
  <2>2. QED BY <2>1, <1>5
<1> DEFINE t == [turn[p] EXCEPT !.node = r]
<1>14. t \in Turn /\ t.node = r /\ t.run = turn[p].run
  <2>1. turn[p] \in Turn BY <1>1
  <2>2. QED BY <2>1, <1>7 DEF Turn
<1>15. turn' = [turn EXCEPT ![p] = t] BY <1>1, <1>5
<1> HIDE DEF t
<1>16. turn' \in [Places -> Turn] BY <1>1, <1>14, <1>15
<1>17. TypeOK' BY <1>1, <1>6, <1>13, <1>16 DEF TypeOK
<1>18. Issued' = Issued \cup {r, c}
  <2>1. \A n \in Ids : n \in Issued' <=> n \in Issued \cup {r, c}
    BY <1>7, <1>8, <1>9, <1>11, <1>12 DEF Issued
  <2>2. Issued' \subseteq Ids /\ Issued \subseteq Ids BY DEF Issued
  <2>3. QED BY <2>1, <2>2
<1>19. InSequence'
  <2>1. ASSUME NEW n \in Present' PROVE n \in Issued'
    <3>1. n \in Ids /\ nodes'[n].status # "absent" BY DEF Present
    <3>2. n # c /\ n # r => n \in Present BY <3>1, <1>12 DEF Present
    <3>3. QED BY <3>2, <1>10, <1>18
  <2>2. c \in 0 .. MaxNodes BY Bounds
  <2>3. Issued' = 1 .. c BY <1>7, <1>18
  <2>4. QED BY <2>1, <2>2, <2>3 DEF InSequence
<1>20. p \notin gone /\ q \notin gone BY RequestStands
<1>21. Standing'
  <2>1. ASSUME NEW n \in Live' PROVE nodes'[n].place \notin gone'
    <3>1. n \in Ids BY DEF Live
    <3>2. CASE n = c BY <3>2, <1>6, <1>8, <1>11, <1>20
    <3>3. CASE n = r BY <3>3, <1>6, <1>9, <1>11, <1>20
    <3>4. CASE n # c /\ n # r
      <4>1. n \in Live BY <3>1, <3>4, <1>12 DEF Live, Open
      <4>2. nodes[n].place \notin gone BY <4>1 DEF RInv, Standing
      <4>3. QED BY <4>2, <3>1, <3>4, <1>6, <1>12
    <3>5. QED BY <3>2, <3>3, <3>4
  <2>2. ASSUME NEW x \in Places, Busy(x)' PROVE x \notin gone'
    <3>1. CASE x = p BY <3>1, <1>6, <1>20
    <3>2. CASE x # p
      <4>1. turn'[x] = turn[x] BY <3>2, <1>1, <1>15
      <4>2. QED BY <4>1, <2>2, <1>6 DEF Busy, RInv, Standing
    <3>3. QED BY <3>1, <3>2
  <2>3. QED BY <2>1, <2>2 DEF Standing
<1>22. \A n \in Issued : n \in Ids /\ n # c /\ n # r BY <1>7 DEF Issued
<1>23. \A m, n \in Present : nodes[m].root = nodes[n].root /\ nodes'[m].status = "absent"
                            => nodes'[n].status = "absent"
  <2>1. \A n \in Present : nodes[n].status # "absent" BY DEF Present
  <2>2. \A n \in Present : nodes'[n].status = "absent" <=> n \in Pruned
    BY <2>1, <1>10, <1>12, <1>22
  <2>3. QED BY <2>2, PrunedTrees
<1>24. /\ nodes'[c].parent = r /\ nodes'[c].root = nodes'[r].root
       /\ nodes'[c].status = "queued" /\ nodes'[c].reported = FALSE
       /\ nodes'[r].status = "source" /\ nodes'[r].parent = 0 /\ nodes'[r].place = p
  BY <1>8, <1>9, <1>11
<1>25. \A n \in Issued : /\ nodes'[n].parent = nodes[n].parent /\ nodes'[n].root = nodes[n].root
                        /\ nodes'[n].place = nodes[n].place /\ nodes'[n].reported = nodes[n].reported
                        /\ nodes'[n].status \in {nodes[n].status, "absent"}
  BY <1>12, <1>22
<1>26. ASSUME NEW x \in Places
       PROVE  \/ SameTurn(x)
              \/ /\ turn'[x].node = r /\ turn'[x].run = FALSE
                 /\ nodes'[r].place = x /\ nodes'[r].status = "source"
  <2>1. CASE x = p
    <3>1. turn[p].run = FALSE BY <1>1, <1>5, Typed
    <3>2. turn'[p] = t BY <1>1, <1>15
    <3>3. QED BY <3>1, <3>2, <2>1, <1>14, <1>24
  <2>2. CASE x # p BY <2>2, <1>1, <1>15 DEF SameTurn
  <2>3. QED BY <2>1, <2>2
<1>27. told' = told /\ gone' = gone /\ tick'.pass # "said" BY <1>6 DEF Idle
<1>28. nodes'[r].status \in {"source", "running", "failed", "cancelled", "absent"} BY <1>24
<1>29. QED BY <1>7, <1>17, <1>18, <1>19, <1>21, <1>23, <1>24, <1>25, <1>26, <1>27, <1>28, AddStep

-----------------------------------------------------------------------------
(* The line of ancestors, and what shields them from the clock.            *)

LEMMA PathUp ==
  ASSUME TypeOK, NEW n \in Present
  PROVE  n \in Path(n) /\ Path(nodes[n].parent) \subseteq Path(n)
<1> DEFINE Dom == 0 .. MaxNodes
           F(f) == [m \in 0 .. MaxNodes |->
                      IF m = 0 \/ m \notin Present THEN {} ELSE {m} \cup f[nodes[m].parent]]
           E == {e \in Dom \X Dom : e[1] \in Present /\ e[2] = nodes[e[1]].parent}
           Lines(C) == \A m \in Dom, x \in Present :
                         m \in C[x] <=> (m = x \/ (m \in Present /\ nodes[m].parent \in C[x]))
<1>1. Present \subseteq Dom /\ 0 \notin Present BY Bounds DEF Present
<1>2. ASSUME NEW m \in Present PROVE nodes[m].parent \in Dom BY Typed DEF Present
<1>3. ASSUME NEW x \in Present
      PROVE  \E D \in SUBSET Dom : \A m \in Dom :
               m \in D <=> (m = x \/ (m \in Present /\ nodes[m].parent \in D))
  <2> DEFINE A == {x}
  <2>sets. A \in SUBSET Dom /\ E \in SUBSET (Dom \X Dom) BY <1>1
  <2> HIDE DEF A, E, Dom
  <2>fill. PICK D \in SUBSET Dom : Fills(D, Dom, A, E) BY <2>sets, Reach
  <2>1. \A m \in Dom : m \in D <=> (m \in A \/ \E y \in D : <<m, y>> \in E) BY <2>fill DEF Fills
  <2> USE DEF Dom
  <2>2. ASSUME NEW m \in Dom PROVE m \in D <=> (m = x \/ (m \in Present /\ nodes[m].parent \in D))
    <3>1. \A y \in Dom : <<m, y>> \in E <=> m \in Present /\ y = nodes[m].parent BY DEF E
    <3>2. QED BY <2>1, <3>1, <1>2 DEF A
  <2>3. QED BY <2>2
<1> DEFINE C == [x \in Present |-> CHOOSE D \in SUBSET Dom : \A m \in Dom :
                    m \in D <=> (m = x \/ (m \in Present /\ nodes[m].parent \in D))]
<1>4. Lines(C) BY <1>3
<1> HIDE DEF C
<1> DEFINE g == [m \in Dom |-> {x \in Present : m \in C[x]}]
<1>5. ASSUME NEW m \in Dom
      PROVE  g[m] = IF m = 0 \/ m \notin Present THEN {} ELSE {m} \cup g[nodes[m].parent]
  <2>1. CASE m \in Present
    <3>1. g[nodes[m].parent] = {x \in Present : nodes[m].parent \in C[x]} BY <2>1, <1>2
    <3>2. \A x \in Present : m \in C[x] <=> m = x \/ nodes[m].parent \in C[x] BY <2>1, <1>4
    <3>3. g[m] = {x \in Present : m \in C[x]} OBVIOUS
    <3> HIDE DEF g
    <3>4. g[m] = {m} \cup g[nodes[m].parent] BY <2>1, <3>1, <3>2, <3>3
    <3>5. QED BY <3>4, <2>1, <1>1
  <2>2. CASE m \notin Present
    <3>1. \A x \in Present : m \notin C[x] BY <2>2, <1>4
    <3>2. g[m] = {} BY <3>1
    <3>3. QED BY <3>2, <2>2
  <2>3. QED BY <2>1, <2>2
<1>6. g = F(g) BY <1>5
<1> DEFINE up == CHOOSE f : f = F(f)
<1> HIDE DEF g
<1>7. up = F(up) BY <1>6
<1>8. \A m : Path(m) = up[m] BY DEF Path
<1> HIDE DEF up
<1>9. up[n] = {n} \cup up[nodes[n].parent] BY <1>1, <1>7
<1>10. QED BY <1>8, <1>9

LEMMA ProtectsUp ==
  ASSUME TypeOK, NEW n \in Ids, NEW c \in Children(n) \cap Live,
         (nodes[c].status = "running" /\ ~Overdue(c)) \/ ProtectsRunner(c)
  PROVE  ProtectsRunner(n)
<1> DEFINE Runs(m, x) == x \in Children(m) \cap Live /\ nodes[x].status = "running" /\ ~Overdue(x)
           A == {m \in Ids : \E x \in Ids : Runs(m, x)}
           E == {e \in Ids \X Ids : e[2] \in Children(e[1]) \cap Live}
           F(f) == [m \in Ids |-> \E x \in Children(m) \cap Live :
                                    (nodes[x].status = "running" /\ ~Overdue(x)) \/ f[x]]
<1>sets. A \in SUBSET Ids /\ E \in SUBSET (Ids \X Ids) OBVIOUS
<1> HIDE DEF A, E
<1>fill. PICK C \in SUBSET Ids : Fills(C, Ids, A, E) BY <1>sets, Reach
<1>1. \A m \in Ids : m \in C <=> (m \in A \/ \E y \in C : <<m, y>> \in E) BY <1>fill DEF Fills
<1>2. \A m, x \in Ids : <<m, x>> \in E <=> x \in Children(m) \cap Live BY DEF E
<1> DEFINE g == [m \in Ids |-> m \in C]
<1>3. Live \subseteq Ids BY DEF Live
<1>4. ASSUME NEW m \in Ids
      PROVE  (m \in C) = (\E x \in Children(m) \cap Live :
                             (nodes[x].status = "running" /\ ~Overdue(x)) \/ g[x])
  <2>1. \A x \in Ids : g[x] = (x \in C) OBVIOUS
  <2> HIDE DEF g
  <2>2. m \in C <=> (m \in A \/ \E y \in C : y \in Children(m) \cap Live) BY <1>1, <1>2
  <2>3. m \in A <=> \E x \in Children(m) \cap Live : nodes[x].status = "running" /\ ~Overdue(x)
    BY <1>3 DEF A
  <2>4. (\E y \in C : y \in Children(m) \cap Live) <=> \E x \in Children(m) \cap Live : g[x]
    BY <2>1, <1>3
  <2> DEFINE R(x) == nodes[x].status = "running" /\ ~Overdue(x)
  <2> HIDE DEF R
  <2>5. m \in C <=> ((\E x \in Children(m) \cap Live : R(x)) \/ (\E x \in Children(m) \cap Live : g[x]))
    BY <2>2, <2>3, <2>4 DEF R
  <2>6. m \in C <=> \E x \in Children(m) \cap Live : R(x) \/ g[x] BY <2>5
  <2> DEFINE Q == \E x \in Children(m) \cap Live :
                    (nodes[x].status = "running" /\ ~Overdue(x)) \/ g[x]
  <2>7. (m \in C <=> Q) /\ Q \in BOOLEAN BY <2>6 DEF R
  <2> HIDE DEF Q
  <2>8. (m \in C) = Q BY <2>7
  <2>9. QED BY <2>8 DEF Q
<1>5. g = F(g) BY <1>4
<1> DEFINE shields == CHOOSE f : f = F(f)
<1> HIDE DEF g
<1>6. shields = F(shields) BY <1>5
<1>7. \A m : ProtectsRunner(m) = shields[m] BY DEF ProtectsRunner
<1> HIDE DEF shields
<1>8. shields[n] = \E x \in Children(n) \cap Live : (nodes[x].status = "running" /\ ~Overdue(x)) \/ shields[x]
  BY <1>6
<1>9. QED BY <1>7, <1>8

(* Whatever falls with a node is below it, in the same tree.               *)
LEMMA BelowIt ==
  ASSUME RInv, NEW m \in Live
  PROVE  \A x \in Swept(m) : m \in Path(x) /\ nodes[x].root = nodes[m].root
<1> DEFINE Z == {x \in Swept(m) : ~(m \in Path(x) /\ nodes[x].root = nodes[m].root)}
<1>1. TypeOK BY DEF RInv
<1>2. /\ Swept(m) \subseteq Live
      /\ \A x \in Swept(m) : x # m => x > m /\ nodes[x].parent \in Swept(m)
  BY <1>1, SweptTree
<1>3. Live \subseteq Present /\ Live \subseteq Issued /\ Live \subseteq Nat \ {0}
  BY Bounds DEF Live, Present, Open, RInv, InSequence
<1>4. SUFFICES ASSUME Z # {} PROVE FALSE OBVIOUS
<1>5. PICK z \in Z : \A k \in Z : z <= k BY <1>2, <1>3, <1>4, Least
<1>6. z # m BY <1>1, <1>3, PathUp
<1>7. nodes[z].parent \in Swept(m) /\ z \in Live BY <1>2, <1>6
<1>8. /\ nodes[z].parent # 0 /\ nodes[z].parent \in Nat /\ z \in Nat BY <1>2, <1>3, <1>7
<1>9. nodes[z].parent < z /\ nodes[nodes[z].parent].root = nodes[z].root
  BY <1>3, <1>7, <1>8 DEF RInv, Descent
<1>10. nodes[z].parent \notin Z BY <1>5, <1>8, <1>9
<1>11. m \in Path(nodes[z].parent) /\ nodes[nodes[z].parent].root = nodes[m].root BY <1>7, <1>10
<1>12. m \in Path(z) BY <1>1, <1>3, <1>7, <1>11, PathUp
<1>13. QED BY <1>9, <1>11, <1>12

(* A node that runs in time protects every node it falls with.             *)
LEMMA RunnerProtects ==
  ASSUME RInv, NEW m \in Live, NEW n \in Swept(m), n # m,
         nodes[n].status = "running", ~Overdue(n)
  PROVE  ProtectsRunner(m)
<1> DEFINE Z == {x \in Swept(m) : ProtectsRunner(x)}
<1>1. TypeOK BY DEF RInv
<1>2. /\ Swept(m) \subseteq Live
      /\ \A x \in Swept(m) : x # m => x > m /\ nodes[x].parent \in Swept(m)
  BY <1>1, SweptTree
<1>3. Live \subseteq Present /\ Live \subseteq Issued /\ Live \subseteq Nat \ {0} /\ Live \subseteq Ids
  BY Bounds DEF Live, Present, Open, RInv, InSequence
<1>4. ASSUME NEW x \in Swept(m), x # m, ProtectsRunner(x) \/ x = n
      PROVE  nodes[x].parent \in Z /\ nodes[x].parent < x
  <2>1. nodes[x].parent \in Swept(m) /\ x \in Live BY <1>2, <1>4
  <2>2. nodes[x].parent \in Ids /\ nodes[x].parent # 0 BY <2>1, <1>2, <1>3
  <2>3. x \in Children(nodes[x].parent) \cap Live BY <2>1, <1>3 DEF Children
  <2>4. ProtectsRunner(nodes[x].parent) BY <2>2, <2>3, <1>1, <1>4, ProtectsUp
  <2>5. nodes[x].parent < x BY <2>1, <2>2, <1>3 DEF RInv, Descent
  <2>6. QED BY <2>1, <2>4, <2>5
<1>5. Z # {} BY <1>4
<1>6. PICK z \in Z : \A k \in Z : z <= k BY <1>2, <1>3, <1>5, Least
<1>7. CASE z = m BY <1>7
<1>8. CASE z # m
  <2>1. nodes[z].parent \in Z /\ nodes[z].parent < z BY <1>4, <1>8
  <2>2. z <= nodes[z].parent /\ z \in Nat /\ nodes[z].parent \in Nat BY <2>1, <1>2, <1>3, <1>6
  <2>3. QED BY <2>1, <2>2
<1>9. QED BY <1>7, <1>8

LEMMA RunwayStep ==
  ASSUME RInv, [Next]_vars, NEW n \in Live
  PROVE  TakenRightly(n)
<1>1. SUFFICES ASSUME nodes[n].status = "running", nodes'[n].status = "failed",
                      tick.pass = "expire", tick'.pass = "expire"
               PROVE  Overdue(n) \/ Age(n) = "capped" \/ Path(n) \cap revoked # {}
  BY DEF TakenRightly
<1>2. nodes' # nodes BY <1>1
<1>3. ~Serving /\ tick.pass \notin {"visit", "said"} /\ tick' # Idle BY <1>1 DEF Serving, Idle
<1>4. \E m \in Ids : TickExpire(m)
  <2>1. Next BY <1>2 DEF vars
  <2>2. CASE \E p \in Places, b \in Bots : StartTurn(p, b) BY <2>2, <1>3 DEF StartTurn
  <2>3. CASE \E p, q \in Places, b \in Bots : Enqueue(p, q, b) BY <2>3, <1>3 DEF Enqueue
  <2>4. CASE \E p \in Places, ok \in BOOLEAN : EndTurn(p, ok) BY <2>4, <1>3 DEF EndTurn
  <2>5. CASE \E p \in Places : Interrupt(p) \/ StopRoom(p) \/ DeleteThread(p)
    BY <2>5, <1>3 DEF Interrupt, StopRoom, DeleteThread
  <2>6. CASE \E m \in Ids : Revoke(m) \/ Elapse(m) \/ Grow(m)
    BY <2>6, <1>3 DEF Revoke, Elapse, Grow
  <2>7. CASE TickBegin \/ Restart BY <2>7, <1>3 DEF TickBegin, Restart
  <2>8. CASE TickStep
    <3>1. ASSUME NEW m \in Ids, TickSay(m) \/ TickReported(m) \/ TickDrop(m) \/ TickRejoin(m) \/ TickDispatch(m)
          PROVE  FALSE
      BY <3>1, <1>3 DEF TickSay, TickReported, TickDrop, TickRejoin, TickDispatch, AtNode
    <3>2. ~TickExpired /\ ~TickEnd BY <1>1, <1>3 DEF TickExpired, TickEnd
    <3>3. QED BY <2>8, <3>1, <3>2 DEF TickStep
  <2>9. QED BY <2>1, <2>2, <2>3, <2>4, <2>5, <2>6, <2>7, <2>8 DEF Next
<1>5. PICK m \in Ids : TickExpire(m) BY <1>4
<1>6. TypeOK /\ m \in Live BY <1>5 DEF RInv, TickExpire, ExpiryAt
<1>7. ~Rootless(m) BY <1>3, <1>5 DEF TickExpire
<1>8. DueToExpire(m) /\ nodes' = AfterSettling(Swept(m), "failed")
  BY <1>5, <1>7 DEF TickExpire, ExpiryAt
<1>9. Swept(m) \in SUBSET Live BY SweptLive
<1>10. n \in Swept(m) BY <1>1, <1>6, <1>8, <1>9, Settling DEF Live
<1>11. m \in Path(n) /\ nodes[n].root = nodes[m].root BY <1>6, <1>10, BelowIt
<1>12. CASE m \in revoked BY <1>11, <1>12
<1>13. CASE Age(m) = "capped" BY <1>11, <1>13 DEF Age
<1>14. CASE Overdue(m) /\ ~ProtectsRunner(m)
  <2>1. n = m \/ Overdue(n) BY <1>1, <1>6, <1>10, <1>14, RunnerProtects
  <2>2. QED BY <2>1, <1>14
<1>15. QED BY <1>8, <1>12, <1>13, <1>14 DEF DueToExpire

-----------------------------------------------------------------------------
(* Every step keeps the invariant, and what follows from it.               *)

LEMMA Start == Init => RInv
<1> SUFFICES ASSUME Init PROVE RInv OBVIOUS
<1>1. Nobody \in Node /\ Nobody.status = "absent" /\ Nobody.root = 0 BY Bounds DEF Nobody, Node
<1>2. NoTurn \in Turn /\ NoTurn.node = Person /\ NoTurn.run = FALSE BY Bounds DEF NoTurn, Turn, Person
<1>3. /\ nodes \in [Ids -> Node] /\ \A n \in Ids : nodes[n].status = "absent" /\ nodes[n].root = 0
      /\ turn \in [Places -> Turn]
      /\ \A p \in Places : turn[p].node = Person /\ turn[p].run = FALSE /\ ~Busy(p)
  BY <1>1, <1>2 DEF Init, Busy
<1>4. TypeOK
  <2>1. tick = [pass |-> "idle", at |-> 0] BY DEF Init, Idle
  <2>2. tick \in [pass : {"idle", "expire", "visit", "said"}, at : 0 .. MaxNodes + 1] BY <2>1, Bounds
  <2>3. turns \in 0 .. MaxTurns /\ restarts \in 0 .. MaxRestarts BY Bounds DEF Init
  <2>4. QED BY <1>3, <2>2, <2>3 DEF Init, TypeOK
<1>5. Present = {} /\ Live = {} /\ Issued = {} BY <1>3 DEF Present, Live, Issued, Open
<1>6. InSequence
  <2>1. 1 .. 0 = {} /\ 0 \in 0 .. MaxNodes BY Bounds
  <2>2. QED BY <2>1, <1>5 DEF InSequence
<1>7. Descent /\ InOrder /\ ReportsSaid /\ Resumes BY <1>5 DEF Descent, InOrder, ReportsSaid, Resumes
<1>8. Standing /\ AtHome /\ Counted
  BY <1>3, <1>5 DEF Standing, AtHome, TurnAt, Counted, KidsHadSettled
<1>9. ResultSaidOnce /\ Saying BY DEF Init, ResultSaidOnce, Saying, Idle
<1>10. QED BY <1>4, <1>6, <1>7, <1>8, <1>9 DEF RInv

LEMMA NextKeeps == RInv /\ [Next]_vars => Keeps
<1> SUFFICES ASSUME RInv, [Next]_vars PROVE Keeps OBVIOUS
<1>1. CASE \E p \in Places, b \in Bots : StartTurn(p, b) BY <1>1, StartTurnStep
<1>2. CASE \E p, q \in Places, b \in Bots : Enqueue(p, q, b)
  <2>1. PICK p \in Places, q \in Places, b \in Bots : Enqueue(p, q, b) BY <1>2
  <2>2. EnqueueFirst(p, q, b) \/ EnqueueUnder(p, q, b) BY <2>1 DEF Enqueue
  <2>3. QED BY <2>1, <2>2, EnqueueFirstStep, EnqueueUnderStep
<1>3. CASE \E p \in Places, ok \in BOOLEAN : EndTurn(p, ok)
  <2>1. PICK p \in Places, ok \in BOOLEAN : EndTurn(p, ok) BY <1>3
  <2>2. CASE Expects(turn[p].node, turn[p]) /\ ok
    <3>1. EndTurn(p, TRUE) BY <2>1, <2>2
    <3>2. QED BY <2>2, <3>1, EndTurnGoesOn
  <2>3. CASE ~(Expects(turn[p].node, turn[p]) /\ ok) BY <2>1, <2>3, EndTurnFails
  <2>4. QED BY <2>2, <2>3
<1>4. CASE \E p \in Places : Interrupt(p) \/ StopRoom(p) \/ DeleteThread(p)
  BY <1>4, InterruptStep, StopRoomStep, DeleteThreadStep
<1>5. CASE \E n \in Ids : Revoke(n) \/ Elapse(n) \/ Grow(n) BY <1>5, RevokeStep, ClockStep
<1>6. CASE TickBegin BY <1>6, TickMoves
<1>7. CASE TickStep
  <2>1. CASE TickExpired \/ TickEnd BY <2>1, TickMoves
  <2>2. ASSUME NEW n \in Ids, \/ TickExpire(n) \/ TickSay(n) \/ TickReported(n)
                              \/ TickDrop(n) \/ TickRejoin(n)
        PROVE  Keeps
    BY <2>2, TickExpireStep, TickSayStep, TickReportedStep, TickSettles, TickRejoinStep
  <2>3. ASSUME NEW n \in Ids, TickDispatch(n) PROVE Keeps
    BY <2>3, TickSettles, TickDispatchRuns
  <2>4. QED BY <1>7, <2>1, <2>2, <2>3 DEF TickStep
<1>8. CASE Restart BY <1>8, RestartStep
<1>9. CASE UNCHANGED vars BY <1>9, StutterStep
<1>10. QED BY <1>1, <1>2, <1>3, <1>4, <1>5, <1>6, <1>7, <1>8, <1>9 DEF Next

LEMMA Inductive == Spec => []RInv
<1>1. RInv /\ [Next]_vars => RInv' BY NextKeeps DEF Keeps
<1>2. QED BY Start, <1>1, PTL DEF Spec

(* Above a node that runs, every live node waits; and nothing that is open  *)
(* has an author that completed.                                           *)
LEMMA ParentsOpen ==
  ASSUME RInv
  PROVE  ParentsStayOpen
<1>1. TypeOK BY DEF RInv
<1>2. Live \subseteq Present /\ Live \subseteq Issued /\ Live \subseteq Nat \ {0}
  BY Bounds DEF Live, Present, Open, RInv, InSequence
<1>3. ASSUME NEW a \in Live, NEW n \in Live, nodes[n].status = "running", n # a, n \in Swept(a)
      PROVE  nodes[a].status = "waiting"
  <2> DEFINE Z == {x \in Swept(a) : nodes[x].status = "waiting"}
  <2>1. /\ Swept(a) \subseteq Live
        /\ \A x \in Swept(a) : x # a => x > a /\ nodes[x].parent \in Swept(a)
    BY <1>1, SweptTree
  <2>2. ASSUME NEW x \in Swept(a), x # a, nodes[x].status \in {"running", "waiting"}
        PROVE  nodes[x].parent \in Z /\ nodes[x].parent < x
    <3>1. nodes[x].parent \in Swept(a) /\ nodes[x].parent \in Live /\ x \in Live BY <2>1, <2>2
    <3>2. HasParent(x) BY <3>1, <1>2 DEF HasParent
    <3>3. AuthorOf(x) \in {"waiting", "failed", "cancelled"} BY <2>2, <3>1, <3>2 DEF RInv, InOrder
    <3>4. nodes[nodes[x].parent].status = "waiting" BY <3>1, <3>3 DEF AuthorOf, Live, Open
    <3>5. nodes[x].parent < x BY <3>1, <1>2 DEF RInv, Descent
    <3>6. QED BY <3>1, <3>4, <3>5
  <2>3. Z # {} BY <1>3, <2>2
  <2>4. PICK z \in Z : \A k \in Z : z <= k BY <1>2, <2>1, <2>3, Least
  <2>5. CASE z = a BY <2>5
  <2>6. CASE z # a
    <3>1. nodes[z].parent \in Z /\ nodes[z].parent < z BY <2>2, <2>6
    <3>2. z <= nodes[z].parent /\ z \in Nat /\ nodes[z].parent \in Nat BY <3>1, <1>2, <2>1, <2>4
    <3>3. QED BY <3>1, <3>2
  <2>7. QED BY <2>5, <2>6
<1>4. ASSUME NEW n \in Live, HasParent(n) PROVE nodes[nodes[n].parent].status # "completed"
  BY <1>4 DEF RInv, InOrder, AuthorOf
<1>5. QED BY <1>3, <1>4 DEF ParentsStayOpen

LEMMA Informed ==
  ASSUME RInv
  PROVE  ResumesInformed
<1>1. ASSUME NEW n \in Live, nodes[n].status = "resume", NEW c \in Children(n)
      PROVE  c \notin Live /\ (told[c] = 1 \/ (Assignment(c) /\ nodes[c].status = "completed"))
  <2>1. n # 0 BY Bounds DEF Live
  <2>2. c \in Present /\ nodes[c].parent = n BY DEF Children
  <2>3. nodes[c].reported BY <1>1 DEF RInv, Resumes
  <2>4. c \notin Live /\ Accounted(c) BY <2>1, <2>2, <2>3 DEF RInv, ReportsSaid
  <2>5. nodes[n].place \notin gone BY DEF RInv, Standing
  <2>6. QED BY <2>2, <2>4, <2>5 DEF Accounted
<1>2. QED BY <1>1 DEF ResumesInformed

-----------------------------------------------------------------------------
(* Every reachable forest is well formed (RoomHandoffNode, PersistedNodes). *)
THEOREM HandoffsTyped == Spec => []TypeOK
<1>1. RInv => TypeOK BY DEF RInv
<1>2. QED BY Inductive, <1>1, PTL

(* A node rests while work it handed out goes on, and is not completed      *)
(* above it, however many requests, stops, expiries and prunings there are  *)
(* (tick 310-335; the comparison with childCount, 335-338).                 *)
THEOREM ParentsWait == Spec => []ParentsStayOpen
<1>1. RInv => ParentsStayOpen BY ParentsOpen
<1>2. QED BY Inductive, <1>1, PTL

(* A result is said at most once in the transcript it is meant for, also    *)
(* when the server dies between the row and the mark (tick, 308).           *)
THEOREM ResultsSaidOnce == Spec => []ResultSaidOnce
<1>1. RInv => ResultSaidOnce BY DEF RInv
<1>2. QED BY Inductive, <1>1, PTL

(* A parent goes on with every child's result in its conversation (tick,    *)
(* 310-313).                                                                *)
THEOREM ParentsAreTold == Spec => []ResumesInformed
<1>1. RInv => ResumesInformed BY Informed
<1>2. QED BY Inductive, <1>1, PTL

(* A settled node keeps its outcome until its tree is pruned: late results, *)
(* ticks and restarts leave it alone (then-handler, 336; constructor, 57).  *)
THEOREM OutcomesKept == Spec => SettledForGood
<1>1. RInv /\ [Next]_vars => \A n \in Ids : KeepsOutcome(n) BY NextKeeps DEF Keeps
<1>2. RInv /\ [Next]_vars => [\A n \in Ids : KeepsOutcome(n)]_vars BY <1>1
<1>3. QED BY Inductive, <1>2, PTL DEF Spec, SettledForGood

(* Running out of time never takes a node that runs inside its own runway:  *)
(* whatever runs in time shields every node it would fall with              *)
(* (protectsRunner, 135-139; tick, 296-305).                                *)
THEOREM RunwaysKept == Spec => RunwayKept
<1>1. RInv /\ [Next]_vars => \A n \in Live : TakenRightly(n) BY RunwayStep
<1>2. RInv /\ [Next]_vars => [\A n \in Live : TakenRightly(n)]_vars BY <1>1
<1>3. QED BY Inductive, <1>2, PTL DEF Spec, RunwayKept
=============================================================================
