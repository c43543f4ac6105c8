---------------------------- MODULE RoomHandoffs ----------------------------
(***************************************************************************)
(* The trees of addressed work that bots hand to one another               *)
(* (server/room-handoffs.ts) with the hooks and callers of server/index.ts. *)
(*                                                                         *)
(* A turn in a place (a direct thread or a room) may hand work to another  *)
(* bot.  The first request of a turn makes a node for the turn itself, the *)
(* root; each request makes a child.  A tick every 250 ms expires, reports *)
(* and dispatches nodes; a parent whose children have all settled and been *)
(* reported is run again.  The file is rewritten at every publish, so the  *)
(* saved forest is the one in memory whenever a handler is between steps.  *)
(***************************************************************************)
EXTENDS Naturals, FiniteSets

CONSTANTS
  Bots,            \* the bots
  Threads,         \* direct conversations
  Rooms,           \* rooms, each with its one current thread
  Owner,           \* Owner[t]: the bot of direct conversation t
  Members,         \* Members[r]: the bots of room r
  Slots,           \* maxConcurrentBotThreads
  DepthLimit,      \* ROOM_HANDOFF_LIMITS.depth
  RequestLimit,    \* ROOM_HANDOFF_LIMITS.requests
  ExecutionLimit,  \* ROOM_HANDOFF_LIMITS.executions
  HistoryLimit,    \* the 1000 nodes at which enqueue prunes
  HistoryKept,     \* the 800 nodes at which pruning stops
  MaxNodes,        \* bound: nodes ever made
  MaxTurns,        \* bound: turns started by persons
  MaxRevoked,      \* bound: nodes whose address or route is withdrawn
  MaxRestarts      \* bound: restarts of the server

Places == Threads \cup Rooms
Ids    == 1 .. MaxNodes
Person == 0        \* in place of a node: a turn that has handed out nothing yet

ASSUME PlacesAssumption ==
  /\ Threads \cap Rooms = {}
  /\ Owner \in [Threads -> Bots]
  /\ Members \in [Rooms -> SUBSET Bots]
ASSUME BoundsAssumption ==
  /\ {DepthLimit, RequestLimit, ExecutionLimit, HistoryLimit, HistoryKept} \subseteq Nat
  /\ {Slots, MaxNodes, MaxTurns, MaxRevoked, MaxRestarts} \subseteq Nat
  /\ HistoryKept <= HistoryLimit

VARIABLES
  nodes,      \* the map of nodes, in order of insertion; "absent" where it has none
  turn,       \* the turn that runs in each place
  revoked,    \* nodes the validate hook objects to
  gone,       \* deleted direct conversations
  told,       \* result rows of a node in its parent's transcript
  tick,       \* where the periodic tick stands
  loadError,  \* the file was refused at the last start
  turns, restarts

vars == <<nodes, turn, revoked, gone, told, tick, loadError, turns, restarts>>

Settled  == {"completed", "failed", "cancelled"}
Open     == {"source", "queued", "running", "waiting", "resume"}
NoTurn   == [bot |-> "none", node |-> Person, run |-> FALSE, kids |-> 0, may |-> FALSE]
Nobody   == [status |-> "absent", parent |-> 0, root |-> 0, place |-> "none", bot |-> "none",
             reported |-> FALSE, late |-> FALSE, executions |-> 0, age |-> "young"]
Idle     == [pass |-> "idle", at |-> 0]

Node == [status : Settled \cup Open \cup {"absent"}, parent : 0 .. MaxNodes, root : 0 .. MaxNodes,
         place : Places \cup {"none"}, bot : Bots \cup {"none"}, reported : BOOLEAN,
         late : BOOLEAN,   \* its own window (queue window, runway) has elapsed
         executions : 0 .. ExecutionLimit, age : {"young", "spent", "capped"}]
Turn == [bot : Bots \cup {"none"}, node : 0 .. MaxNodes, run : BOOLEAN,
         kids : 0 .. MaxNodes, may : BOOLEAN]

TypeOK ==
  /\ nodes \in [Ids -> Node]
  /\ turn \in [Places -> Turn]
  /\ revoked \subseteq Ids /\ gone \subseteq Threads
  /\ told \in [Ids -> Nat]
  /\ tick \in [pass : {"idle", "expire", "visit", "said"}, at : 0 .. MaxNodes + 1]
  /\ loadError \in BOOLEAN
  /\ turns \in 0 .. MaxTurns /\ restarts \in 0 .. MaxRestarts

-----------------------------------------------------------------------------
(* The forest. *)

Present     == {n \in Ids : nodes[n].status # "absent"}
Live        == {n \in Ids : nodes[n].status \in Open}
Children(n) == {c \in Present : nodes[c].parent = n}
Direct(n)   == nodes[n].place \in Threads
Busy(p)     == turn[p] # NoTurn
TurnsOf(b)  == {p \in Places : turn[p].bot = b}

(* Same-room work is an assignment, everything else is work. *)
Assignment(n) ==
  /\ nodes[n].parent # 0 /\ nodes[n].place \in Rooms
  /\ nodes[nodes[n].parent].place = nodes[n].place

(* The node and its ancestors; a parent is always older than its child. *)
Path(n) ==
  LET up[m \in 0 .. MaxNodes] ==
        IF m = 0 \/ m \notin Present THEN {} ELSE {m} \cup up[nodes[m].parent]
  IN  up[n]

(* What cancelTree settles: n and the live nodes it reaches through live ones. *)
Swept(n) ==
  LET falls[m \in 0 .. MaxNodes] ==
        m = n \/ (m > n /\ m \in Live /\ falls[nodes[m].parent])
  IN  {m \in Live : falls[m]}

(* stopAwaitingDirect over the conversations T: their own nodes stop, and of *)
(* the children only those that never started.                              *)
StoppedIn(T) == {n \in Live : nodes[n].place \in T}
DroppedBy(S) == {c \in Live : nodes[c].status = "queued" /\ nodes[c].parent \in S}

(* Settling the nodes S aborts their runs, and the abort of a direct run    *)
(* stops its conversation (interruptDirectThread), which other trees share. *)
Aborted(S) == {nodes[n].place : n \in {m \in S : Direct(m) /\ nodes[m].status = "running"}}
Closed(n, status) == [nodes[n] EXCEPT !.status = status, !.late = FALSE]
AfterSettling(S, status) ==
  LET X == StoppedIn(Aborted(S))
  IN  [n \in Ids |-> CASE n \in S -> Closed(n, status)
                      [] n \in (X \cup DroppedBy(X)) \ S -> Closed(n, "cancelled")
                      [] OTHER -> nodes[n]]

(* The turns of the places P may no longer hand out work. *)
Revoking(P) == [p \in Places |-> IF p \in P /\ Busy(p) THEN [turn[p] EXCEPT !.may = FALSE] ELSE turn[p]]

-----------------------------------------------------------------------------
(* The clock.  A node is overdue when its deadline has passed: the queue    *)
(* window for work that never started, the tree's lifetime for the rest,    *)
(* extended for a running node to its own runway.                           *)

Age(n) == nodes[nodes[n].root].age
Overdue(n) ==
  CASE nodes[n].status = "queued"  -> nodes[n].late
    [] nodes[n].status = "running" -> nodes[n].late /\ Age(n) = "spent"
    [] OTHER                       -> Age(n) = "spent"

(* mutant of ProtectsRunner: looks at the children only *)
ProtectsChildRunner(n) ==
  \E c \in Children(n) \cap Live : nodes[c].status = "running" /\ ~Overdue(c)
ProtectsRunner(n) ==
  LET shields[m \in Ids] ==
        \E c \in Children(m) \cap Live :
          (nodes[c].status = "running" /\ ~Overdue(c)) \/ shields[c]
  IN  shields[n]

OwesFollowUp(n) ==
  LET owes[m \in Ids] ==
        \/ nodes[m].status = "resume"
        \/ /\ nodes[m].status = "waiting"
           /\ \/ Children(m) # {} /\ Children(m) \cap Live = {}
              \/ \E c \in Children(m) : owes[c] \/ nodes[c].status = "queued"
  IN  owes[n]

(* mutant of DueToExpire: the hard cap respects what runs or is owed *)
DueToExpireKindly(n) ==
  n \in revoked \/ ((Age(n) = "capped" \/ Overdue(n)) /\ ~ProtectsRunner(n) /\ ~OwesFollowUp(n))
DueToExpire(n) ==
  \/ n \in revoked
  \/ Age(n) = "capped"
  \/ Overdue(n) /\ ~ProtectsRunner(n) /\ ~OwesFollowUp(n)

-----------------------------------------------------------------------------
(* Turns. *)

Serving == tick = Idle

(* A person's turn in a conversation of the bot, or in a room it is in. *)
StartTurn(p, b) ==
  /\ Serving /\ turns < MaxTurns /\ ~Busy(p)
  /\ IF p \in Threads
     THEN b = Owner[p] /\ p \notin gone
          /\ Cardinality(TurnsOf(b) \cap Threads) < Slots /\ TurnsOf(b) \cap Rooms = {}
     ELSE b \in Members[p] /\ TurnsOf(b) = {}
  /\ turn' = [turn EXCEPT ![p] = [NoTurn EXCEPT !.bot = b, !.may = TRUE]]
  /\ turns' = turns + 1
  /\ UNCHANGED <<nodes, revoked, gone, told, tick, loadError, restarts>>

(* The destination of a request: a member of a room, or a conversation of   *)
(* the recipient that nothing works in (resolvePairConversation).           *)
Addressable(p, q, b) ==
  /\ b # turn[p].bot
  /\ IF q \in Threads
     THEN /\ p \in Threads /\ Owner[q] = b /\ q \notin gone
          /\ ~Busy(q) /\ StoppedIn({q}) = {}
     ELSE b \in Members[q]

(* Refusals that look at the line of ancestors: no work back to one of them, *)
(* no request back to an ancestor's room, at most DepthLimit edges of work.  *)
Descends(path, p, q, b) ==
  /\ \A a \in path : nodes[a].bot = b =>
        nodes[a].place \in Rooms /\ q \in Rooms /\ nodes[a].place # q
  /\ ~(q \in Rooms /\ q = p) =>
        /\ q \in Rooms => \A a \in path : nodes[a].place # q
        /\ Cardinality({a \in path : ~Assignment(a)}) <= DepthLimit

(* Trees of settled roots go, oldest first, until HistoryKept nodes remain. *)
OldRoots == {r \in Present : nodes[r].parent = 0 /\ nodes[r].status \in Settled}
TreeOf(R) == {n \in Present : nodes[n].root \in R}
Pruned ==
  IF Cardinality(Present) < HistoryLimit THEN {}
  ELSE TreeOf({r \in OldRoots :
         Cardinality(Present \ TreeOf({o \in OldRoots : o < r})) >= HistoryKept})

Fresh(parent, root, p, b, status) ==
  [Nobody EXCEPT !.parent = parent, !.root = root, !.place = p, !.bot = b, !.status = status]

NextId == Cardinality({m \in Ids : nodes[m].root # 0}) + 1

(* The first request of a person's turn: a root for the turn, and the child. *)
EnqueueFirst(p, q, b) ==
  LET r == NextId
      root == [Fresh(0, r, p, turn[p].bot, "source") EXCEPT !.reported = TRUE]
  IN  /\ turn[p].node \notin Present /\ ~turn[p].run
      /\ r + 1 \in Ids
      /\ DepthLimit >= 1 /\ RequestLimit >= 1
      /\ Cardinality(Present \ Pruned) < HistoryLimit
      /\ nodes' = [n \in Ids |-> CASE n = r -> root
                                 [] n = r + 1 -> Fresh(r, r, q, b, "queued")
                                 [] n \in Pruned -> [nodes[n] EXCEPT !.status = "absent"]
                                 [] OTHER -> nodes[n]]
      /\ turn' = [turn EXCEPT ![p].node = r]

(* A further request, or one of a turn that the coordinator runs: its node  *)
(* must then be running.  A person's turn whose root was settled meanwhile  *)
(* is not refused.                                                          *)
EnqueueUnder(p, q, b) ==
  LET k == turn[p].node
      c == NextId
  IN  /\ k \in Present /\ c \in Ids
      /\ turn[p].run => nodes[k].status = "running"
      /\ Descends(Path(k), p, q, b)
      /\ Cardinality({n \in Present : nodes[n].root = nodes[k].root /\ nodes[n].parent # 0}) < RequestLimit
      /\ Age(k) = "young"
      /\ Cardinality(Present \ Pruned) < HistoryLimit
      /\ nodes' = [n \in Ids |-> CASE n = c -> Fresh(k, nodes[k].root, q, b, "queued")
                                 [] n \in Pruned -> [nodes[n] EXCEPT !.status = "absent"]
                                 [] OTHER -> nodes[n]]
      /\ UNCHANGED turn

Enqueue(p, q, b) ==
  /\ Serving /\ ~loadError /\ Busy(p) /\ turn[p].may
  /\ Addressable(p, q, b)
  /\ EnqueueFirst(p, q, b) \/ EnqueueUnder(p, q, b)
  /\ UNCHANGED <<revoked, gone, told, tick, loadError, turns, restarts>>

(* The turn of a place ends.  A person's turn settles its root, if that     *)
(* still stands; a run settles its node unless something else has already.  *)
(* mutant of Expects: a late result settles its node again *)
ExpectsAny(n, t) ==
  n \in Present /\ (t.run \/ nodes[n].status = "source")
Expects(n, t) ==
  n \in Present /\ IF t.run THEN n \in Live ELSE nodes[n].status = "source"

Outcome(n, t) ==
  IF t.run /\ Cardinality(Children(n)) <= t.kids THEN "completed" ELSE "waiting"

EndTurn(p, ok) ==
  LET t == turn[p]
      n == t.node
      S == IF Expects(n, t) /\ ~ok THEN Swept(n) ELSE {}
  IN  /\ Serving /\ Busy(p)
      /\ nodes' = IF Expects(n, t) /\ ok THEN [nodes EXCEPT ![n] = Closed(n, Outcome(n, t))]
                                         ELSE AfterSettling(S, "failed")
      /\ turn' = [Revoking(Aborted(S)) EXCEPT ![p] = NoTurn]
      /\ UNCHANGED <<revoked, gone, told, tick, loadError, turns, restarts>>

-----------------------------------------------------------------------------
(* Stop, deletion, and changes of address or permission. *)

(* Stop in a direct conversation: the turn is interrupted, the conversation  *)
(* stops waiting, and teammates already at work are left to finish.          *)
Interrupt(p) ==
  LET X == StoppedIn({p})
      S == X \cup DroppedBy(X)
  IN  /\ Serving /\ p \in Threads /\ ((Busy(p) /\ turn[p].may) \/ X # {})
      /\ nodes' = AfterSettling(S, "cancelled")
      /\ turn' = Revoking({p})
      /\ UNCHANGED <<revoked, gone, told, tick, loadError, turns, restarts>>

(* Stop in a room cancels the trees of its nodes. *)
StopRoom(p) ==
  LET S == UNION {Swept(n) : n \in StoppedIn({p})}
  IN  /\ Serving /\ p \in Rooms /\ ((Busy(p) /\ turn[p].may) \/ S # {})
      /\ nodes' = AfterSettling(S, "cancelled")
      /\ turn' = Revoking(Aborted(S) \cup {p})
      /\ UNCHANGED <<revoked, gone, told, tick, loadError, turns, restarts>>

(* Deleting an idle conversation cancels the trees of its nodes; work that  *)
(* was left running for it has lost its source.                             *)
DeleteThread(p) ==
  LET S == UNION {Swept(n) : n \in StoppedIn({p})}
  IN  /\ Serving /\ p \in Threads \ gone /\ ~Busy(p)
      /\ nodes' = AfterSettling(S, "cancelled")
      /\ turn' = Revoking(Aborted(S))
      /\ gone' = gone \cup {p}
      /\ revoked' = revoked \cup {n \in Live \ S : nodes[n].parent \in Present
                                                  /\ nodes[nodes[n].parent].place = p}
      /\ UNCHANGED <<told, tick, loadError, turns, restarts>>

(* A member leaves, a section or a grant changes: validate objects to n. *)
Revoke(n) ==
  /\ Serving /\ n \in Live \ revoked /\ Cardinality(revoked) < MaxRevoked
  /\ revoked' = revoked \cup {n}
  /\ UNCHANGED <<nodes, turn, gone, told, tick, loadError, turns, restarts>>

(* The window of a queued or running node elapses. *)
Elapse(n) ==
  /\ Serving /\ n \in Live /\ ~nodes[n].late /\ nodes[n].status \in {"queued", "running"}
  /\ nodes' = [nodes EXCEPT ![n].late = TRUE]
  /\ UNCHANGED <<turn, revoked, gone, told, tick, loadError, turns, restarts>>

(* A tree ages: its lifetime runs out on a clock that stands while a node of *)
(* the tree runs, its hard cap on one that does not.                        *)
Grow(r) ==
  LET tree == {n \in Live : nodes[n].root = r}
  IN  /\ Serving /\ tree # {} /\ r \in Present
      /\ \/ /\ nodes[r].age = "young" /\ \A n \in tree : nodes[n].status # "running"
            /\ nodes' = [nodes EXCEPT ![r].age = "spent"]
         \/ /\ nodes[r].age # "capped"
            /\ nodes' = [nodes EXCEPT ![r].age = "capped"]
      /\ UNCHANGED <<turn, revoked, gone, told, tick, loadError, turns, restarts>>

-----------------------------------------------------------------------------
(* The tick: deepest first, whatever is due is failed; then, oldest first,   *)
(* each node is reported, resumed, dispatched or dropped.                    *)

Rootless(n) == nodes[n].root \notin Present
ExpiryAt(n) == n \in Live /\ (Rootless(n) \/ DueToExpire(n))

(* A node without its root makes the tick throw; the timer logs and goes on. *)
TickExpire(n) ==
  /\ tick.pass = "expire" /\ n < tick.at /\ ExpiryAt(n)
  /\ \A m \in Ids : n < m /\ m < tick.at => ~ExpiryAt(m)
  /\ IF Rootless(n)
     THEN tick' = Idle /\ UNCHANGED <<nodes, turn>>
     ELSE /\ tick' = [tick EXCEPT !.at = n]
          /\ nodes' = AfterSettling(Swept(n), "failed")
          /\ turn' = Revoking(Aborted(Swept(n)))
  /\ UNCHANGED <<revoked, gone, told, loadError, turns, restarts>>

TickExpired ==
  /\ tick.pass = "expire"
  /\ \A m \in Ids : m < tick.at => ~ExpiryAt(m)
  /\ tick' = [pass |-> "visit", at |-> 0]
  /\ UNCHANGED <<nodes, turn, revoked, gone, told, loadError, turns, restarts>>

HasParent(n)  == nodes[n].parent \in Present
Unreported(n) == n \in Present \ Live /\ HasParent(n) /\ ~nodes[n].reported
(* mutant of Rejoins: one reported child is enough *)
RejoinsEarly(n) ==
  /\ n \in Live /\ nodes[n].status = "waiting" /\ Children(n) # {}
  /\ \E c \in Children(n) : c \notin Live /\ nodes[c].reported
(* mutant of Rejoins: does not wait for the reports *)
RejoinsUnreported(n) ==
  /\ n \in Live /\ nodes[n].status = "waiting" /\ Children(n) # {}
  /\ Children(n) \cap Live = {}
(* mutant of Rejoins: a child that failed holds its parent *)
RejoinsCompleted(n) ==
  /\ n \in Live /\ nodes[n].status = "waiting" /\ Children(n) # {}
  /\ \A c \in Children(n) : nodes[c].status = "completed" /\ nodes[c].reported
(* A waiting node whose children have all settled and been reported. *)
Rejoins(n) ==
  /\ n \in Live /\ nodes[n].status = "waiting" /\ Children(n) # {}
  /\ \A c \in Children(n) : c \notin Live /\ nodes[c].reported
Runnable(n) == Rejoins(n) \/ (n \in Live /\ nodes[n].status \in {"queued", "resume"})

(* A child starts only after its author has settled. *)
AuthorAtWork(n) == HasParent(n) /\ nodes[nodes[n].parent].status \in {"source", "running"}
Abandoned(n) == /\ n \in Live /\ nodes[n].status = "queued"
                /\ HasParent(n) /\ nodes[n].parent \notin Live

(* An owed resume of a direct conversation needs that conversation and a    *)
(* slot; anything else needs the whole bot and, in a room, the room.         *)
HeldUp(n) ==
  LET b == nodes[n].bot
  IN  IF Direct(n) /\ nodes[n].status # "queued"
      THEN Busy(nodes[n].place) \/ Cardinality(TurnsOf(b) \cap Threads) >= Slots
      ELSE TurnsOf(b) # {} \/ (~Direct(n) /\ Busy(nodes[n].place))

(* mutant of Exhausted: one execution too many *)
ExhaustedLate(n) == nodes[nodes[n].root].executions > ExecutionLimit
Exhausted(n) == nodes[nodes[n].root].executions >= ExecutionLimit
Dispatches(n) == Runnable(n) /\ ~AuthorAtWork(n) /\ ~Abandoned(n) /\ ~HeldUp(n)
Stirs(n) == Unreported(n) \/ Rejoins(n) \/ Abandoned(n) \/ Dispatches(n)

(* A tick that finds nothing to do changes nothing. *)
TickBegin ==
  /\ Serving /\ ~loadError /\ \E n \in Ids : ExpiryAt(n) \/ Stirs(n)
  /\ tick' = [pass |-> "expire", at |-> MaxNodes + 1]
  /\ UNCHANGED <<nodes, turn, revoked, gone, told, loadError, turns, restarts>>

AtNode(n) ==
  /\ tick.pass = "visit" /\ n > tick.at /\ Stirs(n)
  /\ \A m \in Ids : tick.at < m /\ m < n => ~Stirs(m)

(* The result row in the parent's transcript, unless a same-room reply says *)
(* it already, the conversation is gone, or the row is there.               *)
(* mutant of Speaks: does not look for a row that is there already *)
SpeaksAgain(n) ==
  /\ ~(Assignment(n) /\ nodes[n].status = "completed")
  /\ nodes[nodes[n].parent].place \notin gone
Speaks(n) ==
  /\ ~(Assignment(n) /\ nodes[n].status = "completed")
  /\ nodes[nodes[n].parent].place \notin gone
  /\ told[n] = 0

TickSay(n) ==
  /\ AtNode(n) /\ Unreported(n)
  /\ told' = IF Speaks(n) THEN [told EXCEPT ![n] = @ + 1] ELSE told
  /\ tick' = [pass |-> "said", at |-> n]
  /\ UNCHANGED <<nodes, turn, revoked, gone, loadError, turns, restarts>>

TickReported(n) ==
  /\ tick = [pass |-> "said", at |-> n]
  /\ nodes' = [nodes EXCEPT ![n].reported = TRUE]
  /\ tick' = [pass |-> "visit", at |-> n]
  /\ UNCHANGED <<turn, revoked, gone, told, loadError, turns, restarts>>

(* Work that never started goes with the request it came from. *)
TickDrop(n) ==
  /\ AtNode(n) /\ Abandoned(n)
  /\ nodes' = AfterSettling(Swept(n), "cancelled")
  /\ tick' = [tick EXCEPT !.at = n]
  /\ UNCHANGED <<turn, revoked, gone, told, loadError, turns, restarts>>

(* The parent is due to go on, but its conversation or bot is taken. *)
TickRejoin(n) ==
  /\ AtNode(n) /\ Rejoins(n) /\ ~Dispatches(n)
  /\ nodes' = [nodes EXCEPT ![n].status = "resume"]
  /\ tick' = [tick EXCEPT !.at = n]
  /\ UNCHANGED <<turn, revoked, gone, told, loadError, turns, restarts>>

TickDispatch(n) ==
  /\ AtNode(n) /\ Dispatches(n)
  /\ IF Exhausted(n)
     THEN nodes' = AfterSettling(Swept(n), "failed") /\ UNCHANGED turn
     ELSE /\ nodes' = [nodes EXCEPT ![n] = Closed(n, "running"), ![nodes[n].root].executions = @ + 1]
          /\ turn' = [turn EXCEPT ![nodes[n].place] =
                        [bot |-> nodes[n].bot, node |-> n, run |-> TRUE,
                         kids |-> Cardinality(Children(n)), may |-> TRUE]]
  /\ tick' = [tick EXCEPT !.at = n]
  /\ UNCHANGED <<revoked, gone, told, loadError, turns, restarts>>

TickEnd ==
  /\ tick.pass = "visit"
  /\ \A m \in Ids : m > tick.at => ~Stirs(m)
  /\ tick' = Idle
  /\ UNCHANGED <<nodes, turn, revoked, gone, told, loadError, turns, restarts>>

TickStep ==
  \/ TickExpired \/ TickEnd
  \/ \E n \in Ids : \/ TickExpire(n) \/ TickSay(n) \/ TickReported(n)
                    \/ TickDrop(n) \/ TickRejoin(n) \/ TickDispatch(n)

-----------------------------------------------------------------------------
(* The process ends, at any step, and starts again: no turn survives, live   *)
(* nodes are failed, never replayed, and a forest that is not whole is       *)
(* refused.                                                                  *)
Whole == \A n \in Present : /\ nodes[n].root \in Present
                            /\ nodes[nodes[n].root].parent = 0
                            /\ nodes[n].parent # 0 => HasParent(n)

Restart ==
  /\ restarts < MaxRestarts
  /\ loadError' = (loadError \/ ~Whole)
  /\ nodes' = [n \in Ids |-> IF loadError' THEN [nodes[n] EXCEPT !.status = "absent"]
                             ELSE IF n \in Live THEN Closed(n, "failed")
                             ELSE nodes[n]]
  /\ turn' = [p \in Places |-> NoTurn]
  /\ tick' = Idle
  /\ restarts' = restarts + 1
  /\ UNCHANGED <<revoked, gone, told, turns>>

Init ==
  /\ nodes = [n \in Ids |-> Nobody]
  /\ turn = [p \in Places |-> NoTurn]
  /\ revoked = {} /\ gone = {}
  /\ told = [n \in Ids |-> 0]
  /\ tick = Idle /\ loadError = FALSE
  /\ turns = 0 /\ restarts = 0

Next ==
  \/ \E p \in Places, b \in Bots : StartTurn(p, b)
  \/ \E p, q \in Places, b \in Bots : Enqueue(p, q, b)
  \/ \E p \in Places, ok \in BOOLEAN : EndTurn(p, ok)
  \/ \E p \in Places : Interrupt(p) \/ StopRoom(p) \/ DeleteThread(p)
  \/ \E n \in Ids : Revoke(n) \/ Elapse(n) \/ Grow(n)
  \/ TickBegin \/ TickStep \/ Restart

Spec == Init /\ [][Next]_vars

(* The timer fires for ever and a tick runs to its end. *)
TickFairness == WF_vars(TickBegin) /\ WF_vars(TickStep)
FairSpec == Spec /\ TickFairness

-----------------------------------------------------------------------------
(* Properties. *)

(* A node rests while work it handed out goes on, and is not completed above *)
(* it.  While a descendant runs, every node it still works for waits (tick,   *)
(* 310-335; work left running by a Stop works for nobody any more); and       *)
(* nothing under a completed node is still open (the comparison with          *)
(* childCount in the result handler, 335-338).                                *)
ParentsStayOpen ==
  /\ \A a, n \in Live : (nodes[n].status = "running" /\ n # a /\ n \in Swept(a))
                          => nodes[a].status = "waiting"
  /\ \A n \in Live : HasParent(n) => nodes[nodes[n].parent].status # "completed"

(* A result is said once in the parent's transcript, also when the server    *)
(* dies between the row and the mark (report hook, index.ts:2668; tick, 308). *)
ResultSaidOnce == \A n \in Ids : told[n] <= 1

(* What was reported was said, or needed no saying; and a parent goes on only *)
(* when every child's result is in its conversation (tick, 310-313).          *)
ResumesInformed ==
  \A n \in Live : nodes[n].status = "resume" =>
    \A c \in Children(n) : /\ c \notin Live
                           /\ told[c] = 1 \/ (Assignment(c) /\ nodes[c].status = "completed")

KeepsOutcome(n) ==
  nodes[n].status \in Settled => nodes'[n].status \in {nodes[n].status, "absent"}

(* A settled node keeps its outcome: no late result, tick or restart opens    *)
(* or rewrites it; only pruning takes it away (then-handler, 336; constructor, *)
(* 57; enqueue, 210-221).                                                      *)
SettledForGood == [][\A n \in Ids : KeepsOutcome(n)]_vars

TakenRightly(n) ==
  /\ nodes[n].status = "running" /\ nodes'[n].status = "failed"
  /\ tick.pass = "expire" /\ tick'.pass = "expire"
  => Overdue(n) \/ Age(n) = "capped" \/ Path(n) \cap revoked # {}

(* Running out of time never takes a node that runs inside its own runway,    *)
(* whatever the age of its ancestors (protectsRunner, 135-139): only the hard *)
(* cap or a route that is gone does.                                          *)
RunwayKept == [][\A n \in Live : TakenRightly(n)]_vars

(* Nothing stays unsaid and no parent waits for nothing: again and again all  *)
(* that settled has been reported, and a parent whose children have all        *)
(* settled has been resumed, or has settled (tick, 307-320).                   *)
ParentGoesOn ==
  /\ []<>(\A n \in Ids : ~Unreported(n))
  /\ []<>(\A n \in Live : nodes[n].status = "waiting" /\ Children(n) # {} => Children(n) \cap Live # {})

(* The hard cap ends a tree whatever protects it: a runner inside its runway, *)
(* a follow-up that is owed, or a Stop that left work behind (tick, 300).     *)
HardCapEnds == []<>(\A n \in Live : Age(n) # "capped")

(* Pruning evicts only history: no open request leaves the map (209).         *)
ActiveKept == [][\A n \in Live : nodes'[n].status # "absent"]_vars

=============================================================================
