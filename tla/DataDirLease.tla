---------------------------- MODULE DataDirLease ----------------------------
(* The lease on the data directory (src/electron/data-dir-lease.mjs): which  *)
(* process may use the files that every queue and journal of this project    *)
(* takes to be its own.  A desktop or a standalone server holds the primary  *)
(* lease; a desktop's utility servers hold, one at a time, a lease of their  *)
(* own below it.  A lease is a file, made by a hard link and removed by its  *)
(* path; a process may die at any step and leave its files as they are, and  *)
(* whoever comes next retires the lease of a dead owner, after an election.  *)
(*                                                                           *)
(* A process is named by the token it draws for its one attempt; processes   *)
(* that come one after the other may have the same pid.  Each file operation *)
(* and each look at another process is a step: they are all that processes   *)
(* share.  Candidate files, hosts and moving an older directory are left out *)
(* (one machine, one current version).                                       *)
EXTENDS Naturals

CONSTANTS
  Pids,            \* process ids of the machine that this program may get
  SeesReuse,       \* a process is told from a later one with its pid (Windows)
  MaxGenerations,  \* MAX_REAPER_GENERATIONS
  MaxTokens,       \* bound: processes that are ever started
  MaxBoots         \* bound: boots of the machine after the first

ASSUME PidsAssumption == Pids # {}
ASSUME SeesReuseIsBoolean == SeesReuse \in BOOLEAN
ASSUME GenerationsAssumption == MaxGenerations \in Nat \ {0}
ASSUME BoundsAssumption == MaxTokens \in Nat /\ MaxBoots \in Nat

Nobody == 0
Tokens == 1 .. MaxTokens
Generations == 1 .. MaxGenerations
Places == {"primary", "child"}

(* Where a process stands in its run through the file. *)
Guarding   == {"guard", "guardLook"}
Delegated  == {"authorize", "authorizeLook"}
Contending == {"link", "read", "look", "elect", "rival", "reread", "recheck", "unlink"}
Elected    == {"reread", "recheck", "unlink"}
Confirming == {"confirm", "confirmLook"}
Leaving    == {"leaveGuard", "leaveLook", "leave", "remove"}
Owning     == Confirming \cup {"holds"} \cup Leaving
Steps      == {"unborn", "over", "dead"} \cup Guarding \cup Delegated \cup Contending \cup Owning

VARIABLES
  boot,    \* the machine's boot session
  step,    \* what a process does next
  pid,     \* its process id
  since,   \* the boot session it wrote into its records
  parent,  \* the desktop whose capability it was given, or Nobody
  seen,    \* the owner it read last: the one it guards against or retires
  gen,     \* the generation of reapers it has come to
  lease,   \* the owner recorded in each lease file, or Nobody
  reapers  \* the election record for a dead owner at each generation, or Nobody

vars == <<boot, step, pid, since, parent, seen, gen, lease, reapers>>
attempt == <<boot, pid, since, parent>>  \* what a process keeps once it is started

Born  == {i \in Tokens : step[i] # "unborn"}
Live  == {i \in Tokens : step[i] \notin {"unborn", "dead"}}
Place(i) == IF parent[i] = Nobody THEN "primary" ELSE "child"

(* A record proves its owner dead by an earlier boot or by a free pid; a pid  *)
(* that another process has meanwhile looks alive, except on Windows.         *)
LooksAlive(i) ==
  IF SeesReuse THEN i \in Live
  ELSE since[i] = boot /\ \E j \in Live : pid[j] = pid[i]

Goto(i, s) == step' = [step EXCEPT ![i] = s]

Init ==
  /\ boot = 0
  /\ step = [i \in Tokens |-> "unborn"]
  /\ pid = [i \in Tokens |-> CHOOSE p \in Pids : TRUE]
  /\ since = [i \in Tokens |-> 0]
  /\ parent = [i \in Tokens |-> Nobody]
  /\ seen = [i \in Tokens |-> Nobody]
  /\ gen = [i \in Tokens |-> 1]
  /\ lease = [q \in Places |-> Nobody]
  /\ reapers = [t \in Tokens |-> [g \in Generations |-> Nobody]]

-----------------------------------------------------------------------------
(* Processes come and go. *)

(* A process gets a free pid and a token never drawn before. *)
Begin(i, p, by) ==
  /\ step[i] = "unborn"
  /\ \A j \in Tokens : j < i => j \in Born
  /\ \A j \in Live : pid[j] # p
  /\ Goto(i, IF by = Nobody THEN "guard" ELSE "authorize")
  /\ pid' = [pid EXCEPT ![i] = p]
  /\ since' = [since EXCEPT ![i] = boot]
  /\ parent' = [parent EXCEPT ![i] = by]
  /\ UNCHANGED <<boot, seen, gen, lease, reapers>>

(* A person starts the desktop, the server or the command line. *)
Start(i) == \E p \in Pids : Begin(i, p, Nobody)

(* The desktop forks a utility server and hands it its capability. *)
Fork(i) ==
  \E p \in Pids, j \in Live : step[j] = "holds" /\ Place(j) = "primary" /\ Begin(i, p, j)

(* A process dies at any step, or exits when it was refused or has released. *)
Die(i) ==
  /\ i \in Live
  /\ Goto(i, "dead")
  /\ seen' = [seen EXCEPT ![i] = Nobody]
  /\ gen' = [gen EXCEPT ![i] = 1]
  /\ UNCHANGED <<attempt, lease, reapers>>

(* The machine restarts. *)
Reboot ==
  /\ boot < MaxBoots
  /\ boot' = boot + 1
  /\ step' = [i \in Tokens |-> IF i \in Live THEN "dead" ELSE step[i]]
  /\ seen' = [i \in Tokens |-> Nobody]
  /\ gen' = [i \in Tokens |-> 1]
  /\ UNCHANGED <<pid, since, parent, lease, reapers>>

-----------------------------------------------------------------------------
(* Steps that only read: they go on to one of two steps. *)

Look(i, here, alive, dead) ==
  /\ step[i] = here
  /\ Goto(i, IF LooksAlive(seen[i]) THEN alive ELSE dead)
  /\ UNCHANGED <<attempt, seen, gen, lease, reapers>>

ReadOwner(i, here, q, none, some) ==
  /\ step[i] = here
  /\ Goto(i, IF lease[q] = Nobody THEN none ELSE some)
  /\ seen' = [seen EXCEPT ![i] = IF lease[q] = Nobody THEN seen[i] ELSE lease[q]]
  /\ UNCHANGED <<attempt, gen, lease, reapers>>

(* assertNoLiveDelegatedChild, before the lease is asked for. *)
Guard(i) == ReadOwner(i, "guard", "child", "link", "guardLook")
GuardLook(i) == Look(i, "guardLook", "over", "link")

(* matchesLiveParent reads whether the primary lease is the capability's and  *)
(* then looks at that process.                                                *)
Match(i, here, no, yes) ==
  /\ step[i] = here
  /\ Goto(i, IF lease["primary"] = parent[i] THEN yes ELSE no)
  /\ seen' = [seen EXCEPT ![i] = parent[i]]
  /\ UNCHANGED <<attempt, gen, lease, reapers>>

Authorize(i) == Match(i, "authorize", "over", "authorizeLook")
AuthorizeLook(i) == Look(i, "authorizeLook", "link", "over")

(* A refused child gives its claim back before it throws. *)
Confirm(i) == Match(i, "confirm", "leave", "confirmLook")
ConfirmLook(i) == Look(i, "confirmLook", "holds", "leave")

-----------------------------------------------------------------------------
(* Acquisition: link, or read who owns the lease and retire it if it is dead. *)

Link(i) ==
  LET q == Place(i) IN
  /\ step[i] = "link"
  /\ IF lease[q] = Nobody
     THEN /\ lease' = [lease EXCEPT ![q] = i]
          /\ Goto(i, IF q = "primary" THEN "holds" ELSE "confirm")
     ELSE Goto(i, "read") /\ UNCHANGED lease
  /\ UNCHANGED <<attempt, seen, gen, reapers>>

Read(i) == ReadOwner(i, "read", Place(i), "link", "look")

LookAtOwner(i) ==
  /\ step[i] = "look"
  /\ Goto(i, IF LooksAlive(seen[i]) THEN "over" ELSE "elect")
  /\ gen' = [gen EXCEPT ![i] = 1]
  /\ UNCHANGED <<attempt, seen, lease, reapers>>

(* One hard link publishes a reaper's record; the second one fails. *)
Elect(i) ==
  /\ step[i] = "elect"
  /\ IF reapers[seen[i]][gen[i]] = Nobody
     THEN reapers' = [reapers EXCEPT ![seen[i]][gen[i]] = i] /\ Goto(i, "reread")
     ELSE Goto(i, "rival") /\ UNCHANGED reapers
  /\ UNCHANGED <<attempt, seen, gen, lease>>

(* mutant of Rival: the record of a live reaper does not stop a second one. *)
RivalPassed(i) ==
  /\ step[i] = "rival"
  /\ IF gen[i] = MaxGenerations
     THEN Goto(i, "over") /\ UNCHANGED gen
     ELSE Goto(i, "elect") /\ gen' = [gen EXCEPT ![i] = @ + 1]
  /\ UNCHANGED <<attempt, seen, lease, reapers>>
(* mutant of Rival: one election only, so that a dead reaper blocks for ever. *)
RivalFinal(i) ==
  /\ step[i] = "rival"
  /\ Goto(i, "over")
  /\ UNCHANGED <<attempt, seen, gen, lease, reapers>>
(* A reaper that died names the next election; one that lives ends this one. *)
Rival(i) ==
  /\ step[i] = "rival"
  /\ IF LooksAlive(reapers[seen[i]][gen[i]]) \/ gen[i] = MaxGenerations
     THEN Goto(i, "over") /\ UNCHANGED gen
     ELSE Goto(i, "elect") /\ gen' = [gen EXCEPT ![i] = @ + 1]
  /\ UNCHANGED <<attempt, seen, lease, reapers>>

(* The elected reaper reads the lease again and looks again before it acts.  *)
Reread(i) ==
  /\ step[i] = "reread"
  /\ Goto(i, IF lease[Place(i)] = seen[i] THEN "recheck" ELSE "link")
  /\ UNCHANGED <<attempt, seen, gen, lease, reapers>>

Recheck(i) == Look(i, "recheck", "over", "unlink")

(* unlink removes whatever the path names. *)
Unlink(i) ==
  /\ step[i] = "unlink"
  /\ lease' = [lease EXCEPT ![Place(i)] = Nobody]
  /\ Goto(i, "link")
  /\ UNCHANGED <<attempt, seen, gen, reapers>>

-----------------------------------------------------------------------------
(* Release. *)

(* A primary lease is not given back above a live child. *)
BeginRelease(i) ==
  /\ step[i] = "holds"
  /\ Goto(i, IF Place(i) = "primary" THEN "leaveGuard" ELSE "leave")
  /\ UNCHANGED <<attempt, seen, gen, lease, reapers>>

LeaveGuard(i) == ReadOwner(i, "leaveGuard", "child", "leave", "leaveLook")
LeaveLook(i) == Look(i, "leaveLook", "holds", "leave")

Leave(i) ==
  /\ step[i] = "leave"
  /\ Goto(i, IF lease[Place(i)] = i THEN "remove" ELSE "over")
  /\ UNCHANGED <<attempt, seen, gen, lease, reapers>>

Remove(i) ==
  /\ step[i] = "remove"
  /\ lease' = [lease EXCEPT ![Place(i)] = Nobody]
  /\ Goto(i, "over")
  /\ UNCHANGED <<attempt, seen, gen, reapers>>

-----------------------------------------------------------------------------
Acquire(i) ==
  \/ Guard(i) \/ GuardLook(i) \/ Authorize(i) \/ AuthorizeLook(i)
  \/ Link(i) \/ Read(i) \/ LookAtOwner(i) \/ Elect(i) \/ Rival(i)
  \/ Reread(i) \/ Recheck(i) \/ Unlink(i)
  \/ Confirm(i) \/ ConfirmLook(i)

Release(i) == BeginRelease(i) \/ LeaveGuard(i) \/ LeaveLook(i) \/ Leave(i) \/ Remove(i)

Next ==
  \/ \E i \in Tokens : Start(i) \/ Fork(i) \/ Die(i) \/ Acquire(i) \/ Release(i)
  \/ Reboot

Spec == Init /\ [][Next]_vars
FairSpec == Spec /\ \A i \in Tokens : WF_vars(Acquire(i))

-----------------------------------------------------------------------------
(* Properties. *)

TypeOK ==
  /\ boot \in 0 .. MaxBoots
  /\ step \in [Tokens -> Steps]
  /\ pid \in [Tokens -> Pids]
  /\ since \in [Tokens -> 0 .. MaxBoots]
  /\ parent \in [Tokens -> Tokens \cup {Nobody}]
  /\ seen \in [Tokens -> Tokens \cup {Nobody}]
  /\ gen \in [Tokens -> Generations]
  /\ lease \in [Places -> Tokens \cup {Nobody}]
  /\ reapers \in [Tokens -> [Generations -> Tokens \cup {Nobody}]]

(* Whoever has acquired a lease and not yet released it is the one its file   *)
(* names, so no two live processes hold the same lease, although every        *)
(* removal goes by the path and not by the owner (unlinkExact, 230-236).      *)
OneHolder == \A i \in Tokens : step[i] \in Owning => lease[Place(i)] = i

(* What the exclusion rests on.  Who lives wrote its records in this boot; a  *)
(* record names a process that was started; who would retire an owner knows   *)
(* that the owner and all reapers before it are dead, so that at most one     *)
(* live process can act (claimReaperAuthority, 264-304); and what it removes  *)
(* is still the file of that owner (retireDeadOwner, 306-318).                *)
Dead(i) == step[i] = "dead"
Reaping == {"elect", "rival"} \cup Elected

BootKnown == \A i \in Live : since[i] = boot
RecordsKnown ==
  /\ \A q \in Places : lease[q] # Nobody => lease[q] \in Born
  /\ \A t \in Tokens, g \in Generations : reapers[t][g] # Nobody => reapers[t][g] \in Born
TargetDead ==
  \A i \in Tokens : /\ step[i] = "look" => seen[i] \in Born
                    /\ step[i] \in Reaping => seen[i] \in Born /\ Dead(seen[i])
ReapersDead ==
  /\ \A t \in Tokens, g, h \in Generations :
       g < h /\ reapers[t][h] # Nobody => reapers[t][g] # Nobody /\ Dead(reapers[t][g])
  /\ \A i \in Tokens, g \in Generations :
       step[i] \in Reaping /\ g < gen[i] => reapers[seen[i]][g] # Nobody /\ Dead(reapers[seen[i]][g])
Recorded ==
  \A i \in Tokens : /\ step[i] = "rival" => reapers[seen[i]][gen[i]] # Nobody
                    /\ step[i] \in Elected => reapers[seen[i]][gen[i]] = i
Aimed == \A i \in Tokens : step[i] \in {"recheck", "unlink"} => lease[Place(i)] = seen[i]

LeaseInv == TypeOK /\ BootKnown /\ RecordsKnown /\ TargetDead /\ ReapersDead /\ Recorded /\ Aimed /\ OneHolder

(* No chain of deaths bricks the directory (264-272): a desktop or server     *)
(* that tries while no other process that left a record looks alive gets the  *)
(* lease, unless it dies or somebody else comes.  It goes on by itself as the *)
(* acquisition is synchronous code.                                           *)
Trying(i) == step[i] \in Guarding \cup Contending
Alone(i) == Place(i) = "primary" /\ \A j \in Born \ {i} : ~LooksAlive(j)
Recovers == \A i \in Tokens : Trying(i) /\ Alone(i) ~> (step[i] = "holds" \/ Dead(i) \/ ~Alone(i))
=============================================================================
