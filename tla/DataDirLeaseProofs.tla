------------------------- MODULE DataDirLeaseProofs -------------------------
(***************************************************************************)
(* The lease on the data directory has one holder, for every number of     *)
(* processes, pids, reapers and boots, and on every platform. The argument *)
(* is LeaseInv: only a process that is dead is ever retired, only the last *)
(* of its reapers can be alive, and so the file that a reaper removes is   *)
(* still the file of the dead owner it looked at.                          *)
(***************************************************************************)
EXTENDS DataDirLease, TLAPS

(* A process that does not look alive is dead: the look never errs on the  *)
(* side of retiring a live owner, whatever pids were used again.           *)
LEMMA SeemsDeadIsDead ==
  ASSUME TypeOK, BootKnown, NEW i \in Tokens, i \in Born, ~LooksAlive(i)
  PROVE  Dead(i)
<1>1. i \notin Live BY DEF LooksAlive, BootKnown
<1>2. QED BY <1>1 DEF Live, Born, Dead

(* A step of one live process that changes no file.                        *)
LEMMA CalmStep ==
  ASSUME LeaseInv, NEW i \in Live, NEW s \in Steps \ {"unborn"},
         step' = [step EXCEPT ![i] = s],
         UNCHANGED <<attempt, lease, reapers>>,
         seen' \in [Tokens -> Tokens \cup {Nobody}], gen' \in [Tokens -> Generations],
         \A j \in Tokens \ {i} : seen'[j] = seen[j] /\ gen'[j] = gen[j],
         s = "look" => seen'[i] \in Born,
         s \in Reaping =>
           /\ seen'[i] \in Born /\ Dead(seen'[i])
           /\ \A g \in Generations : g < gen'[i] =>
                reapers[seen'[i]][g] # Nobody /\ Dead(reapers[seen'[i]][g]),
         s = "rival" => reapers[seen'[i]][gen'[i]] # Nobody,
         s \in Elected => reapers[seen'[i]][gen'[i]] = i,
         s \in {"recheck", "unlink"} => lease[Place(i)] = seen'[i],
         s \in Owning => lease[Place(i)] = i
  PROVE  LeaseInv'
<1> USE DEF LeaseInv
<1>1. TypeOK' BY DEF TypeOK, attempt, Live
<1>r. reapers' = reapers OBVIOUS
<1>2. /\ \A j \in Tokens \ {i} : step'[j] = step[j]
      /\ i \in Tokens /\ step'[i] = s /\ step[i] # "dead"
      /\ Born' = Born /\ Live' \subseteq Live
      /\ \A j \in Tokens : Dead(j) => Dead(j)'
      /\ \A j \in Tokens : Place(j)' = Place(j)
  BY DEF TypeOK, Live, Born, Dead, Place, attempt
<1>3. BootKnown' BY <1>2 DEF BootKnown, attempt
<1>4. RecordsKnown' BY <1>2 DEF RecordsKnown
<1>5. TargetDead' BY <1>2 DEF TargetDead, Born, Reaping, Elected
<1>6. ReapersDead'
  <2>1. \A t \in Tokens, g \in Generations : reapers[t][g] \in Tokens \cup {Nobody} BY DEF TypeOK
  <2>2. \A t \in Tokens, g, h \in Generations :
          (g < h /\ reapers[t][h] # Nobody => reapers[t][g] # Nobody /\ Dead(reapers[t][g]))'
    BY <1>r, <1>2, <2>1 DEF ReapersDead, Dead
  <2>3. ASSUME NEW j \in Tokens, NEW g \in Generations, step'[j] \in Reaping, g < gen'[j]
        PROVE  (reapers[seen[j]][g] # Nobody /\ Dead(reapers[seen[j]][g]))'
    <3>1. CASE j = i BY <1>r, <1>2, <2>1, <2>3, <3>1 DEF Born, Dead
    <3>2. CASE j # i
      <4>1. step[j] \in Reaping /\ g < gen[j] /\ seen'[j] = seen[j] BY <1>2, <2>3, <3>2
      <4>2. seen[j] \in Tokens BY <4>1 DEF TargetDead, Born
      <4>3. QED BY <1>r, <1>2, <2>1, <4>1, <4>2 DEF ReapersDead, Dead
    <3>3. QED BY <3>1, <3>2
  <2>4. QED BY <2>2, <2>3 DEF ReapersDead, Dead
<1>7. Recorded' BY <1>2 DEF Recorded
<1>8. Aimed' BY <1>2 DEF Aimed
<1>9. OneHolder' BY <1>2 DEF OneHolder
<1>10. QED BY <1>1, <1>3, <1>4, <1>5, <1>6, <1>7, <1>8, <1>9

(* The same for a step that leaves nothing to be said of the process.      *)
LEMMA QuietStep ==
  ASSUME LeaseInv, NEW i \in Live,
         NEW s \in {"link", "read", "guardLook", "authorizeLook", "over", "dead"},
         step' = [step EXCEPT ![i] = s],
         UNCHANGED <<attempt, lease, reapers>>,
         seen' \in [Tokens -> Tokens \cup {Nobody}], gen' \in [Tokens -> Generations],
         \A j \in Tokens \ {i} : seen'[j] = seen[j] /\ gen'[j] = gen[j]
  PROVE  LeaseInv'
<1>1. /\ s \in Steps \ {"unborn"} /\ s # "look" /\ s # "rival"
      /\ s \notin Reaping \cup Elected \cup Owning \cup {"recheck", "unlink"}
  BY DEF Steps, Guarding, Delegated, Contending, Owning, Confirming, Leaving, Reaping, Elected
<1>2. QED BY <1>1, CalmStep

(* Who looks, guards or matches without a lease in its hands.              *)
LEMMA GuardSteps ==
  ASSUME LeaseInv, NEW i \in Tokens,
         Guard(i) \/ GuardLook(i) \/ Authorize(i) \/ AuthorizeLook(i) \/ Die(i)
  PROVE  LeaseInv'
<1> USE DEF Goto
<1>1. TypeOK BY DEF LeaseInv
<1>2. i \in Live BY DEF Live, Guard, GuardLook, Authorize, AuthorizeLook, Die, Look, ReadOwner, Match
<1>3. CASE Die(i)
  <2>1. 1 \in Generations BY GenerationsAssumption DEF Generations
  <2>2. QED BY <1>1, <1>2, <1>3, <2>1, QuietStep DEF Die, TypeOK
<1>4. CASE Guard(i) BY <1>1, <1>2, <1>4, QuietStep DEF Guard, ReadOwner, TypeOK, Places
<1>5. CASE GuardLook(i) BY <1>1, <1>2, <1>5, QuietStep DEF GuardLook, Look, TypeOK
<1>6. CASE Authorize(i) BY <1>1, <1>2, <1>6, QuietStep DEF Authorize, Match, TypeOK
<1>7. CASE AuthorizeLook(i) BY <1>1, <1>2, <1>7, QuietStep DEF AuthorizeLook, Look, TypeOK
<1>8. QED BY <1>3, <1>4, <1>5, <1>6, <1>7

(* Who holds a lease keeps it until it removes it.                         *)
LEMMA HolderSteps ==
  ASSUME LeaseInv, NEW i \in Tokens,
         Confirm(i) \/ ConfirmLook(i) \/ BeginRelease(i) \/ LeaveGuard(i) \/ LeaveLook(i) \/ Leave(i)
  PROVE  LeaseInv'
<1> USE DEF Goto
<1>1. TypeOK /\ OneHolder BY DEF LeaseInv
<1>2. /\ seen' \in [Tokens -> Tokens \cup {Nobody}] /\ gen' \in [Tokens -> Generations]
      /\ \A j \in Tokens \ {i} : seen'[j] = seen[j] /\ gen'[j] = gen[j]
      /\ UNCHANGED <<attempt, lease, reapers>>
  BY <1>1
  DEF TypeOK, Confirm, ConfirmLook, BeginRelease, LeaveGuard, LeaveLook, Leave, Look, ReadOwner, Match, Places
<1>3. /\ i \in Live /\ lease[Place(i)] = i
      /\ \E s \in {"over"} \cup Owning : step' = [step EXCEPT ![i] = s]
  BY <1>1
  DEF Live, OneHolder, Owning, Confirming, Leaving,
      Confirm, ConfirmLook, BeginRelease, LeaveGuard, LeaveLook, Leave, Look, ReadOwner, Match
<1>4. PICK s \in {"over"} \cup Owning : step' = [step EXCEPT ![i] = s] BY <1>3
<1>5. /\ s \in Steps \ {"unborn"} /\ s # "look" /\ s # "rival"
      /\ s \notin Reaping \cup Elected \cup {"recheck", "unlink"}
  BY <1>4 DEF Steps, Owning, Confirming, Leaving, Reaping, Elected
<1>6. QED BY <1>2, <1>3, <1>4, <1>5, CalmStep

(* Who contends reads the owner, and retires only one that is dead.        *)
LEMMA ContenderSteps ==
  ASSUME LeaseInv, NEW i \in Tokens,
         Read(i) \/ LookAtOwner(i) \/ Rival(i) \/ Reread(i) \/ Recheck(i)
  PROVE  LeaseInv'
<1> USE DEF Goto
<1>1. TypeOK /\ BootKnown /\ RecordsKnown /\ TargetDead /\ ReapersDead /\ Recorded /\ Aimed
  BY DEF LeaseInv
<1>2. CASE Read(i)
  <2>1. CASE lease[Place(i)] = Nobody BY <1>1, <1>2, <2>1, QuietStep DEF Read, ReadOwner, TypeOK, Live
  <2>2. CASE lease[Place(i)] # Nobody
    <3>1. lease[Place(i)] \in Born BY <1>1, <2>2 DEF RecordsKnown, Place, Places
    <3>2. /\ step' = [step EXCEPT ![i] = "look"]
          /\ seen' = [seen EXCEPT ![i] = lease[Place(i)]]
          /\ gen' = gen /\ UNCHANGED <<attempt, lease, reapers>>
          /\ i \in Live /\ "look" \in Steps \ {"unborn"}
          /\ "look" \notin Reaping \cup Elected \cup Owning \cup {"recheck", "unlink", "rival"}
      BY <1>2, <2>2
      DEF Read, ReadOwner, Live, Steps, Contending, Owning, Confirming, Leaving, Reaping, Elected
    <3>3. QED BY <1>1, <3>1, <3>2, CalmStep DEF TypeOK, Born
  <2>3. QED BY <2>1, <2>2
<1>3. CASE LookAtOwner(i)
  <2>1. CASE LooksAlive(seen[i])
    <3>1. 1 \in Generations BY GenerationsAssumption DEF Generations
    <3>2. QED BY <1>1, <1>3, <2>1, <3>1, QuietStep DEF LookAtOwner, TypeOK, Live
  <2>2. CASE ~LooksAlive(seen[i])
    <3>1. seen[i] \in Born BY <1>1, <1>3 DEF TargetDead, LookAtOwner
    <3>2. Dead(seen[i]) BY <1>1, <2>2, <3>1, SeemsDeadIsDead DEF Born
    <3>3. /\ step' = [step EXCEPT ![i] = "elect"]
          /\ gen' = [gen EXCEPT ![i] = 1]
          /\ seen' = seen /\ UNCHANGED <<attempt, lease, reapers>>
          /\ i \in Live /\ "elect" \in Steps \ {"unborn"}
          /\ "elect" \notin Elected \cup Owning \cup {"recheck", "unlink", "rival", "look"}
      BY <1>3, <2>2
      DEF LookAtOwner, Live, Steps, Contending, Owning, Confirming, Leaving, Elected
    <3>4. \A g \in Generations : ~(g < 1) BY DEF Generations
    <3>5. 1 \in Generations BY GenerationsAssumption DEF Generations
    <3>6. gen'[i] = 1 /\ seen'[i] = seen[i] /\ gen' \in [Tokens -> Generations]
      BY <1>1, <3>3, <3>5 DEF TypeOK
    <3>7. \A j \in Tokens \ {i} : seen'[j] = seen[j] /\ gen'[j] = gen[j] BY <1>1, <3>3 DEF TypeOK
    <3>8. QED BY <1>1, <3>1, <3>2, <3>3, <3>4, <3>6, <3>7, CalmStep DEF TypeOK
  <2>3. QED BY <2>1, <2>2
<1>4. CASE Rival(i)
  <2> DEFINE r == reapers[seen[i]][gen[i]]
  <2>1. CASE LooksAlive(r) \/ gen[i] = MaxGenerations
    BY <1>1, <1>4, <2>1, QuietStep DEF Rival, TypeOK, Live
  <2>2. CASE ~LooksAlive(r) /\ gen[i] # MaxGenerations
    <3>1. seen[i] \in Born /\ Dead(seen[i]) /\ seen[i] \in Tokens
      BY <1>1, <1>4 DEF TargetDead, Rival, Reaping, Born
    <3>2. r \in Born /\ r # Nobody BY <1>1, <1>4, <3>1 DEF RecordsKnown, Recorded, Rival, TypeOK
    <3>3. Dead(r) BY <1>1, <2>2, <3>2, SeemsDeadIsDead DEF Born
    <3>4. gen[i] + 1 \in Generations BY <1>1, <2>2, GenerationsAssumption DEF TypeOK, Generations
    <3>5. /\ step' = [step EXCEPT ![i] = "elect"]
          /\ gen' = [gen EXCEPT ![i] = gen[i] + 1]
          /\ seen' = seen /\ UNCHANGED <<attempt, lease, reapers>>
          /\ i \in Live /\ "elect" \in Steps \ {"unborn"}
          /\ "elect" \notin Elected \cup Owning \cup {"recheck", "unlink", "rival", "look"}
      BY <1>4, <2>2
      DEF Rival, Live, Steps, Contending, Owning, Confirming, Leaving, Elected
    <3>6. gen'[i] = gen[i] + 1 /\ seen'[i] = seen[i] /\ gen' \in [Tokens -> Generations]
      BY <1>1, <3>4, <3>5 DEF TypeOK
    <3>7. ASSUME NEW g \in Generations, g < gen'[i]
          PROVE  reapers[seen[i]][g] # Nobody /\ Dead(reapers[seen[i]][g])
      <4>1. g < gen[i] \/ g = gen[i] BY <1>1, <3>6, <3>7 DEF Generations, TypeOK
      <4>2. QED BY <1>1, <1>4, <3>2, <3>3, <4>1 DEF ReapersDead, Rival, Reaping
    <3>8. \A j \in Tokens \ {i} : seen'[j] = seen[j] /\ gen'[j] = gen[j] BY <1>1, <3>5 DEF TypeOK
    <3>9. QED BY <1>1, <3>1, <3>5, <3>6, <3>7, <3>8, CalmStep DEF TypeOK
  <2>3. QED BY <2>1, <2>2
<1>5. ASSUME Reread(i) \/ Recheck(i) PROVE LeaseInv'
  <2>1. /\ seen[i] \in Born /\ Dead(seen[i]) /\ reapers[seen[i]][gen[i]] = i
        /\ \A g \in Generations : g < gen[i] =>
             reapers[seen[i]][g] # Nobody /\ Dead(reapers[seen[i]][g])
    BY <1>1, <1>5 DEF Reread, Recheck, Look, TargetDead, Recorded, ReapersDead, Reaping, Elected
  <2>2. seen' = seen /\ gen' = gen /\ UNCHANGED <<attempt, lease, reapers>> /\ i \in Live
    BY <1>5 DEF Reread, Recheck, Look, Live
  <2>3. \/ \E s \in {"link", "over"} : step' = [step EXCEPT ![i] = s]
        \/ /\ lease[Place(i)] = seen[i]
           /\ \E s \in {"recheck", "unlink"} : step' = [step EXCEPT ![i] = s]
    BY <1>1, <1>5 DEF Reread, Recheck, Look, Aimed
  <2>4. CASE \E s \in {"link", "over"} : step' = [step EXCEPT ![i] = s]
    BY <1>1, <2>2, <2>4, QuietStep DEF TypeOK
  <2>5. ASSUME lease[Place(i)] = seen[i], NEW s \in {"recheck", "unlink"}, step' = [step EXCEPT ![i] = s]
        PROVE  LeaseInv'
    <3>1. s \in Steps \ {"unborn"} /\ s \notin Owning \cup {"look", "rival"}
      BY DEF Steps, Contending, Owning, Confirming, Leaving
    <3>2. QED BY <1>1, <2>1, <2>2, <2>5, <3>1, CalmStep DEF TypeOK
  <2>6. QED BY <2>3, <2>4, <2>5
<1>6. QED BY <1>2, <1>3, <1>4, <1>5

(* Linking a free lease takes it from nobody, and no reaper aims at it.    *)
LEMMA LinkStep ==
  ASSUME LeaseInv, NEW i \in Tokens, Link(i)
  PROVE  LeaseInv'
<1> USE DEF Goto
<1> DEFINE q == Place(i)
<1>1. TypeOK /\ BootKnown /\ RecordsKnown /\ TargetDead /\ ReapersDead /\ Recorded /\ Aimed /\ OneHolder
  BY DEF LeaseInv
<1>2. CASE lease[q] # Nobody BY <1>1, <1>2, QuietStep DEF Link, TypeOK, Live
<1>3. CASE lease[q] = Nobody
  <2> DEFINE s == IF q = "primary" THEN "holds" ELSE "confirm"
  <2>1. /\ s \in Steps \ {"unborn", "dead", "look", "rival"} /\ s \in Owning
        /\ s \notin Reaping \cup Elected \cup {"recheck", "unlink"}
        /\ "link" \notin Reaping \cup Elected \cup Owning
    BY DEF Steps, Owning, Confirming, Leaving, Reaping, Elected
  <2>2. /\ lease' = [lease EXCEPT ![q] = i] /\ step' = [step EXCEPT ![i] = s] /\ step[i] = "link"
        /\ UNCHANGED <<attempt, seen, gen, reapers>>
    BY <1>3 DEF Link
  <2> HIDE DEF s
  <2>3. /\ \A j \in Tokens \ {i} : step'[j] = step[j]
        /\ step'[i] = s
        /\ Born' = Born /\ Live' = Live /\ i \in Born
        /\ \A j \in Tokens : Dead(j)' <=> Dead(j)
        /\ \A j \in Tokens : Place(j)' = Place(j)
        /\ boot' = boot /\ since' = since /\ seen' = seen /\ gen' = gen /\ reapers' = reapers
    BY <1>1, <2>1, <2>2 DEF TypeOK, Born, Live, Dead, Place, attempt
  <2>4. TypeOK' BY <1>1, <2>1, <2>2 DEF TypeOK, attempt
  <2>5. BootKnown' BY <1>1, <2>3 DEF BootKnown
  <2>6. RecordsKnown' BY <1>1, <2>2, <2>3 DEF RecordsKnown, TypeOK
  <2>7. TargetDead' BY <1>1, <2>1, <2>3 DEF TargetDead, Born
  <2>8. ReapersDead'
    <3>1. \A t \in Tokens, g \in Generations : reapers[t][g] \in Tokens \cup {Nobody} BY <1>1 DEF TypeOK
    <3>2. \A j \in Tokens : step'[j] \in Reaping => step[j] \in Reaping /\ seen[j] \in Tokens
      BY <1>1, <2>1, <2>3 DEF TargetDead, Born
    <3>3. QED BY <1>1, <2>3, <3>1, <3>2 DEF ReapersDead, Dead
  <2>9. Recorded' BY <1>1, <2>1, <2>3 DEF Recorded
  <2>10. \A j \in Tokens : step[j] \in {"recheck", "unlink"} \cup Owning /\ Place(j) = q => FALSE
    <3>1. ASSUME NEW j \in Tokens, step[j] \in {"recheck", "unlink"}, Place(j) = q PROVE FALSE
      <4>1. seen[j] \in Tokens BY <1>1, <3>1 DEF TargetDead, Reaping, Elected, Born
      <4>2. lease[q] = seen[j] BY <1>1, <3>1 DEF Aimed
      <4>3. QED BY <1>3, <4>1, <4>2 DEF Tokens, Nobody
    <3>2. ASSUME NEW j \in Tokens, step[j] \in Owning, Place(j) = q PROVE FALSE
      BY <1>1, <1>3, <3>2 DEF OneHolder, Tokens, Nobody
    <3>3. QED BY <3>1, <3>2
  <2>11. q \in Places BY DEF Place, Places
  <2>12. /\ lease'[q] = i
         /\ \A p \in Places \ {q} : lease'[p] = lease[p]
         /\ \A j \in Tokens : Place(j) \in Places
    BY <1>1, <2>2, <2>11 DEF TypeOK, Place, Places
  <2>13. Aimed' BY <1>1, <2>1, <2>3, <2>10, <2>12 DEF Aimed
  <2>14. OneHolder' BY <1>1, <2>1, <2>3, <2>10, <2>12 DEF OneHolder
  <2>15. QED BY <2>4, <2>5, <2>6, <2>7, <2>8, <2>9, <2>13, <2>14 DEF LeaseInv
<1>4. QED BY <1>2, <1>3

(* Of the reapers of one owner at most one is alive.                       *)
LEMMA OneReaper ==
  ASSUME TypeOK, TargetDead, ReapersDead, Recorded,
         NEW i \in Tokens, NEW j \in Tokens,
         step[i] \in Elected, step[j] \in Elected, seen[i] = seen[j]
  PROVE  i = j
<1>1. /\ reapers[seen[i]][gen[i]] = i /\ reapers[seen[i]][gen[j]] = j
      /\ gen[i] \in Generations /\ gen[j] \in Generations
      /\ ~Dead(i) /\ ~Dead(j)
  BY DEF Recorded, TypeOK, Dead, Elected
<1>2. ~(gen[i] < gen[j]) BY <1>1 DEF ReapersDead, Reaping
<1>3. ~(gen[j] < gen[i]) BY <1>1 DEF ReapersDead, Reaping
<1>4. gen[i] = gen[j] BY <1>1, <1>2, <1>3 DEF Generations
<1>5. QED BY <1>1, <1>4

(* A removal by the path takes the file of the remover itself, or of the   *)
(* dead owner it was elected to retire.                                    *)
LEMMA RemovalSteps ==
  ASSUME LeaseInv, NEW i \in Tokens, Unlink(i) \/ Remove(i)
  PROVE  LeaseInv'
<1> USE DEF Goto
<1> DEFINE q == Place(i)
<1>1. TypeOK /\ BootKnown /\ RecordsKnown /\ TargetDead /\ ReapersDead /\ Recorded /\ Aimed /\ OneHolder
  BY DEF LeaseInv
<1>2. PICK s \in {"link", "over"} : step' = [step EXCEPT ![i] = s] BY DEF Unlink, Remove
<1>3. /\ lease' = [lease EXCEPT ![q] = Nobody]
      /\ step[i] = "unlink" \/ step[i] = "remove"
      /\ UNCHANGED <<attempt, seen, gen, reapers>>
  BY DEF Unlink, Remove
<1>4. /\ s \in Steps \ {"unborn", "dead", "look", "rival"}
      /\ s \notin Reaping \cup Elected \cup Owning \cup {"recheck", "unlink"}
  BY DEF Steps, Contending, Owning, Confirming, Leaving, Reaping, Elected
<1>5. /\ \A j \in Tokens \ {i} : step'[j] = step[j]
      /\ step'[i] = s
      /\ Born' = Born /\ Live' = Live
      /\ \A j \in Tokens : Dead(j)' <=> Dead(j)
      /\ \A j \in Tokens : Place(j)' = Place(j) /\ Place(j) \in Places
      /\ boot' = boot /\ since' = since /\ seen' = seen /\ gen' = gen /\ reapers' = reapers
  BY <1>1, <1>2, <1>3, <1>4 DEF TypeOK, Born, Live, Dead, Place, Places, attempt
<1>6. /\ lease'[q] = Nobody
      /\ \A p \in Places \ {q} : lease'[p] = lease[p]
  BY <1>1, <1>3, <1>5 DEF TypeOK
<1>7. lease[q] = IF step[i] = "unlink" THEN seen[i] ELSE i
  BY <1>1, <1>3 DEF Aimed, OneHolder, Owning, Leaving
<1>8. step[i] = "unlink" => seen[i] \in Tokens /\ Dead(seen[i])
  BY <1>1 DEF TargetDead, Reaping, Elected, Born
<1>9. ASSUME NEW j \in Tokens \ {i}, step[j] \in Owning PROVE Place(j) # q
  BY <1>1, <1>3, <1>7, <1>8, <1>9 DEF OneHolder, Dead, Owning, Confirming, Leaving
<1>10. ASSUME NEW j \in Tokens \ {i}, step[j] \in {"recheck", "unlink"} PROVE Place(j) # q
  <2>1. SUFFICES ASSUME Place(j) = q PROVE FALSE OBVIOUS
  <2>2. seen[j] = lease[q] /\ Dead(seen[j])
    BY <1>1, <1>10, <2>1 DEF Aimed, TargetDead, Reaping, Elected
  <2>3. CASE step[i] = "remove" BY <1>7, <2>2, <2>3 DEF Dead
  <2>4. CASE step[i] = "unlink"
    BY <1>1, <1>7, <1>10, <2>2, <2>4, OneReaper DEF Elected
  <2>5. QED BY <1>3, <2>3, <2>4
<1>11. TypeOK' BY <1>1, <1>2, <1>3, <1>4 DEF TypeOK, attempt
<1>12. BootKnown' BY <1>1, <1>5 DEF BootKnown
<1>13. RecordsKnown' BY <1>1, <1>5, <1>6 DEF RecordsKnown
<1>14. TargetDead' BY <1>1, <1>4, <1>5 DEF TargetDead, Born
<1>15. ReapersDead' BY SMTT(20), <1>1, <1>4, <1>5 DEF ReapersDead, TypeOK, TargetDead, Born, Dead
<1>16. Recorded' BY <1>1, <1>4, <1>5 DEF Recorded
<1>17. Aimed' BY <1>1, <1>4, <1>5, <1>6, <1>10 DEF Aimed
<1>18. OneHolder' BY <1>1, <1>4, <1>5, <1>6, <1>9 DEF OneHolder
<1>19. QED BY <1>11, <1>12, <1>13, <1>14, <1>15, <1>16, <1>17, <1>18 DEF LeaseInv

(* An election is published where no record was, so it is the last one.    *)
LEMMA ElectStep ==
  ASSUME LeaseInv, NEW i \in Tokens, Elect(i)
  PROVE  LeaseInv'
<1> USE DEF Goto
<1> DEFINE t == seen[i]
           g == gen[i]
<1>1. TypeOK /\ BootKnown /\ RecordsKnown /\ TargetDead /\ ReapersDead /\ Recorded /\ Aimed /\ OneHolder
  BY DEF LeaseInv
<1>2. /\ step[i] = "elect" /\ i \in Live /\ t \in Tokens /\ t \in Born /\ Dead(t) /\ g \in Generations
      /\ \A h \in Generations : h < g => reapers[t][h] # Nobody /\ Dead(reapers[t][h])
  BY <1>1 DEF Elect, TargetDead, ReapersDead, Reaping, Born, Live, TypeOK
<1>3. CASE reapers[t][g] # Nobody
  <2>1. /\ step' = [step EXCEPT ![i] = "rival"] /\ seen' = seen /\ gen' = gen
        /\ UNCHANGED <<attempt, lease, reapers>>
        /\ "rival" \in Steps \ {"unborn"}
        /\ "rival" \notin Elected \cup Owning \cup {"recheck", "unlink", "look"}
    BY <1>3 DEF Elect, Steps, Contending, Owning, Confirming, Leaving, Elected
  <2>2. QED BY <1>1, <1>2, <1>3, <2>1, CalmStep DEF TypeOK
<1>4. CASE reapers[t][g] = Nobody
  <2>1. /\ reapers' = [reapers EXCEPT ![t][g] = i] /\ step' = [step EXCEPT ![i] = "reread"]
        /\ UNCHANGED <<attempt, seen, gen, lease>>
        /\ "reread" \in Steps /\ "reread" \in Elected /\ "reread" \in Reaping
        /\ "reread" \notin Owning
    BY <1>4 DEF Elect, Steps, Contending, Owning, Confirming, Leaving, Elected, Reaping
  <2>2. /\ \A j \in Tokens \ {i} : step'[j] = step[j]
        /\ step'[i] = "reread"
        /\ Born' = Born /\ Live' = Live /\ i \in Born
        /\ \A j \in Tokens : Dead(j)' <=> Dead(j)
        /\ \A j \in Tokens : Place(j)' = Place(j)
        /\ boot' = boot /\ since' = since /\ seen' = seen /\ gen' = gen /\ lease' = lease
    BY <1>1, <1>2, <2>1 DEF TypeOK, Born, Live, Dead, Place, attempt
  <2>3. /\ reapers'[t][g] = i /\ i \in Tokens /\ i # Nobody
        /\ \A u \in Tokens, h \in Generations : u # t \/ h # g => reapers'[u][h] = reapers[u][h]
        /\ \A u \in Tokens, h \in Generations : reapers'[u][h] \in Tokens \cup {Nobody}
        /\ reapers' \in [Tokens -> [Generations -> Tokens \cup {Nobody}]]
    <3>1. reapers \in [Tokens -> [Generations -> Tokens \cup {Nobody}]] BY <1>1 DEF TypeOK
    <3>2. i \in Tokens /\ i # Nobody BY DEF Tokens, Nobody
    <3>3. reapers' = [reapers EXCEPT ![t] = [reapers[t] EXCEPT ![g] = i]] BY <2>1
    <3>4. t \in Tokens /\ g \in Generations BY <1>2
    <3> HIDE DEF t, g
    <3>5. QED BY <3>1, <3>2, <3>3, <3>4
  <2>4. TypeOK' BY <1>1, <2>1, <2>3 DEF TypeOK, attempt
  <2>5. BootKnown' BY <1>1, <2>2 DEF BootKnown
  <2>6. RecordsKnown' BY <1>1, <2>2, <2>3 DEF RecordsKnown
  <2>7. TargetDead' BY <1>1, <1>2, <2>2 DEF TargetDead, Born
  <2>8. ASSUME NEW u \in Tokens, NEW h \in Generations, NEW k \in Generations,
               h < k, reapers'[u][k] # Nobody
        PROVE  (reapers[u][h] # Nobody /\ Dead(reapers[u][h]))'
    <3>1. CASE u = t /\ k = g BY <1>2, <2>2, <2>3, <2>8, <3>1 DEF Generations, Dead
    <3>2. CASE ~(u = t /\ k = g)
      <4>1. reapers[u][k] # Nobody BY <2>3, <2>8, <3>2
      <4>2. reapers[u][h] # Nobody /\ Dead(reapers[u][h]) BY <1>1, <2>8, <4>1 DEF ReapersDead
      <4>3. ~(u = t /\ h = g) BY <1>4, <4>2
      <4>4. QED BY <2>2, <2>3, <4>2, <4>3 DEF Dead
    <3>3. QED BY <3>1, <3>2
  <2>9. ASSUME NEW j \in Tokens, NEW h \in Generations, step'[j] \in Reaping, h < gen'[j]
        PROVE  (reapers[seen[j]][h] # Nobody /\ Dead(reapers[seen[j]][h]))'
    <3>1. step[j] \in Reaping BY <1>2, <2>2, <2>9 DEF Reaping
    <3>2. /\ reapers[seen[j]][h] # Nobody /\ Dead(reapers[seen[j]][h]) /\ seen[j] \in Tokens
      BY <1>1, <2>2, <2>9, <3>1 DEF ReapersDead, TargetDead, Born
    <3>3. ~(seen[j] = t /\ h = g) BY <1>4, <3>2
    <3>4. QED BY <2>2, <2>3, <3>2, <3>3 DEF Dead
  <2>10. ReapersDead' BY <2>8, <2>9 DEF ReapersDead, Dead
  <2>11. ASSUME NEW j \in Tokens
         PROVE  (/\ step[j] = "rival" => reapers[seen[j]][gen[j]] # Nobody
                 /\ step[j] \in Elected => reapers[seen[j]][gen[j]] = j)'
    <3>1. CASE j = i BY <2>2, <2>3, <3>1
    <3>2. CASE j # i /\ step[j] \in {"rival"} \cup Elected
      <4>1. seen[j] \in Tokens /\ gen[j] \in Generations /\ reapers[seen[j]][gen[j]] # Nobody
        BY <1>1, <3>2 DEF TargetDead, Recorded, Reaping, Born, TypeOK, Tokens, Nobody
      <4>2. ~(seen[j] = t /\ gen[j] = g) BY <1>4, <4>1
      <4>3. QED BY <1>1, <2>2, <2>3, <3>2, <4>1, <4>2 DEF Recorded
    <3>3. CASE j # i /\ step[j] \notin {"rival"} \cup Elected BY <2>2, <3>3
    <3>4. QED BY <3>1, <3>2, <3>3
  <2>12. Recorded' BY <2>11 DEF Recorded
  <2>13. Aimed' BY <1>1, <2>2 DEF Aimed
  <2>14. OneHolder' BY <1>1, <2>1, <2>2 DEF OneHolder
  <2>15. QED BY <2>4, <2>5, <2>6, <2>7, <2>10, <2>12, <2>13, <2>14 DEF LeaseInv
<1>5. QED BY <1>3, <1>4

(* A new process is in no file yet.                                        *)
LEMMA BeginStep ==
  ASSUME LeaseInv, NEW i \in Tokens, Start(i) \/ Fork(i)
  PROVE  LeaseInv'
<1> USE DEF Goto
<1>1. TypeOK /\ BootKnown /\ RecordsKnown /\ TargetDead /\ ReapersDead /\ Recorded /\ Aimed /\ OneHolder
  BY DEF LeaseInv
<1>2. PICK p \in Pids, by \in Tokens \cup {Nobody} : Begin(i, p, by) BY DEF Start, Fork, Live
<1>3. PICK s \in {"guard", "authorize"} : step' = [step EXCEPT ![i] = s] BY <1>2 DEF Begin
<1>4. /\ step[i] = "unborn" /\ s \in Steps \ {"unborn", "dead", "look", "rival"}
      /\ s \notin Reaping \cup Elected \cup Owning \cup {"recheck", "unlink"}
      /\ pid' = [pid EXCEPT ![i] = p] /\ since' = [since EXCEPT ![i] = boot]
      /\ parent' = [parent EXCEPT ![i] = by]
      /\ UNCHANGED <<boot, seen, gen, lease, reapers>>
  BY <1>2
  DEF Begin, Steps, Guarding, Delegated, Owning, Confirming, Leaving, Reaping, Elected
<1>5. /\ \A j \in Tokens \ {i} : step'[j] = step[j] /\ Place(j)' = Place(j) /\ since'[j] = since[j]
      /\ step'[i] = s /\ since'[i] = boot
      /\ Born' = Born \cup {i} /\ Live' = Live \cup {i}
      /\ \A j \in Tokens : Dead(j)' <=> Dead(j)
  BY <1>1, <1>3, <1>4 DEF TypeOK, Born, Live, Dead, Place
<1>6. TypeOK' BY <1>1, <1>3, <1>4 DEF TypeOK
<1>7. BootKnown' BY <1>1, <1>4, <1>5 DEF BootKnown, Live
<1>8. RecordsKnown' BY <1>1, <1>4, <1>5 DEF RecordsKnown
<1>9. TargetDead' BY <1>1, <1>4, <1>5 DEF TargetDead, Born
<1>10. ReapersDead'
  <2>1. \A t \in Tokens, g \in Generations : reapers[t][g] \in Tokens \cup {Nobody} BY <1>1 DEF TypeOK
  <2>2. \A j \in Tokens : step'[j] \in Reaping => step[j] \in Reaping /\ seen[j] \in Tokens
    BY <1>1, <1>4, <1>5 DEF TargetDead, Born
  <2>3. QED BY <1>1, <1>4, <1>5, <2>1, <2>2 DEF ReapersDead, Dead
<1>11. Recorded' BY <1>1, <1>4, <1>5 DEF Recorded
<1>12. Aimed' BY <1>1, <1>4, <1>5 DEF Aimed
<1>13. OneHolder' BY <1>1, <1>4, <1>5 DEF OneHolder
<1>14. QED BY <1>6, <1>7, <1>8, <1>9, <1>10, <1>11, <1>12, <1>13 DEF LeaseInv

(* A reboot leaves records of the dead only.                               *)
LEMMA RebootStep ==
  ASSUME LeaseInv, Reboot
  PROVE  LeaseInv'
<1>1. TypeOK /\ RecordsKnown /\ ReapersDead BY DEF LeaseInv
<1>2. /\ \A j \in Tokens : step'[j] \in {"unborn", "dead"}
      /\ \A j \in Tokens : step[j] \in {"unborn", "dead"} => step'[j] = step[j]
      /\ Born' = Born /\ Live' = {}
      /\ \A j \in Tokens : Dead(j) => Dead(j)'
      /\ lease' = lease /\ reapers' = reapers
  BY <1>1 DEF Reboot, TypeOK, Live, Born, Dead
<1>3. TypeOK'
  <2>1. 1 \in Generations BY GenerationsAssumption DEF Generations
  <2>2. boot' \in 0 .. MaxBoots BY <1>1, BoundsAssumption DEF Reboot, TypeOK
  <2>3. step' \in [Tokens -> Steps] BY <1>1 DEF Reboot, TypeOK, Steps
  <2>4. QED BY <1>1, <2>1, <2>2, <2>3 DEF Reboot, TypeOK
<1>4. BootKnown' BY <1>2 DEF BootKnown
<1>5. RecordsKnown' BY <1>1, <1>2 DEF RecordsKnown
<1>6. \A j \in Tokens : step'[j] \notin {"look", "rival", "recheck", "unlink"} \cup Reaping \cup Elected \cup Owning
  BY <1>2 DEF Reaping, Elected, Owning, Confirming, Leaving
<1>7. TargetDead' BY <1>6 DEF TargetDead
<1>8. ReapersDead'
  <2>1. \A t \in Tokens, g \in Generations : reapers[t][g] \in Tokens \cup {Nobody} BY <1>1 DEF TypeOK
  <2>2. QED BY <1>1, <1>2, <1>6, <2>1 DEF ReapersDead, Dead
<1>9. Recorded' BY <1>6 DEF Recorded
<1>10. Aimed' BY <1>6 DEF Aimed
<1>11. OneHolder' BY <1>6 DEF OneHolder
<1>12. QED BY <1>3, <1>4, <1>5, <1>7, <1>8, <1>9, <1>10, <1>11 DEF LeaseInv

LEMMA InvInit == Init => LeaseInv
<1> SUFFICES ASSUME Init PROVE LeaseInv OBVIOUS
<1>1. /\ \A j \in Tokens : step[j] = "unborn"
      /\ \A t \in Tokens, g \in Generations : reapers[t][g] = Nobody
      /\ \A q \in Places : lease[q] = Nobody
  BY DEF Init
<1>2. TypeOK
  <2>1. 1 \in Generations BY GenerationsAssumption DEF Generations
  <2>2. 0 \in 0 .. MaxBoots BY BoundsAssumption
  <2>3. (CHOOSE p \in Pids : TRUE) \in Pids BY PidsAssumption
  <2>4. QED BY <2>1, <2>2, <2>3 DEF Init, TypeOK, Steps
<1>3. /\ Live = {}
      /\ \A j \in Tokens : step[j] \notin {"look", "rival", "recheck", "unlink"} \cup Reaping \cup Elected \cup Owning
  BY <1>1 DEF Live, Reaping, Elected, Owning, Confirming, Leaving
<1>4. QED
  BY <1>1, <1>2, <1>3
  DEF LeaseInv, BootKnown, RecordsKnown, TargetDead, ReapersDead, Recorded, Aimed, OneHolder

LEMMA InvNext == LeaseInv /\ [Next]_vars => LeaseInv'
<1> SUFFICES ASSUME LeaseInv, [Next]_vars PROVE LeaseInv' OBVIOUS
<1>1. ASSUME NEW i \in Tokens, Acquire(i) PROVE LeaseInv'
  BY <1>1, GuardSteps, HolderSteps, ContenderSteps, LinkStep, ElectStep, RemovalSteps DEF Acquire
<1>2. ASSUME NEW i \in Tokens, Release(i) PROVE LeaseInv'
  BY <1>2, HolderSteps, RemovalSteps DEF Release
<1>3. ASSUME NEW i \in Tokens, Start(i) \/ Fork(i) PROVE LeaseInv' BY <1>3, BeginStep
<1>4. ASSUME NEW i \in Tokens, Die(i) PROVE LeaseInv' BY <1>4, GuardSteps
<1>5. CASE Reboot BY <1>5, RebootStep
<1>6. CASE UNCHANGED vars
  BY <1>6
  DEF vars, LeaseInv, TypeOK, BootKnown, RecordsKnown, TargetDead, ReapersDead, Recorded, Aimed,
      OneHolder, Born, Live, Dead, Place
<1>7. QED BY <1>1, <1>2, <1>3, <1>4, <1>5, <1>6 DEF Next

(* The inductive invariant: of one dead owner's reapers at most one lives, *)
(* and what it removes is that owner's file (retireDeadOwner, 306-318).    *)
THEOREM LeaseInvHolds == Spec => []LeaseInv
<1>1. QED BY InvInit, InvNext, PTL DEF Spec

(* No two live processes ever hold the same lease, whatever dies, reboots  *)
(* or takes over a pid in between (acquireDataDirLeaseInternal, 443-495).  *)
THEOREM OneHolderHolds == Spec => []OneHolder
<1>1. LeaseInv => OneHolder BY DEF LeaseInv
<1>2. QED BY <1>1, LeaseInvHolds, PTL
=============================================================================
