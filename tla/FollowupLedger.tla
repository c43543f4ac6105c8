--------------------------- MODULE FollowupLedger ---------------------------
(***************************************************************************)
(* What the harness promises about words it accepted for later: they wait, *)
(* one follow-up turn at most claims them, they are recorded only once     *)
(* they stand in the transcript, and cancelling is possible only while     *)
(* they wait. The promise behind the 202 of the send routes                *)
(* (server/message-db.ts, chat_followups).                                 *)
(***************************************************************************)
CONSTANT Ids      \* identities of accepted words

VARIABLES fate,   \* what has become of them
          said    \* whether they stand in the transcript

Fates == {"none", "waiting", "claimed", "recorded", "cancelled", "dropped"}

LedgerTypeOK == fate \in [Ids -> Fates] /\ said \in [Ids -> BOOLEAN]

Init == /\ fate = [i \in Ids |-> "none"]
        /\ said = [i \in Ids |-> FALSE]

Become(S, f) == fate' = [i \in Ids |-> IF i \in S THEN f ELSE fate[i]]

Having(F) == {i \in Ids : fate[i] \in F}

Accept(i) == fate[i] = "none" /\ Become({i}, "waiting") /\ UNCHANGED said

Cancel(i) == fate[i] = "waiting" /\ Become({i}, "cancelled") /\ UNCHANGED said

Claim(S) == S \subseteq Having({"waiting"}) /\ Become(S, "claimed") /\ UNCHANGED said

Say(i) == /\ i \in Having({"waiting", "claimed"})
          /\ said' = [said EXCEPT ![i] = TRUE]
          /\ UNCHANGED fate

Record(S) == /\ S \subseteq Having({"waiting", "claimed"})
             /\ \A i \in S : said[i]
             /\ Become(S, "recorded")
             /\ UNCHANGED said

Drop(S) == S \subseteq Ids \ Having({"none"}) /\ Become(S, "dropped") /\ UNCHANGED said

Next == \/ \E i \in Ids : Accept(i) \/ Cancel(i) \/ Say(i)
        \/ \E S \in SUBSET Ids : Claim(S) \/ Record(S) \/ Drop(S)

Spec == Init /\ [][Next]_<<fate, said>>
=============================================================================
