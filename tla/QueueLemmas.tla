----------------------------- MODULE QueueLemmas -----------------------------
(***************************************************************************)
(* What the operations of a queue do to its elements, to their being all   *)
(* different and to their order: the bot's and the room's follow-up queues *)
(* are arrays that are pushed, filtered, shifted and put back in front.    *)
(***************************************************************************)
EXTENDS Integers, SequencesExt, SequenceTheorems, TLAPS

(* The queue without the element a filter takes out *)
Removed(s, x) == IF x \in ToSet(s)
                 THEN RemoveAt(s, CHOOSE k \in DOMAIN s : s[k] = x)
                 ELSE s

(* Queue ids are issued in rising order: a rising queue is in the order of *)
(* acceptance.                                                             *)
Rising(s) == \A a, b \in DOMAIN s : a < b => s[a] < s[b]

(* What Append, concatenation and the removal of one element do to the     *)
(* elements of a queue and to their being all different.                   *)
LEMMA AppendElements ==
  ASSUME NEW S, NEW s \in Seq(S), NEW x \in S
  PROVE  /\ Append(s, x) \in Seq(S)
         /\ ToSet(Append(s, x)) = ToSet(s) \cup {x}
         /\ IsInjective(s) /\ x \notin ToSet(s) => IsInjective(Append(s, x))
BY SMTT(20) DEF ToSet, IsInjective

(* Two queues put together hold the elements of both.                     *)
LEMMA ConcatElements ==
  ASSUME NEW S, NEW s \in Seq(S), NEW r \in Seq(S)
  PROVE  /\ s \o r \in Seq(S)
         /\ ToSet(s \o r) = ToSet(s) \cup ToSet(r)
         /\ IsInjective(s) /\ IsInjective(r) /\ ToSet(s) \cap ToSet(r) = {} => IsInjective(s \o r)
<1>1. s \o r \in Seq(S) /\ Len(s \o r) = Len(s) + Len(r) OBVIOUS
<1>2. \A k \in 1..Len(s) : (s \o r)[k] = s[k] OBVIOUS
<1>3. \A k \in 1..Len(r) : (s \o r)[Len(s) + k] = r[k] OBVIOUS
<1>4. ToSet(s \o r) = ToSet(s) \cup ToSet(r)
  <2>1. ASSUME NEW k \in 1..(Len(s) + Len(r)) PROVE (s \o r)[k] \in ToSet(s) \cup ToSet(r)
    <3>1. CASE k <= Len(s) BY <3>1, <1>2 DEF ToSet
    <3>2. CASE k > Len(s)
      <4>1. k - Len(s) \in 1..Len(r) /\ k = Len(s) + (k - Len(s)) BY <3>2
      <4>2. QED BY <4>1, <1>3 DEF ToSet
    <3>3. QED BY <3>1, <3>2
  <2>2. ASSUME NEW k \in 1..Len(s) PROVE s[k] \in ToSet(s \o r) BY <1>1, <1>2 DEF ToSet
  <2>3. ASSUME NEW k \in 1..Len(r) PROVE r[k] \in ToSet(s \o r) BY <1>1, <1>3 DEF ToSet
  <2>4. ToSet(s \o r) \subseteq ToSet(s) \cup ToSet(r)
    <3>1. ToSet(s \o r) = {(s \o r)[k] : k \in 1..(Len(s) + Len(r))} BY <1>1 DEF ToSet
    <3>2. QED BY <3>1, <2>1
  <2>5. ToSet(s) \subseteq ToSet(s \o r)
    <3>1. ToSet(s) = {s[k] : k \in 1..Len(s)} BY DEF ToSet
    <3>2. QED BY <3>1, <2>2
  <2>6. ToSet(r) \subseteq ToSet(s \o r)
    <3>1. ToSet(r) = {r[k] : k \in 1..Len(r)} BY DEF ToSet
    <3>2. QED BY <3>1, <2>3
  <2>7. QED BY <2>4, <2>5, <2>6
<1>5. ASSUME IsInjective(s), IsInjective(r), ToSet(s) \cap ToSet(r) = {}
      PROVE  IsInjective(s \o r)
  <2>1. SUFFICES ASSUME NEW a \in 1..(Len(s) + Len(r)), NEW b \in 1..(Len(s) + Len(r)),
                        (s \o r)[a] = (s \o r)[b], a < b
                 PROVE  FALSE
    BY <1>1 DEF IsInjective
  <2>2. CASE b <= Len(s) BY <2>1, <2>2, <1>2, <1>5 DEF IsInjective
  <2>3. CASE a > Len(s)
    <3>1. a - Len(s) \in 1..Len(r) /\ b - Len(s) \in 1..Len(r) BY <2>1, <2>3
    <3>2. (s \o r)[a] = r[a - Len(s)] /\ (s \o r)[b] = r[b - Len(s)] BY <3>1, <1>3
    <3>3. QED BY <3>1, <3>2, <2>1, <1>5 DEF IsInjective
  <2>4. CASE a <= Len(s) /\ b > Len(s)
    <3>1. b - Len(s) \in 1..Len(r) BY <2>4
    <3>2. (s \o r)[a] = s[a] /\ (s \o r)[b] = r[b - Len(s)] BY <3>1, <2>4, <1>2, <1>3
    <3>3. QED BY <3>1, <3>2, <2>1, <2>4, <1>5 DEF ToSet
  <2>5. QED BY <2>2, <2>3, <2>4, <2>1
<1>6. QED BY <1>1, <1>4, <1>5

(* Removing an element moves those behind it up by one.                    *)
LEMMA RemovedItems ==
  ASSUME NEW S, NEW s \in Seq(S), NEW x \in ToSet(s)
  PROVE  /\ Removed(s, x) \in Seq(S) /\ Len(Removed(s, x)) = Len(s) - 1
         /\ \E k \in 1..Len(s) : s[k] = x /\ \A j \in 1..(Len(s) - 1) :
              /\ j < k => Removed(s, x)[j] = s[j]
              /\ j >= k => Removed(s, x)[j] = s[j + 1]
<1> DEFINE k == CHOOSE j \in DOMAIN s : s[j] = x
           r == RemoveAt(s, k)
<1>1. k \in 1..Len(s) /\ s[k] = x BY DEF ToSet
<1>2. Removed(s, x) = r BY DEF Removed
<1> HIDE DEF k
<1> DEFINE p == SubSeq(s, 1, k-1)
           q == SubSeq(s, k+1, Len(s))
<1>3. p \in Seq(S) /\ Len(p) = k - 1 /\ \A j \in 1..(k-1) : p[j] = s[j]
  BY <1>1, SubSeqProperties
<1>4. q \in Seq(S) /\ Len(q) = Len(s) - k /\ \A j \in 1..(Len(s) - k) : q[j] = s[k + j]
  BY <1>1, SubSeqProperties
<1>5. r = p \o q BY DEF RemoveAt
<1> HIDE DEF p, q, r
<1>6. r \in Seq(S) /\ Len(r) = Len(s) - 1 BY <1>1, <1>3, <1>4, <1>5
<1>7. ASSUME NEW j \in 1..(Len(s) - 1)
      PROVE  (j < k => r[j] = s[j]) /\ (j >= k => r[j] = s[j + 1])
  <2>1. CASE j < k
    <3>1. j \in 1..Len(p) BY <2>1, <1>1, <1>3
    <3>2. r[j] = p[j] BY <3>1, <1>3, <1>4, <1>5
    <3>3. QED BY <3>2, <2>1, <1>1, <1>3
  <2>2. CASE j >= k
    <3>1. j - Len(p) \in 1..Len(q) /\ j = Len(p) + (j - Len(p)) /\ k + (j - Len(p)) = j + 1
      BY <2>2, <1>1, <1>3, <1>4
    <3>2. r[j] = q[j - Len(p)] BY <3>1, <1>3, <1>4, <1>5
    <3>3. QED BY <3>1, <3>2, <2>2, <1>1, <1>4
  <2>3. QED BY <2>1, <2>2, <1>1
<1>8. QED BY <1>1, <1>2, <1>6, <1>7

(* Removing an element leaves the others in their order, and leaves it out *)
(* if it was there once.                                                   *)
LEMMA RemovedElements ==
  ASSUME NEW S, NEW s \in Seq(S), NEW x
  PROVE  /\ Removed(s, x) \in Seq(S)
         /\ ToSet(Removed(s, x)) \subseteq ToSet(s)
         /\ IsInjective(s) => /\ ToSet(Removed(s, x)) = ToSet(s) \ {x}
                              /\ IsInjective(Removed(s, x))
         /\ Rising(s) => Rising(Removed(s, x))
<1>1. CASE x \notin ToSet(s) BY <1>1 DEF Removed
<1>2. CASE x \in ToSet(s)
  <2> DEFINE r == Removed(s, x)
  <2>2. r \in Seq(S) /\ Len(r) = Len(s) - 1 BY <1>2, RemovedItems
  <2>3. PICK k \in 1..Len(s) : s[k] = x /\ \A j \in 1..(Len(s) - 1) :
              (j < k => r[j] = s[j]) /\ (j >= k => r[j] = s[j + 1])
    BY <1>2, RemovedItems
  <2> HIDE DEF r
  <2>1. k \in 1..Len(s) /\ s[k] = x BY <2>3
  <2>5. r \in Seq(S) /\ Len(r) = Len(s) - 1 BY <2>2
  <2>6. ASSUME NEW j \in 1..(Len(s) - 1)
        PROVE  (j < k => r[j] = s[j]) /\ (j >= k => r[j] = s[j + 1])
    BY <2>3
  <2>7. ToSet(r) \subseteq ToSet(s)
    <3>1. SUFFICES ASSUME NEW j \in 1..(Len(s) - 1) PROVE r[j] \in ToSet(s) BY <2>5 DEF ToSet
    <3>2. j \in DOMAIN s /\ j + 1 \in DOMAIN s OBVIOUS
    <3>3. r[j] = s[j] \/ r[j] = s[j + 1] BY <2>6, <2>1
    <3>4. QED BY <3>2, <3>3 DEF ToSet
  <2>8. ASSUME IsInjective(s) PROVE ToSet(r) = ToSet(s) \ {x} /\ IsInjective(r)
    <3>1. ASSUME NEW j \in 1..(Len(s) - 1) PROVE r[j] # x
      BY <2>1, <2>6, <2>8 DEF IsInjective
    <3>2. ASSUME NEW j \in 1..Len(s), s[j] # x PROVE s[j] \in ToSet(r)
      <4>1. CASE j < k
        <5>1. j \in 1..(Len(s) - 1) BY <4>1, <2>1
        <5>2. r[j] = s[j] BY <5>1, <4>1, <2>6
        <5>3. QED BY <5>1, <5>2, <2>5 DEF ToSet
      <4>2. CASE j > k
        <5>1. j - 1 \in 1..(Len(s) - 1) /\ j - 1 >= k /\ (j - 1) + 1 = j BY <4>2, <2>1
        <5>2. r[j - 1] = s[(j - 1) + 1] BY <5>1, <2>6
        <5>3. r[j - 1] = s[j] BY <5>1, <5>2
        <5>4. QED BY <5>1, <5>3, <2>5 DEF ToSet
      <4>3. QED BY <4>1, <4>2, <3>2, <2>1
    <3>3. IsInjective(r)
      <4>1. SUFFICES ASSUME NEW a \in 1..(Len(s) - 1), NEW b \in 1..(Len(s) - 1), r[a] = r[b], a < b
                     PROVE  FALSE
        BY <2>5 DEF IsInjective
      <4>2. /\ a < k => r[a] = s[a]
            /\ a >= k => r[a] = s[a + 1]
            /\ b < k => r[b] = s[b]
            /\ b >= k => r[b] = s[b + 1]
        BY <2>6
      <4>3. CASE b < k
        BY <4>1, <4>2, <4>3, <2>1, <2>8 DEF IsInjective
      <4>4. CASE a >= k
        <5>1. r[a] = s[a + 1] /\ r[b] = s[b + 1] BY <4>1, <4>2, <4>4, <2>1
        <5>2. a + 1 \in DOMAIN s /\ b + 1 \in DOMAIN s BY <4>1
        <5>3. a + 1 = b + 1 BY <5>1, <5>2, <4>1, <2>8 DEF IsInjective
        <5>4. QED BY <5>3, <4>1
      <4>5. CASE a < k /\ b >= k
        <5>1. r[a] = s[a] /\ r[b] = s[b + 1] BY <4>1, <4>2, <4>5, <2>1
        <5>2. a \in DOMAIN s /\ b + 1 \in DOMAIN s BY <4>1
        <5>3. a = b + 1 BY <5>1, <5>2, <4>1, <2>8 DEF IsInjective
        <5>4. QED BY <5>3, <4>1
      <4>6. QED BY <4>3, <4>4, <4>5, <2>1
    <3>4. ToSet(r) = ToSet(s) \ {x}
      <4>1. ToSet(r) = {r[j] : j \in 1..(Len(s) - 1)} BY <2>5 DEF ToSet
      <4>2. x \notin ToSet(r) BY <3>1, <4>1
      <4>3. ToSet(s) = {s[j] : j \in 1..Len(s)} BY DEF ToSet
      <4>4. ToSet(s) \ {x} \subseteq ToSet(r) BY <3>2, <4>3
      <4>5. QED BY <2>7, <4>2, <4>4
    <3>5. QED BY <3>3, <3>4
  <2>9. ASSUME Rising(s) PROVE Rising(r)
    <3>1. SUFFICES ASSUME NEW a \in 1..(Len(s) - 1), NEW b \in 1..(Len(s) - 1), a < b
                   PROVE  r[a] < r[b]
      BY <2>5 DEF Rising
    <3>2. /\ a < k => r[a] = s[a]
          /\ a >= k => r[a] = s[a + 1]
          /\ b < k => r[b] = s[b]
          /\ b >= k => r[b] = s[b + 1]
      BY <2>6
    <3>3. a \in DOMAIN s /\ a + 1 \in DOMAIN s /\ b \in DOMAIN s /\ b + 1 \in DOMAIN s
      OBVIOUS
    <3>4. s[a] < s[b] /\ s[a + 1] < s[b + 1] /\ s[a] < s[b + 1] BY <3>1, <3>3, <2>9 DEF Rising
    <3>5. CASE b < k BY <3>1, <3>2, <3>4, <3>5, <2>1
    <3>6. CASE a >= k BY <3>1, <3>2, <3>4, <3>6, <2>1
    <3>7. CASE a < k /\ b >= k BY <3>2, <3>4, <3>7
    <3>8. QED BY <3>5, <3>6, <3>7, <2>1
  <2>10. QED BY <2>5, <2>7, <2>8, <2>9 DEF r
<1>3. QED BY <1>1, <1>2

(* Shifting the first element off leaves the others, and leaves it out if  *)
(* it was there once.                                                      *)
LEMMA TailElements ==
  ASSUME NEW S, NEW s \in Seq(S), s # <<>>
  PROVE  /\ Tail(s) \in Seq(S) /\ Head(s) \in S
         /\ Len(Tail(s)) = Len(s) - 1 /\ (Tail(s) = <<>> <=> Len(s) = 1)
         /\ ToSet(s) = {Head(s)} \cup ToSet(Tail(s))
         /\ IsInjective(s) => IsInjective(Tail(s)) /\ Head(s) \notin ToSet(Tail(s))
         /\ Rising(s) => Rising(Tail(s)) /\ \A i \in ToSet(Tail(s)) : Head(s) < i
<1>1. /\ Len(s) \in Nat \ {0} /\ Tail(s) \in Seq(S) /\ Len(Tail(s)) = Len(s) - 1
      /\ Head(s) = s[1] /\ Head(s) \in S
  OBVIOUS
<1>2. \A k \in 1..(Len(s) - 1) : Tail(s)[k] = s[k + 1] OBVIOUS
<1> DEFINE r == Tail(s)
<1>3. r \in Seq(S) /\ Len(r) = Len(s) - 1 /\ \A k \in 1..(Len(s) - 1) : r[k] = s[k + 1]
  BY <1>1, <1>2
<1> HIDE DEF r
<1>4. ToSet(r) = {s[k] : k \in 2..Len(s)}
  <2>1. ASSUME NEW k \in 1..(Len(s) - 1) PROVE r[k] \in {s[j] : j \in 2..Len(s)}
    <3>1. k + 1 \in 2..Len(s) BY <1>1
    <3>2. QED BY <3>1, <1>3
  <2>2. ASSUME NEW k \in 2..Len(s) PROVE s[k] \in ToSet(r)
    <3>1. k - 1 \in 1..(Len(s) - 1) /\ (k - 1) + 1 = k BY <1>1
    <3>2. r[k - 1] = s[(k - 1) + 1] BY <3>1, <1>3
    <3>3. r[k - 1] = s[k] BY <3>1, <3>2
    <3>4. QED BY <3>1, <3>3, <1>3 DEF ToSet
  <2>3. ToSet(r) = {r[k] : k \in 1..(Len(s) - 1)} BY <1>1, <1>3 DEF ToSet
  <2>4. QED BY <2>1, <2>2, <2>3
<1>5. ToSet(s) = {s[1]} \cup ToSet(r)
  <2>1. ToSet(s) = {s[k] : k \in 1..Len(s)} BY DEF ToSet
  <2>2. 1..Len(s) = {1} \cup 2..Len(s) BY <1>1
  <2>3. QED BY <2>1, <2>2, <1>4
<1>6. ASSUME IsInjective(s) PROVE IsInjective(r) /\ s[1] \notin ToSet(r)
  <2>1. s[1] \notin ToSet(r)
    <3>1. SUFFICES ASSUME NEW k \in 2..Len(s), s[k] = s[1] PROVE FALSE BY <1>4
    <3>2. k \in DOMAIN s /\ 1 \in DOMAIN s /\ k # 1 BY <1>1
    <3>3. QED BY <3>1, <3>2, <1>6 DEF IsInjective
  <2>2. IsInjective(r)
    <3>1. SUFFICES ASSUME NEW a \in 1..(Len(s) - 1), NEW b \in 1..(Len(s) - 1), r[a] = r[b]
                   PROVE  a = b
      BY <1>1, <1>3 DEF IsInjective
    <3>2. a + 1 \in DOMAIN s /\ b + 1 \in DOMAIN s /\ s[a + 1] = s[b + 1] BY <3>1, <1>1, <1>3
    <3>3. a + 1 = b + 1 BY <3>2, <1>6 DEF IsInjective
    <3>4. QED BY <3>3
  <2>3. QED BY <2>1, <2>2
<1>7. ASSUME Rising(s) PROVE Rising(r) /\ \A i \in ToSet(r) : s[1] < i
  <2>1. ASSUME NEW k \in 2..Len(s) PROVE s[1] < s[k]
    <3>1. k \in DOMAIN s /\ 1 \in DOMAIN s /\ 1 < k BY <1>1
    <3>2. QED BY <3>1, <1>7 DEF Rising
  <2>2. Rising(r)
    <3>1. SUFFICES ASSUME NEW a \in 1..(Len(s) - 1), NEW b \in 1..(Len(s) - 1), a < b
                   PROVE  r[a] < r[b]
      BY <1>1, <1>3 DEF Rising
    <3>2. a + 1 \in DOMAIN s /\ b + 1 \in DOMAIN s /\ a + 1 < b + 1 BY <3>1, <1>1
    <3>3. s[a + 1] < s[b + 1] BY <3>2, <1>7 DEF Rising
    <3>4. QED BY <3>1, <3>3, <1>3
  <2>3. QED BY <2>1, <2>2, <1>4
<1>8. r = <<>> <=> Len(s) = 1 BY <1>1, <1>3, EmptySeq
<1>9. QED BY <1>1, <1>5, <1>6, <1>7, <1>8 DEF r

(* A new element that is above all others keeps the order.                 *)
LEMMA RisingAppend ==
  ASSUME NEW s \in Seq(Nat), NEW x \in Nat, Rising(s), \A i \in ToSet(s) : i < x
  PROVE  Rising(Append(s, x))
<1> DEFINE r == Append(s, x)
<1>1. Len(r) = Len(s) + 1 /\ r \in Seq(Nat) /\ r[Len(s) + 1] = x
      /\ \A k \in 1..Len(s) : r[k] = s[k] /\ s[k] < x
  BY DEF ToSet
<1> HIDE DEF r
<1>2. SUFFICES ASSUME NEW a \in 1..(Len(s) + 1), NEW b \in 1..(Len(s) + 1), a < b
               PROVE  r[a] < r[b]
  BY <1>1 DEF Rising, r
<1>3. a \in 1..Len(s) BY <1>2
<1>4. CASE b <= Len(s)
  <2>1. b \in 1..Len(s) BY <1>4
  <2>2. s[a] < s[b] BY <1>2, <1>3, <2>1 DEF Rising
  <2>3. QED BY <2>1, <2>2, <1>1, <1>3
<1>5. CASE b = Len(s) + 1 BY <1>1, <1>3, <1>5
<1>6. QED BY <1>4, <1>5

(* So does a queue put in front of one whose elements are all above its    *)
(* own: a hold that is put back.                                           *)
LEMMA RisingConcat ==
  ASSUME NEW s \in Seq(Nat), NEW r \in Seq(Nat), Rising(s), Rising(r),
         \A i \in ToSet(s) : \A j \in ToSet(r) : i < j
  PROVE  Rising(s \o r)
<1> DEFINE q == s \o r
<1>1. q \in Seq(Nat) /\ Len(q) = Len(s) + Len(r) OBVIOUS
<1>2. \A k \in 1..Len(s) : q[k] = s[k] OBVIOUS
<1>3. \A k \in 1..Len(r) : q[Len(s) + k] = r[k] OBVIOUS
<1> HIDE DEF q
<1>4. SUFFICES ASSUME NEW a \in 1..(Len(s) + Len(r)), NEW b \in 1..(Len(s) + Len(r)), a < b
               PROVE  q[a] < q[b]
  BY <1>1 DEF Rising, q
<1>5. CASE b <= Len(s)
  <2>1. a \in 1..Len(s) /\ b \in 1..Len(s) BY <1>4, <1>5
  <2>2. s[a] < s[b] BY <1>4, <2>1 DEF Rising
  <2>3. QED BY <2>1, <2>2, <1>2
<1>6. CASE a > Len(s)
  <2>1. a - Len(s) \in 1..Len(r) /\ b - Len(s) \in 1..Len(r) /\ a - Len(s) < b - Len(s)
    BY <1>4, <1>6
  <2>2. r[a - Len(s)] < r[b - Len(s)] BY <2>1 DEF Rising
  <2>3. q[Len(s) + (a - Len(s))] = r[a - Len(s)] /\ q[Len(s) + (b - Len(s))] = r[b - Len(s)]
    BY <2>1, <1>3
  <2>4. Len(s) + (a - Len(s)) = a /\ Len(s) + (b - Len(s)) = b OBVIOUS
  <2>5. QED BY <2>2, <2>3, <2>4
<1>7. CASE a <= Len(s) /\ b > Len(s)
  <2>1. a \in 1..Len(s) /\ b - Len(s) \in 1..Len(r) /\ Len(s) + (b - Len(s)) = b BY <1>7
  <2>2. q[a] = s[a] /\ q[Len(s) + (b - Len(s))] = r[b - Len(s)] BY <2>1, <1>2, <1>3
  <2>3. s[a] \in ToSet(s) /\ r[b - Len(s)] \in ToSet(r) BY <2>1 DEF ToSet
  <2>4. QED BY <2>1, <2>2, <2>3
<1>8. QED BY <1>5, <1>6, <1>7, <1>4

(* A rising queue holds nothing twice.                                     *)
LEMMA RisingInjective ==
  ASSUME NEW s \in Seq(Nat), Rising(s)
  PROVE  IsInjective(s)
<1>1. SUFFICES ASSUME NEW a \in 1..Len(s), NEW b \in 1..Len(s), s[a] = s[b], a < b PROVE FALSE
  BY DEF IsInjective
<1>2. s[a] < s[b] /\ s[a] \in Nat BY <1>1 DEF Rising
<1>3. QED BY <1>1, <1>2

-----------------------------------------------------------------------------
(* Who stands before whom in a line without repetitions                    *)

(* One thing stands somewhere before another.                              *)
Precedes(s, a, b) == \E j, k \in DOMAIN s : j < k /\ s[j] = a /\ s[k] = b

(* A newcomer at the end gets before nobody.                               *)
LEMMA AppendOrder ==
  ASSUME NEW S, NEW s \in Seq(S), NEW x \in S, x \notin ToSet(s), NEW a, NEW b \in ToSet(s),
         Precedes(Append(s, x), a, b)
  PROVE  Precedes(s, a, b)
<1> DEFINE r == Append(s, x)
<1>1. Len(r) = Len(s) + 1 /\ r \in Seq(S) /\ r[Len(s) + 1] = x /\ \A k \in 1..Len(s) : r[k] = s[k]
  OBVIOUS
<1> HIDE DEF r
<1>2. PICK j \in 1..(Len(s) + 1), k \in 1..(Len(s) + 1) : j < k /\ r[j] = a /\ r[k] = b
  BY <1>1 DEF Precedes, r
<1>3. k # Len(s) + 1 BY <1>1, <1>2
<1>4. j \in 1..Len(s) /\ k \in 1..Len(s) BY <1>2, <1>3
<1>5. s[j] = a /\ s[k] = b BY <1>1, <1>2, <1>4
<1>6. QED BY <1>2, <1>4, <1>5 DEF Precedes

(* Who leaves lets nobody overtake another.                                *)
LEMMA RemovedOrder ==
  ASSUME NEW S, NEW s \in Seq(S), NEW x, NEW a, NEW b, Precedes(Removed(s, x), a, b)
  PROVE  Precedes(s, a, b)
<1>1. CASE x \notin ToSet(s) BY <1>1 DEF Removed
<1>2. CASE x \in ToSet(s)
  <2> DEFINE r == Removed(s, x)
  <2>1. r \in Seq(S) /\ Len(r) = Len(s) - 1 BY <1>2, RemovedItems
  <2>2. PICK n \in 1..Len(s) : \A j \in 1..(Len(s) - 1) :
              (j < n => r[j] = s[j]) /\ (j >= n => r[j] = s[j + 1])
    BY <1>2, RemovedItems
  <2> HIDE DEF r
  <2>3. PICK j \in 1..(Len(s) - 1), k \in 1..(Len(s) - 1) : j < k /\ r[j] = a /\ r[k] = b
    BY <2>1 DEF Precedes, r
  <2>4. (j < n => s[j] = a) /\ (j >= n => s[j + 1] = a) BY <2>2, <2>3
  <2>5. (k < n => s[k] = b) /\ (k >= n => s[k + 1] = b) BY <2>2, <2>3
  <2>6. j \in DOMAIN s /\ j + 1 \in DOMAIN s /\ k \in DOMAIN s /\ k + 1 \in DOMAIN s OBVIOUS
  <2>7. CASE k < n
    <3>1. j < n BY <2>3, <2>7
    <3>2. QED BY <2>3, <2>4, <2>5, <2>6, <2>7, <3>1 DEF Precedes
  <2>8. CASE k >= n
    <3>1. s[k + 1] = b /\ j < k + 1 /\ j + 1 < k + 1 BY <2>3, <2>5, <2>8
    <3>2. s[j] = a \/ s[j + 1] = a BY <2>4
    <3>3. QED BY <2>6, <3>1, <3>2 DEF Precedes
  <2>9. QED BY <2>7, <2>8
<1>3. QED BY <1>1, <1>2

(* Who stands first has nobody before it, and when it has gone the others  *)
(* stand as they stood.                                                    *)
LEMMA TailOrder ==
  ASSUME NEW S, NEW s \in Seq(S), s # <<>>, NEW a, NEW b, Precedes(s, a, b)
  PROVE  /\ a = Head(s) \/ Precedes(Tail(s), a, b)
         /\ IsInjective(s) => b # Head(s)
<1>1. PICK j \in 1..Len(s), k \in 1..Len(s) : j < k /\ s[j] = a /\ s[k] = b BY DEF Precedes
<1>2. CASE j = 1
  <2>1. a = Head(s) BY <1>1, <1>2
  <2>2. IsInjective(s) => b # a BY <1>1 DEF IsInjective
  <2>3. QED BY <2>1, <2>2
<1>3. CASE j > 1
  <2>1. /\ Len(Tail(s)) = Len(s) - 1 /\ Tail(s) \in Seq(S)
        /\ \A i \in 1..(Len(s) - 1) : Tail(s)[i] = s[i + 1]
    OBVIOUS
  <2>2. j - 1 \in 1..(Len(s) - 1) /\ k - 1 \in 1..(Len(s) - 1) /\ j - 1 < k - 1
        /\ (j - 1) + 1 = j /\ (k - 1) + 1 = k
    BY <1>1, <1>3
  <2>3. Tail(s)[j - 1] = a /\ Tail(s)[k - 1] = b BY <1>1, <2>1, <2>2
  <2>4. j - 1 \in DOMAIN Tail(s) /\ k - 1 \in DOMAIN Tail(s) BY <2>1, <2>2
  <2>5. Precedes(Tail(s), a, b) BY <2>2, <2>3, <2>4 DEF Precedes
  <2>6. IsInjective(s) => b # Head(s)
    <3>1. 1 \in DOMAIN s /\ k \in DOMAIN s /\ k # 1 /\ Head(s) = s[1] BY <1>1
    <3>2. QED BY <1>1, <3>1 DEF IsInjective
  <2>7. QED BY <2>5, <2>6
<1>4. QED BY <1>2, <1>3
=============================================================================
