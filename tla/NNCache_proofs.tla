--------------------------- MODULE NNCache_proofs ---------------------------
(***************************************************************************)
(* Proofs about the NN cache, for all computations, hashes, addresses and  *)
(* capacities: the table is sound as a data structure, the pins are the    *)
(* locks, and it implements the ideal cache; and, at the end, about the    *)
(* ideal cache by itself.                                                  *)
(***************************************************************************)
EXTENDS NNCache, FiniteSetTheorems, FunctionTheorems, SequenceTheorems,
        WellFoundedInduction, TLAPS

-----------------------------------------------------------------------------
(* Induction on sets of natural numbers, and their least elements. *)

\* A set of natural numbers that is not empty has a least element.
LEMMA NatMin ==
  ASSUME NEW S, S \subseteq Nat, S # {}
  PROVE  \E n \in S : \A m \in S : n <= m
<1> DEFINE R == OpToRel(<, Nat)
<1>1. IsWellFoundedOn(R, Nat) BY NatLessThanWellFounded, Zenon
<1>2. \A m, n \in Nat : m < n => <<m, n>> \in R BY DEF OpToRel
<1> HIDE DEF R
<1>3. PICK n \in S : \A m \in S : ~ (<<m, n>> \in R) BY <1>1, WFMin, Zenon
<1>4. \A m \in S : ~ (m < n) BY <1>2, <1>3
<1>5. \A m \in S : m \in Nat BY Zenon
<1> QED BY <1>4, <1>5

\* The set form of induction on the natural numbers.
LEMMA NatSet ==
  ASSUME NEW Z, 0 \in Z, \A n \in Nat : n \in Z => n + 1 \in Z
  PROVE  Nat \subseteq Z
<1> SUFFICES ASSUME Nat \ Z # {} PROVE FALSE
  OBVIOUS
<1>1. PICK n \in Nat \ Z : \A m \in Nat \ Z : n <= m BY NatMin
<1>2. n # 0 /\ n - 1 \in Nat /\ ~ (n <= n - 1) BY <1>1
<1>3. n - 1 \in Z BY <1>1, <1>2
<1> QED BY <1>1, <1>2, <1>3

-----------------------------------------------------------------------------
(* Slots go round: distances along a probe. *)

\* The slot d places after h in a table of n slots.
Around(n, h, d) == IF h + d < n THEN h + d ELSE h + d - n

\* How many places b is after a.
Dist(n, a, b) == IF a <= b THEN b - a ELSE b - a + n

\* A probe that starts at h comes to j before it comes to i.
Before(n, h, j, i) == Dist(n, h, j) < Dist(n, h, i)

\* Division with remainder.
LEMMA ModIs ==
  ASSUME NEW k \in Nat, NEW n \in Nat \ {0}
  PROVE  k % n \in 0..(n - 1) /\ k = n * (k \div n) + (k % n)
OBVIOUS

\* The remainder is unique.
LEMMA ModUnique ==
  ASSUME NEW n \in Nat \ {0}, NEW q \in Int, NEW p \in Int,
         NEW r \in 0..(n - 1), NEW s \in 0..(n - 1), n * q + r = n * p + s
  PROVE  r = s
<1>1. n * (q - p) = s - r OBVIOUS
<1>2. CASE q - p = 0 BY <1>1, <1>2
<1>3. CASE q - p >= 1
  <2>1. n * (q - p) >= n BY <1>3
  <2> QED BY <1>1, <2>1
<1>4. CASE q - p <= -1
  <2>1. n * (q - p) <= -n BY <1>4
  <2> QED BY <1>1, <2>1
<1> QED BY <1>2, <1>3, <1>4

\* Adding to the key goes on from the slot that the key hashes to.
LEMMA ModAdd ==
  ASSUME NEW k \in Nat, NEW n \in Nat \ {0}, NEW d \in 0..(n - 1)
  PROVE  (k + d) % n = Around(n, k % n, d)
<1> DEFINE h == k % n q == k \div n m == k + d
<1>1. h \in 0..(n - 1) /\ k = n * q + h /\ q \in Int BY ModIs
<1>2. m % n \in 0..(n - 1) /\ m = n * (m \div n) + (m % n) /\ m \div n \in Int BY ModIs
<1> HIDE DEF h, q
<1>3. CASE h + d < n
  <2>1. n * (m \div n) + (m % n) = n * q + (h + d) BY <1>1, <1>2
  <2>2. h + d \in 0..(n - 1) BY <1>1, <1>3
  <2>3. m % n = h + d BY <1>1, <1>2, <2>1, <2>2, ModUnique
  <2> QED BY <2>3, <1>3 DEF Around, h
<1>4. CASE ~ (h + d < n)
  <2>1. n * (m \div n) + (m % n) = n * (q + 1) + (h + d - n)
    <3>1. n * (q + 1) = n * q + n BY <1>1
    <3> QED BY <1>1, <1>2, <3>1
  <2>2. h + d - n \in 0..(n - 1) BY <1>1, <1>4
  <2>4. q + 1 \in Int BY <1>1
  <2>3. m % n = h + d - n BY <1>2, <2>1, <2>2, <2>4, ModUnique
  <2> QED BY <2>3, <1>4 DEF Around, h
<1> QED BY <1>3, <1>4

\* Around and Dist are inverse.
LEMMA AroundDist ==
  ASSUME NEW n \in Nat \ {0}, NEW a \in 0..(n - 1)
  PROVE  /\ \A b \in 0..(n - 1) : Dist(n, a, b) \in 0..(n - 1) /\ Around(n, a, Dist(n, a, b)) = b
         /\ \A d \in 0..(n - 1) : Around(n, a, d) \in 0..(n - 1) /\ Dist(n, a, Around(n, a, d)) = d
BY DEF Around, Dist

-----------------------------------------------------------------------------
(* Hash tables. *)

EntryAt(hash, i) ==
  [key |-> hash[i].key, value |-> hash[i].value, pins |-> hash[i].pins]

\* What a table holds.
Contents(hash) == {EntryAt(hash, i) : i \in InUse(hash)}

\* A table of n slots, with one slot for a key at most.
IsTable(hash, n) ==
  /\ n \in Nat \ {0}
  /\ hash \in [0..(n - 1) -> Slot]
  /\ \A i \in InUse(hash) : hash[i].key \in Keys /\ hash[i].value \in Values
  /\ \A i, j \in InUse(hash) : hash[i].key = hash[j].key => i = j

\* No unused slot is on the way from the slot that a key hashes to to its entry.
Sound(hash, n) ==
  /\ IsTable(hash, n)
  /\ \A i \in InUse(hash), j \in 0..(n - 1) :
       Before(n, hash[i].key % n, j, i) => hash[j].in_use

HasRoom(hash) == InUse(hash) # DOMAIN hash

\* What a table is, for the provers.
LEMMA TableFacts ==
  ASSUME NEW hash, NEW n, IsTable(hash, n)
  PROVE  /\ n \in Nat \ {0} /\ DOMAIN hash = 0..(n - 1) /\ Slots(hash) = n
         /\ InUse(hash) \subseteq 0..(n - 1)
         /\ \A i \in 0..(n - 1) : hash[i] \in Slot
         /\ \A i \in InUse(hash) : hash[i].key % n \in 0..(n - 1)
         /\ Contents(hash) \subseteq Entry
<1>1. n \in Nat \ {0} /\ DOMAIN hash = 0..(n - 1) BY DEF IsTable
<1>2. Cardinality(0..(n - 1)) = n
  <2>1. 0 \in Int /\ n - 1 \in Int /\ ~ (0 > n - 1) BY <1>1
  <2>2. Cardinality(0..(n - 1)) = (n - 1) - 0 + 1 BY <2>1, FS_Interval, Zenon
  <2> QED BY <1>1, <2>2
<1>3. \A i \in 0..(n - 1) : hash[i] \in Slot BY DEF IsTable
<1>4. \A i \in InUse(hash) : hash[i].key % n \in 0..(n - 1)
  BY <1>1, KeysAssumption, ModIs DEF IsTable
<1>5. InUse(hash) \subseteq 0..(n - 1) BY <1>1 DEF InUse
<1>6. Contents(hash) \subseteq Entry
  BY <1>3, <1>5 DEF IsTable, Contents, Entry, EntryAt, Slot
<1> QED BY <1>1, <1>2, <1>3, <1>4, <1>5, <1>6 DEF Slots

\* The d-th step of the probe for k.
LEMMA ProbeStep ==
  ASSUME NEW k \in Nat, NEW n \in Nat \ {0}
  PROVE  /\ k % n \in 0..(n - 1)
         /\ \A d \in 0..(n - 1) : (k + d) % n \in 0..(n - 1) /\ Dist(n, k % n, (k + d) % n) = d
         /\ \A i \in 0..(n - 1) :
              Dist(n, k % n, i) \in 0..(n - 1) /\ (k + Dist(n, k % n, i)) % n = i
<1> DEFINE h == k % n
<1>1. h \in 0..(n - 1) BY ModIs
<1>2. \A d \in 0..(n - 1) : (k + d) % n = Around(n, h, d) BY ModAdd
<1> HIDE DEF h
<1>3. \A d \in 0..(n - 1) : (k + d) % n \in 0..(n - 1) /\ Dist(n, h, (k + d) % n) = d
  <2> SUFFICES ASSUME NEW d \in 0..(n - 1)
               PROVE  (k + d) % n \in 0..(n - 1) /\ Dist(n, h, (k + d) % n) = d
    OBVIOUS
  <2>1. (k + d) % n = Around(n, h, d) BY <1>2
  <2>2. Around(n, h, d) \in 0..(n - 1) /\ Dist(n, h, Around(n, h, d)) = d BY <1>1, AroundDist
  <2> QED BY <2>1, <2>2
<1>4. \A i \in 0..(n - 1) : Dist(n, h, i) \in 0..(n - 1) /\ (k + Dist(n, h, i)) % n = i
  <2> SUFFICES ASSUME NEW i \in 0..(n - 1)
               PROVE  Dist(n, h, i) \in 0..(n - 1) /\ (k + Dist(n, h, i)) % n = i
    OBVIOUS
  <2>1. Dist(n, h, i) \in 0..(n - 1) /\ Around(n, h, Dist(n, h, i)) = i BY <1>1, AroundDist
  <2> QED BY <1>2, <2>1
<1> QED BY <1>1, <1>3, <1>4 DEF h

\* The least element of a set of integers.
LEMMA MinIs ==
  ASSUME NEW S, NEW d \in S, \A e \in S : e \in Int /\ d <= e
  PROVE  Min(S) = d
<1>1. Min(S) \in S /\ \A y \in S : Min(S) <= y BY Zenon DEF Min
<1> QED BY <1>1

\* Where the probe for k ends: at the nearest slot that is unused or holds k.
LEMMA FindIs ==
  ASSUME NEW hash, NEW n, IsTable(hash, n), NEW k \in Nat, NEW i \in 0..(n - 1),
         ~ hash[i].in_use \/ hash[i].key = k,
         \A j \in 0..(n - 1) : Before(n, k % n, j, i) => hash[j].in_use /\ hash[j].key # k
  PROVE  Find(hash, k) = i
<1> DEFINE h == k % n d == Dist(n, h, i)
<1>1. n \in Nat \ {0} /\ DOMAIN hash = 0..(n - 1) /\ Slots(hash) = n
  BY TableFacts
<1>2. d \in 0..(n - 1) /\ (k + d) % n = i BY <1>1, ProbeStep
<1>3. d \in ProbeEnds(hash, k) BY <1>1, <1>2 DEF ProbeEnds
<1>4. ASSUME NEW e \in ProbeEnds(hash, k) PROVE e \in Int /\ d <= e
  <2> DEFINE j == (k + e) % n
  <2>1. e \in 0..(n - 1) /\ (~ hash[j].in_use \/ hash[j].key = k)
    BY <1>1 DEF ProbeEnds
  <2>2. j \in 0..(n - 1) /\ Dist(n, h, j) = e BY <1>1, <2>1, ProbeStep
  <2>3. ~ Before(n, h, j, i) BY <2>1, <2>2
  <2> HIDE DEF j, h
  <2> QED BY <1>2, <2>1, <2>2, <2>3 DEF Before
<1> HIDE DEF d, h
<1>5. Min(ProbeEnds(hash, k)) = d BY <1>3, <1>4, MinIs
<1> QED BY <1>1, <1>2, <1>5 DEF Find

\* The probe for a key that the table holds ends at its entry.
LEMMA FindPresent ==
  ASSUME NEW hash, NEW n, Sound(hash, n), NEW i \in InUse(hash)
  PROVE  Find(hash, hash[i].key) = i /\ ContainsKey(hash, hash[i].key)
<1> SUFFICES ASSUME NEW k, k = hash[i].key
             PROVE  Find(hash, k) = i /\ ContainsKey(hash, k)
  OBVIOUS
<1>1. IsTable(hash, n) /\ k \in Nat
  BY KeysAssumption DEF Sound, IsTable
<1>2. i \in 0..(n - 1) /\ DOMAIN hash = 0..(n - 1) /\ n \in Nat \ {0} /\ k % n \in 0..(n - 1)
  BY <1>1, TableFacts
<1>3. ASSUME NEW j \in 0..(n - 1), Before(n, k % n, j, i)
      PROVE  hash[j].in_use /\ hash[j].key # k
  <2>1. hash[j].in_use BY <1>3 DEF Sound
  <2>2. j \in InUse(hash) BY <1>2, <2>1 DEF InUse
  <2>3. j # i BY <1>2, <1>3 DEF Before, Dist
  <2> QED BY <1>1, <2>1, <2>2, <2>3 DEF IsTable
<1>4. Find(hash, k) = i
  <2>1. \A j \in 0..(n - 1) : Before(n, k % n, j, i) => hash[j].in_use /\ hash[j].key # k BY <1>3
  <2>2. ~ hash[i].in_use \/ hash[i].key = k OBVIOUS
  <2> QED BY <1>1, <1>2, <2>1, <2>2, FindIs, SMTT(30)
<1>5. hash[i].in_use BY DEF InUse
<1> QED BY <1>4, <1>5 DEF ContainsKey

\* The probe for a key that the table does not hold ends at the nearest unused slot.
LEMMA FindAbsent ==
  ASSUME NEW hash, NEW n, IsTable(hash, n), HasRoom(hash), NEW k \in Nat,
         \A i \in InUse(hash) : hash[i].key # k
  PROVE  /\ Find(hash, k) \in 0..(n - 1) /\ ~ hash[Find(hash, k)].in_use
         /\ ~ ContainsKey(hash, k)
         /\ \A j \in 0..(n - 1) : Before(n, k % n, j, Find(hash, k)) => hash[j].in_use
<1> DEFINE h == k % n
           D == {d \in 0..(n - 1) : ~ hash[(k + d) % n].in_use}
<1>1. n \in Nat \ {0} /\ DOMAIN hash = 0..(n - 1) /\ Slots(hash) = n
      /\ InUse(hash) \subseteq 0..(n - 1)
  BY TableFacts
<1>2. PICK f \in 0..(n - 1) : ~ hash[f].in_use
  BY <1>1 DEF HasRoom, InUse
<1>3. Dist(n, h, f) \in D
  <2>1. Dist(n, h, f) \in 0..(n - 1) /\ (k + Dist(n, h, f)) % n = f BY <1>1, ProbeStep
  <2> QED BY <1>2, <2>1
<1>4. PICK d \in D : \A e \in D : d <= e
  <2>1. D \subseteq Nat BY <1>1
  <2> HIDE DEF D
  <2> QED BY <1>3, <2>1, NatMin, Zenon
<1> DEFINE i == (k + d) % n
<1>5. i \in 0..(n - 1) /\ Dist(n, h, i) = d /\ ~ hash[i].in_use BY <1>1, <1>4, ProbeStep
<1>6. ASSUME NEW j \in 0..(n - 1), Before(n, h, j, i) PROVE hash[j].in_use /\ hash[j].key # k
  <2> DEFINE e == Dist(n, h, j)
  <2>1. e \in 0..(n - 1) /\ (k + e) % n = j BY <1>1, ProbeStep
  <2>2. e < d BY <1>5, <1>6 DEF Before
  <2> HIDE DEF e
  <2>3. ~ (d <= e) BY <2>1, <2>2, <1>4
  <2>4. e \notin D BY <1>4, <2>3
  <2>5. hash[j].in_use BY <2>1, <2>4
  <2>6. j \in InUse(hash) BY <1>1, <2>5 DEF InUse
  <2> QED BY <2>5, <2>6
<1> HIDE DEF i, h
<1>7. Find(hash, k) = i BY <1>5, <1>6, FindIs DEF h
<1> QED BY <1>5, <1>6, <1>7 DEF ContainsKey, h

-----------------------------------------------------------------------------
(* Closing the hole that an eviction leaves. *)

\* Contents are the same if entries only move.
LEMMA SameContents ==
  ASSUME NEW hash, NEW new,
         \A i \in InUse(hash) : \E j \in InUse(new) : EntryAt(new, j) = EntryAt(hash, i),
         \A j \in InUse(new) : \E i \in InUse(hash) : EntryAt(new, j) = EntryAt(hash, i)
  PROVE  Contents(new) = Contents(hash)
BY DEF Contents

\* How far the loop has come: next is that many slots after the hole.
Scanned(s, n) == IF s.next = s.idx THEN n ELSE Dist(n, s.idx, s.next)

\* In the loop, s.idx is the hole: nothing else unused is on the way to an entry,
\* and the hole is on the way to none of the entries that were looked at.
Closing(s, n) ==
  /\ s \in [hash : [0..(n - 1) -> Slot], idx : 0..(n - 1), next : 0..(n - 1)]
  /\ IsTable(s.hash, n)
  /\ ~ s.hash[s.idx].in_use
  /\ \A i \in InUse(s.hash), j \in 0..(n - 1) :
       Before(n, s.hash[i].key % n, j, i) => s.hash[j].in_use \/ j = s.idx
  /\ \A i \in 0..(n - 1) :
       0 < Dist(n, s.idx, i) /\ Dist(n, s.idx, i) < Scanned(s, n) =>
         s.hash[i].in_use /\ ~ Before(n, s.hash[i].key % n, s.idx, i)

Ended(s) == ~ s.hash[s.next].in_use

\* When the loop has ended, no entry is behind the hole.
LEMMA ClosedIsSound ==
  ASSUME NEW s, NEW n, Closing(s, n), Ended(s)
  PROVE  Sound(s.hash, n)
<1> DEFINE hash == s.hash idx == s.idx next == s.next
<1>1. IsTable(hash, n) /\ idx \in 0..(n - 1) /\ next \in 0..(n - 1) BY DEF Closing
<1>2. n \in Nat \ {0} /\ InUse(hash) \subseteq 0..(n - 1) /\ DOMAIN hash = 0..(n - 1)
      /\ \A i \in InUse(hash) : hash[i].key % n \in 0..(n - 1)
  BY <1>1, TableFacts
<1>3. ~ hash[idx].in_use /\ ~ hash[next].in_use BY DEF Closing, Ended
<1>4. \A i \in InUse(hash), j \in 0..(n - 1) :
        Before(n, hash[i].key % n, j, i) => hash[j].in_use \/ j = idx
  BY DEF Closing
<1>5. \A i \in 0..(n - 1) :
        0 < Dist(n, idx, i) /\ Dist(n, idx, i) < (IF next = idx THEN n ELSE Dist(n, idx, next))
          => ~ Before(n, hash[i].key % n, idx, i)
  BY DEF Closing, Scanned
<1> HIDE DEF hash, idx, next
<1>6. SUFFICES ASSUME NEW i \in InUse(hash), NEW j \in 0..(n - 1),
                      Before(n, hash[i].key % n, j, i), ~ hash[j].in_use
               PROVE  FALSE
  BY <1>1 DEF Sound, hash
<1>7. j = idx BY <1>4, <1>6
<1> DEFINE h == hash[i].key % n
<1>8. h \in 0..(n - 1) /\ i \in 0..(n - 1) /\ Before(n, h, idx, i) BY <1>2, <1>6, <1>7
<1>9. i # idx /\ i # next BY <1>3 DEF InUse
<1>10. ~ (0 < Dist(n, idx, i) /\ Dist(n, idx, i) < (IF next = idx THEN n ELSE Dist(n, idx, next)))
  BY <1>5, <1>8
<1> HIDE DEF h
<1>11. next # idx /\ Before(n, h, next, i)
  BY <1>1, <1>2, <1>8, <1>9, <1>10 DEF Dist, Before
<1>12. hash[next].in_use \/ next = idx BY <1>1, <1>4, <1>11 DEF h
<1> QED BY <1>3, <1>11, <1>12

\* The code's range test: the hole is not on the way to the entry at next.
LEMMA InRangeIs ==
  ASSUME NEW n \in Nat \ {0}, NEW h \in 0..(n - 1), NEW idx \in 0..(n - 1),
         NEW next \in 0..(n - 1), idx # next
  PROVE  InRange(h, idx + 1, next) <=> ~ Before(n, h, idx, next)
BY DEF InRange, Before, Dist

\* The slot after a slot: the next one, and after the last one the first.
LEMMA NextSlot ==
  ASSUME NEW n \in Nat \ {0}, NEW i \in 0..(n - 1)
  PROVE  /\ (i + 1) % n \in 0..(n - 1)
         /\ (i + 1) % n = IF i + 1 = n THEN 0 ELSE i + 1
<1>1. CASE i + 1 = n
  <2>1. n % n = 0
    <3>1. n % n \in 0..(n - 1) /\ n = n * (n \div n) + (n % n) /\ n \div n \in Int BY ModIs
    <3>2. n * (n \div n) + (n % n) = n * 1 + 0 BY <3>1
    <3> QED BY <3>1, <3>2, ModUnique
  <2> QED BY <1>1, <2>1
<1>2. CASE i + 1 # n
  <2> DEFINE m == i + 1
  <2>1. m \in 0..(n - 1) BY <1>2
  <2>2. m % n \in 0..(n - 1) /\ m = n * (m \div n) + (m % n) /\ m \div n \in Int BY ModIs
  <2>3. n * (m \div n) + (m % n) = n * 0 + m BY <2>2
  <2> HIDE DEF m
  <2>4. m % n = m BY <2>1, <2>2, <2>3, ModUnique
  <2> QED BY <1>2, <2>1, <2>4 DEF m
<1> QED BY <1>1, <1>2

\* A turn that leaves the entry where it is.
LEMMA StayTurn ==
  ASSUME NEW s, NEW n, Closing(s, n), ~ Ended(s),
         InRange(s.hash[s.next].key % Slots(s.hash), s.idx + 1, s.next)
  PROVE  /\ Closing(ShiftBack(s), n) /\ ShiftBack(s).hash = s.hash /\ ShiftBack(s).idx = s.idx
         /\ ShiftBack(s).next = (s.next + 1) % n /\ s.next # s.idx
<1> DEFINE hash == s.hash idx == s.idx next == s.next after == (next + 1) % n
           t == ShiftBack(s)
<1>1. IsTable(hash, n) /\ idx \in 0..(n - 1) /\ next \in 0..(n - 1) BY DEF Closing
<1>2. n \in Nat \ {0} /\ Slots(hash) = n /\ next \in InUse(hash)
      /\ hash[next].key % n \in 0..(n - 1)
  BY <1>1, TableFacts DEF Ended, InUse
<1>3. after \in 0..(n - 1) /\ after = IF next + 1 = n THEN 0 ELSE next + 1
  BY <1>1, <1>2, NextSlot
<1>4. next # idx BY DEF Closing, Ended
<1>5. t = [s EXCEPT !.next = after] BY <1>2 DEF ShiftBack, Ended
<1>6. s \in [hash : [0..(n - 1) -> Slot], idx : 0..(n - 1), next : 0..(n - 1)] BY DEF Closing
<1>7. /\ t \in [hash : [0..(n - 1) -> Slot], idx : 0..(n - 1), next : 0..(n - 1)]
      /\ t.hash = hash /\ t.idx = idx /\ t.next = after
  <2> HIDE DEF t, after
  <2> QED BY <1>3, <1>5, <1>6
<1>8. ~ Before(n, hash[next].key % n, idx, next) BY <1>1, <1>2, <1>4, InRangeIs
<1>9. ASSUME NEW i \in 0..(n - 1), 0 < Dist(n, idx, i),
             Dist(n, idx, i) < IF after = idx THEN n ELSE Dist(n, idx, after)
      PROVE  hash[i].in_use /\ ~ Before(n, hash[i].key % n, idx, i)
  <2>1. CASE i = next BY <2>1, <1>8 DEF Ended
  <2>2. CASE i # next
    <3> HIDE DEF after, hash, idx, next
    <3>1. Dist(n, idx, i) < Dist(n, idx, next)
      BY <1>1, <1>2, <1>3, <1>4, <1>9, <2>2 DEF Dist
    <3> QED BY <1>4, <1>9, <3>1 DEF Closing, Scanned, hash, idx, next
  <2> QED BY <2>1, <2>2
<1> HIDE DEF t, after
<1>10. Closing(t, n)
  <2>1. \A i \in 0..(n - 1) :
          0 < Dist(n, t.idx, i) /\ Dist(n, t.idx, i) < Scanned(t, n) =>
            t.hash[i].in_use /\ ~ Before(n, t.hash[i].key % n, t.idx, i)
    BY <1>7, <1>9 DEF Scanned
  <2> QED BY <1>7, <2>1 DEF Closing
<1> QED BY <1>4, <1>7, <1>10 DEF t, after

\* A turn that moves the entry into the hole.
LEMMA MoveTurn ==
  ASSUME NEW s, NEW n, Closing(s, n), ~ Ended(s),
         ~ InRange(s.hash[s.next].key % Slots(s.hash), s.idx + 1, s.next)
  PROVE  /\ Closing(ShiftBack(s), n) /\ Contents(ShiftBack(s).hash) = Contents(s.hash)
         /\ ShiftBack(s).idx = s.next /\ ShiftBack(s).next = (s.next + 1) % n
         /\ ShiftBack(s).hash = [s.hash EXCEPT ![s.idx] = s.hash[s.next], ![s.next] = s.hash[s.idx]]
         /\ s.next # s.idx /\ Before(n, s.hash[s.next].key % n, s.idx, s.next)
<1> DEFINE hash == s.hash idx == s.idx next == s.next after == (next + 1) % n
           t == ShiftBack(s)
           new == [hash EXCEPT ![idx] = hash[next], ![next] = hash[idx]]
<1>1. IsTable(hash, n) /\ idx \in 0..(n - 1) /\ next \in 0..(n - 1) BY DEF Closing
<1>2. n \in Nat \ {0} /\ Slots(hash) = n /\ next \in InUse(hash) /\ DOMAIN hash = 0..(n - 1)
      /\ InUse(hash) \subseteq 0..(n - 1)
      /\ \A i \in InUse(hash) : hash[i].key % n \in 0..(n - 1)
  BY <1>1, TableFacts DEF Ended, InUse
<1>3. after \in 0..(n - 1) /\ after = IF next + 1 = n THEN 0 ELSE next + 1
  BY <1>1, <1>2, NextSlot
<1>4. next # idx /\ ~ hash[idx].in_use BY DEF Closing, Ended
<1>5. t = [hash |-> new, idx |-> next, next |-> after] BY <1>2 DEF ShiftBack, Ended
<1>6. Before(n, hash[next].key % n, idx, next) BY <1>1, <1>2, <1>4, InRangeIs
<1>7. hash \in [0..(n - 1) -> Slot] BY DEF Closing
<1>8. /\ new \in [0..(n - 1) -> Slot] /\ new[idx] = hash[next] /\ new[next] = hash[idx]
      /\ \A i \in 0..(n - 1) : i # idx /\ i # next => new[i] = hash[i]
  <2> HIDE DEF hash, idx, next
  <2> QED BY <1>1, <1>4, <1>7
<1>9. InUse(new) = (InUse(hash) \ {next}) \cup {idx}
  <2>1. DOMAIN new = 0..(n - 1) BY <1>8
  <2> HIDE DEF hash, idx, next, new
  <2> QED BY <2>1, <1>1, <1>2, <1>4, <1>8 DEF InUse
<1> DEFINE Was(i) == IF i = idx THEN next ELSE i
<1>10. \A i \in InUse(new) : Was(i) \in InUse(hash) /\ new[i] = hash[Was(i)]
  <2> HIDE DEF hash, idx, next, new
  <2> QED BY <1>2, <1>4, <1>8, <1>9
<1>11. \A i, j \in InUse(new) : Was(i) = Was(j) => i = j
  <2> HIDE DEF hash, idx, next, new
  <2> QED BY <1>4, <1>9
<1>12. IsTable(new, n)
  <2>1. \A i \in InUse(new) : new[i].key \in Keys /\ new[i].value \in Values
    BY <1>1, <1>10 DEF IsTable
  <2>2. \A i, j \in InUse(new) : new[i].key = new[j].key => i = j
    <3> SUFFICES ASSUME NEW i \in InUse(new), NEW j \in InUse(new), new[i].key = new[j].key
                 PROVE  i = j
      OBVIOUS
    <3>1. /\ Was(i) \in InUse(hash) /\ new[i] = hash[Was(i)]
          /\ Was(j) \in InUse(hash) /\ new[j] = hash[Was(j)]
      BY <1>10
    <3>2. Was(i) = Was(j)
      <4> HIDE DEF Was, new, hash
      <4> QED BY <1>1, <3>1 DEF IsTable
    <3> QED BY <1>11, <3>2
  <2> QED BY <1>2, <1>8, <2>1, <2>2 DEF IsTable
<1>13. Contents(new) = Contents(hash)
  <2>1. \A i \in InUse(hash) : \E j \in InUse(new) : EntryAt(new, j) = EntryAt(hash, i)
    <3> SUFFICES ASSUME NEW i \in InUse(hash)
                 PROVE  \E j \in InUse(new) : EntryAt(new, j) = EntryAt(hash, i)
      OBVIOUS
    <3> HIDE DEF hash, idx, next, new
    <3>1. CASE i = next BY <3>1, <1>8, <1>9 DEF EntryAt
    <3>2. CASE i # next
      <4>1. i \in InUse(new) /\ i # idx BY <3>2, <1>4, <1>9 DEF InUse
      <4> QED BY <3>2, <4>1, <1>2, <1>8 DEF EntryAt
    <3> QED BY <3>1, <3>2
  <2>2. \A j \in InUse(new) : \E i \in InUse(hash) : EntryAt(new, j) = EntryAt(hash, i)
    BY <1>10 DEF EntryAt
  <2> QED BY <2>1, <2>2, SameContents
<1>14. ~ new[next].in_use BY <1>4, <1>8
<1>15. ASSUME NEW i \in InUse(new), NEW j \in 0..(n - 1), Before(n, new[i].key % n, j, i)
       PROVE  new[j].in_use \/ j = next
  <2> DEFINE h == new[i].key % n
  <2>1. \A k \in InUse(hash), m \in 0..(n - 1) :
          Before(n, hash[k].key % n, m, k) => hash[m].in_use \/ m = idx
    BY DEF Closing
  <2>2. h = hash[Was(i)].key % n /\ Was(i) \in InUse(hash) /\ h \in 0..(n - 1)
    BY <1>2, <1>10
  <2>3. CASE j = idx BY <2>3, <1>8, <1>2 DEF InUse
  <2>4. CASE j = next BY <2>4
  <2>5. CASE j # idx /\ j # next
    <3>1. Before(n, h, j, Was(i))
      <4>1. CASE i # idx BY <4>1, <1>15
      <4>2. CASE i = idx
        <5>1. Before(n, h, idx, next) BY <1>6, <2>2, <4>2
        <5>2. Before(n, h, j, idx) BY <1>15, <4>2
        <5> HIDE DEF h, idx, next
        <5> QED BY <1>1, <1>2, <2>2, <4>2, <5>1, <5>2 DEF Before, Dist
      <4> QED BY <4>1, <4>2
    <3>2. hash[j].in_use BY <2>1, <2>2, <2>5, <3>1
    <3> QED BY <3>2, <2>5, <1>8
  <2> QED BY <2>3, <2>4, <2>5
<1>16. Closing(t, n)
  <2>1. t.hash = new /\ t.idx = next /\ t.next = after
        /\ t \in [hash : [0..(n - 1) -> Slot], idx : 0..(n - 1), next : 0..(n - 1)]
    <3> HIDE DEF t, new, after, next
    <3> QED BY <1>1, <1>3, <1>5, <1>8
  <2>2. ASSUME NEW i \in 0..(n - 1), 0 < Dist(n, next, i),
               Dist(n, next, i) < IF after = next THEN n ELSE Dist(n, next, after)
        PROVE  FALSE
    <3>1. n # 1 BY <1>1, <1>2, <1>4
    <3> HIDE DEF next, after
    <3> QED BY <1>1, <1>2, <1>3, <2>2, <3>1 DEF Dist
  <2> HIDE DEF t, new, after, next, hash
  <2>3. \A i \in InUse(t.hash), j \in 0..(n - 1) :
          Before(n, t.hash[i].key % n, j, i) => t.hash[j].in_use \/ j = t.idx
    BY <1>15, <2>1
  <2>4. \A i \in 0..(n - 1) :
          0 < Dist(n, t.idx, i) /\ Dist(n, t.idx, i) < Scanned(t, n) =>
            t.hash[i].in_use /\ ~ Before(n, t.hash[i].key % n, t.idx, i)
    BY <2>1, <2>2 DEF Scanned
  <2> QED BY <1>12, <1>14, <2>1, <2>3, <2>4 DEF Closing
<1> HIDE DEF t, new, after
<1>17. t.hash = new /\ t.idx = next /\ t.next = after BY <1>5
<1> QED BY <1>4, <1>6, <1>13, <1>16, <1>17 DEF t, new, after

\* With two slots the second turn is the last one that moves anything.
LEMMA TwoSlots ==
  ASSUME NEW s, Closing(s, 2), ~ Ended(s)
  PROVE  /\ ~ Ended(ShiftBack(s)) =>
              LET t == ShiftBack(s) IN t.hash[t.next].key % 2 = t.next
         /\ s.hash[s.next].key % 2 = s.next => Ended(ShiftBack(s))
<1> DEFINE t == ShiftBack(s) home == s.hash[s.next].key % 2
<1>1. IsTable(s.hash, 2) /\ s.idx \in 0..1 /\ s.next \in 0..1 /\ ~ s.hash[s.idx].in_use
      /\ s.hash \in [0..1 -> Slot]
  BY DEF Closing
<1>2. Slots(s.hash) = 2 /\ home \in 0..1
  <2>1. s.next \in InUse(s.hash) BY <1>1 DEF Ended, InUse
  <2> QED BY <1>1, <2>1, TableFacts
<1>3. s.next # s.idx BY <1>1 DEF Ended
<1>4. (s.next + 1) % 2 = s.idx
  <2>1. (s.next + 1) % 2 = IF s.next + 1 = 2 THEN 0 ELSE s.next + 1 BY <1>1, NextSlot
  <2> QED BY <1>1, <1>3, <2>1
<1>5. CASE InRange(home, s.idx + 1, s.next)
  <2>1. t.hash = s.hash /\ t.next = s.idx BY <1>2, <1>4, <1>5, StayTurn
  <2>2. Ended(t) BY <1>1, <2>1 DEF Ended
  <2> QED BY <2>2
<1>6. CASE ~ InRange(home, s.idx + 1, s.next)
  <2> HIDE DEF home
  <2>1. /\ t.next = s.idx /\ t.hash = [s.hash EXCEPT ![s.idx] = s.hash[s.next], ![s.next] = s.hash[s.idx]]
        /\ Before(2, home, s.idx, s.next)
    BY <1>2, <1>4, <1>6, MoveTurn DEF home
  <2>2. home = s.idx BY <1>1, <1>2, <1>3, <2>1 DEF Before, Dist
  <2>3. t.hash[s.idx] = s.hash[s.next] BY <1>1, <1>3, <2>1
  <2> QED BY <1>3, <2>1, <2>2, <2>3 DEF home
<1> QED BY <1>5, <1>6

\* A turn keeps what the loop is about.
LEMMA TurnKeeps ==
  ASSUME NEW s, NEW n, Closing(s, n)
  PROVE  Closing(ShiftBack(s), n) /\ Contents(ShiftBack(s).hash) = Contents(s.hash)
<1>1. CASE Ended(s) BY <1>1 DEF Ended, ShiftBack
<1>2. CASE ~ Ended(s) /\ InRange(s.hash[s.next].key % Slots(s.hash), s.idx + 1, s.next)
  BY <1>2, StayTurn
<1>3. CASE ~ Ended(s) /\ ~ InRange(s.hash[s.next].key % Slots(s.hash), s.idx + 1, s.next)
  BY <1>3, MoveTurn
<1> QED BY <1>1, <1>2, <1>3

\* The next slot is one place nearer to any other slot.
LEMMA NextIsNearer ==
  ASSUME NEW n \in Nat \ {0}, NEW a \in 0..(n - 1), NEW e \in 0..(n - 1), e # a
  PROVE  Dist(n, (a + 1) % n, e) = Dist(n, a, e) - 1
<1> SUFFICES ASSUME NEW b, b = IF a + 1 = n THEN 0 ELSE a + 1
             PROVE  Dist(n, b, e) = Dist(n, a, e) - 1
  BY NextSlot
<1> QED BY DEF Dist

\* A turn comes one slot closer to an unused slot e that is not the hole.
LEMMA TurnApproaches ==
  ASSUME NEW s, NEW n, Closing(s, n), NEW e \in 0..(n - 1), e # s.idx, ~ s.hash[e].in_use,
         ~ Ended(s)
  PROVE  /\ e # ShiftBack(s).idx /\ ~ ShiftBack(s).hash[e].in_use
         /\ Dist(n, ShiftBack(s).next, e) = Dist(n, s.next, e) - 1
<1> DEFINE t == ShiftBack(s)
<1>1. /\ n \in Nat \ {0} /\ s.idx \in 0..(n - 1) /\ s.next \in 0..(n - 1)
      /\ s.hash \in [0..(n - 1) -> Slot]
  BY DEF Closing, IsTable
<1>2. e # s.next BY DEF Ended
<1>3. t.next = (s.next + 1) % n /\ e # t.idx /\ ~ t.hash[e].in_use
  <2>1. CASE InRange(s.hash[s.next].key % Slots(s.hash), s.idx + 1, s.next)
    BY <2>1, StayTurn
  <2>2. CASE ~ InRange(s.hash[s.next].key % Slots(s.hash), s.idx + 1, s.next)
    <3>1. /\ t.next = (s.next + 1) % n /\ t.idx = s.next
          /\ t.hash = [s.hash EXCEPT ![s.idx] = s.hash[s.next], ![s.next] = s.hash[s.idx]]
      BY <2>2, MoveTurn
    <3>2. t.hash[e] = s.hash[e] BY <1>1, <1>2, <3>1
    <3> QED BY <1>2, <3>1, <3>2
  <2> QED BY <2>1, <2>2
<1> QED BY <1>1, <1>2, <1>3, NextIsNearer

TurnStep(s, g, r) == IF r = 0 THEN s ELSE ShiftBack(g[r - 1])

\* The recursion of CloseHole defines a function.
LEMMA TurnsExist ==
  ASSUME NEW s, NEW m \in Nat
  PROVE  \E g : g = [r \in 0..m |-> TurnStep(s, g, r)]
<1> DEFINE N == {j \in Nat : \E g : g = [r \in 0..j |-> TurnStep(s, g, r)]}
<1>1. 0 \in N
  <2> DEFINE g == [r \in 0..0 |-> s]
  <2>1. \A r \in 0..0 : TurnStep(s, g, r) = s BY DEF TurnStep
  <2>2. g = [r \in 0..0 |-> TurnStep(s, g, r)] BY <2>1, Zenon
  <2> QED BY <2>2
<1>2. ASSUME NEW j \in Nat, j \in N PROVE j + 1 \in N
  <2>1. PICK g : g = [r \in 0..j |-> TurnStep(s, g, r)] BY <1>2
  <2> DEFINE h == [r \in 0..(j + 1) |-> TurnStep(s, g, r)]
  <2>2. ASSUME NEW r \in 0..(j + 1) PROVE TurnStep(s, h, r) = TurnStep(s, g, r)
    <3>1. CASE r = 0 BY <3>1 DEF TurnStep
    <3>2. CASE r # 0
      <4>1. r - 1 \in 0..j /\ r - 1 \in 0..(j + 1) BY <3>2
      <4>2. g[r - 1] = TurnStep(s, g, r - 1) BY <2>1, <4>1, Zenon
      <4>3. h[r - 1] = TurnStep(s, g, r - 1) BY <4>1
      <4>4. h[r - 1] = g[r - 1] BY <4>2, <4>3, Zenon
      <4> HIDE DEF h
      <4> QED BY <3>2, <4>4, Zenon DEF TurnStep
    <3> QED BY <3>1, <3>2
  <2>3. h = [r \in 0..(j + 1) |-> TurnStep(s, h, r)] BY <2>2, Zenon
  <2> HIDE DEF h
  <2> QED BY <2>3
<1> HIDE DEF N
<1>3. m \in N BY <1>1, <1>2, NatSet
<1> QED BY <1>3 DEF N

\* The turns of CloseHole, one after another.
LEMMA CloseHoleIs ==
  ASSUME NEW hash, NEW n, IsTable(hash, n), NEW idx
  PROVE  \E g : /\ g[0] = [hash |-> hash, idx |-> idx, next |-> (idx + 1) % n]
                /\ \A r \in 1..(2 * n) : g[r] = ShiftBack(g[r - 1])
                /\ CloseHole(hash, idx) = g[2 * n].hash
<1> DEFINE s == [hash |-> hash, idx |-> idx, next |-> (idx + 1) % n]
           g == CHOOSE g : g = [r \in 0..(2 * n) |-> TurnStep(s, g, r)]
<1>1. n \in Nat /\ Slots(hash) = n BY TableFacts
<1>2. g = [r \in 0..(2 * n) |-> TurnStep(s, g, r)]
  <2>1. 2 * n \in Nat BY <1>1
  <2> HIDE DEF s
  <2> QED BY <2>1, TurnsExist, Zenon
<1>3. CloseHole(hash, idx) = g[2 * n].hash
  <2> USE <1>1
  <2> QED BY Zenon DEF CloseHole, TurnStep
<1> HIDE DEF g
<1>4. g[0] = s /\ \A r \in 1..(2 * n) : g[r] = ShiftBack(g[r - 1])
  <2> HIDE DEF s
  <2>1. \A r \in 0..(2 * n) : g[r] = TurnStep(s, g, r) BY <1>2, Zenon
  <2>2. 0 \in 0..(2 * n) /\ \A r \in 1..(2 * n) : r \in 0..(2 * n) /\ r # 0 BY <1>1
  <2> QED BY <2>1, <2>2, Zenon DEF TurnStep
<1> QED BY <1>3, <1>4, Zenon

\* The loop ends in time, with the hole behind no entry: there is another unused
\* slot, or there are two slots at most.
LEMMA HoleCloses ==
  ASSUME NEW hash, NEW n, NEW idx, IsTable(hash, n),
         Closing([hash |-> hash, idx |-> idx, next |-> (idx + 1) % n], n),
         n <= 2 \/ \E e \in 0..(n - 1) : e # idx /\ ~ hash[e].in_use
  PROVE  /\ Sound(CloseHole(hash, idx), n) /\ HasRoom(CloseHole(hash, idx))
         /\ Contents(CloseHole(hash, idx)) = Contents(hash)
<1> DEFINE s == [hash |-> hash, idx |-> idx, next |-> (idx + 1) % n]
           C == Contents(hash)
<1>1. n \in Nat \ {0} BY DEF IsTable
<1>2. PICK g : /\ g[0] = s /\ \A r \in 1..(2 * n) : g[r] = ShiftBack(g[r - 1])
               /\ CloseHole(hash, idx) = g[2 * n].hash
  BY CloseHoleIs
<1> DEFINE Kept(t) == Closing(t, n) /\ Contents(t.hash) = C
           Z == {r \in Nat : r <= 2 * n => Kept(g[r])}
<1>3. Kept(s) OBVIOUS
<1> HIDE DEF s, C
<1>4. 0 \in Z BY <1>2, <1>3
<1>5. ASSUME NEW r \in Nat, r \in Z PROVE r + 1 \in Z
  <2> SUFFICES ASSUME r + 1 <= 2 * n PROVE Kept(g[r + 1])
    OBVIOUS
  <2>1. r + 1 \in 1..(2 * n) /\ (r + 1) - 1 = r BY <1>1
  <2>2. g[r + 1] = ShiftBack(g[r]) BY <1>2, <2>1
  <2>3. Kept(g[r]) BY <1>1, <1>5
  <2> HIDE DEF Z
  <2> QED BY <2>2, <2>3, TurnKeeps
<1> HIDE DEF Z
<1>6. Nat \subseteq Z BY <1>4, <1>5, NatSet
<1>7. ASSUME NEW r \in 0..(2 * n) PROVE Kept(g[r])
  <2>1. r \in Nat /\ r <= 2 * n BY <1>1
  <2> QED BY <1>6, <2>1 DEF Z
<1>8. ASSUME NEW r \in 1..(2 * n)
      PROVE  /\ g[r] = ShiftBack(g[r - 1]) /\ Kept(g[r - 1])
             /\ Ended(g[r - 1]) => g[r] = g[r - 1]
  <2>1. r - 1 \in 0..(2 * n) BY <1>1
  <2>2. g[r] = ShiftBack(g[r - 1]) BY <1>2
  <2>3. Ended(g[r - 1]) => ShiftBack(g[r - 1]) = g[r - 1] BY DEF ShiftBack, Ended
  <2> HIDE DEF Kept
  <2> QED BY <1>7, <2>1, <2>2, <2>3
<1>9. Ended(g[2 * n])
  <2>1. CASE \E e \in 0..(n - 1) : e # idx /\ ~ hash[e].in_use
    <3>1. PICK e \in 0..(n - 1) : e # idx /\ ~ hash[e].in_use BY <2>1
    <3> DEFINE Near(t, r) ==
                 /\ e # t.idx /\ ~ t.hash[e].in_use
                 /\ Ended(t) \/ Dist(n, t.next, e) + r <= n - 1
               Y == {r \in Nat : r <= 2 * n => Near(g[r], r)}
    <3>2. 0 \in Y
      <4>1. e # s.idx /\ ~ s.hash[e].in_use /\ s.next \in 0..(n - 1) BY <1>3, <3>1 DEF s, Closing
      <4>2. Dist(n, s.next, e) <= n - 1 /\ Dist(n, s.next, e) \in Int BY <1>1, <4>1 DEF Dist
      <4>3. Near(s, 0) BY <1>1, <4>1, <4>2
      <4> HIDE DEF Near
      <4> QED BY <1>2, <4>3
    <3>3. ASSUME NEW r \in Nat, r \in Y PROVE r + 1 \in Y
      <4> SUFFICES ASSUME r + 1 <= 2 * n PROVE Near(g[r + 1], r + 1)
        OBVIOUS
      <4> DEFINE t == g[r]
      <4>1. Near(t, r) BY <1>1, <3>3
      <4>2. r + 1 \in 1..(2 * n) /\ (r + 1) - 1 = r BY <1>1
      <4>3. g[r + 1] = ShiftBack(t) /\ Closing(t, n) /\ (Ended(t) => g[r + 1] = t)
        BY <1>8, <4>2
      <4>4. CASE Ended(t) BY <4>1, <4>3, <4>4
      <4>5. CASE ~ Ended(t)
        <5>1. /\ e # g[r + 1].idx /\ ~ g[r + 1].hash[e].in_use
              /\ Dist(n, g[r + 1].next, e) = Dist(n, t.next, e) - 1
          BY <4>1, <4>3, <4>5, TurnApproaches
        <5>2. Dist(n, t.next, e) \in Int BY <1>1, <4>3 DEF Dist, Closing
        <5>3. Dist(n, t.next, e) + r <= n - 1 BY <4>1, <4>5
        <5>4. Dist(n, g[r + 1].next, e) + (r + 1) <= n - 1
          <6> DEFINE a == Dist(n, t.next, e) b == Dist(n, g[r + 1].next, e)
          <6>1. b = a - 1 /\ a \in Int /\ a + r <= n - 1 BY <5>1, <5>2, <5>3
          <6> HIDE DEF a, b
          <6>2. b + (r + 1) <= n - 1 BY <1>1, <6>1
          <6> QED BY <6>2 DEF b
        <5> QED BY <5>1, <5>4
      <4> QED BY <4>4, <4>5
    <3> HIDE DEF Y
    <3>4. Nat \subseteq Y BY <3>2, <3>3, NatSet
    <3>5. 2 * n \in Nat BY <1>1
    <3>6. Near(g[2 * n], 2 * n) BY <3>4, <3>5 DEF Y
    <3>7. Closing(g[2 * n], n) BY <1>7, <3>5
    <3>8. Dist(n, g[2 * n].next, e) \in Nat
      <4>1. g[2 * n].next \in 0..(n - 1) BY <3>7 DEF Closing
      <4>2. \A a \in 0..(n - 1) : Dist(n, a, e) \in Nat BY <1>1 DEF Dist
      <4> QED BY <4>1, <4>2, Zenon
    <3> HIDE DEF s
    <3> QED BY <1>1, <3>6, <3>8
  <2>2. CASE n = 1
    <3>1. Closing(g[2 * n], n) BY <1>1, <1>7
    <3>2. g[2 * n].idx = g[2 * n].next
      <4>1. g[2 * n].idx \in 0..0 /\ g[2 * n].next \in 0..0 BY <2>2, <3>1 DEF Closing
      <4> QED BY <4>1
    <3> QED BY <3>1, <3>2 DEF Closing, Ended
  <2>3. CASE n = 2
    <3>1. /\ Closing(g[0], 2) /\ Closing(g[1], 2) /\ g[1] = ShiftBack(g[0])
          /\ g[2] = ShiftBack(g[1]) /\ g[3] = ShiftBack(g[2]) /\ g[4] = ShiftBack(g[3])
      <4>1. 0 \in 0..(2 * n) /\ 1 \in 0..(2 * n) /\ 1 \in 1..(2 * n) /\ 2 \in 1..(2 * n)
            /\ 3 \in 1..(2 * n) /\ 4 \in 1..(2 * n)
            /\ 1 - 1 = 0 /\ 2 - 1 = 1 /\ 3 - 1 = 2 /\ 4 - 1 = 3
        BY <2>3
      <4> QED BY <1>2, <1>7, <4>1, <2>3
    <3>2. Ended(g[2])
      <4>1. CASE Ended(g[0])
        <5>1. g[1] = g[0] /\ g[2] = g[0] BY <3>1, <4>1 DEF ShiftBack, Ended
        <5> QED BY <4>1, <5>1
      <4>2. CASE ~ Ended(g[0]) /\ Ended(g[1])
        <5>1. g[2] = g[1] BY <3>1, <4>2 DEF ShiftBack, Ended
        <5> QED BY <4>2, <5>1
      <4>3. CASE ~ Ended(g[0]) /\ ~ Ended(g[1])
        BY <3>1, <4>3, TwoSlots
      <4> QED BY <4>1, <4>2, <4>3
    <3>3. g[4] = g[2]
      <4>1. g[3] = g[2] BY <3>1, <3>2 DEF ShiftBack, Ended
      <4> QED BY <3>1, <3>2, <4>1 DEF ShiftBack, Ended
    <3>4. 2 * n = 4 BY <2>3
    <3> QED BY <3>2, <3>3, <3>4
  <2>4. n = 1 \/ n = 2 \/ ~ (n <= 2) BY <1>1
  <2> QED BY <2>1, <2>2, <2>3, <2>4
<1>10. Kept(g[2 * n])
  <2>1. 2 * n \in 0..(2 * n) BY <1>1
  <2> QED BY <1>7, <2>1
<1>11. Sound(g[2 * n].hash, n) BY <1>9, <1>10, ClosedIsSound
<1>12. HasRoom(g[2 * n].hash)
  <2> DEFINE t == g[2 * n]
  <2>1. DOMAIN t.hash = 0..(n - 1) /\ t.idx \in 0..(n - 1) /\ ~ t.hash[t.idx].in_use
    BY <1>10 DEF Closing, IsTable
  <2> HIDE DEF t
  <2>2. HasRoom(t.hash) BY <2>1 DEF HasRoom, InUse
  <2> QED BY <2>2 DEF t
<1> QED BY <1>2, <1>10, <1>11, <1>12 DEF C

\* Taking an entry out of a sound table leaves a sound table with the others.
LEMMA VacateIs ==
  ASSUME NEW hash, NEW n, Sound(hash, n), NEW idx \in InUse(hash), n <= 2 \/ HasRoom(hash)
  PROVE  /\ Sound(Vacate(hash, idx), n) /\ HasRoom(Vacate(hash, idx))
         /\ Contents(Vacate(hash, idx)) = Contents(hash) \ {EntryAt(hash, idx)}
<1> DEFINE new == [hash EXCEPT ![idx] = Free] next == (idx + 1) % n
           s == [hash |-> new, idx |-> idx, next |-> next]
<1>1. IsTable(hash, n) BY DEF Sound
<1>2. n \in Nat \ {0} /\ DOMAIN hash = 0..(n - 1) /\ idx \in 0..(n - 1)
      /\ hash \in [0..(n - 1) -> Slot] /\ InUse(hash) \subseteq 0..(n - 1)
  BY <1>1, TableFacts DEF IsTable
<1>3. next \in 0..(n - 1) /\ next = IF idx + 1 = n THEN 0 ELSE idx + 1 BY <1>2, NextSlot
<1>4. Free \in Slot BY DEF Free, Slot
<1> HIDE DEF next
<1>5. /\ new \in [0..(n - 1) -> Slot] /\ new[idx] = Free
      /\ \A i \in 0..(n - 1) : i # idx => new[i] = hash[i]
  BY <1>2, <1>4
<1>6. InUse(new) = InUse(hash) \ {idx}
  <2>1. DOMAIN new = 0..(n - 1) /\ ~ new[idx].in_use BY <1>5 DEF Free
  <2> HIDE DEF new
  <2> QED BY <2>1, <1>2, <1>5 DEF InUse
<1> HIDE DEF new
<1>7. \A i \in InUse(new) : i \in InUse(hash) /\ i # idx /\ new[i] = hash[i]
  BY <1>2, <1>5, <1>6
<1>8. IsTable(new, n)
  <2>1. \A i \in InUse(new) : new[i].key \in Keys /\ new[i].value \in Values
    BY <1>1, <1>7 DEF IsTable
  <2>2. \A i, j \in InUse(new) : new[i].key = new[j].key => i = j
    BY <1>1, <1>7 DEF IsTable
  <2> QED BY <1>2, <1>5, <2>1, <2>2 DEF IsTable
<1>9. Contents(new) = Contents(hash) \ {EntryAt(hash, idx)}
  <2>1. ASSUME NEW i \in InUse(hash), i # idx PROVE EntryAt(hash, i) # EntryAt(hash, idx)
    BY <1>1, <2>1 DEF IsTable, EntryAt
  <2>2. \A i \in InUse(new) : EntryAt(new, i) = EntryAt(hash, i) BY <1>7 DEF EntryAt
  <2>3. Contents(new) = {EntryAt(hash, i) : i \in InUse(hash) \ {idx}}
    BY <1>6, <2>2 DEF Contents
  <2> QED BY <2>1, <2>3 DEF Contents
<1>10. Closing(s, n)
  <2>1. /\ s \in [hash : [0..(n - 1) -> Slot], idx : 0..(n - 1), next : 0..(n - 1)]
        /\ s.hash = new /\ s.idx = idx /\ s.next = next
    BY <1>2, <1>3, <1>5
  <2>2. ~ new[idx].in_use BY <1>5 DEF Free
  <2>3. \A i \in InUse(new), j \in 0..(n - 1) :
          Before(n, new[i].key % n, j, i) => new[j].in_use \/ j = idx
    <3> SUFFICES ASSUME NEW i \in InUse(new), NEW j \in 0..(n - 1),
                        Before(n, new[i].key % n, j, i), j # idx
                 PROVE  new[j].in_use
      OBVIOUS
    <3>1. hash[j].in_use BY <1>7 DEF Sound
    <3> QED BY <3>1, <1>5
  <2>4. \A i \in 0..(n - 1) :
          ~ (0 < Dist(n, idx, i) /\ Dist(n, idx, i) < IF next = idx THEN n ELSE Dist(n, idx, next))
    BY <1>2, <1>3 DEF Dist
  <2> QED BY <1>8, <2>1, <2>2, <2>3, <2>4 DEF Closing, Scanned
<1>11. n <= 2 \/ \E e \in 0..(n - 1) : e # idx /\ ~ new[e].in_use
  <2>1. CASE HasRoom(hash)
    <3>1. PICK e \in 0..(n - 1) : e \notin InUse(hash) BY <2>1, <1>2 DEF HasRoom
    <3>2. e # idx /\ ~ hash[e].in_use BY <1>2, <3>1 DEF InUse
    <3> QED BY <3>1, <3>2, <1>5
  <2> QED BY <2>1
<1>12. Vacate(hash, idx) = CloseHole(new, idx) BY DEF Vacate, new
<1> HIDE DEF s
<1> QED BY <1>8, <1>9, <1>10, <1>11, <1>12, HoleCloses DEF s, next

-----------------------------------------------------------------------------
(* Entries that are placed, counted and moved to another table. *)

EntryOf(item) == [key |-> item.key, value |-> item.value, pins |-> item.pins]

\* An entry goes where the probe for its key ends.
LEMMA PlaceIs ==
  ASSUME NEW hash, NEW n, Sound(hash, n), HasRoom(hash), NEW item \in Slot, item.in_use,
         item.key \in Keys, item.value \in Values,
         \A i \in InUse(hash) : hash[i].key # item.key
  PROVE  /\ Sound([hash EXCEPT ![Find(hash, item.key)] = item], n)
         /\ Contents([hash EXCEPT ![Find(hash, item.key)] = item])
              = Contents(hash) \cup {EntryOf(item)}
<1> DEFINE k == item.key f == Find(hash, k)
           new == [hash EXCEPT ![f] = item]
<1>1. IsTable(hash, n) /\ k \in Nat BY KeysAssumption DEF Sound
<1>2. n \in Nat \ {0} /\ DOMAIN hash = 0..(n - 1) /\ hash \in [0..(n - 1) -> Slot]
      /\ InUse(hash) \subseteq 0..(n - 1)
  BY <1>1, TableFacts DEF IsTable
<1>3. /\ f \in 0..(n - 1) /\ ~ hash[f].in_use
      /\ \A j \in 0..(n - 1) : Before(n, k % n, j, f) => hash[j].in_use
  BY <1>1, FindAbsent
<1> HIDE DEF f
<1>4. /\ new \in [0..(n - 1) -> Slot] /\ new[f] = item
      /\ \A i \in 0..(n - 1) : i # f => new[i] = hash[i]
  BY <1>2, <1>3
<1> HIDE DEF new
<1>5. InUse(new) = InUse(hash) \cup {f} /\ f \notin InUse(hash)
  <2>1. DOMAIN new = 0..(n - 1) BY <1>4
  <2> QED BY <2>1, <1>2, <1>3, <1>4 DEF InUse
<1>6. \A i \in InUse(hash) : i \in InUse(new) /\ i # f /\ new[i] = hash[i]
  BY <1>2, <1>4, <1>5
<1>7. IsTable(new, n)
  <2>1. \A i \in InUse(new) : new[i].key \in Keys /\ new[i].value \in Values
    BY <1>1, <1>4, <1>5, <1>6 DEF IsTable
  <2>2. \A i, j \in InUse(new) : new[i].key = new[j].key => i = j
    <3> SUFFICES ASSUME NEW i \in InUse(new), NEW j \in InUse(new), new[i].key = new[j].key
                 PROVE  i = j
      OBVIOUS
    <3>1. CASE i = f /\ j = f BY <3>1
    <3>2. CASE i = f /\ j # f BY <3>2, <1>4, <1>5, <1>6
    <3>3. CASE i # f /\ j = f BY <3>3, <1>4, <1>5, <1>6
    <3>4. CASE i # f /\ j # f
      <4>1. i \in InUse(hash) /\ j \in InUse(hash) BY <3>4, <1>5
      <4> QED BY <1>1, <4>1, <1>6 DEF IsTable
    <3> QED BY <3>1, <3>2, <3>3, <3>4
  <2> QED BY <1>2, <1>4, <2>1, <2>2 DEF IsTable
<1>8. ASSUME NEW i \in InUse(new), NEW j \in 0..(n - 1), Before(n, new[i].key % n, j, i)
      PROVE  new[j].in_use
  <2>1. CASE j = f BY <2>1, <1>4
  <2>2. CASE j # f
    <3>1. new[j] = hash[j] BY <2>2, <1>4
    <3>2. hash[j].in_use
      <4>1. CASE i = f BY <4>1, <1>3, <1>4, <1>8
      <4>2. CASE i # f
        <5>1. i \in InUse(hash) /\ new[i] = hash[i] BY <4>2, <1>5, <1>6
        <5> QED BY <5>1, <1>8 DEF Sound
      <4> QED BY <4>1, <4>2
    <3> QED BY <3>1, <3>2
  <2> QED BY <2>1, <2>2
<1>9. Contents(new) = Contents(hash) \cup {EntryOf(item)}
  <2>1. \A i \in InUse(hash) : EntryAt(new, i) = EntryAt(hash, i) BY <1>6 DEF EntryAt
  <2>2. EntryAt(new, f) = EntryOf(item) BY <1>4 DEF EntryAt, EntryOf
  <2>3. Contents(new) = {EntryAt(new, i) : i \in InUse(hash)} \cup {EntryAt(new, f)}
    BY <1>5 DEF Contents
  <2> QED BY <2>1, <2>2, <2>3 DEF Contents
<1> QED BY <1>7, <1>8, <1>9 DEF Sound, new, f

\* Pinning and unpinning change the pins of one entry.
LEMMA RepinIs ==
  ASSUME NEW hash, NEW n, Sound(hash, n), NEW i \in InUse(hash), NEW p \in Nat
  PROVE  /\ Sound([hash EXCEPT ![i].pins = p], n)
         /\ HasRoom(hash) => HasRoom([hash EXCEPT ![i].pins = p])
         /\ Contents([hash EXCEPT ![i].pins = p])
              = (Contents(hash) \ {EntryAt(hash, i)})
                  \cup {[key |-> hash[i].key, value |-> hash[i].value, pins |-> p]}
<1> DEFINE new == [hash EXCEPT ![i].pins = p]
           e == [key |-> hash[i].key, value |-> hash[i].value, pins |-> p]
<1>1. IsTable(hash, n) BY DEF Sound
<1>2. n \in Nat \ {0} /\ DOMAIN hash = 0..(n - 1) /\ hash \in [0..(n - 1) -> Slot]
      /\ InUse(hash) \subseteq 0..(n - 1) /\ i \in 0..(n - 1)
  BY <1>1, TableFacts DEF IsTable
<1>3. hash[i] \in Slot BY <1>2
<1>4. [hash[i] EXCEPT !.pins = p] \in Slot BY <1>3 DEF Slot
<1>5. /\ new \in [0..(n - 1) -> Slot] /\ new[i] = [hash[i] EXCEPT !.pins = p]
      /\ \A j \in 0..(n - 1) : j # i => new[j] = hash[j]
  BY <1>2, <1>4
<1> HIDE DEF new
<1>6. new[i].in_use = hash[i].in_use /\ new[i].key = hash[i].key
      /\ new[i].value = hash[i].value /\ new[i].pins = p
  BY <1>3, <1>5 DEF Slot
<1>7. /\ DOMAIN new = 0..(n - 1)
      /\ \A j \in 0..(n - 1) : /\ new[j].in_use = hash[j].in_use /\ new[j].key = hash[j].key
                               /\ new[j].value = hash[j].value
  BY <1>5, <1>6
<1>8. InUse(new) = InUse(hash) BY <1>2, <1>7 DEF InUse
<1>9. IsTable(new, n) BY <1>1, <1>2, <1>5, <1>7, <1>8 DEF IsTable
<1>10. Sound(new, n)
  <2> SUFFICES ASSUME NEW j \in InUse(new), NEW m \in 0..(n - 1), Before(n, new[j].key % n, m, j)
               PROVE  new[m].in_use
    BY <1>9 DEF Sound
  <2>1. new[j].key = hash[j].key /\ j \in InUse(hash) BY <1>2, <1>7, <1>8
  <2>2. hash[m].in_use BY <2>1 DEF Sound
  <2> QED BY <2>2, <1>7
<1>11. HasRoom(hash) => HasRoom(new) BY <1>2, <1>7, <1>8 DEF HasRoom
<1>12. Contents(new) = (Contents(hash) \ {EntryAt(hash, i)}) \cup {e}
  <2>1. \A j \in InUse(hash) : j # i => EntryAt(new, j) = EntryAt(hash, j)
    BY <1>2, <1>5 DEF EntryAt
  <2>2. EntryAt(new, i) = e BY <1>6 DEF EntryAt
  <2>3. ASSUME NEW j \in InUse(hash), j # i PROVE EntryAt(hash, j) # EntryAt(hash, i)
    BY <1>1, <2>3 DEF IsTable, EntryAt
  <2> HIDE DEF e
  <2>4. Contents(new) = {EntryAt(hash, j) : j \in InUse(hash) \ {i}} \cup {e}
    BY <1>8, <2>1, <2>2 DEF Contents
  <2>5. Contents(hash) \ {EntryAt(hash, i)} = {EntryAt(hash, j) : j \in InUse(hash) \ {i}}
    BY <2>3 DEF Contents
  <2> QED BY <2>4, <2>5
<1> QED BY <1>10, <1>11, <1>12 DEF new

\* A table has as many entries as slots in use.
LEMMA CountIs ==
  ASSUME NEW hash, NEW n, IsTable(hash, n)
  PROVE  /\ IsFiniteSet(Contents(hash)) /\ IsFiniteSet(InUse(hash))
         /\ Cardinality(InUse(hash)) = Cardinality(Contents(hash))
         /\ Cardinality(Contents(hash)) \in Nat
         /\ Cardinality(Contents(hash)) < n => HasRoom(hash)
         /\ \A e, f \in Contents(hash) : e.key = f.key => e = f
<1> DEFINE b == [i \in InUse(hash) |-> EntryAt(hash, i)]
<1>1. n \in Nat \ {0} /\ DOMAIN hash = 0..(n - 1) /\ Slots(hash) = n
      /\ InUse(hash) \subseteq 0..(n - 1)
  BY TableFacts
<1>2. IsFiniteSet(0..(n - 1)) BY <1>1, FS_Interval
<1>3. IsFiniteSet(InUse(hash)) BY <1>1, <1>2, FS_Subset
<1>4. \A e, f \in Contents(hash) : e.key = f.key => e = f
  BY DEF IsTable, Contents, EntryAt
<1>5. b \in Bijection(InUse(hash), Contents(hash))
  <2>1. b \in [InUse(hash) -> Contents(hash)] BY DEF Contents
  <2>2. \A i, j \in InUse(hash) : b[i] = b[j] => i = j BY DEF IsTable, EntryAt
  <2>3. \A e \in Contents(hash) : \E i \in InUse(hash) : b[i] = e BY DEF Contents
  <2> HIDE DEF b
  <2> QED BY <2>1, <2>2, <2>3 DEF Bijection, Injection, Surjection, IsInjective
<1> HIDE DEF b
<1>6. IsFiniteSet(Contents(hash)) /\ Cardinality(InUse(hash)) = Cardinality(Contents(hash))
  BY <1>3, <1>5, FS_Bijection DEF ExistsBijection
<1>7. Cardinality(Contents(hash)) \in Nat BY <1>6, FS_CardinalityType
<1>8. Cardinality(Contents(hash)) < n => HasRoom(hash)
  BY <1>1, <1>6, <1>7 DEF HasRoom, Slots
<1> QED BY <1>3, <1>4, <1>6, <1>7, <1>8

\* How many slots the table has for capacity c.
Size(c) == ((19 * c) \div 10) + 1

\* A table has more slots than its capacity, and from capacity 2 on more than one
\* more, so that a slot is unused while the hole of another is closed.
LEMMA SizeIs ==
  ASSUME NEW c \in Nat
  PROVE  /\ Size(c) \in Nat \ {0} /\ Size(c) > c /\ DOMAIN EmptyHash(c) = 0..(Size(c) - 1)
         /\ Size(c) <= 2 \/ Size(c) > c + 1
<1>1. (19 * c) \div 10 \in Nat /\ (19 * c) \div 10 >= c
      /\ ((19 * c) \div 10 <= 1 \/ (19 * c) \div 10 > c)
  OBVIOUS
<1>2. DOMAIN EmptyHash(c) = 0..((19 * c) \div 10) BY DEF EmptyHash
<1> HIDE DEF EmptyHash
<1> DEFINE m == (19 * c) \div 10
<1>3. m \in Nat /\ m >= c /\ (m <= 1 \/ m > c) /\ Size(c) = m + 1 /\ DOMAIN EmptyHash(c) = 0..m
  BY <1>1, <1>2 DEF Size
<1> HIDE DEF m
<1> QED BY <1>3

\* A table without entries.
LEMMA EmptyIs ==
  ASSUME NEW c \in Nat
  PROVE  Sound(EmptyHash(c), Size(c)) /\ Contents(EmptyHash(c)) = {}
<1>1. Size(c) \in Nat \ {0} /\ DOMAIN EmptyHash(c) = 0..(Size(c) - 1) BY SizeIs
<1>2. \A i \in DOMAIN EmptyHash(c) : EmptyHash(c)[i] = Free BY DEF EmptyHash
<1>3. Free \in Slot /\ ~ Free.in_use BY DEF Free, Slot
<1>4. EmptyHash(c) = [i \in 0..(Size(c) - 1) |-> Free] BY <1>1, <1>2 DEF EmptyHash
<1>5. EmptyHash(c) \in [0..(Size(c) - 1) -> Slot] BY <1>3, <1>4
<1>6. InUse(EmptyHash(c)) = {} BY <1>2, <1>3 DEF InUse
<1> QED BY <1>1, <1>5, <1>6 DEF Sound, IsTable, Contents

MoveStep(hash, c, g, i) == IF i = 0 THEN EmptyHash(c) ELSE RehashItem(g[i - 1], hash[i - 1])

\* The recursion of Rehash defines a function.
LEMMA MovesExist ==
  ASSUME NEW hash, NEW c, NEW m \in Nat
  PROVE  \E g : g = [i \in 0..m |-> MoveStep(hash, c, g, i)]
<1> DEFINE N == {j \in Nat : \E g : g = [i \in 0..j |-> MoveStep(hash, c, g, i)]}
<1>1. 0 \in N
  <2> DEFINE g == [i \in 0..0 |-> EmptyHash(c)]
  <2>1. \A i \in 0..0 : MoveStep(hash, c, g, i) = EmptyHash(c) BY DEF MoveStep
  <2>2. g = [i \in 0..0 |-> MoveStep(hash, c, g, i)] BY <2>1, Zenon
  <2> QED BY <2>2
<1>2. ASSUME NEW j \in Nat, j \in N PROVE j + 1 \in N
  <2>1. PICK g : g = [i \in 0..j |-> MoveStep(hash, c, g, i)] BY <1>2
  <2> DEFINE h == [i \in 0..(j + 1) |-> MoveStep(hash, c, g, i)]
  <2>2. ASSUME NEW i \in 0..(j + 1) PROVE MoveStep(hash, c, h, i) = MoveStep(hash, c, g, i)
    <3>1. CASE i = 0 BY <3>1 DEF MoveStep
    <3>2. CASE i # 0
      <4>1. i - 1 \in 0..j /\ i - 1 \in 0..(j + 1) BY <3>2
      <4>2. g[i - 1] = MoveStep(hash, c, g, i - 1) BY <2>1, <4>1, Zenon
      <4>3. h[i - 1] = MoveStep(hash, c, g, i - 1) BY <4>1
      <4>4. h[i - 1] = g[i - 1] BY <4>2, <4>3, Zenon
      <4> HIDE DEF h
      <4> QED BY <3>2, <4>4, Zenon DEF MoveStep
    <3> QED BY <3>1, <3>2
  <2>3. h = [i \in 0..(j + 1) |-> MoveStep(hash, c, h, i)] BY <2>2, Zenon
  <2> HIDE DEF h
  <2> QED BY <2>3
<1> HIDE DEF N
<1>3. m \in N BY <1>1, <1>2, NatSet
<1> QED BY <1>3 DEF N

\* What the first i slots hold.
ContentsUpTo(hash, i) == {EntryAt(hash, j) : j \in {k \in InUse(hash) : k < i}}

\* Another table that is large enough takes all entries.
LEMMA RehashIs ==
  ASSUME NEW hash, NEW n, Sound(hash, n), NEW c \in Nat, Cardinality(Contents(hash)) < Size(c)
  PROVE  Sound(Rehash(hash, c), Size(c)) /\ Contents(Rehash(hash, c)) = Contents(hash)
<1> DEFINE g == CHOOSE g : g = [i \in 0..n |-> MoveStep(hash, c, g, i)]
<1>1. IsTable(hash, n) BY DEF Sound
<1>2. n \in Nat \ {0} /\ n \in Nat /\ Slots(hash) = n /\ InUse(hash) \subseteq 0..(n - 1)
      /\ DOMAIN hash = 0..(n - 1) /\ \A i \in 0..(n - 1) : hash[i] \in Slot
  BY <1>1, TableFacts
<1>3. g = [i \in 0..n |-> MoveStep(hash, c, g, i)]
  <2>1. n \in Nat BY <1>2
  <2>2. \E h : h = [i \in 0..n |-> MoveStep(hash, c, h, i)] BY <2>1, MovesExist, Zenon
  <2> QED BY <2>2, Zenon
<1>4. Rehash(hash, c) = g[n] BY <1>2, Zenon DEF Rehash, MoveStep
<1> HIDE DEF g
<1>5. \A i \in 0..n : g[i] = MoveStep(hash, c, g, i) BY <1>3, Zenon
<1> DEFINE Moved(new, i) == Sound(new, Size(c)) /\ Contents(new) = ContentsUpTo(hash, i)
           Z == {i \in Nat : i <= n => Moved(g[i], i)}
<1>6. 0 \in Z
  <2>1. 0 \in 0..n BY <1>2
  <2>2. g[0] = EmptyHash(c) BY <1>5, <2>1 DEF MoveStep
  <2>3. ContentsUpTo(hash, 0) = {} BY <1>2 DEF ContentsUpTo
  <2> QED BY <2>2, <2>3, EmptyIs
<1>7. ASSUME NEW i \in Nat, i \in Z PROVE i + 1 \in Z
  <2> SUFFICES ASSUME i + 1 <= n PROVE Moved(g[i + 1], i + 1)
    OBVIOUS
  <2> DEFINE new == g[i] item == hash[i]
  <2>1. i + 1 \in 0..n /\ (i + 1) - 1 = i /\ i + 1 # 0 /\ i \in 0..(n - 1) BY <1>2
  <2>2. g[i + 1] = RehashItem(new, item) BY <1>5, <2>1 DEF MoveStep
  <2>3. Moved(new, i) BY <1>2, <1>7
  <2>4. \A j \in InUse(hash) : j < i + 1 <=> j < i \/ j = i BY <1>2
  <2> HIDE DEF new, item, Z
  <2>5. CASE ~ item.in_use
    <3>1. i \notin InUse(hash) BY <2>5 DEF InUse, item
    <3>2. {k \in InUse(hash) : k < i + 1} = {k \in InUse(hash) : k < i} BY <2>4, <3>1
    <3>3. ContentsUpTo(hash, i + 1) = ContentsUpTo(hash, i) BY <3>2 DEF ContentsUpTo
    <3>4. g[i + 1] = new BY <2>2, <2>5 DEF RehashItem
    <3> QED BY <2>3, <3>3, <3>4
  <2>6. CASE item.in_use
    <3>1. i \in InUse(hash) BY <1>2, <2>1, <2>6 DEF InUse, item
    <3>2. {k \in InUse(hash) : k < i + 1} = {k \in InUse(hash) : k < i} \cup {i} BY <2>4, <3>1
    <3>3. EntryAt(hash, i) = EntryOf(item) BY DEF EntryAt, EntryOf, item
    <3>4. ContentsUpTo(hash, i + 1) = ContentsUpTo(hash, i) \cup {EntryOf(item)}
      BY <3>2, <3>3 DEF ContentsUpTo
    <3>5. g[i + 1] = [new EXCEPT ![Find(new, item.key)] = item] BY <2>2, <2>6 DEF RehashItem
    <3>6. HasRoom(new)
      <4>1. IsTable(new, Size(c)) BY <2>3 DEF Sound
      <4>2. Contents(new) \subseteq Contents(hash) BY <2>3 DEF ContentsUpTo, Contents
      <4>3. IsFiniteSet(Contents(hash)) /\ Cardinality(Contents(hash)) \in Nat BY <1>1, CountIs
      <4>4. Cardinality(Contents(new)) <= Cardinality(Contents(hash)) BY <4>2, <4>3, FS_Subset
      <4>5. Cardinality(Contents(new)) \in Nat BY <4>1, CountIs
      <4>6. Size(c) \in Nat BY SizeIs
      <4>7. Cardinality(Contents(new)) < Size(c) BY <4>3, <4>4, <4>5, <4>6
      <4> QED BY <4>1, <4>7, CountIs
    <3>7. \A j \in InUse(new) : new[j].key # item.key
      <4> SUFFICES ASSUME NEW j \in InUse(new), new[j].key = item.key PROVE FALSE
        OBVIOUS
      <4>1. EntryAt(new, j) \in ContentsUpTo(hash, i) BY <2>3 DEF Contents
      <4>2. PICK k \in InUse(hash) : k < i /\ EntryAt(new, j) = EntryAt(hash, k)
        BY <4>1 DEF ContentsUpTo
      <4>3. hash[k].key = hash[i].key BY <4>2 DEF EntryAt, item
      <4>4. k = i BY <1>1, <3>1, <4>3 DEF IsTable
      <4> QED BY <1>2, <3>1, <4>2, <4>4
    <3>8. item \in Slot /\ item.key \in Keys /\ item.value \in Values
      BY <1>1, <1>2, <2>1, <3>1 DEF IsTable, item
    <3>9. Moved([new EXCEPT ![Find(new, item.key)] = item], i + 1)
      BY <2>3, <2>6, <3>4, <3>6, <3>7, <3>8, PlaceIs
    <3> QED BY <3>5, <3>9
  <2> QED BY <2>5, <2>6
<1> HIDE DEF Z
<1>8. Nat \subseteq Z BY <1>6, <1>7, NatSet
<1>9. Moved(g[n], n) BY <1>2, <1>8 DEF Z
<1>10. ContentsUpTo(hash, n) = Contents(hash)
  <2>1. {k \in InUse(hash) : k < n} = InUse(hash) BY <1>2
  <2> QED BY <2>1 DEF ContentsUpTo, Contents
<1> QED BY <1>4, <1>9, <1>10

-----------------------------------------------------------------------------
(* What the mutex guards: the hash table, the order and the evicted entries. *)

Record(n) == [hash : [0..(n - 1) -> Slot], size : Nat, allocated : Nat,
              insertion_order : Seq(Keys), evicted : SUBSET Entry]

\* The entries that are allocated.
All(t) == Contents(t.hash) \cup t.evicted

\* insertion_order_ lists the keys of the table.
Ordered(t) ==
  /\ \A i, j \in DOMAIN t.insertion_order : t.insertion_order[i] = t.insertion_order[j] => i = j
  /\ \A i \in DOMAIN t.insertion_order : \E e \in Contents(t.hash) : e.key = t.insertion_order[i]
  /\ \A e \in Contents(t.hash) : \E i \in DOMAIN t.insertion_order : t.insertion_order[i] = e.key

Counted(t) ==
  /\ t.size = Len(t.insertion_order)
  /\ IsFiniteSet(t.evicted)
  /\ t.allocated = t.size + Cardinality(t.evicted)
  /\ \A e \in t.evicted : e.pins > 0

\* No two entries are at one address.
Apart(t) ==
  /\ \A e, f \in All(t) : e.value = f.value => e = f
  /\ \A e \in Contents(t.hash), f \in t.evicted : e # f

IsCache(t, n) ==
  /\ t \in Record(n)
  /\ Sound(t.hash, n)
  /\ Ordered(t)
  /\ Counted(t)
  /\ Apart(t)

\* What a cache is, for the provers.
LEMMA CacheFacts ==
  ASSUME NEW t, NEW n, IsCache(t, n)
  PROVE  /\ t.insertion_order \in Seq(Keys) /\ Len(t.insertion_order) \in Nat
         /\ DOMAIN t.insertion_order = 1..Len(t.insertion_order)
         /\ t.size \in Nat /\ t.allocated \in Nat /\ Contents(t.hash) \subseteq Entry
         /\ t.evicted \subseteq Entry /\ IsTable(t.hash, n)
         /\ \A e, f \in Contents(t.hash) : e.key = f.key => e = f
<1>1. t.insertion_order \in Seq(Keys) /\ t.size \in Nat /\ t.allocated \in Nat
      /\ t.evicted \subseteq Entry
  BY DEF IsCache, Record
<1>2. IsTable(t.hash, n) BY DEF IsCache, Sound
<1>3. Contents(t.hash) \subseteq Entry BY <1>2, TableFacts
<1>4. \A e, f \in Contents(t.hash) : e.key = f.key => e = f BY <1>2, CountIs
<1>5. Len(t.insertion_order) \in Nat /\ DOMAIN t.insertion_order = 1..Len(t.insertion_order)
  BY <1>1
<1> QED BY <1>1, <1>2, <1>3, <1>4, <1>5

\* size_ is the number of entries in the table.
LEMMA SizeCounts ==
  ASSUME NEW t, NEW n, IsCache(t, n)
  PROVE  /\ Cardinality(Contents(t.hash)) = t.size
         /\ Cardinality(InUse(t.hash)) = t.size
         /\ t.size < n => HasRoom(t.hash)
<1> DEFINE o == t.insertion_order
           D == 1..Len(o)
           b == [i \in D |-> CHOOSE e \in Contents(t.hash) : e.key = o[i]]
<1>1. /\ DOMAIN o = D /\ IsTable(t.hash, n) /\ Len(o) \in Nat /\ t.size = Len(o)
      /\ \A e, f \in Contents(t.hash) : e.key = f.key => e = f
  BY CacheFacts DEF IsCache, Counted
<1>2. \A i \in D : \E e \in Contents(t.hash) : e.key = o[i] BY <1>1 DEF IsCache, Ordered
<1>3. \A i \in D : b[i] \in Contents(t.hash) /\ b[i].key = o[i] BY <1>2
<1> HIDE DEF b
<1>4. \A i, j \in D : o[i] = o[j] => i = j BY <1>1 DEF IsCache, Ordered
<1>5. \A e \in Contents(t.hash) : \E i \in D : o[i] = e.key BY <1>1 DEF IsCache, Ordered
<1> HIDE DEF o
<1>6. b \in Bijection(D, Contents(t.hash))
  <2>1. b \in [D -> Contents(t.hash)]
    <3>1. b = [i \in D |-> b[i]] BY DEF b
    <3> QED BY <1>3, <3>1
  <2>2. \A i, j \in D : b[i] = b[j] => i = j BY <1>3, <1>4
  <2>3. \A e \in Contents(t.hash) : \E i \in D : b[i] = e BY <1>1, <1>3, <1>5
  <2> HIDE DEF D
  <2> QED BY <2>1, <2>2, <2>3 DEF Bijection, Injection, Surjection, IsInjective
<1>7. IsFiniteSet(D) /\ Cardinality(D) = Len(o)
  <2>1. 1 \in Int /\ Len(o) \in Int BY <1>1
  <2>2. IsFiniteSet(1..Len(o)) /\ Cardinality(1..Len(o)) = IF 1 > Len(o) THEN 0 ELSE Len(o) - 1 + 1
    BY <2>1, FS_Interval
  <2> QED BY <1>1, <2>2
<1> HIDE DEF D
<1>8. Cardinality(Contents(t.hash)) = Cardinality(D)
  BY <1>6, <1>7, FS_Bijection DEF ExistsBijection
<1> QED BY <1>1, <1>7, <1>8, CountIs

\* The oldest entry leaves the table; it stays allocated if it is pinned.
LEMMA EvictItemIs ==
  ASSUME NEW t, NEW n, IsCache(t, n), n <= 2 \/ HasRoom(t.hash), t.size > 0
  PROVE  LET u == EvictItem(t)
         IN  /\ IsCache(u, n) /\ HasRoom(u.hash)
             /\ u.insertion_order = Tail(t.insertion_order) /\ u.size = t.size - 1
             /\ Contents(u.hash) \subseteq Contents(t.hash)
             /\ All(u) \subseteq All(t)
             /\ \A e \in All(t) : e \in All(u) \/ e.pins = 0
<1> DEFINE u == EvictItem(t)
           o == t.insertion_order
           k == Head(o)
           idx == CHOOSE i \in InUse(t.hash) : t.hash[i].key = k
           e == EntryAt(t.hash, idx)
           new == Vacate(t.hash, idx)
<1>1. /\ o \in Seq(Keys) /\ Len(o) \in Nat /\ DOMAIN o = 1..Len(o) /\ t.size = Len(o)
      /\ t.size \in Nat /\ t.allocated \in Nat /\ IsTable(t.hash, n)
      /\ Contents(t.hash) \subseteq Entry /\ t.evicted \subseteq Entry
      /\ t.allocated = t.size + Cardinality(t.evicted)
      /\ IsFiniteSet(t.evicted) /\ Cardinality(t.evicted) \in Nat
      /\ \A d, f \in Contents(t.hash) : d.key = f.key => d = f
  <2>1. IsFiniteSet(t.evicted) BY DEF IsCache, Counted
  <2>2. Cardinality(t.evicted) \in Nat BY <2>1, FS_CardinalityType
  <2> QED BY <2>1, <2>2, CacheFacts DEF IsCache, Counted
<1>2. /\ o # <<>> /\ k = o[1] /\ Tail(o) \in Seq(Keys) /\ Len(Tail(o)) = Len(o) - 1
      /\ \A i \in 1..Len(Tail(o)) : Tail(o)[i] = o[i + 1]
  <2>1. o # <<>> BY <1>1
  <2> QED BY <1>1, <2>1, HeadTailProperties
<1>3. idx \in InUse(t.hash) /\ t.hash[idx].key = k
  <2>1. 1 \in DOMAIN o BY <1>1
  <2>2. PICK d \in Contents(t.hash) : d.key = o[1] BY <2>1 DEF IsCache, Ordered
  <2>3. PICK i \in InUse(t.hash) : d = EntryAt(t.hash, i) BY DEF Contents
  <2>4. t.hash[i].key = k BY <1>2, <2>2, <2>3 DEF EntryAt
  <2> QED BY <2>4
<1>4. /\ u = IF t.hash[idx].pins = 0
             THEN [t EXCEPT !.size = @ - 1, !.insertion_order = Tail(@), !.hash = new,
                            !.allocated = @ - 1]
             ELSE [t EXCEPT !.size = @ - 1, !.insertion_order = Tail(@), !.hash = new,
                            !.evicted = @ \cup {e}]
  <2> DEFINE left == [t EXCEPT !.size = @ - 1, !.insertion_order = Tail(@), !.hash = Vacate(@, idx)]
             rec == [key |-> k, value |-> t.hash[idx].value, pins |-> t.hash[idx].pins]
  <2>1. u = IF t.hash[idx].pins = 0 THEN [left EXCEPT !.allocated = @ - 1]
            ELSE [left EXCEPT !.evicted = @ \cup {rec}]
    BY Zenon DEF EvictItem
  <2>2. rec = e BY <1>3 DEF EntryAt
  <2>3. left = [t EXCEPT !.size = @ - 1, !.insertion_order = Tail(@), !.hash = new]
    BY DEF new
  <2> HIDE DEF rec, e, new, idx, u
  <2> HIDE DEF k
  <2>4. t \in Record(n) BY DEF IsCache
  <2> HIDE DEF left
  <2>5. u = IF t.hash[idx].pins = 0 THEN [left EXCEPT !.allocated = @ - 1]
            ELSE [left EXCEPT !.evicted = @ \cup {e}]
    BY <2>1, <2>2
  <2> QED BY <2>3, <2>4, <2>5 DEF Record
<1> HIDE DEF idx
<1>5. e \in Contents(t.hash) /\ e \in Entry /\ e.key = k /\ e.pins = t.hash[idx].pins
  BY <1>1, <1>3 DEF Contents, EntryAt
<1>6. Sound(new, n) /\ HasRoom(new) /\ Contents(new) = Contents(t.hash) \ {e}
  BY <1>3, VacateIs DEF IsCache
<1>7. new \in [0..(n - 1) -> Slot] BY <1>6 DEF Sound, IsTable
<1> HIDE DEF new, e, u, k
<1>8. /\ u \in Record(n) /\ u.size = t.size - 1 /\ u.insertion_order = Tail(o) /\ u.hash = new
      /\ e.pins = 0 => u.evicted = t.evicted /\ u.allocated = t.allocated - 1
      /\ e.pins # 0 => u.evicted = t.evicted \cup {e} /\ u.allocated = t.allocated
  <2>1. t \in Record(n) BY DEF IsCache
  <2>2. t.size - 1 \in Nat /\ t.allocated - 1 \in Nat BY <1>1
  <2>3. Tail(o) \in Seq(Keys) BY <1>2
  <2>4. CASE e.pins = 0
    <3>1. u = [t EXCEPT !.size = @ - 1, !.insertion_order = Tail(@), !.hash = new,
                        !.allocated = @ - 1]
      BY <1>4, <1>5, <2>4
    <3> QED BY <2>1, <2>2, <2>3, <3>1, <1>7, <2>4 DEF Record
  <2>5. CASE e.pins # 0
    <3>1. u = [t EXCEPT !.size = @ - 1, !.insertion_order = Tail(@), !.hash = new,
                        !.evicted = @ \cup {e}]
      BY <1>4, <1>5, <2>5
    <3> QED BY <2>1, <2>2, <2>3, <3>1, <1>7, <2>5, <1>5 DEF Record
  <2> QED BY <2>4, <2>5
<1> HIDE DEF o
<1>9. Contents(u.hash) \subseteq Contents(t.hash) /\ Contents(u.hash) = Contents(t.hash) \ {e}
  BY <1>6, <1>8
<1>10. e \notin t.evicted BY <1>5 DEF IsCache, Apart
<1>11. Ordered(u)
  <2> DEFINE p == u.insertion_order
  <2>1. /\ DOMAIN p = 1..(Len(o) - 1) /\ DOMAIN o = 1..Len(o)
        /\ \A i \in 1..(Len(o) - 1) : p[i] = o[i + 1] /\ i + 1 \in 1..Len(o) /\ i + 1 # 1
    BY <1>1, <1>2, <1>8
  <2>2. \A i, j \in 1..Len(o) : o[i] = o[j] => i = j BY <1>1 DEF IsCache, Ordered, o
  <2>3. \A i, j \in DOMAIN p : p[i] = p[j] => i = j BY <2>1, <2>2
  <2>4. ASSUME NEW i \in DOMAIN p PROVE \E d \in Contents(u.hash) : d.key = p[i]
    <3>1. PICK d \in Contents(t.hash) : d.key = o[i + 1]
      BY <2>1 DEF IsCache, Ordered, o
    <3>2. 1 \in 1..Len(o) BY <1>1, <2>1
    <3>3. d # e BY <1>2, <1>5, <2>1, <2>2, <3>1, <3>2
    <3> QED BY <1>9, <2>1, <3>1, <3>3
  <2>5. ASSUME NEW d \in Contents(u.hash) PROVE \E i \in DOMAIN p : p[i] = d.key
    <3>1. d \in Contents(t.hash) /\ d # e BY <1>9
    <3>2. PICK i \in 1..Len(o) : o[i] = d.key BY <1>1, <3>1 DEF IsCache, Ordered, o
    <3>3. i # 1 BY <1>1, <1>2, <1>5, <3>1, <3>2
    <3>4. i - 1 \in 1..(Len(o) - 1) /\ (i - 1) + 1 = i BY <1>1, <3>3
    <3> QED BY <2>1, <3>2, <3>4
  <2> QED BY <2>3, <2>4, <2>5 DEF Ordered
<1>12. Counted(u)
  <2>1. u.size = Len(u.insertion_order) BY <1>1, <1>2, <1>8
  <2>2. CASE e.pins = 0
    <3>1. \A f \in u.evicted : f.pins > 0 BY <1>8, <2>2 DEF IsCache, Counted
    <3> QED BY <1>1, <1>8, <2>1, <2>2, <3>1 DEF Counted
  <2>3. CASE e.pins # 0
    <3>1. Cardinality(u.evicted) = Cardinality(t.evicted) + 1 /\ IsFiniteSet(u.evicted)
      BY <1>1, <1>8, <1>10, <2>3, FS_AddElement
    <3>2. e.pins > 0 BY <1>5, <2>3 DEF Entry
    <3>3. \A f \in u.evicted : f.pins > 0 BY <1>8, <2>3, <3>2 DEF IsCache, Counted
    <3> QED BY <1>1, <1>8, <2>1, <2>3, <3>1, <3>3 DEF Counted
  <2> QED BY <2>2, <2>3
<1>13. All(u) \subseteq All(t) BY <1>5, <1>8, <1>9 DEF All
<1>14. \A f \in All(t) : f \in All(u) \/ f.pins = 0 BY <1>8, <1>9 DEF All
<1>15. Apart(u)
  <2>1. \A d, f \in All(u) : d.value = f.value => d = f BY <1>13 DEF IsCache, Apart
  <2>2. \A d \in Contents(u.hash), f \in u.evicted : d # f
    BY <1>8, <1>9 DEF IsCache, Apart
  <2> QED BY <2>1, <2>2 DEF Apart
<1>16. IsCache(u, n) /\ HasRoom(u.hash) BY <1>6, <1>8, <1>11, <1>12, <1>15 DEF IsCache
<1> QED BY <1>8, <1>9, <1>13, <1>14, <1>16 DEF u, o

EvictStep(t, g, m) == IF m = 0 THEN t ELSE EvictItem(g[m - 1])

\* The recursion of EvictToCapacity defines a function.
LEMMA EvictionsExist ==
  ASSUME NEW t, NEW m \in Nat
  PROVE  \E g : g = [i \in 0..m |-> EvictStep(t, g, i)]
<1> DEFINE N == {j \in Nat : \E g : g = [i \in 0..j |-> EvictStep(t, g, i)]}
<1>1. 0 \in N
  <2> DEFINE g == [i \in 0..0 |-> t]
  <2>1. \A i \in 0..0 : EvictStep(t, g, i) = t BY DEF EvictStep
  <2>2. g = [i \in 0..0 |-> EvictStep(t, g, i)] BY <2>1, Zenon
  <2> QED BY <2>2
<1>2. ASSUME NEW j \in Nat, j \in N PROVE j + 1 \in N
  <2>1. PICK g : g = [i \in 0..j |-> EvictStep(t, g, i)] BY <1>2
  <2> DEFINE h == [i \in 0..(j + 1) |-> EvictStep(t, g, i)]
  <2>2. ASSUME NEW i \in 0..(j + 1) PROVE EvictStep(t, h, i) = EvictStep(t, g, i)
    <3>1. CASE i = 0 BY <3>1 DEF EvictStep
    <3>2. CASE i # 0
      <4>1. i - 1 \in 0..j /\ i - 1 \in 0..(j + 1) BY <3>2
      <4>2. g[i - 1] = EvictStep(t, g, i - 1) BY <2>1, <4>1, Zenon
      <4>3. h[i - 1] = EvictStep(t, g, i - 1) BY <4>1
      <4>4. h[i - 1] = g[i - 1] BY <4>2, <4>3, Zenon
      <4> HIDE DEF h
      <4> QED BY <3>2, <4>4, Zenon DEF EvictStep
    <3> QED BY <3>1, <3>2
  <2>3. h = [i \in 0..(j + 1) |-> EvictStep(t, h, i)] BY <2>2, Zenon
  <2> HIDE DEF h
  <2> QED BY <2>3
<1> HIDE DEF N
<1>3. m \in N BY <1>1, <1>2, NatSet
<1> QED BY <1>3 DEF N

\* The m oldest entries left the table.
EvictedBy(t, u, n, m) ==
  /\ IsCache(u, n)
  /\ HasRoom(t.hash) \/ m > 0 => HasRoom(u.hash)
  /\ Len(u.insertion_order) = Len(t.insertion_order) - m
  /\ \A i \in 1..Len(u.insertion_order) : u.insertion_order[i] = t.insertion_order[i + m]
  /\ Contents(u.hash) \subseteq Contents(t.hash)
  /\ All(u) \subseteq All(t)
  /\ \A e \in All(t) : e \in All(u) \/ e.pins = 0

\* One more eviction.
LEMMA OneMore ==
  ASSUME NEW t, NEW u, NEW n, NEW m \in Nat, IsCache(t, n), n <= 2 \/ HasRoom(t.hash),
         EvictedBy(t, u, n, m), u.size > 0
  PROVE  EvictedBy(t, EvictItem(u), n, m + 1)
<1> DEFINE w == EvictItem(u)
<1>1. IsCache(u, n) /\ (n <= 2 \/ HasRoom(u.hash)) BY DEF EvictedBy
<1>2. /\ IsCache(w, n) /\ HasRoom(w.hash)
      /\ w.insertion_order = Tail(u.insertion_order) /\ w.size = u.size - 1
      /\ Contents(w.hash) \subseteq Contents(u.hash)
      /\ All(w) \subseteq All(u)
      /\ \A e \in All(u) : e \in All(w) \/ e.pins = 0
  BY <1>1, EvictItemIs
<1> HIDE DEF w
<1>3. /\ u.insertion_order \in Seq(Keys) /\ Len(u.insertion_order) \in Nat
      /\ u.size = Len(u.insertion_order) /\ Len(t.insertion_order) \in Nat
  BY <1>1, CacheFacts DEF IsCache, Counted
<1>4. u.insertion_order # <<>> BY <1>3
<1>5. /\ Len(w.insertion_order) = Len(u.insertion_order) - 1
      /\ \A i \in 1..Len(w.insertion_order) : w.insertion_order[i] = u.insertion_order[i + 1]
  BY <1>2, <1>3, <1>4, HeadTailProperties
<1>6. Len(w.insertion_order) = Len(t.insertion_order) - (m + 1) BY <1>3, <1>5 DEF EvictedBy
<1>7. ASSUME NEW i \in 1..Len(w.insertion_order)
      PROVE  w.insertion_order[i] = t.insertion_order[i + (m + 1)]
  <2>1. i + 1 \in 1..Len(u.insertion_order) /\ (i + 1) + m = i + (m + 1) BY <1>3, <1>5
  <2>2. u.insertion_order[i + 1] = t.insertion_order[(i + 1) + m] BY <2>1 DEF EvictedBy
  <2> QED BY <1>5, <2>1, <2>2
<1>8. Contents(w.hash) \subseteq Contents(t.hash) /\ All(w) \subseteq All(t) BY <1>2 DEF EvictedBy
<1>9. \A e \in All(t) : e \in All(w) \/ e.pins = 0 BY <1>2 DEF EvictedBy
<1> QED BY <1>2, <1>6, <1>7, <1>8, <1>9 DEF EvictedBy, w

\* How many entries are too many.
Surplus(t, c) == IF t.size <= c THEN 0 ELSE t.size - c

\* EvictToCapacity evicts as many entries as there are too many, the oldest first.
LEMMA EvictToCapacityIs ==
  ASSUME NEW t, NEW n, IsCache(t, n), n <= 2 \/ HasRoom(t.hash), NEW c \in Nat
  PROVE  /\ Surplus(t, c) \in Nat
         /\ EvictedBy(t, EvictToCapacity(t, c), n, Surplus(t, c))
<1>1. /\ t.size \in Nat /\ t.size = Len(t.insertion_order) /\ Surplus(t, c) \in Nat
      /\ Surplus(t, c) <= t.size
  BY CacheFacts DEF IsCache, Counted, Surplus
<1>2. EvictedBy(t, t, n, 0)
  BY <1>1 DEF EvictedBy
<1>3. CASE t.size <= c
  <2>1. Surplus(t, c) = 0 /\ EvictToCapacity(t, c) = t
    BY <1>3, Zenon DEF Surplus, EvictToCapacity
  <2> QED BY <1>2, <2>1
<1>4. CASE ~(t.size <= c)
  <2> DEFINE g == CHOOSE g : g = [m \in 0..t.size |-> EvictStep(t, g, m)]
  <2>1. g = [m \in 0..t.size |-> EvictStep(t, g, m)]
    <3>1. t.size \in Nat BY <1>1
    <3>2. \E h : h = [m \in 0..t.size |-> EvictStep(t, h, m)] BY <3>1, EvictionsExist, Zenon
    <3> QED BY <3>2, Zenon
  <2>2. EvictToCapacity(t, c) = g[t.size - c]
    BY <1>4, Zenon DEF EvictToCapacity, EvictStep
  <2> HIDE DEF g
  <2>3. \A m \in 0..t.size : g[m] = EvictStep(t, g, m) BY <2>1, Zenon
  <2> DEFINE Z == {m \in Nat : m <= t.size => EvictedBy(t, g[m], n, m)}
  <2>4. 0 \in Z
    <3>1. 0 \in 0..t.size BY <1>1
    <3>2. g[0] = t BY <2>3, <3>1 DEF EvictStep
    <3> QED BY <1>2, <3>2
  <2>5. ASSUME NEW m \in Nat, m \in Z PROVE m + 1 \in Z
    <3> SUFFICES ASSUME m + 1 <= t.size PROVE EvictedBy(t, g[m + 1], n, m + 1)
      OBVIOUS
    <3>1. m + 1 \in 0..t.size /\ m + 1 # 0 /\ (m + 1) - 1 = m /\ m <= t.size BY <1>1
    <3>2. g[m + 1] = EvictItem(g[m]) BY <2>3, <3>1 DEF EvictStep
    <3>3. EvictedBy(t, g[m], n, m) BY <2>5, <3>1
    <3> HIDE DEF Z
    <3>4. g[m].size > 0
      <4>1. g[m].size = Len(g[m].insertion_order) BY <3>3 DEF EvictedBy, IsCache, Counted
      <4>2. Len(g[m].insertion_order) = Len(t.insertion_order) - m BY <3>3 DEF EvictedBy
      <4> QED BY <1>1, <3>1, <4>1, <4>2
    <3> QED BY <3>2, <3>3, <3>4, OneMore
  <2> HIDE DEF Z
  <2>6. Nat \subseteq Z BY <2>4, <2>5, NatSet
  <2>7. Surplus(t, c) = t.size - c BY <1>4 DEF Surplus
  <2> QED BY <1>1, <2>2, <2>6, <2>7 DEF Z
<1> QED BY <1>1, <1>3, <1>4

-----------------------------------------------------------------------------
(* The ideal cache that a table stands for. *)

FifoOf(t) ==
    [i \in DOMAIN t.insertion_order |->
        LET k == t.insertion_order[i]
        IN  [key |-> k, value |-> t.hash[Find(t.hash, k)].value]]

FifoEntry == [key : Keys, value : Values]

\* A function on 1..n is a sequence.
LEMMA FunIsSeq ==
  ASSUME NEW S, NEW n \in Nat, NEW f \in [1..n -> S]
  PROVE  f \in Seq(S) /\ Len(f) = n
OBVIOUS

\* The entries of the table in the order in which they were inserted.
LEMMA FifoIs ==
  ASSUME NEW t, NEW n, IsCache(t, n)
  PROVE  /\ DOMAIN FifoOf(t) = 1..Len(t.insertion_order)
         /\ \A i \in 1..Len(t.insertion_order), e \in Contents(t.hash) :
              e.key = t.insertion_order[i] => FifoOf(t)[i] = [key |-> e.key, value |-> e.value]
         /\ \A i \in 1..Len(t.insertion_order) :
              \E e \in Contents(t.hash) : /\ e.key = t.insertion_order[i]
                                          /\ FifoOf(t)[i] = [key |-> e.key, value |-> e.value]
         /\ FifoOf(t) \in Seq(FifoEntry)
         /\ Len(FifoOf(t)) = Len(t.insertion_order)
<1> DEFINE o == t.insertion_order
<1>1. /\ DOMAIN o = 1..Len(o) /\ Len(o) \in Nat /\ Contents(t.hash) \subseteq Entry
  BY CacheFacts
<1>2. \A i \in 1..Len(o) : \E e \in Contents(t.hash) : e.key = o[i]
  BY <1>1 DEF IsCache, Ordered
<1>3. DOMAIN FifoOf(t) = 1..Len(o) BY <1>1 DEF FifoOf
<1>4. ASSUME NEW i \in 1..Len(o), NEW e \in Contents(t.hash), e.key = o[i]
      PROVE  FifoOf(t)[i] = [key |-> e.key, value |-> e.value]
  <2>1. PICK j \in InUse(t.hash) : e = EntryAt(t.hash, j) BY DEF Contents
  <2>2. t.hash[j].key = o[i] /\ t.hash[j].value = e.value BY <1>4, <2>1 DEF EntryAt
  <2>3. Find(t.hash, t.hash[j].key) = j BY FindPresent DEF IsCache
  <2> QED BY <1>1, <1>4, <2>2, <2>3 DEF FifoOf
<1> HIDE DEF o
<1>5. \A i \in 1..Len(o) : \E e \in Contents(t.hash) :
         /\ e.key = o[i] /\ FifoOf(t)[i] = [key |-> e.key, value |-> e.value]
  BY <1>2, <1>4
<1>6. ASSUME NEW i \in 1..Len(o) PROVE FifoOf(t)[i] \in FifoEntry
  <2>1. PICK e \in Contents(t.hash) : FifoOf(t)[i] = [key |-> e.key, value |-> e.value]
    BY <1>5
  <2>2. e \in Entry BY <1>1
  <2>3. e.key \in Keys /\ e.value \in Values BY <2>2 DEF Entry
  <2> QED BY <2>1, <2>3 DEF FifoEntry
<1>7. FifoOf(t) \in Seq(FifoEntry) /\ Len(FifoOf(t)) = Len(o)
  <2>1. FifoOf(t) = [i \in 1..Len(o) |-> FifoOf(t)[i]] BY <1>3 DEF FifoOf
  <2>2. FifoOf(t) \in [1..Len(o) -> FifoEntry] BY <1>6, <2>1
  <2> QED BY <1>1, <2>2, FunIsSeq
<1> QED BY <1>3, <1>4, <1>5, <1>7 DEF o

\* What is in the table after an eviction are the newest entries.
LEMMA EvictedIsNewest ==
  ASSUME NEW t, NEW n, IsCache(t, n), n <= 2 \/ HasRoom(t.hash), NEW c \in Nat
  PROVE  FifoOf(EvictToCapacity(t, c)) = Ideal!Newest(FifoOf(t), c)
<1> DEFINE u == EvictToCapacity(t, c)
           m == Surplus(t, c)
           f == FifoOf(t)
           g == FifoOf(u)
<1>1. m \in Nat /\ EvictedBy(t, u, n, m) BY EvictToCapacityIs
<1>2. /\ f \in Seq(FifoEntry) /\ Len(f) = Len(t.insertion_order)
      /\ Len(f) = t.size /\ Len(f) \in Nat
      /\ \A i \in 1..Len(f), e \in Contents(t.hash) :
              e.key = t.insertion_order[i] => f[i] = [key |-> e.key, value |-> e.value]
  <2>1. t.size = Len(t.insertion_order) /\ Len(t.insertion_order) \in Nat
    BY CacheFacts DEF IsCache, Counted
  <2> QED BY <2>1, FifoIs
<1>3. IsCache(u, n) BY <1>1 DEF EvictedBy
<1> HIDE DEF u
<1>4. /\ g \in Seq(FifoEntry) /\ Len(g) = Len(u.insertion_order)
      /\ Len(g) \in Nat
      /\ \A i \in 1..Len(g) :
              \E e \in Contents(u.hash) : /\ e.key = u.insertion_order[i]
                                          /\ g[i] = [key |-> e.key, value |-> e.value]
  <2>1. Len(u.insertion_order) \in Nat BY <1>3, CacheFacts
  <2> QED BY <1>3, <2>1, FifoIs
<1> HIDE DEF f, g
<1>5. Len(g) = Len(f) - m BY <1>1, <1>2, <1>4 DEF EvictedBy
<1>6. ASSUME NEW i \in 1..Len(g) PROVE g[i] = f[i + m]
  <2>1. PICK e \in Contents(u.hash) : /\ e.key = u.insertion_order[i]
                                      /\ g[i] = [key |-> e.key, value |-> e.value]
    BY <1>4
  <2>2. u.insertion_order[i] = t.insertion_order[i + m] /\ e \in Contents(t.hash)
    BY <1>1, <1>4 DEF EvictedBy
  <2>3. i + m \in 1..Len(f) BY <1>1, <1>2, <1>4, <1>5
  <2> QED BY <1>2, <2>1, <2>2, <2>3
<1>7. m = IF Len(f) <= c THEN 0 ELSE Len(f) - c BY <1>2 DEF Surplus
<1> HIDE DEF m
<1>8. CASE Len(f) <= c
  <2>1. m = 0 /\ Len(g) = Len(f) BY <1>1, <1>2, <1>4, <1>5, <1>7, <1>8
  <2>2. \A i \in 1..Len(g) : g[i] = f[i] BY <1>2, <1>4, <1>6, <2>1
  <2>3. g = f BY <1>2, <1>4, <2>1, <2>2, SeqEqual
  <2> QED BY <1>8, <2>3 DEF Ideal!Newest, f, g, u
<1>9. CASE ~(Len(f) <= c)
  <2> DEFINE s == SubSeq(f, Len(f) - c + 1, Len(f))
  <2>1. m = Len(f) - c /\ Len(g) = c BY <1>1, <1>2, <1>4, <1>5, <1>7, <1>9
  <2>2. Len(f) - c + 1 \in 1..(Len(f) + 1) /\ Len(f) \in Nat BY <1>2, <1>9
  <2>3. \A i \in (Len(f) - c + 1)..Len(f) : f[i] \in FifoEntry
    <3>1. \A i \in (Len(f) - c + 1)..Len(f) : i \in 1..Len(f) BY <2>2
    <3> QED BY <1>2, <3>1, ElementOfSeq
  <2>4. /\ s \in Seq(FifoEntry) /\ Len(s) = c
        /\ \A i \in 1..c : s[i] = f[i + (Len(f) - c)]
    BY <1>2, <2>2, <2>3, SubSeqProperties, <1>9
  <2> HIDE DEF s
  <2>5. \A i \in 1..Len(g) : g[i] = s[i] BY <1>6, <2>1, <2>4
  <2>6. g = s BY <1>4, <2>1, <2>4, <2>5, SeqEqual
  <2> QED BY <1>9, <2>6 DEF Ideal!Newest, f, g, u, s
<1> QED BY <1>8, <1>9

-----------------------------------------------------------------------------
(* Insertions and pins. *)

NewEntry(k, v) == [key |-> k, value |-> v, pins |-> 0]

\* A new entry is the newest, and it has no pins.
LEMMA InsertNewIs ==
  ASSUME NEW t, NEW n, IsCache(t, n), HasRoom(t.hash), NEW k \in Keys, NEW v \in Values,
         \A e \in Contents(t.hash) : e.key # k, \A e \in All(t) : e.value # v
  PROVE  LET u == InsertNew(t, k, v)
         IN  /\ IsCache(u, n) /\ u.size = t.size + 1
             /\ Contents(u.hash) = Contents(t.hash) \cup {NewEntry(k, v)}
             /\ All(u) = All(t) \cup {NewEntry(k, v)}
             /\ FifoOf(u) = Append(FifoOf(t), [key |-> k, value |-> v])
<1> DEFINE u == InsertNew(t, k, v)
           o == t.insertion_order
           item == [in_use |-> TRUE, key |-> k, value |-> v, pins |-> 0]
           f == Find(t.hash, k)
           new == [t.hash EXCEPT ![f] = item]
           e == NewEntry(k, v)
<1>1. /\ o \in Seq(Keys) /\ Len(o) \in Nat /\ DOMAIN o = 1..Len(o) /\ t.size = Len(o)
      /\ t.size \in Nat /\ t.allocated \in Nat /\ t.allocated = t.size + Cardinality(t.evicted)
      /\ Cardinality(t.evicted) \in Nat /\ t.evicted \subseteq Entry
      /\ IsFiniteSet(t.evicted)
  <2>1. IsFiniteSet(t.evicted) BY DEF IsCache, Counted
  <2>2. Cardinality(t.evicted) \in Nat BY <2>1, FS_CardinalityType
  <2> QED BY <2>1, <2>2, CacheFacts DEF IsCache, Counted
<1>2. /\ Sound(new, n) /\ Contents(new) = Contents(t.hash) \cup {e}
  <2>1. item \in Slot BY DEF Slot
  <2>2. ASSUME NEW i \in InUse(t.hash) PROVE t.hash[i].key # k
    <3>1. EntryAt(t.hash, i) \in Contents(t.hash) BY DEF Contents
    <3>2. EntryAt(t.hash, i).key = t.hash[i].key BY DEF EntryAt
    <3> QED BY <3>1, <3>2
  <2>3. EntryOf(item) = e BY DEF EntryOf, NewEntry
  <2>4. Sound(t.hash, n) BY DEF IsCache
  <2> QED BY <2>1, <2>2, <2>3, <2>4, PlaceIs
<1>3. new \in [0..(n - 1) -> Slot] BY <1>2 DEF Sound, IsTable
<1>4. u = [t EXCEPT !.hash = new, !.insertion_order = Append(@, k), !.size = @ + 1,
                    !.allocated = @ + 1]
  BY DEF InsertNew
<1> HIDE DEF new, u, item
<1>5. /\ Append(o, k) \in Seq(Keys) /\ Len(Append(o, k)) = Len(o) + 1
      /\ \A i \in 1..Len(o) : Append(o, k)[i] = o[i]
      /\ Append(o, k)[Len(o) + 1] = k
  BY <1>1
<1>6. /\ u \in Record(n) /\ u.size = t.size + 1 /\ u.allocated = t.allocated + 1
      /\ u.insertion_order = Append(o, k) /\ u.hash = new /\ u.evicted = t.evicted
  <2>1. t \in Record(n) BY DEF IsCache
  <2>2. t.size + 1 \in Nat /\ t.allocated + 1 \in Nat BY <1>1
  <2> QED BY <2>1, <2>2, <1>3, <1>4, <1>5 DEF Record
<1>7. e.key = k /\ e.value = v /\ e.pins = 0 BY DEF NewEntry
<1> HIDE DEF o, e
<1>8. Contents(u.hash) = Contents(t.hash) \cup {e} /\ All(u) = All(t) \cup {e}
  BY <1>2, <1>6 DEF All
<1>9. Ordered(u)
  <2> DEFINE p == u.insertion_order
  <2>1. /\ \A i, j \in 1..Len(o) : o[i] = o[j] => i = j
        /\ \A i \in 1..Len(o) : \E d \in Contents(t.hash) : d.key = o[i]
        /\ \A d \in Contents(t.hash) : \E i \in 1..Len(o) : o[i] = d.key
    BY <1>1 DEF IsCache, Ordered, o
  <2>2. /\ DOMAIN p = 1..(Len(o) + 1) /\ p[Len(o) + 1] = k
        /\ \A i \in 1..Len(o) : p[i] = o[i] /\ i # Len(o) + 1 /\ i \in 1..(Len(o) + 1)
        /\ \A i \in 1..(Len(o) + 1) : i \in 1..Len(o) \/ i = Len(o) + 1
        /\ Len(o) + 1 \in 1..(Len(o) + 1)
    BY <1>1, <1>5, <1>6
  <2> HIDE DEF p
  <2>3. \A i \in 1..Len(o) : p[i] # k BY <2>1, <2>2
  <2>4. \A i, j \in DOMAIN p : p[i] = p[j] => i = j
    <3> SUFFICES ASSUME NEW i \in DOMAIN p, NEW j \in DOMAIN p, p[i] = p[j] PROVE i = j
      OBVIOUS
    <3>1. CASE i \in 1..Len(o) /\ j \in 1..Len(o) BY <3>1, <2>1, <2>2
    <3>2. CASE i \in 1..Len(o) /\ j = Len(o) + 1 BY <3>2, <2>2, <2>3
    <3>3. CASE i = Len(o) + 1 /\ j \in 1..Len(o) BY <3>3, <2>2, <2>3
    <3>4. CASE i = Len(o) + 1 /\ j = Len(o) + 1 BY <3>4
    <3> QED BY <2>2, <3>1, <3>2, <3>3, <3>4
  <2>5. \A i \in DOMAIN p : \E d \in Contents(u.hash) : d.key = p[i]
    BY <1>7, <1>8, <2>1, <2>2
  <2>6. \A d \in Contents(u.hash) : \E i \in DOMAIN p : p[i] = d.key
    BY <1>7, <1>8, <2>1, <2>2
  <2> QED BY <2>4, <2>5, <2>6 DEF Ordered, p
<1>10. Counted(u)
  <2>1. u.size = Len(u.insertion_order) /\ u.allocated = u.size + Cardinality(u.evicted)
    BY <1>1, <1>5, <1>6
  <2>2. \A d \in u.evicted : d.pins > 0 BY <1>6 DEF IsCache, Counted
  <2> QED BY <1>1, <1>6, <2>1, <2>2 DEF Counted
<1>11. Apart(u)
  <2>1. \A c, d \in All(t) : c.value = d.value => c = d BY DEF IsCache, Apart
  <2>2. \A c, d \in All(u) : c.value = d.value => c = d BY <1>7, <1>8, <2>1
  <2>3. \A c \in Contents(t.hash), d \in t.evicted : c # d BY DEF IsCache, Apart
  <2>4. \A d \in t.evicted : d # e BY <1>7 DEF All
  <2> QED BY <1>6, <1>8, <2>2, <2>3, <2>4 DEF Apart
<1>12. IsCache(u, n) BY <1>2, <1>6, <1>9, <1>10, <1>11 DEF IsCache
<1>13. FifoOf(u) = Append(FifoOf(t), [key |-> k, value |-> v])
  <2> DEFINE g == FifoOf(u) h == Append(FifoOf(t), [key |-> k, value |-> v])
  <2>1. /\ g \in Seq(FifoEntry) /\ Len(g) = Len(o) + 1
        /\ \A i \in 1..(Len(o) + 1), d \in Contents(u.hash) :
             d.key = u.insertion_order[i] => g[i] = [key |-> d.key, value |-> d.value]
    <3>1. Len(u.insertion_order) = Len(o) + 1 BY <1>5, <1>6
    <3> HIDE DEF FifoEntry
    <3>2. /\ FifoOf(u) \in Seq(FifoEntry) /\ Len(FifoOf(u)) = Len(u.insertion_order)
          /\ \A i \in 1..Len(u.insertion_order), d \in Contents(u.hash) :
               d.key = u.insertion_order[i] => FifoOf(u)[i] = [key |-> d.key, value |-> d.value]
      BY <1>12, FifoIs
    <3> QED BY <3>1, <3>2
  <2>2. /\ FifoOf(t) \in Seq(FifoEntry) /\ Len(FifoOf(t)) = Len(o)
        /\ \A i \in 1..Len(o) :
             \E d \in Contents(t.hash) : /\ d.key = o[i]
                                         /\ FifoOf(t)[i] = [key |-> d.key, value |-> d.value]
    BY FifoIs DEF o
  <2>3. [key |-> k, value |-> v] \in FifoEntry BY DEF FifoEntry
  <2>4. /\ h \in Seq(FifoEntry) /\ Len(h) = Len(o) + 1
        /\ \A i \in 1..Len(o) : h[i] = FifoOf(t)[i]
        /\ h[Len(o) + 1] = [key |-> k, value |-> v]
    BY <2>2, <2>3
  <2> HIDE DEF g, h
  <2>5. ASSUME NEW i \in 1..Len(g) PROVE g[i] = h[i]
    <3>1. CASE i = Len(o) + 1
      <4>1. u.insertion_order[i] = k BY <1>5, <1>6, <3>1
      <4>2. i \in 1..(Len(o) + 1) BY <1>1, <3>1
      <4> QED BY <1>7, <1>8, <2>1, <2>4, <3>1, <4>1, <4>2
    <3>2. CASE i \in 1..Len(o)
      <4>1. PICK d \in Contents(t.hash) : /\ d.key = o[i]
                                          /\ FifoOf(t)[i] = [key |-> d.key, value |-> d.value]
        BY <2>2, <3>2
      <4>2. u.insertion_order[i] = o[i] /\ i \in 1..(Len(o) + 1) BY <1>1, <1>5, <1>6, <3>2
      <4> QED BY <1>8, <2>1, <2>4, <3>2, <4>1, <4>2
    <3> QED BY <1>1, <2>1, <3>1, <3>2
  <2>6. g = h BY <2>1, <2>4, <2>5, SeqEqual
  <2> QED BY <2>6 DEF g, h
<1> QED BY <1>6, <1>8, <1>12, <1>13 DEF u, e

Pinned(e, p) == [key |-> e.key, value |-> e.value, pins |-> p]

\* Only the pins of entry e changed, and without pins it may be gone.
Repinned(t, u, n, e, p) ==
  /\ IsCache(u, n)
  /\ HasRoom(t.hash) => HasRoom(u.hash)
  /\ u.size = t.size
  /\ FifoOf(u) = FifoOf(t)
  /\ \/ All(u) = (All(t) \ {e}) \cup {Pinned(e, p)}
     \/ p = 0 /\ All(u) = All(t) \ {e}

\* The same keys and values in the same order are the same ideal cache.
LEMMA SameFifo ==
  ASSUME NEW t, NEW n, IsCache(t, n), NEW u, NEW m, IsCache(u, m),
         u.insertion_order = t.insertion_order,
         \A e \in Contents(t.hash) : \E f \in Contents(u.hash) : f.key = e.key /\ f.value = e.value
  PROVE  FifoOf(u) = FifoOf(t)
<1> DEFINE g == FifoOf(u) h == FifoOf(t) o == t.insertion_order
<1>1. /\ h \in Seq(FifoEntry) /\ Len(h) = Len(o)
      /\ \A i \in 1..Len(o) : \E d \in Contents(t.hash) : /\ d.key = o[i]
                                         /\ h[i] = [key |-> d.key, value |-> d.value]
  BY FifoIs
<1>2. /\ g \in Seq(FifoEntry) /\ Len(g) = Len(o)
      /\ \A i \in 1..Len(o), d \in Contents(u.hash) :
             d.key = o[i] => g[i] = [key |-> d.key, value |-> d.value]
  BY FifoIs
<1> HIDE DEF g, h, o
<1>3. ASSUME NEW i \in 1..Len(g) PROVE g[i] = h[i]
  <2>1. i \in 1..Len(o) BY <1>2
  <2>2. PICK d \in Contents(t.hash) : d.key = o[i] /\ h[i] = [key |-> d.key, value |-> d.value]
    BY <1>1, <2>1
  <2>3. PICK f \in Contents(u.hash) : f.key = d.key /\ f.value = d.value OBVIOUS
  <2>4. g[i] = [key |-> f.key, value |-> f.value] BY <1>2, <2>1, <2>2, <2>3
  <2> QED BY <2>2, <2>3, <2>4
<1>4. g = h BY <1>1, <1>2, <1>3, SeqEqual
<1> QED BY <1>4 DEF g, h

\* An entry of the table gets another number of pins.
LEMMA RepinInTable ==
  ASSUME NEW t, NEW n, IsCache(t, n), NEW i \in InUse(t.hash), NEW p \in Nat
  PROVE  Repinned(t, [t EXCEPT !.hash[i].pins = p], n, EntryAt(t.hash, i), p)
<1> DEFINE new == [t.hash EXCEPT ![i].pins = p]
           u == [t EXCEPT !.hash = new]
           e == EntryAt(t.hash, i)
           d == Pinned(e, p)
<1>1. /\ Sound(new, n)
      /\ HasRoom(t.hash) => HasRoom(new)
      /\ Contents(new) = (Contents(t.hash) \ {e}) \cup {d}
  <2>1. Sound(t.hash, n) BY DEF IsCache
  <2>2. d = [key |-> t.hash[i].key, value |-> t.hash[i].value, pins |-> p]
    BY DEF Pinned, EntryAt
  <2> QED BY <2>1, <2>2, RepinIs
<1>2. new \in [0..(n - 1) -> Slot] BY <1>1 DEF Sound, IsTable
<1>3. [t EXCEPT !.hash[i].pins = p] = u OBVIOUS
<1> HIDE DEF new
<1>4. /\ u \in Record(n) /\ u.size = t.size /\ u.allocated = t.allocated
      /\ u.insertion_order = t.insertion_order /\ u.hash = new /\ u.evicted = t.evicted
  BY <1>2 DEF IsCache, Record
<1> HIDE DEF u
<1>5. e \in Contents(t.hash) /\ d.key = e.key /\ d.value = e.value
  BY DEF Contents, Pinned
<1> HIDE DEF e, d
<1>6. \A a, b \in All(t) : a.value = b.value => a = b BY DEF IsCache, Apart
<1>7. \A a \in Contents(t.hash), b \in t.evicted : a # b BY DEF IsCache, Apart
<1>8. e \notin t.evicted /\ e \in All(t) BY <1>5, <1>7 DEF All
<1>9. All(u) = (All(t) \ {e}) \cup {d} BY <1>1, <1>4, <1>8 DEF All
<1>10. d \notin t.evicted BY <1>5, <1>6, <1>8 DEF All
<1>11. \A a \in Contents(t.hash) : \E b \in Contents(new) : b.key = a.key /\ b.value = a.value
  BY <1>1, <1>5
<1>12. Ordered(u)
  <2>1. \A b \in Contents(new) : \E a \in Contents(t.hash) : b.key = a.key BY <1>1, <1>5
  <2>2. /\ \A x, y \in DOMAIN t.insertion_order :
             t.insertion_order[x] = t.insertion_order[y] => x = y
        /\ \A x \in DOMAIN t.insertion_order : \E a \in Contents(t.hash) : a.key = t.insertion_order[x]
        /\ \A a \in Contents(t.hash) : \E x \in DOMAIN t.insertion_order : t.insertion_order[x] = a.key
    BY DEF IsCache, Ordered
  <2>3. \A x \in DOMAIN t.insertion_order : \E b \in Contents(new) : b.key = t.insertion_order[x]
    BY <1>11, <2>2
  <2>4. \A b \in Contents(new) : \E x \in DOMAIN t.insertion_order : t.insertion_order[x] = b.key
    BY <2>1, <2>2
  <2> QED BY <1>4, <2>2, <2>3, <2>4 DEF Ordered
<1>13. Counted(u) BY <1>4 DEF IsCache, Counted
<1>14. Apart(u)
  <2>1. \A a, b \in All(u) : a.value = b.value => a = b BY <1>5, <1>6, <1>8, <1>9
  <2>2. \A a \in Contents(u.hash), b \in u.evicted : a # b BY <1>1, <1>4, <1>7, <1>10
  <2> QED BY <2>1, <2>2 DEF Apart
<1>15. IsCache(u, n) BY <1>1, <1>4, <1>12, <1>13, <1>14 DEF IsCache
<1>16. FifoOf(u) = FifoOf(t) BY <1>4, <1>11, <1>15, SameFifo
<1> QED BY <1>1, <1>3, <1>4, <1>9, <1>15, <1>16 DEF Repinned, e, d

\* What is left of an entry that was evicted when one of its pins goes.
LeftOf(e) == IF e.pins > 1 THEN {Pinned(e, e.pins - 1)} ELSE {}

\* An evicted entry loses a pin, and with its last pin it is freed.
LEMMA UnpinEvicted ==
  ASSUME NEW t, NEW n, IsCache(t, n), NEW e \in t.evicted
  PROVE  LET u == IF e.pins > 1
                  THEN [t EXCEPT !.evicted = (@ \ {e}) \cup {[e EXCEPT !.pins = @ - 1]}]
                  ELSE [t EXCEPT !.evicted = @ \ {e}, !.allocated = @ - 1]
         IN  Repinned(t, u, n, e, e.pins - 1)
<1> DEFINE u == IF e.pins > 1
                THEN [t EXCEPT !.evicted = (@ \ {e}) \cup {[e EXCEPT !.pins = @ - 1]}]
                ELSE [t EXCEPT !.evicted = @ \ {e}, !.allocated = @ - 1]
           d == Pinned(e, e.pins - 1)
<1>1. /\ t.size \in Nat /\ t.allocated \in Nat /\ t.allocated = t.size + Cardinality(t.evicted)
      /\ Cardinality(t.evicted) \in Nat /\ t.evicted \subseteq Entry
      /\ IsFiniteSet(t.evicted) /\ e.pins > 0 /\ e.pins \in Nat /\ e \in Entry
  <2>1. IsFiniteSet(t.evicted) BY DEF IsCache, Counted
  <2>2. Cardinality(t.evicted) \in Nat BY <2>1, FS_CardinalityType
  <2>3. e \in Entry BY CacheFacts
  <2>4. e.pins \in Nat BY <2>3 DEF Entry
  <2> QED BY <2>1, <2>2, <2>3, <2>4, CacheFacts DEF IsCache, Counted
<1>2. [e EXCEPT !.pins = @ - 1] = d BY <1>1 DEF Pinned, Entry
<1>3. d.key = e.key /\ d.value = e.value /\ d.pins = e.pins - 1 BY DEF Pinned
<1>4. d # e BY <1>1, <1>3
<1>5. e.pins > 1 => d \in Entry BY <1>1 DEF Entry, Pinned
<1>6. /\ IsFiniteSet(t.evicted \ {e})
      /\ Cardinality(t.evicted \ {e}) = Cardinality(t.evicted) - 1
      /\ Cardinality(t.evicted \ {e}) \in Nat
  <2>1. /\ IsFiniteSet(t.evicted \ {e})
        /\ Cardinality(t.evicted \ {e}) = Cardinality(t.evicted) - 1
    BY <1>1, FS_RemoveElement
  <2> QED BY <2>1, FS_CardinalityType
<1>7. /\ u \in Record(n) /\ u.size = t.size /\ u.insertion_order = t.insertion_order
      /\ u.hash = t.hash /\ u.evicted = (t.evicted \ {e}) \cup LeftOf(e)
      /\ e.pins > 1 => u.allocated = t.allocated
      /\ ~(e.pins > 1) => u.allocated = t.allocated - 1
  <2>1. t \in Record(n) BY DEF IsCache
  <2>2. t.allocated - 1 \in Nat BY <1>1, <1>6
  <2>3. CASE e.pins > 1
    <3>1. u = [t EXCEPT !.evicted = (@ \ {e}) \cup {d}] BY <1>2, <2>3
    <3>2. LeftOf(e) = {d} BY <2>3 DEF LeftOf
    <3> HIDE DEF u, d
    <3> QED BY <1>1, <1>5, <2>1, <2>3, <3>1, <3>2 DEF Record
  <2>4. CASE ~(e.pins > 1)
    <3>1. u = [t EXCEPT !.evicted = @ \ {e}, !.allocated = @ - 1] BY <2>4
    <3>2. LeftOf(e) = {} BY <2>4 DEF LeftOf
    <3> HIDE DEF u, d
    <3> QED BY <1>1, <2>1, <2>2, <2>4, <3>1, <3>2 DEF Record
  <2> QED BY <2>3, <2>4
<1> HIDE DEF u, d
<1>8. /\ \A a, b \in All(t) : a.value = b.value => a = b
      /\ \A a \in Contents(t.hash), b \in t.evicted : a # b
      /\ e \in All(t)
  BY DEF IsCache, Apart, All
<1>9. LeftOf(e) \subseteq {d} /\ e \notin Contents(t.hash)
  BY <1>8 DEF LeftOf, d
<1>10. d \notin All(t) BY <1>3, <1>4, <1>8
<1>11. All(u) = (All(t) \ {e}) \cup LeftOf(e) BY <1>7, <1>9 DEF All
<1>12. Counted(u)
  <2>1. u.size = Len(u.insertion_order) BY <1>7 DEF IsCache, Counted
  <2>2. CASE e.pins > 1
    <3>1. LeftOf(e) = {d} BY <2>2 DEF LeftOf, d
    <3>2. d \notin t.evicted \ {e} BY <1>10 DEF All
    <3>3. IsFiniteSet(u.evicted) /\ Cardinality(u.evicted) = Cardinality(t.evicted \ {e}) + 1
      <4> DEFINE S == t.evicted \ {e}
      <4>1. IsFiniteSet(S) /\ d \notin S BY <1>6, <3>2
      <4>2. u.evicted = S \cup {d} BY <1>7, <3>1
      <4> HIDE DEF S
      <4>3. IsFiniteSet(S \cup {d}) /\ Cardinality(S \cup {d}) = Cardinality(S) + 1
        BY <4>1, FS_AddElement
      <4> QED BY <4>2, <4>3 DEF S
    <3>4. \A b \in u.evicted : b.pins > 0
      <4>1. d.pins > 0 BY <1>1, <1>3, <2>2
      <4>2. \A b \in t.evicted : b.pins > 0 BY DEF IsCache, Counted
      <4> QED BY <1>7, <3>1, <4>1, <4>2
    <3>5. u.allocated = u.size + Cardinality(u.evicted)
      <4>1. u.allocated = t.allocated /\ u.size = t.size BY <1>7, <2>2
      <4>2. Cardinality(u.evicted) = Cardinality(t.evicted) BY <1>1, <1>6, <3>3
      <4> QED BY <1>1, <4>1, <4>2
    <3> QED BY <2>1, <3>3, <3>4, <3>5 DEF Counted
  <2>3. CASE ~(e.pins > 1)
    <3>1. LeftOf(e) = {} BY <2>3 DEF LeftOf
    <3>2. u.evicted = t.evicted \ {e} BY <1>7, <3>1
    <3>3. \A b \in u.evicted : b.pins > 0 BY <3>2 DEF IsCache, Counted
    <3>4. u.allocated = u.size + Cardinality(u.evicted)
      <4>1. u.allocated = t.allocated - 1 /\ u.size = t.size BY <1>7, <2>3
      <4>2. Cardinality(u.evicted) = Cardinality(t.evicted) - 1 BY <1>6, <3>2
      <4> QED BY <1>1, <4>1, <4>2
    <3> QED BY <1>6, <2>1, <3>2, <3>3, <3>4 DEF Counted
  <2> QED BY <2>2, <2>3
<1>13. Apart(u)
  <2>1. \A a, b \in All(u) : a.value = b.value => a = b BY <1>3, <1>8, <1>9, <1>11
  <2>2. \A a \in Contents(u.hash), b \in u.evicted : a # b
    BY <1>7, <1>8, <1>9, <1>10 DEF All
  <2> QED BY <2>1, <2>2 DEF Apart
<1>14. Ordered(u) BY <1>7 DEF IsCache, Ordered
<1>15. IsCache(u, n) BY <1>7, <1>12, <1>13, <1>14 DEF IsCache
<1>16. FifoOf(u) = FifoOf(t) BY <1>7 DEF FifoOf
<1>17. \/ All(u) = (All(t) \ {e}) \cup {Pinned(e, e.pins - 1)}
       \/ e.pins - 1 = 0 /\ All(u) = All(t) \ {e}
  <2>1. CASE e.pins > 1 BY <2>1, <1>11 DEF LeftOf
  <2>2. CASE ~(e.pins > 1) BY <2>2, <1>1, <1>11 DEF LeftOf
  <2> QED BY <2>1, <2>2
<1> QED BY <1>7, <1>15, <1>16, <1>17 DEF Repinned, u

\* A pin is taken off the entry that it is on.
LEMMA UnpinIs ==
  ASSUME NEW t, NEW n, IsCache(t, n), NEW e \in All(t), e.pins > 0
  PROVE  Repinned(t, Unpin(t, e.key, e.value), n, e, e.pins - 1)
<1>1. \A a, b \in All(t) : a.value = b.value => a = b BY DEF IsCache, Apart
<1>2. CASE \E b \in t.evicted : b.key = e.key /\ b.value = e.value
  <2> DEFINE entry == CHOOSE b \in t.evicted : b.key = e.key /\ b.value = e.value
  <2>1. entry \in t.evicted /\ entry.value = e.value BY <1>2
  <2> DEFINE u(b) == IF b.pins > 1
                     THEN [t EXCEPT !.evicted = (@ \ {b}) \cup {[b EXCEPT !.pins = @ - 1]}]
                     ELSE [t EXCEPT !.evicted = @ \ {b}, !.allocated = @ - 1]
  <2>2. Unpin(t, e.key, e.value) = u(entry) BY <1>2, Zenon DEF Unpin
  <2> HIDE DEF entry
  <2>3. entry = e BY <1>1, <2>1 DEF All
  <2>4. e \in t.evicted BY <2>1, <2>3
  <2>5. Repinned(t, u(e), n, e, e.pins - 1) BY <2>4, UnpinEvicted
  <2> HIDE DEF u
  <2> QED BY <2>2, <2>3, <2>5
<1>3. CASE ~ \E b \in t.evicted : b.key = e.key /\ b.value = e.value
  <2>1. e \in Contents(t.hash) BY <1>3 DEF All
  <2>2. PICK i \in InUse(t.hash) : e = EntryAt(t.hash, i) BY <2>1 DEF Contents
  <2>3. e.key = t.hash[i].key /\ e.pins = t.hash[i].pins BY <2>2 DEF EntryAt
  <2>4. Find(t.hash, e.key) = i BY <2>3, FindPresent DEF IsCache
  <2>5. Unpin(t, e.key, e.value) = [t EXCEPT !.hash[i].pins = @ - 1] BY <1>3, <2>4 DEF Unpin
  <2>6. t.hash[i].pins - 1 \in Nat
    <3>1. e \in Entry BY <2>1, CacheFacts
    <3> QED BY <2>3, <3>1 DEF Entry
  <2>7. [t EXCEPT !.hash[i].pins = @ - 1] = [t EXCEPT !.hash[i].pins = t.hash[i].pins - 1]
    OBVIOUS
  <2>8. Repinned(t, [t EXCEPT !.hash[i].pins = t.hash[i].pins - 1], n, EntryAt(t.hash, i),
                 t.hash[i].pins - 1)
    BY <2>6, RepinInTable
  <2> QED BY <2>2, <2>3, <2>5, <2>7, <2>8
<1> QED BY <1>2, <1>3

\* A hit takes a pin on the entry of its key.
LEMMA PinIs ==
  ASSUME NEW t, NEW n, IsCache(t, n), HasRoom(t.hash), NEW k \in Keys
  PROVE  /\ ContainsKey(t.hash, k) <=> \E e \in Contents(t.hash) : e.key = k
         /\ \A e \in Contents(t.hash) : e.key = k =>
              /\ t.hash[Find(t.hash, k)].value = e.value
              /\ Repinned(t, [t EXCEPT !.hash[Find(t.hash, k)].pins = @ + 1], n, e, e.pins + 1)
<1>1. k \in Nat /\ IsTable(t.hash, n) /\ Sound(t.hash, n) BY KeysAssumption DEF IsCache, Sound
<1>2. ASSUME NEW e \in Contents(t.hash), e.key = k
      PROVE  /\ ContainsKey(t.hash, k)
             /\ t.hash[Find(t.hash, k)].value = e.value
             /\ Repinned(t, [t EXCEPT !.hash[Find(t.hash, k)].pins = @ + 1], n, e, e.pins + 1)
  <2>1. PICK i \in InUse(t.hash) : e = EntryAt(t.hash, i) BY DEF Contents
  <2>2. e.key = t.hash[i].key /\ e.pins = t.hash[i].pins /\ e.value = t.hash[i].value
    BY <2>1 DEF EntryAt
  <2>3. Find(t.hash, k) = i /\ ContainsKey(t.hash, k) BY <1>1, <1>2, <2>2, FindPresent
  <2>4. t.hash[i].pins + 1 \in Nat
    <3>1. e \in Entry BY CacheFacts
    <3> QED BY <2>2, <3>1 DEF Entry
  <2>5. [t EXCEPT !.hash[i].pins = @ + 1] = [t EXCEPT !.hash[i].pins = t.hash[i].pins + 1]
    OBVIOUS
  <2>6. Repinned(t, [t EXCEPT !.hash[i].pins = t.hash[i].pins + 1], n, EntryAt(t.hash, i),
                 t.hash[i].pins + 1)
    BY <2>4, RepinInTable
  <2> QED BY <2>1, <2>2, <2>3, <2>5, <2>6
<1>3. ASSUME ~ \E e \in Contents(t.hash) : e.key = k
      PROVE  ~ ContainsKey(t.hash, k)
  <2>1. ASSUME NEW i \in InUse(t.hash) PROVE t.hash[i].key # k
    <3>1. EntryAt(t.hash, i) \in Contents(t.hash) BY DEF Contents
    <3>2. EntryAt(t.hash, i).key = t.hash[i].key BY DEF EntryAt
    <3> QED BY <1>3, <3>1, <3>2
  <2> QED BY <1>1, <2>1, FindAbsent
<1> QED BY <1>2, <1>3

-----------------------------------------------------------------------------
(* How many items of batches lock a value, as batches grow and shrink. *)

HoldersIn(b, k, v) ==
    {p \in Clients \X (1..MaxBatch) :
        p[2] <= Len(b[p[1]]) /\ b[p[1]][p[2]] = [hash |-> k, lock |-> v]}

PinsIn(b, k, v) == Cardinality(HoldersIn(b, k, v))

IsBatches(b) == b \in [Clients -> Seq(Item)] /\ \A c \in Clients : Len(b[c]) <= MaxBatch

\* Batches b with s for client c.
Replaced(b, c, s) == [b EXCEPT ![c] = s]

One(item, k, v) == IF item = [hash |-> k, lock |-> v] THEN 1 ELSE 0

\* The items that lock a value are finitely many.
LEMMA PinsAreNat ==
  ASSUME NEW b, NEW k, NEW v
  PROVE  IsFiniteSet(HoldersIn(b, k, v)) /\ PinsIn(b, k, v) \in Nat
<1>1. IsFiniteSet(1..MaxBatch) BY CapacitiesAssumption, FS_Interval
<1>2. IsFiniteSet(Clients \X (1..MaxBatch)) BY <1>1, CapacitiesAssumption, FS_Product
<1>3. HoldersIn(b, k, v) \subseteq Clients \X (1..MaxBatch) BY DEF HoldersIn
<1>4. IsFiniteSet(HoldersIn(b, k, v)) BY <1>2, <1>3, FS_Subset
<1> QED BY <1>4, FS_CardinalityType DEF PinsIn

\* An item added to a batch counts for the value it locks, and for no other.
LEMMA PinsAppend ==
  ASSUME NEW b, IsBatches(b), NEW c \in Clients, Len(b[c]) < MaxBatch, NEW item \in Item,
         NEW d, d = Replaced(b, c, Append(b[c], item))
  PROVE  /\ IsBatches(d)
         /\ \A k, v : PinsIn(d, k, v) = PinsIn(b, k, v) + One(item, k, v)
<1> DEFINE m == Len(b[c])
           new == <<c, m + 1>>
<1>1. /\ m \in Nat /\ b \in [Clients -> Seq(Item)] /\ b[c] \in Seq(Item) /\ MaxBatch \in Nat
      /\ \A a \in Clients : Len(b[a]) <= MaxBatch /\ Len(b[a]) \in Nat
  BY CapacitiesAssumption DEF IsBatches
<1>2. /\ d \in [Clients -> Seq(Item)] /\ d[c] = Append(b[c], item)
      /\ \A a \in Clients : a # c => d[a] = b[a]
  BY <1>1 DEF Replaced
<1>3. /\ Len(d[c]) = m + 1 /\ d[c][m + 1] = item /\ \A i \in 1..m : d[c][i] = b[c][i]
  BY <1>1, <1>2
<1> HIDE DEF m
<1>4. IsBatches(d)
  <2>1. \A a \in Clients : Len(d[a]) <= MaxBatch
    <3> SUFFICES ASSUME NEW a \in Clients PROVE Len(d[a]) <= MaxBatch
      OBVIOUS
    <3>1. CASE a = c BY <1>1, <1>3, <3>1 DEF m
    <3>2. CASE a # c BY <1>1, <1>2, <3>2
    <3> QED BY <3>1, <3>2
  <2> QED BY <1>2, <2>1 DEF IsBatches
<1>5. ASSUME NEW k, NEW v
      PROVE  PinsIn(d, k, v) = PinsIn(b, k, v) + One(item, k, v)
  <2> DEFINE H == HoldersIn(b, k, v) G == HoldersIn(d, k, v) it == [hash |-> k, lock |-> v]
  <2>1. ASSUME NEW a \in Clients, NEW i \in 1..MaxBatch
        PROVE  <<a, i>> \in G <=> <<a, i>> \in H \/ (a = c /\ i = m + 1 /\ item = it)
    <3>1. <<a, i>> \in G <=> i <= Len(d[a]) /\ d[a][i] = it BY DEF HoldersIn
    <3>2. <<a, i>> \in H <=> i <= Len(b[a]) /\ b[a][i] = it BY DEF HoldersIn
    <3> HIDE DEF G, H, it
    <3>3. CASE a # c BY <1>2, <3>1, <3>2, <3>3
    <3>4. CASE a = c
      <4>1. CASE i = m + 1 BY <1>1, <1>3, <3>1, <3>2, <3>4, <4>1 DEF m
      <4>2. CASE i # m + 1
        <5>1. i <= m + 1 <=> i <= m BY <1>1, <4>2
        <5>2. i <= m => i \in 1..m BY <1>1
        <5> QED BY <1>1, <1>3, <3>1, <3>2, <3>4, <4>2, <5>1, <5>2 DEF m
      <4> QED BY <4>1, <4>2
    <3> QED BY <3>3, <3>4
  <2>2. G \subseteq Clients \X (1..MaxBatch) /\ H \subseteq Clients \X (1..MaxBatch)
    BY DEF HoldersIn
  <2>3. new \in Clients \X (1..MaxBatch) BY <1>1 DEF m
  <2>4. new \notin H
    <3>1. new \in H => m + 1 <= m BY DEF HoldersIn, m
    <3> QED BY <1>1, <3>1
  <2>5. IsFiniteSet(H) /\ Cardinality(H) \in Nat /\ Cardinality(H) = PinsIn(b, k, v)
        /\ Cardinality(G) = PinsIn(d, k, v)
    BY PinsAreNat DEF PinsIn
  <2> HIDE DEF G, H
  <2>6. CASE item = it
    <3>1. G = H \cup {new} BY <2>1, <2>2, <2>3, <2>6
    <3>2. Cardinality(G) = Cardinality(H) + 1 BY <2>4, <2>5, <3>1, FS_AddElement
    <3> QED BY <2>5, <2>6, <3>2 DEF One
  <2>7. CASE item # it
    <3>1. G = H
      <4>1. ASSUME NEW p \in Clients \X (1..MaxBatch) PROVE p \in G <=> p \in H
        <5>1. PICK a \in Clients, i \in 1..MaxBatch : p = <<a, i>> OBVIOUS
        <5> QED BY <2>1, <2>7, <5>1
      <4> QED BY <2>2, <4>1
    <3> QED BY <2>5, <2>7, <3>1 DEF One
  <2> QED BY <2>6, <2>7
<1> QED BY <1>4, <1>5

\* The last item of a batch counts no more when it is removed.
LEMMA PinsFront ==
  ASSUME NEW b, IsBatches(b), NEW c \in Clients, b[c] # <<>>,
         NEW d, d = Replaced(b, c, Front(b[c]))
  PROVE  /\ IsBatches(d) /\ Last(b[c]) \in Item /\ Len(d[c]) = Len(b[c]) - 1
         /\ d[c] = SubSeq(b[c], 1, Len(b[c]) - 1)
         /\ \A k, v : PinsIn(b, k, v) = PinsIn(d, k, v) + One(Last(b[c]), k, v)
<1> DEFINE s == b[c]
<1>1. /\ b \in [Clients -> Seq(Item)] /\ s \in Seq(Item) /\ MaxBatch \in Nat
      /\ \A a \in Clients : Len(b[a]) <= MaxBatch /\ Len(b[a]) \in Nat
      /\ s # <<>> /\ Len(s) \in Nat /\ Len(s) > 0
  BY CapacitiesAssumption DEF IsBatches
<1>2. Last(s) = s[Len(s)] /\ Last(s) \in Item /\ Front(s) = SubSeq(s, 1, Len(s) - 1)
  BY <1>1 DEF Last, Front
<1>3. /\ Front(s) \in Seq(Item) /\ Len(Front(s)) = Len(s) - 1
      /\ \A i \in 1..(Len(s) - 1) : Front(s)[i] = s[i]
  <2>1. \A i \in 1..(Len(s) - 1) : s[i] \in Item BY <1>1, ElementOfSeq
  <2> HIDE DEF s
  <2>2. /\ SubSeq(s, 1, Len(s) - 1) \in Seq(Item) /\ Len(SubSeq(s, 1, Len(s) - 1)) = Len(s) - 1
        /\ \A i \in 1..(Len(s) - 1) : SubSeq(s, 1, Len(s) - 1)[i] = s[i]
    <3> DEFINE n == Len(s) - 1
    <3>1. n \in Nat /\ n - 1 + 1 = n /\ 1 \in Int BY <1>1
    <3> HIDE DEF n
    <3>2. \A i \in 1..n : s[i] \in Item BY <2>1 DEF n
    <3>3. /\ SubSeq(s, 1, n) \in Seq(Item)
          /\ Len(SubSeq(s, 1, n)) = IF 1 <= n THEN n - 1 + 1 ELSE 0
          /\ \A i \in 1..(n - 1 + 1) : SubSeq(s, 1, n)[i] = s[1 + i - 1]
      BY <3>1, <3>2, SubSeqProperties
    <3>4. Len(SubSeq(s, 1, n)) = n BY <3>1, <3>3
    <3>5. \A i \in 1..n : 1 + i - 1 = i BY <3>1
    <3>6. \A i \in 1..n : SubSeq(s, 1, n)[i] = s[i] BY <3>1, <3>3, <3>5
    <3> QED BY <3>3, <3>4, <3>6 DEF n
  <2> QED BY <1>2, <2>2
<1> HIDE DEF s
<1>4. Append(Front(s), Last(s)) = s
  <2> DEFINE f == Front(s) w == Append(f, Last(s))
  <2> HIDE DEF f
  <2>1. w \in Seq(Item) /\ Len(w) = Len(s) BY <1>1, <1>2, <1>3 DEF f
  <2>2. \A i \in 1..Len(s) : w[i] = s[i]
    <3> SUFFICES ASSUME NEW i \in 1..Len(s) PROVE w[i] = s[i]
      OBVIOUS
    <3>1. f \in Seq(Item) /\ Len(f) = Len(s) - 1 BY <1>3 DEF f
    <3>2. CASE i = Len(s)
      <4>1. w[Len(f) + 1] = Last(s) BY <3>1
      <4> QED BY <1>1, <1>2, <3>1, <3>2, <4>1
    <3>3. CASE i # Len(s)
      <4>1. i \in 1..Len(f) BY <1>1, <3>1, <3>3
      <4>2. w[i] = f[i] BY <3>1, <4>1
      <4> QED BY <1>3, <3>1, <4>1, <4>2 DEF f
    <3> QED BY <3>2, <3>3
  <2> HIDE DEF w
  <2>3. w = s BY <1>1, <2>1, <2>2, SeqEqual
  <2> QED BY <2>3 DEF w, f
<1>5. /\ d \in [Clients -> Seq(Item)] /\ d[c] = Front(s)
      /\ \A a \in Clients : a # c => d[a] = b[a]
  BY <1>1, <1>3 DEF s, Replaced
<1>6. IsBatches(d)
  <2>1. \A a \in Clients : Len(d[a]) <= MaxBatch
    <3> SUFFICES ASSUME NEW a \in Clients PROVE Len(d[a]) <= MaxBatch
      OBVIOUS
    <3>1. CASE a = c BY <1>1, <1>3, <1>5, <3>1 DEF s
    <3>2. CASE a # c BY <1>1, <1>5, <3>2
    <3> QED BY <3>1, <3>2
  <2> QED BY <1>5, <2>1 DEF IsBatches
<1>7. b = Replaced(d, c, Append(d[c], Last(s))) BY <1>1, <1>4, <1>5 DEF s, Replaced
<1>8. Len(d[c]) < MaxBatch BY <1>1, <1>3, <1>5 DEF s
<1>9. \A k, v : PinsIn(b, k, v) = PinsIn(d, k, v) + One(Last(s), k, v)
  BY <1>2, <1>6, <1>7, <1>8, PinsAppend
<1> QED BY <1>2, <1>3, <1>5, <1>6, <1>9 DEF s

\* Tail shifts the positions of the other items.
LEMMA PinsTail ==
  ASSUME NEW b, IsBatches(b), NEW c \in Clients, b[c] # <<>>,
         NEW d, d = Replaced(b, c, Tail(b[c]))
  PROVE  /\ IsBatches(d) /\ Head(b[c]) \in Item /\ Len(d[c]) = Len(b[c]) - 1
         /\ \A k, v : PinsIn(b, k, v) = PinsIn(d, k, v) + One(Head(b[c]), k, v)
<1> DEFINE s == b[c]
           first == <<c, 1>>
           Shift(p) == IF p[1] = c THEN <<c, p[2] + 1>> ELSE p
<1>1. /\ b \in [Clients -> Seq(Item)] /\ s \in Seq(Item) /\ MaxBatch \in Nat
      /\ \A a \in Clients : Len(b[a]) <= MaxBatch /\ Len(b[a]) \in Nat
      /\ s # <<>> /\ Len(s) \in Nat /\ Len(s) > 0 /\ Len(s) <= MaxBatch
  BY CapacitiesAssumption DEF IsBatches
<1>2. /\ Tail(s) \in Seq(Item) /\ Len(Tail(s)) = Len(s) - 1 /\ Head(s) \in Item
      /\ Head(s) = s[1] /\ \A i \in 1..(Len(s) - 1) : Tail(s)[i] = s[i + 1]
  BY <1>1, HeadTailProperties
<1>3. /\ d \in [Clients -> Seq(Item)] /\ d[c] = Tail(s)
      /\ \A a \in Clients : a # c => d[a] = b[a]
  BY <1>1, <1>2 DEF Replaced
<1>4. Len(d[c]) = Len(s) - 1 BY <1>2, <1>3
<1> HIDE DEF s
<1>5. IsBatches(d)
  <2>1. \A a \in Clients : Len(d[a]) <= MaxBatch
    <3> SUFFICES ASSUME NEW a \in Clients PROVE Len(d[a]) <= MaxBatch
      OBVIOUS
    <3>1. CASE a = c BY <1>1, <1>4, <3>1
    <3>2. CASE a # c BY <1>1, <1>3, <3>2
    <3> QED BY <3>1, <3>2
  <2> QED BY <1>3, <2>1 DEF IsBatches
<1>6. ASSUME NEW k, NEW v
      PROVE  PinsIn(b, k, v) = PinsIn(d, k, v) + One(Head(s), k, v)
  <2> DEFINE H == HoldersIn(b, k, v) G == HoldersIn(d, k, v) it == [hash |-> k, lock |-> v]
             R == H \ {first}
             g == [p \in G |-> Shift(p)]
  <2>1. \A a \in Clients, i \in 1..MaxBatch : <<a, i>> \in G <=> i <= Len(d[a]) /\ d[a][i] = it
    BY DEF HoldersIn
  <2>2. \A a \in Clients, i \in 1..MaxBatch : <<a, i>> \in H <=> i <= Len(b[a]) /\ b[a][i] = it
    BY DEF HoldersIn
  <2>3. G \subseteq Clients \X (1..MaxBatch) /\ H \subseteq Clients \X (1..MaxBatch)
    BY DEF HoldersIn
  <2>4. IsFiniteSet(H) /\ Cardinality(H) = PinsIn(b, k, v) /\ PinsIn(b, k, v) \in Nat
        /\ IsFiniteSet(G) /\ Cardinality(G) = PinsIn(d, k, v) /\ PinsIn(d, k, v) \in Nat
    BY PinsAreNat DEF PinsIn
  <2> HIDE DEF G, H
  <2>5. \A i \in 1..(Len(s) - 1) : d[c][i] = b[c][i + 1] BY <1>2, <1>3 DEF s
  <2>6. ASSUME NEW a \in Clients, NEW i \in 1..MaxBatch, <<a, i>> \in G
        PROVE  Shift(<<a, i>>) \in R
    <3>1. CASE a = c
      <4>1. i <= Len(s) - 1 /\ d[c][i] = it BY <1>4, <2>1, <2>6, <3>1
      <4>2. i + 1 \in 1..MaxBatch /\ i + 1 <= Len(b[c]) /\ b[c][i + 1] = it /\ i + 1 # 1
        BY <1>1, <2>5, <4>1 DEF s
      <4>3. <<c, i + 1>> \in H BY <2>2, <4>2
      <4>4. Shift(<<a, i>>) = <<c, i + 1>> BY <3>1
      <4> QED BY <4>2, <4>3, <4>4
    <3>2. CASE a # c
      <4>1. Shift(<<a, i>>) = <<a, i>> /\ <<a, i>> # first BY <3>2
      <4>2. <<a, i>> \in H BY <1>3, <2>1, <2>2, <2>6, <3>2
      <4> QED BY <4>1, <4>2
    <3> QED BY <3>1, <3>2
  <2>7. ASSUME NEW a \in Clients, NEW i \in 1..MaxBatch, <<a, i>> \in R
        PROVE  \E p \in G : Shift(p) = <<a, i>>
    <3>1. CASE a = c
      <4>1. i # 1 /\ i <= Len(s) /\ b[c][i] = it BY <2>2, <2>7, <3>1 DEF s
      <4>2. i - 1 \in 1..MaxBatch /\ i - 1 <= Len(s) - 1 /\ (i - 1) + 1 = i
            /\ i - 1 \in 1..(Len(s) - 1)
        BY <1>1, <4>1
      <4>3. d[c][i - 1] = it BY <2>5, <4>1, <4>2
      <4>4. <<c, i - 1>> \in G BY <1>4, <2>1, <4>2, <4>3
      <4>5. Shift(<<c, i - 1>>) = <<a, i>> BY <3>1, <4>2
      <4> QED BY <4>4, <4>5
    <3>2. CASE a # c
      <4>1. Shift(<<a, i>>) = <<a, i>> BY <3>2
      <4>2. <<a, i>> \in G BY <1>3, <2>1, <2>2, <2>7, <3>2
      <4> QED BY <4>1, <4>2
    <3> QED BY <3>1, <3>2
  <2>8. \A p, q \in G : Shift(p) = Shift(q) => p = q
    <3> SUFFICES ASSUME NEW a \in Clients, NEW i \in 1..MaxBatch,
                        NEW e \in Clients, NEW j \in 1..MaxBatch,
                        Shift(<<a, i>>) = Shift(<<e, j>>)
                 PROVE  <<a, i>> = <<e, j>>
      BY <2>3
    <3>1. CASE a = c /\ e = c
      <4>1. <<c, i + 1>> = <<c, j + 1>> BY <3>1
      <4> QED BY <3>1, <4>1
    <3>2. CASE a # c /\ e # c BY <3>2
    <3>3. CASE a = c /\ e # c BY <3>3
    <3>4. CASE a # c /\ e = c BY <3>4
    <3> QED BY <3>1, <3>2, <3>3, <3>4
  <2>9. \A p \in G : g[p] = Shift(p) OBVIOUS
  <2> DEFINE Pairs == Clients \X (1..MaxBatch)
  <2>10. \A p \in Pairs : \E a \in Clients, i \in 1..MaxBatch : p = <<a, i>> OBVIOUS
  <2> HIDE DEF R, it, Pairs, Shift
  <2>11. \A p \in G : Shift(p) \in R BY <2>3, <2>6, <2>10 DEF Pairs
  <2>12. \A q \in R : \E p \in G : Shift(p) = q BY <2>3, <2>7, <2>10 DEF Pairs, R
  <2>13. g \in [G -> R] BY <2>11
  <2> HIDE DEF g
  <2>14. g \in Bijection(G, R)
    <3>1. \A p, q \in G : g[p] = g[q] => p = q BY <2>8, <2>9
    <3>2. \A q \in R : \E p \in G : g[p] = q BY <2>9, <2>12
    <3> QED BY <2>13, <3>1, <3>2 DEF Bijection, Injection, Surjection, IsInjective
  <2>15. Cardinality(R) = Cardinality(G) BY <2>4, <2>14, FS_Bijection DEF ExistsBijection
  <2>16. first \in H <=> Head(s) = it
    <3>1. 1 \in 1..MaxBatch /\ 1 <= Len(b[c]) BY <1>1 DEF s
    <3> QED BY <1>2, <2>2, <3>1 DEF s
  <2>17. Cardinality(R) = IF first \in H THEN Cardinality(H) - 1 ELSE Cardinality(H)
    BY <2>4, FS_RemoveElement DEF R
  <2> QED BY <2>4, <2>15, <2>16, <2>17 DEF One, it
<1> QED BY <1>2, <1>4, <1>5, <1>6 DEF s

-----------------------------------------------------------------------------
(* Locks and pins. *)

\* The pins of an entry are the locks on it, and every lock is on an entry.
Matched(t, b) ==
  /\ \A e \in All(t) : e.pins = PinsIn(b, e.key, e.value)
  /\ \A k, v : v # NoValue /\ PinsIn(b, k, v) # 0 =>
                 \E e \in All(t) : e.key = k /\ e.value = v

\* The entries, those evicted included, are at different addresses.
LEMMA AllFacts ==
  ASSUME NEW t, NEW n, IsCache(t, n)
  PROVE  /\ \A e \in All(t) : /\ e.key \in Keys /\ e.value \in Values /\ e.value # NoValue
                              /\ e.pins \in Nat
         /\ \A e, f \in All(t) : e.value = f.value => e = f
<1>1. All(t) \subseteq Entry BY CacheFacts DEF All
<1>2. \A e \in All(t) : e.key \in Keys /\ e.value \in Values /\ e.pins \in Nat
  <2> SUFFICES ASSUME NEW e \in All(t) PROVE e.key \in Keys /\ e.value \in Values /\ e.pins \in Nat
    OBVIOUS
  <2>1. e \in Entry BY <1>1
  <2> QED BY <2>1 DEF Entry
<1>3. \A e, f \in All(t) : e.value = f.value => e = f BY DEF IsCache, Apart
<1> QED BY <1>2, <1>3, ValuesAssumption

\* An item of a batch is counted among the holders of its lock.
LEMMA LockIsCounted ==
  ASSUME NEW b, IsBatches(b), NEW c \in Clients, NEW i \in DOMAIN b[c]
  PROVE  b[c][i] \in Item /\ PinsIn(b, b[c][i].hash, b[c][i].lock) # 0
<1> DEFINE item == b[c][i] H == HoldersIn(b, item.hash, item.lock)
<1>1. b[c] \in Seq(Item) /\ Len(b[c]) \in Nat /\ Len(b[c]) <= MaxBatch /\ DOMAIN b[c] = 1..Len(b[c])
      /\ MaxBatch \in Nat
  BY CapacitiesAssumption DEF IsBatches
<1>2. item \in Item BY <1>1
<1>3. item = [hash |-> item.hash, lock |-> item.lock] BY <1>2 DEF Item
<1>4. i \in 1..MaxBatch /\ i <= Len(b[c]) BY <1>1
<1> HIDE DEF item
<1>5. <<c, i>> \in H BY <1>3, <1>4 DEF HoldersIn, item
<1>6. IsFiniteSet(H) /\ Cardinality(H) = PinsIn(b, item.hash, item.lock)
  BY PinsAreNat DEF PinsIn
<1> HIDE DEF H
<1>7. Cardinality(H) # 0 BY <1>5, <1>6, FS_EmptySet
<1> QED BY <1>2, <1>6, <1>7 DEF item

\* Entries without pins may go.
LEMMA EvictKeepsMatched ==
  ASSUME NEW t, NEW u, NEW b, Matched(t, b), All(u) \subseteq All(t),
         \A e \in All(t) : e \in All(u) \/ e.pins = 0
  PROVE  Matched(u, b)
<1>1. \A e \in All(u) : e.pins = PinsIn(b, e.key, e.value) BY DEF Matched
<1>2. ASSUME NEW k, NEW v, v # NoValue, PinsIn(b, k, v) # 0
      PROVE  \E e \in All(u) : e.key = k /\ e.value = v
  <2>1. PICK e \in All(t) : e.key = k /\ e.value = v BY <1>2 DEF Matched
  <2>2. e.pins # 0 BY <1>2, <2>1 DEF Matched
  <2> QED BY <2>1, <2>2
<1> QED BY <1>1, <1>2 DEF Matched

\* Nobody holds a lock on a new entry.
LEMMA InsertKeepsMatched ==
  ASSUME NEW t, NEW u, NEW b, Matched(t, b), NEW k, NEW v, v # NoValue,
         All(u) = All(t) \cup {NewEntry(k, v)}, \A e \in All(t) : e.value # v
  PROVE  Matched(u, b)
<1> DEFINE d == NewEntry(k, v)
<1>1. d.key = k /\ d.value = v /\ d.pins = 0 BY DEF NewEntry
<1> HIDE DEF d
<1>2. PinsIn(b, k, v) = 0 BY DEF Matched
<1>3. \A e \in All(u) : e \in All(t) \/ e = d BY DEF d
<1>4. \A e \in All(u) : e.pins = PinsIn(b, e.key, e.value) BY <1>1, <1>2, <1>3 DEF Matched
<1> QED BY <1>4 DEF Matched

\* A lookup that hits.
LEMMA PinKeepsMatched ==
  ASSUME NEW t, NEW u, NEW n, IsCache(t, n), NEW b, NEW d, Matched(t, b),
         NEW e \in All(t), Repinned(t, u, n, e, e.pins + 1),
         \A k, v : PinsIn(d, k, v)
                     = PinsIn(b, k, v) + One([hash |-> e.key, lock |-> e.value], k, v)
  PROVE  Matched(u, d)
<1> DEFINE p == Pinned(e, e.pins + 1)
<1>1. p.key = e.key /\ p.value = e.value /\ p.pins = e.pins + 1 BY DEF Pinned
<1>2. e.pins \in Nat /\ e.pins + 1 # 0 BY AllFacts
<1>3. All(u) = (All(t) \ {e}) \cup {p} BY <1>2 DEF Repinned
<1> HIDE DEF p
<1>4. \A k, v : /\ PinsIn(b, k, v) \in Nat
                /\ k = e.key /\ v = e.value => PinsIn(d, k, v) = PinsIn(b, k, v) + 1
                /\ ~(k = e.key /\ v = e.value) => PinsIn(d, k, v) = PinsIn(b, k, v)
  <2> SUFFICES ASSUME NEW k, NEW v
               PROVE  /\ PinsIn(b, k, v) \in Nat
                      /\ k = e.key /\ v = e.value => PinsIn(d, k, v) = PinsIn(b, k, v) + 1
                      /\ ~(k = e.key /\ v = e.value) => PinsIn(d, k, v) = PinsIn(b, k, v)
    OBVIOUS
  <2>1. PinsIn(b, k, v) \in Nat BY PinsAreNat
  <2>2. One([hash |-> e.key, lock |-> e.value], k, v) = IF k = e.key /\ v = e.value THEN 1 ELSE 0
    BY DEF One
  <2>3. PinsIn(d, k, v) = PinsIn(b, k, v) + One([hash |-> e.key, lock |-> e.value], k, v)
    OBVIOUS
  <2> QED BY <2>1, <2>2, <2>3
<1>5. \A f \in All(t) : f.value = e.value => f = e BY AllFacts
<1>6. ASSUME NEW f \in All(u) PROVE f.pins = PinsIn(d, f.key, f.value)
  <2>1. CASE f = p BY <1>1, <1>4, <2>1 DEF Matched
  <2>2. CASE f \in All(t) /\ f # e BY <1>4, <1>5, <2>2 DEF Matched
  <2> QED BY <1>3, <2>1, <2>2
<1>7. ASSUME NEW k, NEW v, v # NoValue, PinsIn(d, k, v) # 0
      PROVE  \E f \in All(u) : f.key = k /\ f.value = v
  <2>1. CASE k = e.key /\ v = e.value BY <1>1, <1>3, <2>1
  <2>2. CASE ~(k = e.key /\ v = e.value)
    <3>1. PICK f \in All(t) : f.key = k /\ f.value = v BY <1>4, <1>7, <2>2 DEF Matched
    <3> QED BY <1>3, <2>2, <3>1
  <2> QED BY <2>1, <2>2
<1> QED BY <1>6, <1>7 DEF Matched

\* A lookup that misses.
LEMMA MissKeepsMatched ==
  ASSUME NEW t, NEW n, IsCache(t, n), NEW b, NEW d, Matched(t, b) \/ Matched(t, d), NEW h,
         \A k, v : PinsIn(d, k, v) = PinsIn(b, k, v) + One([hash |-> h, lock |-> NoValue], k, v)
  PROVE  Matched(t, b) /\ Matched(t, d)
<1>1. ASSUME NEW k, NEW v, v # NoValue PROVE PinsIn(d, k, v) = PinsIn(b, k, v)
  <2>1. PinsIn(b, k, v) \in Nat BY PinsAreNat
  <2>2. One([hash |-> h, lock |-> NoValue], k, v) = 0 BY <1>1 DEF One
  <2>3. PinsIn(d, k, v) = PinsIn(b, k, v) + One([hash |-> h, lock |-> NoValue], k, v)
    OBVIOUS
  <2> QED BY <2>1, <2>2, <2>3
<1>2. \A e \in All(t) : e.value # NoValue BY AllFacts
<1> QED BY <1>1, <1>2 DEF Matched

\* An item of a batch goes, and what it locked is unpinned.
LEMMA ReleaseKeepsMatched ==
  ASSUME NEW t, NEW n, IsCache(t, n), NEW b, NEW d, Matched(t, b), NEW item \in Item,
         \A k, v : PinsIn(b, k, v) = PinsIn(d, k, v) + One(item, k, v)
  PROVE  /\ Matched(Release(t, item), d)
         /\ \/ Release(t, item) = t
            \/ \E e \in All(t) : e.pins > 0 /\ Repinned(t, Release(t, item), n, e, e.pins - 1)
<1> DEFINE u == Release(t, item)
<1>0. item = [hash |-> item.hash, lock |-> item.lock] BY DEF Item
<1>1. CASE item.lock = NoValue
  <2>1. u = t BY <1>1 DEF Release
  <2>2. item = [hash |-> item.hash, lock |-> NoValue] BY <1>0, <1>1
  <2>3. \A k, v : PinsIn(b, k, v)
                    = PinsIn(d, k, v) + One([hash |-> item.hash, lock |-> NoValue], k, v)
    BY <2>2
  <2>4. Matched(t, d) BY <2>3, MissKeepsMatched
  <2> QED BY <2>1, <2>4
<1>2. CASE item.lock # NoValue
  <2>1. \A k, v : /\ PinsIn(d, k, v) \in Nat
                  /\ k = item.hash /\ v = item.lock => PinsIn(b, k, v) = PinsIn(d, k, v) + 1
                  /\ ~(k = item.hash /\ v = item.lock) => PinsIn(b, k, v) = PinsIn(d, k, v)
    <3> SUFFICES ASSUME NEW k, NEW v
                 PROVE  /\ PinsIn(d, k, v) \in Nat
                        /\ k = item.hash /\ v = item.lock => PinsIn(b, k, v) = PinsIn(d, k, v) + 1
                        /\ ~(k = item.hash /\ v = item.lock) => PinsIn(b, k, v) = PinsIn(d, k, v)
      OBVIOUS
    <3>1. PinsIn(d, k, v) \in Nat BY PinsAreNat
    <3>2. item = [hash |-> k, lock |-> v] <=> k = item.hash /\ v = item.lock
      BY <1>0
    <3>3. One(item, k, v) = IF k = item.hash /\ v = item.lock THEN 1 ELSE 0
      BY <3>2 DEF One
    <3>4. PinsIn(b, k, v) = PinsIn(d, k, v) + One(item, k, v) OBVIOUS
    <3> QED BY <3>1, <3>3, <3>4
  <2>2. PinsIn(b, item.hash, item.lock) # 0 BY <2>1
  <2>3. PICK e \in All(t) : e.key = item.hash /\ e.value = item.lock
    BY <1>2, <2>2 DEF Matched
  <2>4. e.pins = PinsIn(d, e.key, e.value) + 1 /\ e.pins > 0 /\ e.pins - 1 = PinsIn(d, e.key, e.value)
    BY <2>1, <2>3 DEF Matched
  <2>5. u = Unpin(t, e.key, e.value) BY <1>2, <2>3 DEF Release
  <2> HIDE DEF u
  <2>6. Repinned(t, u, n, e, e.pins - 1) BY <2>4, <2>5, UnpinIs
  <2> DEFINE p == Pinned(e, e.pins - 1)
  <2>7. p.key = e.key /\ p.value = e.value /\ p.pins = e.pins - 1 BY DEF Pinned
  <2>8. \/ All(u) = (All(t) \ {e}) \cup {p}
        \/ e.pins - 1 = 0 /\ All(u) = All(t) \ {e}
    BY <2>6 DEF Repinned
  <2> HIDE DEF p
  <2>9. \A f \in All(t) : f.value = e.value => f = e BY AllFacts
  <2>10. ASSUME NEW f \in All(u) PROVE f.pins = PinsIn(d, f.key, f.value)
    <3>1. CASE f = p BY <2>4, <2>7, <3>1
    <3>2. CASE f \in All(t) /\ f # e BY <2>1, <2>3, <2>9, <3>2 DEF Matched
    <3> QED BY <2>8, <3>1, <3>2
  <2>11. ASSUME NEW k, NEW v, v # NoValue, PinsIn(d, k, v) # 0
         PROVE  \E f \in All(u) : f.key = k /\ f.value = v
    <3>1. CASE k = e.key /\ v = e.value BY <2>4, <2>7, <2>8, <2>11, <3>1
    <3>2. CASE ~(k = e.key /\ v = e.value)
      <4>1. PICK f \in All(t) : f.key = k /\ f.value = v BY <2>1, <2>3, <2>11, <3>2 DEF Matched
      <4> QED BY <2>8, <3>2, <4>1
    <3> QED BY <3>1, <3>2
  <2>12. Matched(u, d) BY <2>10, <2>11 DEF Matched
  <2> QED BY <2>4, <2>6, <2>12 DEF u
<1> QED BY <1>1, <1>2

MissStep(items, g, i) ==
  IF i = 0 THEN <<>>
  ELSE IF items[i].lock = NoValue THEN Append(g[i - 1], items[i].hash)
  ELSE g[i - 1]

\* The recursion of Misses defines a function.
LEMMA MissesExist ==
  ASSUME NEW items, NEW m \in Nat
  PROVE  \E g : g = [i \in 0..m |-> MissStep(items, g, i)]
<1> DEFINE N == {j \in Nat : \E g : g = [i \in 0..j |-> MissStep(items, g, i)]}
<1>1. 0 \in N
  <2> DEFINE g == [i \in 0..0 |-> <<>>]
  <2>1. \A i \in 0..0 : MissStep(items, g, i) = <<>> BY DEF MissStep
  <2>2. g = [i \in 0..0 |-> MissStep(items, g, i)] BY <2>1, Zenon
  <2> QED BY <2>2
<1>2. ASSUME NEW j \in Nat, j \in N PROVE j + 1 \in N
  <2>1. PICK g : g = [i \in 0..j |-> MissStep(items, g, i)] BY <1>2
  <2> DEFINE h == [i \in 0..(j + 1) |-> MissStep(items, g, i)]
  <2>2. ASSUME NEW i \in 0..(j + 1) PROVE MissStep(items, h, i) = MissStep(items, g, i)
    <3>1. CASE i = 0 BY <3>1 DEF MissStep
    <3>2. CASE i # 0
      <4>1. i - 1 \in 0..j /\ i - 1 \in 0..(j + 1) BY <3>2
      <4>2. g[i - 1] = MissStep(items, g, i - 1) BY <2>1, <4>1, Zenon
      <4>3. h[i - 1] = MissStep(items, g, i - 1) BY <4>1
      <4>4. h[i - 1] = g[i - 1] BY <4>2, <4>3, Zenon
      <4> HIDE DEF h
      <4> QED BY <3>2, <4>4, Zenon DEF MissStep
    <3> QED BY <3>1, <3>2
  <2>3. h = [i \in 0..(j + 1) |-> MissStep(items, h, i)] BY <2>2, Zenon
  <2> HIDE DEF h
  <2> QED BY <2>3
<1> HIDE DEF N
<1>3. m \in N BY <1>1, <1>2, NatSet
<1> QED BY <1>3 DEF N

\* The misses of a batch are hashes.
LEMMA MissesAreKeys ==
  ASSUME NEW items \in Seq(Item)
  PROVE  Misses(items) \in Seq(Keys)
<1> DEFINE n == Len(items)
           g == CHOOSE g : g = [i \in 0..n |-> MissStep(items, g, i)]
<1>1. n \in Nat OBVIOUS
<1>2. g = [i \in 0..n |-> MissStep(items, g, i)]
  <2>1. \E h : h = [i \in 0..n |-> MissStep(items, h, i)] BY <1>1, MissesExist, Zenon
  <2> QED BY <2>1, Zenon
<1>3. Misses(items) = g[n] BY Zenon DEF Misses, MissStep
<1> HIDE DEF g
<1>4. \A i \in 0..n : g[i] = MissStep(items, g, i) BY <1>2, Zenon
<1> DEFINE Z == {i \in Nat : i <= n => g[i] \in Seq(Keys)}
<1>5. 0 \in Z
  <2>1. g[0] = <<>> BY <1>1, <1>4 DEF MissStep
  <2>2. <<>> \in Seq(Keys) OBVIOUS
  <2>3. g[0] \in Seq(Keys) BY <2>1, <2>2, Zenon
  <2> QED BY <2>3
<1>6. ASSUME NEW i \in Nat, i \in Z PROVE i + 1 \in Z
  <2> SUFFICES ASSUME i + 1 <= n PROVE g[i + 1] \in Seq(Keys)
    OBVIOUS
  <2>1. i + 1 \in 0..n /\ i + 1 # 0 /\ (i + 1) - 1 = i /\ i <= n /\ i + 1 \in 1..n BY <1>1
  <2>2. g[i + 1] = IF items[i + 1].lock = NoValue THEN Append(g[i], items[i + 1].hash) ELSE g[i]
    BY <1>4, <2>1 DEF MissStep
  <2>3. g[i] \in Seq(Keys) BY <1>6, <2>1
  <2>4. items[i + 1] \in Item BY <2>1
  <2>5. items[i + 1].hash \in Keys BY <2>4 DEF Item
  <2> HIDE DEF Z
  <2> QED BY <2>2, <2>3, <2>5
<1> HIDE DEF Z
<1>7. Nat \subseteq Z BY <1>5, <1>6, NatSet
<1> QED BY <1>1, <1>3, <1>7 DEF Z

-----------------------------------------------------------------------------
(* The inductive invariant. *)

TableInv ==
  /\ capacity \in Capacities
  /\ IsCache(table, Size(capacity))
  /\ table.size <= capacity
  /\ IsBatches(batch)
  /\ Matched(table, batch)

ClientInv ==
  /\ pc \in [Clients -> {"add", "lookup", "compute", "insert", "release"}]
  /\ key \in [Clients -> Keys \cup {0}]
  /\ todo \in [Clients -> Seq(Keys)]
  /\ fresh \in [Clients -> Values \cup {NoValue}]
  /\ \A c \in Clients :
       /\ pc[c] = "lookup" => key[c] \in Keys /\ Len(batch[c]) < MaxBatch
       /\ pc[c] \in {"compute", "insert"} => todo[c] # <<>>
       /\ pc[c] \in {"compute", "insert", "release"} => batch[c] # <<>>
       /\ pc[c] = "insert" <=> fresh[c] # NoValue

FreshInv ==
  /\ \A c, d \in Clients : fresh[c] = fresh[d] /\ fresh[c] # NoValue => c = d
  /\ \A c \in Clients, e \in All(table) : e.value # fresh[c]

IInv == TableInv /\ ClientInv /\ FreshInv

\* The table at this moment is one that lemmas about caches apply to.
LEMMA Now ==
  ASSUME TableInv
  PROVE  /\ capacity \in Nat /\ Size(capacity) \in Nat \ {0} /\ HasRoom(table.hash)
         /\ table.size \in Nat /\ table.size < Size(capacity)
         /\ batch \in [Clients -> Seq(Item)]
<1>1. capacity \in Nat BY CapacitiesAssumption DEF TableInv
<1>2. Size(capacity) \in Nat \ {0} /\ Size(capacity) > capacity BY <1>1, SizeIs
<1>3. table.size \in Nat BY CacheFacts DEF TableInv
<1>4. table.size < Size(capacity) BY <1>1, <1>2, <1>3 DEF TableInv
<1> QED BY <1>1, <1>2, <1>3, <1>4, SizeCounts DEF TableInv, IsBatches

\* The order that the refinement maps to, before and after a step.
LEMMA FifoNow == Fifo = FifoOf(table) /\ Fifo' = FifoOf(table')
BY DEF Fifo, FifoOf

\* The ideal cache holds the entries of the table, and its users values of entries.
LEMMA IdealNow ==
  ASSUME TableInv
  PROVE  /\ \A k, v : [key |-> k, value |-> v] \in Ideal!Entries
                        <=> \E e \in Contents(table.hash) : e.key = k /\ e.value = v
         /\ \A k : Ideal!Cached(k) <=> \E e \in Contents(table.hash) : e.key = k
         /\ \A v \in Ideal!Live : v = NoValue \/ \E e \in All(table) : e.value = v
         /\ Len(Fifo) = table.size /\ Fifo \in Seq(FifoEntry)
<1> DEFINE o == table.insertion_order
<1>1. IsCache(table, Size(capacity)) BY DEF TableInv
<1>2. /\ DOMAIN Fifo = 1..Len(o) /\ Fifo \in Seq(FifoEntry) /\ Len(Fifo) = Len(o)
      /\ \A i \in 1..Len(o) : \E e \in Contents(table.hash) :
            Fifo[i] = [key |-> e.key, value |-> e.value]
      /\ \A i \in 1..Len(o), e \in Contents(table.hash) :
              e.key = o[i] => Fifo[i] = [key |-> e.key, value |-> e.value]
  BY <1>1, FifoIs, FifoNow
<1>3. \A e \in Contents(table.hash) : \E i \in 1..Len(o) : o[i] = e.key
  BY <1>1, CacheFacts DEF IsCache, Ordered
<1>4. Ideal!Entries = {[key |-> e.key, value |-> e.value] : e \in Contents(table.hash)}
  <2> DEFINE E == {[key |-> e.key, value |-> e.value] : e \in Contents(table.hash)}
  <2>1. ASSUME NEW x \in Ideal!Entries PROVE x \in E
    <3>1. PICK i \in 1..Len(o) : x = Fifo[i] BY <1>2 DEF Ideal!Entries
    <3> QED BY <1>2, <3>1
  <2>2. ASSUME NEW x \in E PROVE x \in Ideal!Entries
    <3>1. PICK e \in Contents(table.hash) : x = [key |-> e.key, value |-> e.value] OBVIOUS
    <3>2. PICK i \in 1..Len(o) : o[i] = e.key BY <1>3
    <3>3. Fifo[i] = x BY <1>2, <3>1, <3>2
    <3> QED BY <1>2, <3>3 DEF Ideal!Entries
  <2> QED BY <2>1, <2>2
<1>5. \A k, v : [key |-> k, value |-> v] \in Ideal!Entries
                  <=> \E e \in Contents(table.hash) : e.key = k /\ e.value = v
  BY <1>4
<1>6. \A k : Ideal!Cached(k) <=> \E e \in Contents(table.hash) : e.key = k
  <2> SUFFICES ASSUME NEW k
               PROVE  Ideal!Cached(k) <=> \E e \in Contents(table.hash) : e.key = k
    OBVIOUS
  <2>1. \A e \in Contents(table.hash) :
          /\ [key |-> e.key, value |-> e.value] \in Ideal!Entries
          /\ [key |-> e.key, value |-> e.value].key = e.key
    BY <1>4
  <2>2. \A x \in Ideal!Entries : \E e \in Contents(table.hash) : x.key = e.key
    BY <1>4
  <2> QED BY <2>1, <2>2 DEF Ideal!Cached
<1>7. ASSUME NEW v \in Ideal!Live PROVE v = NoValue \/ \E e \in All(table) : e.value = v
  <2>1. CASE v \in {e.value : e \in Ideal!Entries}
    BY <1>4, <2>1 DEF All
  <2>2. CASE v \in {item.lock : item \in Ideal!Locked}
    <3>0. PICK c \in Clients : \E i \in DOMAIN batch[c] : v = batch[c][i].lock
      BY <2>2 DEF Ideal!Locked
    <3>1. PICK i \in DOMAIN batch[c] : v = batch[c][i].lock BY <3>0
    <3>2. PinsIn(batch, batch[c][i].hash, batch[c][i].lock) # 0 BY LockIsCounted DEF TableInv
    <3> QED BY <3>1, <3>2 DEF TableInv, Matched
  <2> QED BY <2>1, <2>2 DEF Ideal!Live
<1>8. table.size = Len(o) BY <1>1 DEF IsCache, Counted
<1> QED BY <1>2, <1>5, <1>6, <1>7, <1>8

\* Initial states satisfy the invariant and map to initial states.
LEMMA InitIInv == Init => IInv /\ Ideal!Init
<1> SUFFICES ASSUME Init PROVE IInv /\ Ideal!Init
  OBVIOUS
<1> DEFINE n == Size(capacity)
<1>1. capacity \in Capacities /\ capacity \in Nat /\ capacity = InitialCapacity
  BY CapacitiesAssumption DEF Init
<1>2. Sound(EmptyHash(capacity), n) /\ Contents(EmptyHash(capacity)) = {} BY <1>1, EmptyIs
<1>3. EmptyHash(capacity) \in [0..(n - 1) -> Slot] BY <1>2 DEF Sound, IsTable
<1>4. /\ table = [hash |-> EmptyHash(capacity), size |-> 0, allocated |-> 0,
                  insertion_order |-> <<>>, evicted |-> {}]
      /\ batch = [c \in Clients |-> <<>>]
  BY <1>1 DEF Init
<1> HIDE DEF n
<1>5. table \in Record(n) BY <1>3, <1>4 DEF Record
<1>6. /\ table.hash = EmptyHash(capacity) /\ table.size = 0 /\ table.allocated = 0
      /\ table.insertion_order = <<>> /\ table.evicted = {}
  BY <1>4
<1>7. All(table) = {} BY <1>2, <1>6 DEF All
<1>8. DOMAIN table.insertion_order = {} BY <1>6
<1>9. Ordered(table) BY <1>2, <1>6, <1>8 DEF Ordered
<1>10. Counted(table) BY <1>6, FS_EmptySet DEF Counted
<1>11. IsCache(table, n) BY <1>2, <1>5, <1>6, <1>7, <1>9, <1>10 DEF IsCache, Apart
<1>12. IsBatches(batch) BY <1>4, CapacitiesAssumption DEF IsBatches
<1>13. \A k, v : PinsIn(batch, k, v) = 0
  <2> SUFFICES ASSUME NEW k, NEW v PROVE PinsIn(batch, k, v) = 0
    OBVIOUS
  <2>1. \A c \in Clients : batch[c] = <<>> BY <1>4
  <2>2. HoldersIn(batch, k, v) = {}
    <3>1. \A c \in Clients, i \in 1..MaxBatch : ~(i <= Len(batch[c])) BY <2>1, CapacitiesAssumption
    <3> QED BY <3>1 DEF HoldersIn
  <2> QED BY <2>2, FS_EmptySet DEF PinsIn
<1>14. Matched(table, batch) BY <1>7, <1>13 DEF Matched
<1>15. TableInv BY <1>1, <1>6, <1>11, <1>12, <1>14 DEF TableInv, n
<1>16. ClientInv BY DEF Init, ClientInv
<1>17. FreshInv
  <2>1. \A c \in Clients : fresh[c] = NoValue BY DEF Init
  <2> QED BY <1>7, <2>1 DEF FreshInv
<1>18. Fifo = <<>>
  <2>1. Fifo \in Seq(FifoEntry) /\ Len(Fifo) = 0 BY <1>6, <1>15, IdealNow
  <2> QED BY <2>1, EmptySeq
<1> QED BY <1>1, <1>4, <1>15, <1>16, <1>17, <1>18 DEF IInv, Ideal!Init

-----------------------------------------------------------------------------
(* The steps. *)

IdealStep == [Ideal!Next]_(Ideal!vars)

\* A step that leaves the table and the batches alone is a stutter of the ideal cache.
LEMMA TableStays ==
  ASSUME UNCHANGED <<capacity, table, batch>>
  PROVE  IdealStep /\ (TableInv => TableInv')
<1>1. UNCHANGED Ideal!vars BY FifoNow DEF Ideal!vars
<1>2. TableInv => TableInv' BY DEF TableInv
<1> QED BY <1>1, <1>2 DEF IdealStep

\* AddInput: a position is about to be looked up.
LEMMA AddInputStep ==
  ASSUME IInv, NEW c \in Clients, NEW k \in Keys, AddInput(c, k)
  PROVE  IInv' /\ IdealStep
<1>1. /\ pc[c] = "add" /\ Len(batch[c]) < MaxBatch /\ UNCHANGED <<capacity, table, todo, fresh>>
  BY DEF AddInput
<1>2. FreshInv' BY <1>1 DEF IInv, FreshInv
<1>3. CASE capacity = 0
  <2> DEFINE item == [hash |-> k, lock |-> NoValue]
  <2>1. batch' = [batch EXCEPT ![c] = Append(batch[c], item)] /\ UNCHANGED <<pc, key>>
    BY <1>3 DEF AddInput, AddItem
  <2>2. item \in Item BY DEF Item
  <2>3. IsBatches(batch') /\ \A h, v : PinsIn(batch', h, v) = PinsIn(batch, h, v) + One(item, h, v)
    <3>1. batch' = Replaced(batch, c, Append(batch[c], item)) BY <2>1 DEF Replaced
    <3> HIDE DEF item
    <3> QED BY <1>1, <2>2, <3>1, PinsAppend DEF IInv, TableInv
  <2>4. Matched(table, batch')
    <3>1. IsCache(table, Size(capacity)) /\ Matched(table, batch) BY DEF IInv, TableInv
    <3> QED BY <2>3, <3>1, MissKeepsMatched
  <2>5. TableInv' BY <1>1, <2>3, <2>4 DEF IInv, TableInv
  <2>6. \A d \in Clients : pc[d] # "add" => batch'[d] = batch[d]
    BY <1>1, <2>1, Now DEF IInv
  <2>7. ClientInv'
    BY <1>1, <2>1, <2>6 DEF IInv, ClientInv
  <2>8. ~ Ideal!Cached(k)
    <3>1. table.size = 0 BY <1>3, Now DEF IInv, TableInv
    <3>2. Cardinality(Contents(table.hash)) = 0 BY <3>1, SizeCounts DEF IInv, TableInv
    <3>3. IsFiniteSet(Contents(table.hash)) BY CountIs, CacheFacts DEF IInv, TableInv
    <3>4. Contents(table.hash) = {} BY <3>2, <3>3, FS_EmptySet
    <3> QED BY <3>4, IdealNow DEF IInv
  <2>9. Ideal!Lookup(c, k)
    <3>1. UNCHANGED <<capacity, Fifo>> BY <1>1, FifoNow
    <3>2. NoValue \in Values \cup {NoValue} OBVIOUS
    <3> QED BY <2>1, <2>8, <3>1, <3>2 DEF Ideal!Lookup
  <2> QED BY <1>2, <2>5, <2>7, <2>9 DEF IInv, IdealStep, Ideal!Next
<1>4. CASE capacity # 0
  <2>1. pc' = [pc EXCEPT ![c] = "lookup"] /\ key' = [key EXCEPT ![c] = k] /\ UNCHANGED batch
    BY <1>4 DEF AddInput
  <2>2. ClientInv' BY <1>1, <2>1 DEF IInv, ClientInv
  <2>3. TableInv' /\ IdealStep BY <1>1, <2>1, TableStays DEF IInv
  <2> QED BY <1>2, <2>2, <2>3 DEF IInv
<1> QED BY <1>3, <1>4

\* What a step that changes pins only keeps of the table.
LEMMA RepinnedFacts ==
  ASSUME TableInv, NEW u, NEW e \in All(table), NEW p,
         Repinned(table, u, Size(capacity), e, p)
  PROVE  /\ IsCache(u, Size(capacity)) /\ u.size <= capacity
         /\ FifoOf(u) = Fifo
         /\ \A f \in All(u) : \E g \in All(table) : f.value = g.value
<1>1. \A f \in All(u) : f \in All(table) \/ f = Pinned(e, p) BY DEF Repinned
<1>2. Pinned(e, p).value = e.value BY DEF Pinned
<1> QED BY <1>1, <1>2, FifoNow DEF Repinned, TableInv

\* LookupAndPin: a hit takes a pin with its lock, a miss neither.
LEMMA LookupStep ==
  ASSUME IInv, NEW c \in Clients, LookupAndPin(c)
  PROVE  IInv' /\ IdealStep
<1> DEFINE k == key[c]
<1>1. /\ pc[c] = "lookup" /\ pc' = [pc EXCEPT ![c] = "add"] /\ key' = [key EXCEPT ![c] = 0]
      /\ UNCHANGED <<capacity, todo, fresh>> /\ k \in Keys /\ Len(batch[c]) < MaxBatch
  BY DEF LookupAndPin, IInv, ClientInv
<1>2. IsCache(table, Size(capacity)) /\ HasRoom(table.hash) /\ IsBatches(batch)
      /\ Matched(table, batch) /\ batch \in [Clients -> Seq(Item)]
  BY Now DEF IInv, TableInv
<1>3. /\ ContainsKey(table.hash, k) <=> \E e \in Contents(table.hash) : e.key = k
      /\ \A e \in Contents(table.hash) : e.key = k =>
           /\ table.hash[Find(table.hash, k)].value = e.value
           /\ Repinned(table, [table EXCEPT !.hash[Find(table.hash, k)].pins = @ + 1],
                       Size(capacity), e, e.pins + 1)
  BY <1>1, <1>2, PinIs
<1>4. PICK lock : /\ batch' = [batch EXCEPT ![c] = Append(batch[c], [hash |-> k, lock |-> lock])]
                  /\ \/ ~ ContainsKey(table.hash, k) /\ lock = NoValue /\ UNCHANGED table
                     \/ /\ ContainsKey(table.hash, k)
                        /\ lock = table.hash[Find(table.hash, k)].value
                        /\ table' = [table EXCEPT !.hash[Find(table.hash, k)].pins = @ + 1]
  BY DEF LookupAndPin, AddItem
<1> DEFINE item == [hash |-> k, lock |-> lock]
<1> HIDE DEF k
<1>5. \A d \in Clients : d # c => batch'[d] = batch[d] BY <1>2, <1>4
<1>6. ClientInv'
  BY <1>1, <1>5 DEF IInv, ClientInv
<1>7. ASSUME item \in Item
      PROVE  IsBatches(batch')
             /\ \A h, v : PinsIn(batch', h, v) = PinsIn(batch, h, v) + One(item, h, v)
  <2>1. batch' = Replaced(batch, c, Append(batch[c], item)) BY <1>4 DEF Replaced
  <2> HIDE DEF item
  <2> QED BY <1>1, <1>2, <1>7, <2>1, PinsAppend
<1>8. CASE ~ ContainsKey(table.hash, k)
  <2>1. lock = NoValue /\ UNCHANGED table BY <1>4, <1>8
  <2>2. item \in Item BY <1>1, <2>1 DEF Item
  <2>3. Matched(table, batch')
    <3>1. \A h, v : PinsIn(batch', h, v)
                      = PinsIn(batch, h, v) + One([hash |-> k, lock |-> NoValue], h, v)
      BY <1>7, <2>1, <2>2
    <3> QED BY <1>2, <3>1, MissKeepsMatched
  <2>4. TableInv' BY <1>1, <1>7, <2>1, <2>2, <2>3 DEF IInv, TableInv
  <2>5. FreshInv' BY <1>1, <2>1 DEF IInv, FreshInv
  <2>6. ~ Ideal!Cached(k) BY <1>3, <1>8, IdealNow DEF IInv
  <2>7. Ideal!Lookup(c, k)
    <3>1. UNCHANGED <<capacity, Fifo>> BY <1>1, <2>1, FifoNow
    <3>2. lock \in Values \cup {NoValue} BY <2>1
    <3> QED BY <1>4, <2>1, <2>6, <3>1, <3>2 DEF Ideal!Lookup
  <2> QED BY <1>1, <1>6, <2>4, <2>5, <2>7 DEF IInv, IdealStep, Ideal!Next
<1>9. CASE ContainsKey(table.hash, k)
  <2>1. PICK e \in Contents(table.hash) : e.key = k BY <1>3, <1>9
  <2>2. /\ lock = e.value /\ e \in All(table)
        /\ Repinned(table, table', Size(capacity), e, e.pins + 1)
    BY <1>3, <1>4, <1>9, <2>1 DEF All
  <2>3. e.value \in Values BY <1>2, <2>2, AllFacts
  <2>4. item \in Item BY <1>1, <2>2, <2>3 DEF Item
  <2>5. Matched(table', batch')
    <3>1. item = [hash |-> e.key, lock |-> e.value] BY <2>1, <2>2
    <3>2. \A h, v : PinsIn(batch', h, v)
                      = PinsIn(batch, h, v) + One([hash |-> e.key, lock |-> e.value], h, v)
      BY <1>7, <2>4, <3>1
    <3> QED BY <1>2, <2>2, <3>2, PinKeepsMatched
  <2>6. /\ IsCache(table', Size(capacity)) /\ table'.size <= capacity /\ FifoOf(table') = Fifo
        /\ \A f \in All(table') : \E g \in All(table) : f.value = g.value
    BY <2>2, RepinnedFacts DEF IInv
  <2>7. TableInv' BY <1>1, <1>7, <2>4, <2>5, <2>6 DEF IInv, TableInv
  <2>8. FreshInv' BY <1>1, <2>6 DEF IInv, FreshInv
  <2>9. Ideal!Lookup(c, k)
    <3>1. UNCHANGED <<capacity, Fifo>> BY <1>1, <2>6, FifoNow
    <3>2. lock \in Values \cup {NoValue} BY <2>2, <2>3
    <3>3. Ideal!Cached(k) BY <2>1, IdealNow DEF IInv
    <3>4. [key |-> k, value |-> lock] \in Ideal!Entries BY <2>1, <2>2, IdealNow DEF IInv
    <3> QED BY <1>4, <3>1, <3>2, <3>3, <3>4 DEF Ideal!Lookup
  <2> QED BY <1>1, <1>6, <2>7, <2>8, <2>9 DEF IInv, IdealStep, Ideal!Next
<1> QED BY <1>8, <1>9

\* An item of a batch is released.
LEMMA ReleaseFacts ==
  ASSUME IInv, NEW item \in Item, table' = Release(table, item), UNCHANGED <<capacity, fresh>>,
         IsBatches(batch'),
         \A k, v : PinsIn(batch, k, v) = PinsIn(batch', k, v) + One(item, k, v)
  PROVE  TableInv' /\ FreshInv' /\ Fifo' = Fifo
<1>1. IsCache(table, Size(capacity)) /\ Matched(table, batch) BY DEF IInv, TableInv
<1>2. /\ Matched(table', batch')
      /\ \/ table' = table
         \/ \E e \in All(table) : Repinned(table, table', Size(capacity), e, e.pins - 1)
  BY <1>1, ReleaseKeepsMatched
<1>3. CASE table' = table
  BY <1>2, <1>3, FifoNow DEF IInv, TableInv, FreshInv
<1>4. CASE \E e \in All(table) : Repinned(table, table', Size(capacity), e, e.pins - 1)
  <2>1. PICK e \in All(table) : Repinned(table, table', Size(capacity), e, e.pins - 1)
    BY <1>4
  <2>2. /\ IsCache(table', Size(capacity)) /\ table'.size <= capacity /\ FifoOf(table') = Fifo
        /\ \A f \in All(table') : \E g \in All(table) : f.value = g.value
    BY <2>1, RepinnedFacts DEF IInv
  <2>3. TableInv' BY <1>2, <2>2 DEF IInv, TableInv
  <2>4. FreshInv' BY <2>2 DEF IInv, FreshInv
  <2> QED BY <2>2, <2>3, <2>4, FifoNow
<1> QED BY <1>2, <1>3, <1>4

\* PopCacheHit gives back the lock of the last item.
LEMMA PopCacheHitStep ==
  ASSUME IInv, NEW c \in Clients, PopCacheHit(c)
  PROVE  IInv' /\ IdealStep
<1>1. /\ pc[c] = "add" /\ batch[c] # <<>> /\ table' = Release(table, Last(batch[c]))
      /\ batch' = [batch EXCEPT ![c] = Front(batch[c])] /\ UNCHANGED <<capacity, pc, key, todo, fresh>>
  BY DEF PopCacheHit, client
<1>2. /\ IsBatches(batch') /\ Last(batch[c]) \in Item
      /\ batch'[c] = SubSeq(batch[c], 1, Len(batch[c]) - 1)
      /\ \A k, v : PinsIn(batch, k, v) = PinsIn(batch', k, v) + One(Last(batch[c]), k, v)
  <2>1. batch' = Replaced(batch, c, Front(batch[c])) BY <1>1 DEF Replaced
  <2>2. IsBatches(batch) /\ batch[c] # <<>> BY <1>1 DEF IInv, TableInv
  <2> QED BY <2>1, <2>2, PinsFront
<1>3. TableInv' /\ FreshInv' /\ Fifo' = Fifo BY <1>1, <1>2, ReleaseFacts
<1>4. \A d \in Clients : pc[d] # "add" => batch'[d] = batch[d] BY <1>1, Now DEF IInv
<1>5. ClientInv' BY <1>1, <1>4 DEF IInv, ClientInv
<1>6. Ideal!DropNewest(c)
  <2>1. batch' = [batch EXCEPT ![c] = SubSeq(batch[c], 1, Len(batch[c]) - 1)]
    BY <1>1, <1>2, Now DEF IInv
  <2> QED BY <1>1, <1>3, <2>1 DEF Ideal!DropNewest
<1> QED BY <1>3, <1>5, <1>6 DEF IInv, IdealStep, Ideal!Next

\* ReleaseItem gives back the lock of the first item.
LEMMA ReleaseItemStep ==
  ASSUME IInv, NEW c \in Clients, ReleaseItem(c)
  PROVE  IInv' /\ IdealStep
<1>1. /\ pc[c] = "release" /\ table' = Release(table, Head(batch[c]))
      /\ batch' = [batch EXCEPT ![c] = Tail(batch[c])]
      /\ pc' = [pc EXCEPT ![c] = IF Len(batch[c]) = 1 THEN "add" ELSE "release"]
      /\ UNCHANGED <<capacity, key, todo, fresh>> /\ batch[c] # <<>>
  BY DEF ReleaseItem, IInv, ClientInv
<1>2. /\ IsBatches(batch') /\ Head(batch[c]) \in Item /\ Len(batch'[c]) = Len(batch[c]) - 1
      /\ \A k, v : PinsIn(batch, k, v) = PinsIn(batch', k, v) + One(Head(batch[c]), k, v)
  <2>1. batch' = Replaced(batch, c, Tail(batch[c])) BY <1>1 DEF Replaced
  <2>2. IsBatches(batch) /\ batch[c] # <<>> BY <1>1 DEF IInv, TableInv
  <2> QED BY <2>1, <2>2, PinsTail
<1>3. TableInv' /\ FreshInv' /\ Fifo' = Fifo BY <1>1, <1>2, ReleaseFacts
<1>4. \A d \in Clients : d # c => batch'[d] = batch[d] /\ pc'[d] = pc[d]
  BY <1>1, Now DEF IInv, ClientInv
<1>5. pc'[c] = "release" => batch'[c] # <<>>
  <2>1. batch[c] \in Seq(Item) /\ pc'[c] = IF Len(batch[c]) = 1 THEN "add" ELSE "release"
    BY <1>1, Now DEF IInv, ClientInv
  <2>2. Len(batch[c]) # 1 => Len(batch'[c]) # 0 BY <1>2, <2>1
  <2> QED BY <2>1, <2>2
<1>6. pc'[c] \in {"add", "release"} BY <1>1 DEF IInv, ClientInv
<1>7. ClientInv'
  <2>1. pc' \in [Clients -> {"add", "lookup", "compute", "insert", "release"}]
    BY <1>1 DEF IInv, ClientInv
  <2> QED BY <1>1, <1>4, <1>5, <1>6, <2>1 DEF IInv, ClientInv
<1>8. Ideal!DropOldest(c) BY <1>1, <1>3 DEF Ideal!DropOldest
<1> QED BY <1>3, <1>7, <1>8 DEF IInv, IdealStep, Ideal!Next

\* ComputeBlocking changes nothing that the mutex guards.
LEMMA ComputeBlockingStep ==
  ASSUME IInv, NEW c \in Clients, ComputeBlocking(c)
  PROVE  IInv' /\ IdealStep
<1>1. /\ pc[c] = "add" /\ batch[c] # <<>> /\ todo' = [todo EXCEPT ![c] = Misses(batch[c])]
      /\ pc' = [pc EXCEPT ![c] = ComputeOrRelease(Misses(batch[c]))]
      /\ UNCHANGED <<capacity, table, batch, key, fresh>>
  BY DEF ComputeBlocking
<1>2. Misses(batch[c]) \in Seq(Keys)
  <2>1. batch[c] \in Seq(Item) BY Now DEF IInv
  <2> QED BY <2>1, MissesAreKeys
<1>3. ClientInv'
  <2>1. CASE Misses(batch[c]) = <<>>
    <3>1. pc' = [pc EXCEPT ![c] = "release"] BY <1>1, <2>1 DEF ComputeOrRelease
    <3> QED BY <1>1, <1>2, <3>1 DEF IInv, ClientInv
  <2>2. CASE Misses(batch[c]) # <<>>
    <3>1. pc' = [pc EXCEPT ![c] = "compute"] BY <1>1, <2>2 DEF ComputeOrRelease
    <3> QED BY <1>1, <1>2, <2>2, <3>1 DEF IInv, ClientInv
  <2> QED BY <2>1, <2>2
<1>4. FreshInv' BY <1>1 DEF IInv, FreshInv
<1> QED BY <1>1, <1>3, <1>4, TableStays DEF IInv

\* What is left to insert after the first of it.
LEMMA RestOfTodo ==
  ASSUME ClientInv, NEW c \in Clients, todo[c] # <<>>
  PROVE  Tail(todo[c]) \in Seq(Keys) /\ Head(todo[c]) \in Keys
<1>1. todo[c] \in Seq(Keys) BY DEF ClientInv
<1> QED BY <1>1, HeadTailProperties

\* BeginInsert chooses an address that no entry has, those evicted included.
LEMMA BeginInsertStep ==
  ASSUME IInv, NEW c \in Clients, BeginInsert(c)
  PROVE  IInv' /\ IdealStep
<1>1. pc[c] = "compute" /\ UNCHANGED <<capacity, table, batch, key>> BY DEF BeginInsert
<1>2. TableInv' /\ IdealStep BY <1>1, TableStays DEF IInv
<1>3. CASE capacity = 0
  <2> DEFINE rest == Tail(todo[c])
  <2>1. /\ todo' = [todo EXCEPT ![c] = rest]
        /\ pc' = [pc EXCEPT ![c] = ComputeOrRelease(rest)] /\ UNCHANGED fresh
    BY <1>3 DEF BeginInsert
  <2>2. rest \in Seq(Keys) BY <1>1, RestOfTodo DEF IInv, ClientInv
  <2> HIDE DEF rest
  <2>3. ClientInv'
    <3>1. CASE rest = <<>>
      <4>1. pc' = [pc EXCEPT ![c] = "release"] BY <2>1, <3>1 DEF ComputeOrRelease
      <4> QED BY <1>1, <2>1, <2>2, <4>1 DEF IInv, ClientInv
    <3>2. CASE rest # <<>>
      <4>1. pc' = [pc EXCEPT ![c] = "compute"] BY <2>1, <3>2 DEF ComputeOrRelease
      <4> QED BY <1>1, <2>1, <2>2, <3>2, <4>1 DEF IInv, ClientInv
    <3> QED BY <3>1, <3>2
  <2>4. FreshInv' BY <1>1, <2>1 DEF IInv, FreshInv
  <2> QED BY <1>2, <2>3, <2>4 DEF IInv
<1>4. CASE capacity # 0
  <2>1. pc' = [pc EXCEPT ![c] = "insert"] /\ UNCHANGED todo BY <1>4 DEF BeginInsert
  <2>2. PICK v \in Values \ Live : fresh' = [fresh EXCEPT ![c] = v] BY <1>4 DEF BeginInsert
  <2>3. v # NoValue BY ValuesAssumption
  <2>4. ClientInv' BY <1>1, <2>1, <2>2, <2>3 DEF IInv, ClientInv
  <2>5. \A d \in Clients : fresh[d] # v BY DEF Live
  <2>6. \A e \in All(table) : e.value # v
    <3>1. \A i \in InUse(table.hash) : EntryAt(table.hash, i).value # v BY DEF Live, EntryAt
    <3>2. \A e \in Contents(table.hash) : e.value # v BY <3>1 DEF Contents
    <3>3. \A e \in table.evicted : e.value # v BY DEF Live
    <3> QED BY <3>2, <3>3 DEF All
  <2>7. /\ fresh'[c] = v /\ \A d \in Clients : d # c => fresh'[d] = fresh[d]
    BY <2>2 DEF IInv, ClientInv
  <2>8. FreshInv' BY <1>1, <2>5, <2>6, <2>7 DEF IInv, FreshInv
  <2> QED BY <1>2, <2>4, <2>8 DEF IInv
<1> QED BY <1>3, <1>4

\* What evicting down to a capacity keeps.
LEMMA EvictFacts ==
  ASSUME NEW t, NEW n, IsCache(t, n), n <= 2 \/ HasRoom(t.hash), NEW c \in Nat,
         NEW b, Matched(t, b)
  PROVE  LET u == EvictToCapacity(t, c)
         IN  /\ IsCache(u, n) /\ u.size <= c /\ Matched(u, b) /\ All(u) \subseteq All(t)
             /\ FifoOf(u) = Ideal!Newest(FifoOf(t), c)
<1> DEFINE u == EvictToCapacity(t, c)
<1>1. Surplus(t, c) \in Nat /\ EvictedBy(t, u, n, Surplus(t, c)) BY EvictToCapacityIs
<1>2. FifoOf(u) = Ideal!Newest(FifoOf(t), c) BY EvictedIsNewest
<1> HIDE DEF u
<1>3. IsCache(u, n) /\ All(u) \subseteq All(t) BY <1>1 DEF EvictedBy
<1>4. Matched(u, b) BY <1>1, EvictKeepsMatched DEF EvictedBy
<1>5. u.size <= c
  <2>1. u.size = Len(u.insertion_order) /\ t.size = Len(t.insertion_order) /\ t.size \in Nat
    BY <1>3, CacheFacts DEF IsCache, Counted
  <2>2. Len(u.insertion_order) = Len(t.insertion_order) - Surplus(t, c) BY <1>1 DEF EvictedBy
  <2> QED BY <2>1, <2>2 DEF Surplus
<1> QED BY <1>2, <1>3, <1>4, <1>5 DEF u

\* Insert: the older entry under the key survives, else the oldest makes room.
LEMMA InsertStep ==
  ASSUME IInv, NEW c \in Clients, Insert(c)
  PROVE  IInv' /\ IdealStep
<1> DEFINE k == Head(todo[c]) v == fresh[c] rest == Tail(todo[c]) n == Size(capacity)
           t == InsertNew(table, k, v)
<1>1. /\ pc[c] = "insert" /\ todo' = [todo EXCEPT ![c] = rest]
      /\ pc' = [pc EXCEPT ![c] = ComputeOrRelease(rest)]
      /\ fresh' = [fresh EXCEPT ![c] = NoValue] /\ UNCHANGED <<capacity, batch, key>>
  BY DEF Insert
<1>2. /\ rest \in Seq(Keys) /\ k \in Keys /\ v \in Values /\ v # NoValue
      /\ \A e \in All(table) : e.value # v
  <2>1. todo[c] # <<>> /\ v # NoValue /\ v \in Values \cup {NoValue}
    BY <1>1 DEF IInv, ClientInv
  <2>2. \A e \in All(table) : e.value # v BY DEF IInv, FreshInv
  <2> QED BY <2>1, <2>2, RestOfTodo DEF IInv
<1>3. table' = IF ContainsKey(table.hash, k) THEN table ELSE EvictToCapacity(t, capacity)
  BY DEF Insert
<1> HIDE DEF k, v, rest, t, n
<1>4. ClientInv'
  <2>1. CASE rest = <<>>
    <3>1. pc' = [pc EXCEPT ![c] = "release"] BY <1>1, <2>1 DEF ComputeOrRelease
    <3> QED BY <1>1, <1>2, <3>1 DEF IInv, ClientInv
  <2>2. CASE rest # <<>>
    <3>1. pc' = [pc EXCEPT ![c] = "compute"] BY <1>1, <2>2 DEF ComputeOrRelease
    <3> QED BY <1>1, <1>2, <2>2, <3>1 DEF IInv, ClientInv
  <2> QED BY <2>1, <2>2
<1>5. /\ fresh'[c] = NoValue /\ \A d \in Clients : d # c => fresh'[d] = fresh[d]
      /\ \A d \in Clients : d # c => fresh[d] # v
      /\ v = fresh[c]
  <2>1. \A d \in Clients : d # c => fresh[d] # v BY <1>2 DEF IInv, FreshInv, v
  <2> QED BY <1>1, <2>1 DEF IInv, ClientInv, v
<1>6. IsCache(table, n) /\ HasRoom(table.hash) /\ Matched(table, batch) /\ capacity \in Nat
      /\ n \in Nat /\ table.size \in Nat /\ table.size <= capacity
  BY Now DEF IInv, TableInv, n
<1>7. ContainsKey(table.hash, k) <=> \E e \in Contents(table.hash) : e.key = k
  BY <1>2, <1>6, PinIs
<1>8. CASE ContainsKey(table.hash, k)
  <2>1. table' = table BY <1>3, <1>8
  <2>2. TableInv' /\ IdealStep BY <1>1, <2>1, TableStays DEF IInv
  <2>3. \A e \in All(table) : e.value # NoValue BY <1>6, AllFacts
  <2>4. FreshInv' BY <1>5, <2>1, <2>3 DEF IInv, FreshInv
  <2> QED BY <1>4, <2>2, <2>4 DEF IInv
<1>9. CASE ~ ContainsKey(table.hash, k)
  <2>1. table' = EvictToCapacity(t, capacity) BY <1>3, <1>9
  <2>2. /\ IsCache(t, n) /\ t.size = table.size + 1
        /\ All(t) = All(table) \cup {NewEntry(k, v)}
        /\ FifoOf(t) = Append(FifoOf(table), [key |-> k, value |-> v])
    BY <1>2, <1>6, <1>7, <1>9, InsertNewIs DEF t
  <2>3. n <= 2 \/ HasRoom(t.hash)
    <3>1. n <= 2 \/ n > capacity + 1 BY <1>6, SizeIs DEF n
    <3>2. n > capacity + 1 => t.size < n BY <1>6, <2>2
    <3> QED BY <2>2, <3>1, <3>2, SizeCounts
  <2>4. Matched(t, batch) BY <1>2, <1>6, <2>2, InsertKeepsMatched
  <2>5. /\ IsCache(table', n) /\ table'.size <= capacity /\ Matched(table', batch)
        /\ All(table') \subseteq All(t)
        /\ FifoOf(table') = Ideal!Newest(FifoOf(t), capacity)
    BY <1>6, <2>1, <2>2, <2>3, <2>4, EvictFacts
  <2>6. TableInv' BY <1>1, <2>5 DEF IInv, TableInv, n
  <2>7. \A e \in All(table') : e.value # NoValue BY <2>5, AllFacts
  <2>8. NewEntry(k, v).value = v BY DEF NewEntry
  <2>9. FreshInv'
    <3>1. \A e \in All(table') : e \in All(table) \/ e.value = v BY <2>2, <2>5, <2>8
    <3> QED BY <1>5, <2>7, <3>1 DEF IInv, FreshInv
  <2>10. Ideal!Insert(k, v)
    <3>1. ~ Ideal!Cached(k) BY <1>7, <1>9, IdealNow DEF IInv
    <3>2. v \notin Ideal!Live BY <1>2, IdealNow DEF IInv
    <3>3. Fifo' = Ideal!Newest(Append(Fifo, [key |-> k, value |-> v]), capacity)
      BY <2>2, <2>5, FifoNow
    <3> QED BY <1>1, <3>1, <3>2, <3>3 DEF Ideal!Insert
  <2> QED BY <1>2, <1>4, <2>6, <2>9, <2>10 DEF IInv, IdealStep, Ideal!Next
<1> QED BY <1>8, <1>9

\* SetCapacity evicts the oldest entries and moves the others to another table.
LEMMA SetCapacityStep ==
  ASSUME IInv, NEW c \in Capacities, SetCapacity(c)
  PROVE  IInv' /\ IdealStep
<1> DEFINE t == EvictToCapacity(table, c) n == Size(capacity) new == Rehash(t.hash, c)
<1>1. capacity' = c /\ UNCHANGED <<batch, pc, key, todo, fresh>>
      /\ table' = [t EXCEPT !.hash = new]
  BY DEF SetCapacity, client
<1>2. c \in Nat BY CapacitiesAssumption
<1>3. IsCache(table, n) /\ HasRoom(table.hash) /\ Matched(table, batch)
  BY Now DEF IInv, TableInv
<1>4. /\ IsCache(t, n) /\ t.size <= c /\ Matched(t, batch) /\ All(t) \subseteq All(table)
      /\ FifoOf(t) = Ideal!Newest(Fifo, c)
  BY <1>2, <1>3, EvictFacts, FifoNow
<1> HIDE DEF t, n
<1>5. Sound(new, Size(c)) /\ Contents(new) = Contents(t.hash)
  <2>1. t.size \in Nat /\ Cardinality(Contents(t.hash)) = t.size BY <1>4, CacheFacts, SizeCounts
  <2>2. Size(c) \in Nat /\ Size(c) > c BY <1>2, SizeIs
  <2>3. Cardinality(Contents(t.hash)) < Size(c) BY <1>2, <1>4, <2>1, <2>2
  <2>4. Sound(t.hash, n) BY <1>4 DEF IsCache
  <2> QED BY <1>2, <2>3, <2>4, RehashIs
<1>6. new \in [0..(Size(c) - 1) -> Slot] BY <1>5 DEF Sound, IsTable
<1> HIDE DEF new
<1>7. /\ table' \in Record(Size(c)) /\ table'.hash = new /\ table'.size = t.size
      /\ table'.allocated = t.allocated /\ table'.insertion_order = t.insertion_order
      /\ table'.evicted = t.evicted
  <2>1. t \in Record(n) BY <1>4 DEF IsCache
  <2> QED BY <1>1, <1>6, <2>1 DEF Record
<1>8. Contents(table'.hash) = Contents(t.hash) /\ All(table') = All(t)
  BY <1>5, <1>7 DEF All
<1>9. IsCache(table', Size(c))
  <2>1. Ordered(table') BY <1>4, <1>7, <1>8 DEF IsCache, Ordered
  <2>2. Counted(table') BY <1>4, <1>7 DEF IsCache, Counted
  <2>3. Apart(table') BY <1>4, <1>7, <1>8 DEF IsCache, Apart
  <2> QED BY <1>5, <1>7, <2>1, <2>2, <2>3 DEF IsCache
<1>10. Matched(table', batch) BY <1>4, <1>8 DEF Matched
<1>11. TableInv' BY <1>1, <1>4, <1>7, <1>9, <1>10 DEF IInv, TableInv
<1>12. ClientInv' BY <1>1 DEF IInv, ClientInv
<1>13. FreshInv' BY <1>1, <1>4, <1>8 DEF IInv, FreshInv
<1>14. FifoOf(table') = FifoOf(t) BY <1>4, <1>7, <1>8, <1>9, SameFifo
<1>15. Ideal!SetCapacity(c) BY <1>1, <1>4, <1>14, FifoNow DEF Ideal!SetCapacity
<1> QED BY <1>11, <1>12, <1>13, <1>15 DEF IInv, IdealStep, Ideal!Next

\* Clear evicts every entry, and pinned ones stay until they are released.
LEMMA ClearStep ==
  ASSUME IInv, Clear
  PROVE  IInv' /\ IdealStep
<1> DEFINE n == Size(capacity)
<1>1. table' = EvictToCapacity(table, 0) /\ UNCHANGED <<capacity, batch, pc, key, todo, fresh>>
  BY DEF Clear, client
<1>2. IsCache(table, n) /\ HasRoom(table.hash) /\ Matched(table, batch) /\ capacity \in Nat
  BY Now DEF IInv, TableInv
<1> HIDE DEF n
<1>3. /\ IsCache(table', n) /\ table'.size <= 0 /\ Matched(table', batch)
      /\ All(table') \subseteq All(table)
  BY <1>1, <1>2, EvictFacts
<1>4. table'.size = 0 /\ table'.size <= capacity
  <2>1. table'.size \in Nat BY <1>3, CacheFacts
  <2> QED BY <1>2, <1>3, <2>1
<1>5. TableInv' BY <1>1, <1>3, <1>4 DEF IInv, TableInv, n
<1>6. ClientInv' BY <1>1 DEF IInv, ClientInv
<1>7. FreshInv' BY <1>1, <1>3 DEF IInv, FreshInv
<1>8. Fifo' = <<>>
  <2>1. FifoOf(table') \in Seq(FifoEntry) /\ Len(FifoOf(table')) = 0
    <3>1. table'.size = Len(table'.insertion_order) BY <1>3 DEF IsCache, Counted
    <3> QED BY <1>3, <1>4, <3>1, FifoIs
  <2> QED BY <2>1, EmptySeq, FifoNow
<1>9. Ideal!Clear BY <1>1, <1>8 DEF Ideal!Clear
<1> QED BY <1>5, <1>6, <1>7, <1>9 DEF IInv, IdealStep, Ideal!Next

\* Every step keeps the invariant and is a step of the ideal cache or a stutter.
LEMMA NextIInv ==
  ASSUME IInv, [Next]_vars
  PROVE  IInv' /\ IdealStep
<1>1. CASE UNCHANGED vars
  <2>1. UNCHANGED <<capacity, table, batch>> /\ UNCHANGED <<pc, key, todo, fresh>>
    BY <1>1 DEF vars, client
  <2>2. ClientInv' /\ FreshInv' BY <2>1 DEF IInv, ClientInv, FreshInv
  <2> QED BY <2>1, <2>2, TableStays DEF IInv
<1>2. ASSUME NEW c \in Clients, ClientStep(c) PROVE IInv' /\ IdealStep
  <2>1. ASSUME NEW k \in Keys, AddInput(c, k) PROVE IInv' /\ IdealStep BY <2>1, AddInputStep
  <2> QED
    BY <1>2, <2>1, LookupStep, PopCacheHitStep, ComputeBlockingStep, BeginInsertStep, InsertStep,
       ReleaseItemStep DEF ClientStep
<1> QED BY <1>1, <1>2, SetCapacityStep, ClearStep DEF Next

\* The cache runs within the inductive invariant.
THEOREM InductiveInvariant == Spec => []IInv
<1>1. Init => IInv BY InitIInv
<1>2. IInv /\ [Next]_vars => IInv' BY NextIInv
<1> QED BY <1>1, <1>2, PTL DEF Spec

\* Pins of the model is the count that the lemmas are about.
LEMMA HoldersAre == \A k, v : Pins(k, v) = PinsIn(batch, k, v)
BY DEF Pins, PinsIn, Holders, HoldersIn

\* Every variable has its type, with as many slots as the capacity calls for.
THEOREM TypeCorrect == Spec => []TypeOK
<1>1. ASSUME IInv PROVE TypeOK
  <2>1. capacity \in Capacities /\ capacity \in Nat /\ batch \in [Clients -> Seq(Item)]
    BY <1>1, Now DEF IInv, TableInv
  <2>2. DOMAIN EmptyHash(capacity) = 0..(Size(capacity) - 1) BY <2>1, SizeIs
  <2>3. Record(Size(capacity)) = Tables(capacity) BY <2>2 DEF Record, Tables
  <2>4. table \in Tables(capacity) BY <1>1, <2>3 DEF IInv, TableInv, IsCache
  <2> QED BY <1>1, <2>1, <2>4 DEF IInv, ClientInv, TypeOK
<1> QED BY <1>1, InductiveInvariant, PTL

\* The counters account for the entries, for any sequence of insertions,
\* evictions, resizes and releases of any number of computations.
THEOREM AccountsAlways == Spec => []Accounting
<1>1. ASSUME IInv PROVE Accounting
  <2>1. IsCache(table, Size(capacity)) BY <1>1 DEF IInv, TableInv
  <2>2. table.size = Cardinality(InUse(table.hash)) BY <2>1, SizeCounts
  <2> QED BY <2>1, <2>2 DEF IsCache, Counted, Accounting
<1> QED BY <1>1, InductiveInvariant, PTL

\* Closing holes leaves every entry where its probe ends, whatever the keys, the
\* number of slots and the run of entries that wraps around the end.
THEOREM ProbesAlwaysReach == Spec => []ProbesReach
<1>1. ASSUME IInv PROVE ProbesReach
  <2>1. IsCache(table, Size(capacity)) BY <1>1 DEF IInv, TableInv
  <2>2. InUse(table.hash) # DOMAIN table.hash BY <1>1, Now DEF IInv, HasRoom
  <2>3. \A i \in InUse(table.hash) : Find(table.hash, table.hash[i].key) = i
    BY <2>1, FindPresent DEF IsCache
  <2> QED BY <2>2, <2>3 DEF ProbesReach
<1> QED BY <1>1, InductiveInvariant, PTL

\* A lock that somebody holds is on an entry that is still allocated, and the
\* pins of an entry are the locks on it.
THEOREM LocksAlwaysHold == Spec => []LocksHoldValues
<1>1. ASSUME IInv PROVE LocksHoldValues
  <2>1. Matched(table, batch) /\ IsBatches(batch) BY <1>1 DEF IInv, TableInv
  <2>2. ASSUME NEW i \in InUse(table.hash)
        PROVE  table.hash[i].pins = Pins(table.hash[i].key, table.hash[i].value)
    <3>1. EntryAt(table.hash, i) \in All(table) BY DEF All, Contents
    <3>2. /\ EntryAt(table.hash, i).pins = table.hash[i].pins
          /\ EntryAt(table.hash, i).key = table.hash[i].key
          /\ EntryAt(table.hash, i).value = table.hash[i].value
      BY DEF EntryAt
    <3> QED BY <2>1, <3>1, <3>2, HoldersAre DEF Matched
  <2>3. ASSUME NEW e \in table.evicted PROVE e.pins = Pins(e.key, e.value)
    BY <2>1, HoldersAre DEF Matched, All
  <2>4. ASSUME NEW c \in Clients, NEW i \in DOMAIN batch[c], batch[c][i].lock # NoValue
        PROVE  \/ \E e \in table.evicted : e.key = batch[c][i].hash /\ e.value = batch[c][i].lock
               \/ \E j \in InUse(table.hash) : /\ table.hash[j].key = batch[c][i].hash
                                               /\ table.hash[j].value = batch[c][i].lock
    <3>1. PinsIn(batch, batch[c][i].hash, batch[c][i].lock) # 0 BY <2>1, LockIsCounted
    <3>2. PICK e \in All(table) : e.key = batch[c][i].hash /\ e.value = batch[c][i].lock
      BY <2>1, <2>4, <3>1 DEF Matched
    <3>3. CASE e \in table.evicted BY <3>2, <3>3
    <3>4. CASE e \in Contents(table.hash)
      <4>1. PICK j \in InUse(table.hash) : e = EntryAt(table.hash, j) BY <3>4 DEF Contents
      <4>2. table.hash[j].key = e.key /\ table.hash[j].value = e.value BY <4>1 DEF EntryAt
      <4> QED BY <3>2, <4>2
    <3> QED BY <3>2, <3>3, <3>4 DEF All
  <2> QED BY <2>2, <2>3, <2>4 DEF LocksHoldValues
<1> QED BY <1>1, InductiveInvariant, PTL

\* The table, its pins and its evictions implement the ideal cache: every step is
\* one of its steps or changes nothing that its users see.
THEOREM Implements == Spec => ImplementsPinnedCache
<1>1. Init => Ideal!Init BY InitIInv
<1>2. IInv /\ [Next]_vars => [Ideal!Next]_(Ideal!vars) BY NextIInv DEF IdealStep
<1> QED BY <1>1, <1>2, InductiveInvariant, PTL DEF Spec, ImplementsPinnedCache, Ideal!Spec

\* The promise of the ideal cache, for the table: an evaluation that a computation
\* locked for one position is never that of another.
THEOREM PromiseIsKept == Spec => []Ideal!OneEvaluation
<1>1. ASSUME IInv PROVE Ideal!OneEvaluation
  <2> DEFINE o == table.insertion_order
  <2>1. IsCache(table, Size(capacity)) /\ Matched(table, batch) /\ IsBatches(batch)
    BY <1>1 DEF IInv, TableInv
  <2>2. /\ DOMAIN Fifo = 1..Len(o)
        /\ \A i \in 1..Len(o) : \E e \in Contents(table.hash) :
              /\ e.key = o[i] /\ Fifo[i] = [key |-> e.key, value |-> e.value]
    BY <2>1, FifoIs, FifoNow
  <2>3. \A i, j \in 1..Len(o) : o[i] = o[j] => i = j BY <2>1, CacheFacts DEF IsCache, Ordered
  <2>4. \A e, f \in All(table) : e.value = f.value => e = f BY <2>1, AllFacts
  <2>5. Len(Fifo) <= capacity BY <1>1, IdealNow DEF IInv, TableInv
  <2> HIDE DEF o
  <2>6. ASSUME NEW i \in 1..Len(o), NEW j \in 1..Len(o),
               Fifo[i].key = Fifo[j].key \/ Fifo[i].value = Fifo[j].value
        PROVE  i = j
    <3>1. PICK e \in Contents(table.hash) :
            e.key = o[i] /\ Fifo[i] = [key |-> e.key, value |-> e.value]
      BY <2>2
    <3>2. PICK f \in Contents(table.hash) :
            f.key = o[j] /\ Fifo[j] = [key |-> f.key, value |-> f.value]
      BY <2>2
    <3>3. e.key = f.key \/ e.value = f.value BY <2>6, <3>1, <3>2
    <3>4. e.key = f.key BY <2>4, <3>3 DEF All
    <3> QED BY <2>3, <3>1, <3>2, <3>4
  <2>7. \A item \in Ideal!Locked : item.lock # NoValue =>
          \E f \in All(table) : f.key = item.hash /\ f.value = item.lock
    <3> SUFFICES ASSUME NEW item \in Ideal!Locked, item.lock # NoValue
                 PROVE  \E f \in All(table) : f.key = item.hash /\ f.value = item.lock
      OBVIOUS
    <3>1. PICK c \in Clients : \E i \in DOMAIN batch[c] : item = batch[c][i] BY DEF Ideal!Locked
    <3>2. PICK i \in DOMAIN batch[c] : item = batch[c][i] BY <3>1
    <3>3. PinsIn(batch, item.hash, item.lock) # 0 BY <2>1, <3>2, LockIsCounted
    <3> QED BY <2>1, <3>3 DEF Matched
  <2>8. ASSUME NEW x \in Ideal!Entries, NEW item \in Ideal!Locked, item.lock = x.value
        PROVE  item.hash = x.key
    <3>1. PICK i \in 1..Len(o) : x = Fifo[i] BY <2>2 DEF Ideal!Entries
    <3>2. PICK e \in Contents(table.hash) : x = [key |-> e.key, value |-> e.value] BY <2>2, <3>1
    <3>3. e \in All(table) /\ item.lock = e.value /\ e.value # NoValue
      BY <2>1, <2>8, <3>2, AllFacts DEF All
    <3>4. PICK f \in All(table) : f.key = item.hash /\ f.value = item.lock BY <2>7, <3>3
    <3> QED BY <2>4, <3>2, <3>3, <3>4
  <2>9. ASSUME NEW item \in Ideal!Locked, NEW other \in Ideal!Locked,
               item.lock = other.lock, item.lock # NoValue
        PROVE  item.hash = other.hash
    <3>1. PICK f \in All(table) : f.key = item.hash /\ f.value = item.lock BY <2>7, <2>9
    <3>2. PICK g \in All(table) : g.key = other.hash /\ g.value = other.lock BY <2>7, <2>9
    <3> QED BY <2>4, <2>9, <3>1, <3>2
  <2> QED BY <2>2, <2>5, <2>6, <2>8, <2>9 DEF Ideal!OneEvaluation
<1> QED BY <1>1, InductiveInvariant, PTL

-----------------------------------------------------------------------------
(* The ideal cache by itself, with any sequence of entries. *)

VARIABLE fifo

Abstract == INSTANCE PinnedCache

AbstractTypes ==
    /\ capacity \in Capacities
    /\ fifo \in Seq(FifoEntry)
    /\ batch \in [Clients -> Seq(Item)]

\* The parts of OneEvaluation, for a sequence of entries.
Distinct(f) ==
    \A i, j \in DOMAIN f : f[i].key = f[j].key \/ f[i].value = f[j].value => i = j

Agree(f) ==
    \A i \in DOMAIN f, item \in Abstract!Locked : item.lock = f[i].value => item.hash = f[i].key

LocksAgree ==
    \A item, other \in Abstract!Locked :
        item.lock = other.lock /\ item.lock # NoValue => item.hash = other.hash

AbstractInv ==
    /\ AbstractTypes
    /\ Len(fifo) <= capacity
    /\ Distinct(fifo)
    /\ Agree(fifo)
    /\ LocksAgree

\* The newest entries are the end of the sequence.
LEMMA NewestIsSuffix ==
  ASSUME NEW S, NEW s \in Seq(S), NEW n \in Nat
  PROVE  /\ Abstract!Newest(s, n) \in Seq(S)
         /\ Len(Abstract!Newest(s, n)) <= n
         /\ \E off \in Nat : /\ Len(Abstract!Newest(s, n)) + off = Len(s)
                             /\ \A i \in 1..Len(Abstract!Newest(s, n)) : Abstract!Newest(s, n)[i] = s[i + off]
<1>1. CASE Len(s) <= n
  <2>1. Abstract!Newest(s, n) = s
    BY <1>1 DEF Abstract!Newest
  <2>2. \A i \in 1..Len(s) : s[i] = s[i + 0]
    OBVIOUS
  <2> QED
    BY <2>1, <2>2, <1>1
<1>2. CASE ~(Len(s) <= n)
  <2> DEFINE m == Len(s) - n + 1
  <2>1. Abstract!Newest(s, n) = SubSeq(s, m, Len(s))
    BY <1>2 DEF Abstract!Newest
  <2>2. m \in 1..(Len(s) + 1) /\ Len(s) \in Nat
    BY <1>2
  <2>3. \A i \in m..Len(s) : s[i] \in S
    BY <2>2, ElementOfSeq
  <2>4. /\ SubSeq(s, m, Len(s)) \in Seq(S)
        /\ Len(SubSeq(s, m, Len(s))) = n
        /\ \A i \in 1..n : SubSeq(s, m, Len(s))[i] = s[i + (Len(s) - n)]
    BY <2>2, <2>3, SubSeqProperties, <1>2
  <2> DEFINE off == Len(s) - n
  <2>5. /\ off \in Nat /\ Len(Abstract!Newest(s, n)) + off = Len(s)
        /\ \A i \in 1..Len(Abstract!Newest(s, n)) : Abstract!Newest(s, n)[i] = s[i + off]
    BY <2>1, <2>2, <2>4, <1>2
  <2>6. Abstract!Newest(s, n) \in Seq(S) /\ Len(Abstract!Newest(s, n)) <= n
    BY <2>1, <2>4
  <2> HIDE DEF off
  <2> QED
    BY <2>5, <2>6
<1> QED
  BY <1>1, <1>2

\* Evicting the oldest entries keeps what is known of the others.
LEMMA NewestKeeps ==
  ASSUME NEW f \in Seq(FifoEntry), NEW n \in Nat, Distinct(f), Agree(f)
  PROVE  /\ Abstract!Newest(f, n) \in Seq(FifoEntry)
         /\ Len(Abstract!Newest(f, n)) <= n
         /\ Distinct(Abstract!Newest(f, n))
         /\ Agree(Abstract!Newest(f, n))
<1> DEFINE g == Abstract!Newest(f, n)
<1>1. g \in Seq(FifoEntry) /\ Len(g) <= n
  BY NewestIsSuffix
<1>2. PICK off \in Nat : /\ Len(g) + off = Len(f)
                         /\ \A i \in 1..Len(g) : g[i] = f[i + off]
  BY NewestIsSuffix
<1> HIDE DEF g
<1>3. DOMAIN g = 1..Len(g) /\ DOMAIN f = 1..Len(f) /\ Len(g) \in Nat /\ Len(f) \in Nat
  BY <1>1
<1>4. \A i \in DOMAIN g : i + off \in DOMAIN f /\ g[i] = f[i + off]
  BY <1>2, <1>3
<1>5. Distinct(g)
  <2> SUFFICES ASSUME NEW i \in DOMAIN g, NEW j \in DOMAIN g,
                      g[i].key = g[j].key \/ g[i].value = g[j].value
               PROVE  i = j
    BY DEF Distinct
  <2>1. i + off = j + off
    BY <1>4 DEF Distinct
  <2> QED
    BY <2>1, <1>3
<1>6. Agree(g)
  BY <1>4 DEF Agree
<1> QED
  BY <1>1, <1>5, <1>6 DEF g

\* A step that leaves the entries alone and locks nothing new keeps the invariant.
LEMMA FewerLocks ==
  ASSUME AbstractInv, UNCHANGED <<capacity, fifo>>, batch' \in [Clients -> Seq(Item)],
         Abstract!Locked' \subseteq Abstract!Locked
  PROVE  AbstractInv'
BY DEF AbstractInv, AbstractTypes, Distinct, Agree, LocksAgree

\* A step that changes the entries and no lock.
LEMMA NewEntries ==
  ASSUME AbstractInv, UNCHANGED batch, capacity' \in Capacities, fifo' \in Seq(FifoEntry),
         Len(fifo') <= capacity', Distinct(fifo'), Agree(fifo')
  PROVE  AbstractInv'
<1>1. Abstract!Locked' = Abstract!Locked
  BY DEF Abstract!Locked
<1> QED
  BY <1>1 DEF AbstractInv, AbstractTypes, Distinct, Agree, LocksAgree

\* A lookup locks what the cache holds under its key, or nothing.
LEMMA AbstractLookup ==
  ASSUME NoValue \notin Values, AbstractInv, NEW c \in Clients, NEW k \in Keys, Abstract!Lookup(c, k)
  PROVE  AbstractInv'
<1>1. PICK lock \in Values \cup {NoValue} :
         /\ IF Abstract!Cached(k) THEN [key |-> k, value |-> lock] \in Abstract!Entries ELSE lock = NoValue
         /\ batch' = [batch EXCEPT ![c] = Append(@, [hash |-> k, lock |-> lock])]
  BY DEF Abstract!Lookup
<1> DEFINE new == [hash |-> k, lock |-> lock]
<1>2. new \in Item
  BY DEF Item
<1>3. batch' \in [Clients -> Seq(Item)]
  BY <1>1, <1>2 DEF AbstractInv, AbstractTypes
<1>4. \A d \in Clients : \A i \in DOMAIN batch'[d] :
         batch'[d][i] = new \/ (i \in DOMAIN batch[d] /\ batch'[d][i] = batch[d][i])
  <2> SUFFICES ASSUME NEW d \in Clients, NEW i \in DOMAIN batch'[d]
               PROVE  batch'[d][i] = new \/ (i \in DOMAIN batch[d] /\ batch'[d][i] = batch[d][i])
    OBVIOUS
  <2>1. batch[d] \in Seq(Item)
    BY DEF AbstractInv, AbstractTypes
  <2>2. CASE d = c
    <3>1. batch'[d] = Append(batch[d], new)
      BY <1>1, <2>2 DEF AbstractInv, AbstractTypes
    <3> QED
      BY <3>1, <2>1, <1>2
  <2>3. CASE d # c
    BY <1>1, <2>3 DEF AbstractInv, AbstractTypes
  <2> QED
    BY <2>2, <2>3
<1>5. Abstract!Locked' \subseteq Abstract!Locked \cup {new}
  BY <1>4 DEF Abstract!Locked
<1>6. UNCHANGED <<capacity, fifo>>
  BY DEF Abstract!Lookup
<1>7. \A i \in DOMAIN fifo : lock = fifo[i].value => k = fifo[i].key
  <2> SUFFICES ASSUME NEW i \in DOMAIN fifo, lock = fifo[i].value PROVE k = fifo[i].key
    OBVIOUS
  <2>1. fifo[i] \in FifoEntry
    BY DEF AbstractInv, AbstractTypes
  <2>2. PICK j \in DOMAIN fifo : fifo[j] = [key |-> k, value |-> lock]
    BY <1>1, <2>1 DEF FifoEntry, Abstract!Entries
  <2> QED
    BY <2>2 DEF AbstractInv, Distinct
<1>8. \A item \in Abstract!Locked : item.lock = lock /\ lock # NoValue => item.hash = k
  BY <1>1 DEF AbstractInv, Agree, Abstract!Entries
<1>9. Agree(fifo)' /\ LocksAgree'
  BY <1>5, <1>6, <1>7, <1>8 DEF AbstractInv, Agree, LocksAgree
<1> QED
  BY <1>3, <1>6, <1>9 DEF AbstractInv, AbstractTypes, Distinct

\* A new evaluation is at an address that neither an entry nor a lock has.
LEMMA AbstractInsert ==
  ASSUME Capacities \subseteq Nat, AbstractInv, NEW k \in Keys, NEW v \in Values, Abstract!Insert(k, v)
  PROVE  AbstractInv'
<1> DEFINE f == Append(fifo, [key |-> k, value |-> v])
<1>1. /\ fifo \in Seq(FifoEntry) /\ f \in Seq(FifoEntry) /\ Len(fifo) \in Nat
      /\ DOMAIN fifo = 1..Len(fifo) /\ DOMAIN f = 1..(Len(fifo) + 1)
      /\ \A i \in DOMAIN fifo : f[i] = fifo[i]
      /\ f[Len(fifo) + 1] = [key |-> k, value |-> v]
  BY DEF AbstractInv, AbstractTypes, FifoEntry
<1>2. /\ \A i \in DOMAIN fifo : fifo[i].key # k /\ fifo[i].value # v
      /\ \A item \in Abstract!Locked : item.lock # v
  BY DEF Abstract!Insert, Abstract!Cached, Abstract!Live, Abstract!Entries
<1> HIDE DEF f
<1>3. \A i \in DOMAIN f : i \in DOMAIN fifo \/ i = Len(fifo) + 1
  BY <1>1
<1>4. Distinct(f)
  <2> SUFFICES ASSUME NEW i \in DOMAIN f, NEW j \in DOMAIN f,
                      f[i].key = f[j].key \/ f[i].value = f[j].value
               PROVE  i = j
    BY DEF Distinct
  <2>1. CASE i \in DOMAIN fifo /\ j \in DOMAIN fifo
    BY <2>1, <1>1 DEF AbstractInv, Distinct
  <2>2. CASE i = Len(fifo) + 1 /\ j = Len(fifo) + 1
    BY <2>2
  <2>3. CASE i \in DOMAIN fifo /\ j = Len(fifo) + 1
    BY <2>3, <1>1, <1>2
  <2>4. CASE i = Len(fifo) + 1 /\ j \in DOMAIN fifo
    BY <2>4, <1>1, <1>2
  <2> QED
    BY <1>3, <2>1, <2>2, <2>3, <2>4
<1>5. Agree(f)
  BY <1>1, <1>2, <1>3 DEF AbstractInv, Agree
<1>6. capacity \in Nat /\ fifo' = Abstract!Newest(f, capacity) /\ UNCHANGED <<capacity, batch>>
  BY DEF Abstract!Insert, AbstractInv, AbstractTypes, f
<1> QED
  BY <1>1, <1>4, <1>5, <1>6, NewestKeeps, NewEntries DEF AbstractInv, AbstractTypes

\* The ideal cache drops its oldest entries.
LEMMA AbstractSetCapacity ==
  ASSUME Capacities \subseteq Nat, AbstractInv, NEW n \in Capacities, Abstract!SetCapacity(n)
  PROVE  AbstractInv'
<1>1. n \in Nat /\ capacity' = n /\ fifo' = Abstract!Newest(fifo, n) /\ UNCHANGED batch
  BY DEF Abstract!SetCapacity
<1> QED
  BY <1>1, NewestKeeps, NewEntries DEF AbstractInv, AbstractTypes

\* What is cut off either end of a batch leaves the other items locked.
LEMMA AbstractDrop ==
  ASSUME AbstractInv, NEW c \in Clients, Abstract!DropOldest(c) \/ Abstract!DropNewest(c)
  PROVE  AbstractInv'
<1>1. batch[c] \in Seq(Item) /\ batch[c] # <<>>
  BY DEF AbstractInv, AbstractTypes, Abstract!DropOldest, Abstract!DropNewest
<1> DEFINE rest == batch'[c]
<1>2. /\ batch' = [batch EXCEPT ![c] = rest]
      /\ rest = Tail(batch[c]) \/ rest = SubSeq(batch[c], 1, Len(batch[c]) - 1)
      /\ UNCHANGED <<capacity, fifo>>
  BY DEF AbstractInv, AbstractTypes, Abstract!DropOldest, Abstract!DropNewest
<1>3. rest \in Seq(Item) /\ \A i \in DOMAIN rest : \E j \in DOMAIN batch[c] : rest[i] = batch[c][j]
  <2>1. CASE rest = Tail(batch[c])
    <3>1. /\ rest \in Seq(Item) /\ Len(rest) = Len(batch[c]) - 1 /\ Len(rest) \in Nat
          /\ \A i \in 1..Len(rest) : rest[i] = batch[c][i + 1]
      BY <2>1, <1>1, HeadTailProperties
    <3>2. \A i \in 1..Len(rest) : i + 1 \in DOMAIN batch[c]
      BY <3>1, <1>1
    <3>3. DOMAIN rest = 1..Len(rest)
      BY <3>1
    <3> HIDE DEF rest
    <3> QED
      BY <3>1, <3>2, <3>3
  <2>2. CASE rest = SubSeq(batch[c], 1, Len(batch[c]) - 1)
    <3>1. \A i \in 1..(Len(batch[c]) - 1) : i \in DOMAIN batch[c] /\ batch[c][i] \in Item
      BY <1>1, ElementOfSeq
    <3>2. Len(batch[c]) \in Nat /\ Len(batch[c]) > 0
      BY <1>1, EmptySeq
    <3>3. /\ rest \in Seq(Item) /\ Len(rest) = Len(batch[c]) - 1
          /\ \A i \in 1..Len(rest) : rest[i] = batch[c][i]
      BY <2>2, <1>1, <3>1, <3>2
    <3>4. DOMAIN rest = 1..Len(rest) /\ Len(rest) = Len(batch[c]) - 1
      BY <3>3
    <3> HIDE DEF rest
    <3> QED
      BY <3>1, <3>3, <3>4
  <2> QED
    BY <1>2, <2>1, <2>2
<1> HIDE DEF rest
<1>4. batch' \in [Clients -> Seq(Item)]
  BY <1>2, <1>3 DEF AbstractInv, AbstractTypes
<1>5. Abstract!Locked' \subseteq Abstract!Locked
  BY <1>2, <1>3 DEF Abstract!Locked, AbstractInv, AbstractTypes
<1> QED
  BY <1>2, <1>4, <1>5, FewerLocks

\* The ideal cache starts empty.
LEMMA AbstractInit == Capacities \subseteq Nat /\ Abstract!Init => AbstractInv
<1> SUFFICES ASSUME Capacities \subseteq Nat, Abstract!Init PROVE AbstractInv
  OBVIOUS
<1>1. AbstractTypes /\ Len(fifo) <= capacity
  BY DEF Abstract!Init, AbstractTypes
<1>2. DOMAIN fifo = {} /\ Abstract!Locked = {}
  BY DEF Abstract!Init, Abstract!Locked
<1> QED
  BY <1>1, <1>2 DEF AbstractInv, Distinct, Agree, LocksAgree

\* Every step of the ideal cache keeps its invariant.
LEMMA AbstractNext ==
  ASSUME Capacities \subseteq Nat, NoValue \notin Values, AbstractInv, [Abstract!Next]_(Abstract!vars)
  PROVE  AbstractInv'
<1>1. CASE Abstract!Clear
  <2>1. fifo' = <<>> /\ UNCHANGED <<capacity, batch>>
    BY <1>1 DEF Abstract!Clear
  <2>2. capacity \in Nat /\ fifo' \in Seq(FifoEntry) /\ Len(fifo') = 0 /\ DOMAIN fifo' = {}
    BY <2>1 DEF AbstractInv, AbstractTypes
  <2>3. Distinct(fifo') /\ Agree(fifo')
    BY <2>2 DEF Distinct, Agree
  <2> QED
    BY <2>1, <2>2, <2>3, NewEntries DEF AbstractInv, AbstractTypes
<1>2. CASE UNCHANGED Abstract!vars
  BY <1>2, NewEntries DEF Abstract!vars, AbstractInv, AbstractTypes
<1> QED
  BY <1>1, <1>2, AbstractLookup, AbstractInsert, AbstractSetCapacity, AbstractDrop DEF Abstract!Next

\* The ideal cache caches a position once, stays within its capacity and never
\* gives an address that somebody still uses to another position.
THEOREM OneEvaluationAlways ==
  ASSUME Capacities \subseteq Nat, NoValue \notin Values
  PROVE  Abstract!Spec => []Abstract!OneEvaluation
<1>1. AbstractInv => Abstract!OneEvaluation
  BY DEF AbstractInv, Abstract!OneEvaluation, Distinct, Agree, LocksAgree, Abstract!Entries
<1>2. Abstract!Init => AbstractInv
  BY AbstractInit
<1>3. AbstractInv /\ [Abstract!Next]_(Abstract!vars) => AbstractInv'
  BY AbstractNext
<1> QED
  BY <1>1, <1>2, <1>3, PTL DEF Abstract!Spec
=============================================================================
