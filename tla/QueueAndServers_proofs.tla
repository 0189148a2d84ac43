------------------------- MODULE QueueAndServers_proofs -------------------------
(***************************************************************************)
(* Proofs about the waiting line and about the pings of the servers it     *)
(* fills, for any players, ranks and servers, any number of entries, of    *)
(* retries and of pings at a time.                                         *)
(*                                                                         *)
(* The heap.  up and down move one entry along a branch; Ascent and Dive   *)
(* say where every entry comes from.  Both are onto the places, hence one  *)
(* to one, so that no entry is lost or doubled (Shuffled), and the array   *)
(* is a heap again wherever only the moved entry was out of place.  Join   *)
(* times tell the entries apart and nothing but its index changes when an  *)
(* entry moves (Same).                                                     *)
(*                                                                         *)
(* The line.  LineInv adds to the three invariants of the line the join     *)
(* times: the entry that removeEntry finds by its index is the right one   *)
(* only as long as no two entries joined at the same time.                 *)
(*                                                                         *)
(* The servers.  OnlineIsRecent says nothing about the pings under way, on *)
(* which it depends how many failures are still to come before somebody    *)
(* makes the server offline.  Sound bounds them: the failures of this      *)
(* round, until the pings that read the counter find it exhausted, and of  *)
(* the rounds that pings which still have to reset the counter (Store)     *)
(* will begin.                                                             *)
(***************************************************************************)
EXTENDS QueueAndServers, FiniteSetTheorems, SequenceTheorems, WellFoundedInduction, TLAPS

-----------------------------------------------------------------------------
(* The heap: entries and halves *)

\* What an entry keeps when it moves.
Same(e, f) ==
    e.player = f.player /\ e.rank = f.rank /\ e.srv = f.srv /\ e.joined = f.joined

\* Join times tell the entries apart.
Keyed(q) == \A k, l \in 1..Len(q) : q[k].joined = q[l].joined => k = l

\* The first n entries are a heap.
HeapUpTo(q, n) == \A k \in 2..n : ~Less(q[k], q[k \div 2])

LEMMA Half ==
    ASSUME NEW k \in Nat
    PROVE  /\ k \div 2 \in Nat
           /\ k = 2 * (k \div 2) \/ k = 2 * (k \div 2) + 1
           /\ k >= 1 => k \div 2 < k
           /\ k >= 2 => k \div 2 >= 1
           /\ (2 * k) \div 2 = k /\ (2 * k + 1) \div 2 = k
OBVIOUS

LEMMA EntryFacts ==
    ASSUME NEW e \in Entry
    PROVE  /\ e.player \in Player /\ e.rank \in Nat /\ e.srv \in Target
           /\ e.joined \in 1..MaxJoins /\ e.joined \in Nat /\ e.index \in Nat \ {0}
<1>1. /\ e.player \in Player /\ e.rank \in RankValue /\ e.srv \in Target
      /\ e.joined \in 1..MaxJoins /\ e.index \in Nat \ {0}
  BY DEF Entry
<1>2. RankValue \subseteq Nat /\ MaxJoins \in Nat
  BY QueueAssumption
<1>3. e.rank \in Nat
  BY <1>1, <1>2, Zenon
<1>4. e.joined \in Nat
  BY <1>1, <1>2
<1>5. QED
  BY <1>1, <1>3, <1>4, Zenon

LEMMA Reindexed ==
    ASSUME NEW e \in Entry, NEW k \in Nat \ {0}
    PROVE  /\ [e EXCEPT !.index = k] \in Entry
           /\ [e EXCEPT !.index = k].index = k
           /\ Same([e EXCEPT !.index = k], e)
BY DEF Entry, Same

\* Less is a strict weak order.
LEMMA LessOrder ==
    ASSUME NEW e \in Entry, NEW f \in Entry, NEW g \in Entry
    PROVE  /\ Less(e, f) => ~Less(f, e)
           /\ ~Less(g, f) /\ ~Less(f, e) => ~Less(g, e)
           /\ Less(e, f) /\ ~Less(g, f) => ~Less(g, e)
BY EntryFacts DEF Less

LEMMA LessOfSame ==
    ASSUME NEW e, NEW f, NEW g, NEW h, Same(e, g), Same(f, h)
    PROVE  Less(e, f) <=> Less(g, h)
BY DEF Same, Less

LEMMA Places ==
    ASSUME NEW q \in Seq(Entry)
    PROVE  /\ Len(q) \in Nat /\ DOMAIN q = 1..Len(q)
           /\ \A k \in 1..Len(q) : q[k] \in Entry
BY ElementOfSeq, LenProperties

LEMMA IsSeq ==
    ASSUME NEW n \in Nat, NEW q, q = [k \in 1..n |-> q[k]], \A k \in 1..n : q[k] \in Entry
    PROVE  q \in Seq(Entry) /\ Len(q) = n
<1>1. q \in [1..n -> Entry]
  BY Zenon
<1>2. QED
  BY <1>1

\* A map of the places onto the places is one to one.
LEMMA OntoIsOneToOne ==
    ASSUME NEW n \in Nat, NEW f \in [1..n -> 1..n], \A l \in 1..n : \E k \in 1..n : f[k] = l
    PROVE  \A k, l \in 1..n : f[k] = f[l] => k = l
<1>1. f \in Surjection(1..n, 1..n)
  BY DEF Surjection
<1>2. IsFiniteSet(1..n)
  BY FS_Interval
<1>3. f \in Injection(1..n, 1..n)
  BY <1>1, <1>2, FS_Surjection
<1>4. QED
  BY <1>3 DEF Injection, IsInjective

LEMMA RearrangedFacts ==
    ASSUME NEW q \in Seq(Entry), NEW f \in [1..Len(q) -> 1..Len(q)],
           \A l \in 1..Len(q) : \E k \in 1..Len(q) : f[k] = l
    PROVE  /\ Rearranged(q, f) \in Seq(Entry) /\ Len(Rearranged(q, f)) = Len(q)
           /\ \A k \in 1..Len(q) : Same(Rearranged(q, f)[k], q[f[k]])
           /\ \A k \in 1..Len(q) : f[k] = k => Rearranged(q, f)[k] = q[k]
           /\ IndexInPlace(q) => IndexInPlace(Rearranged(q, f))
           /\ Keyed(q) => Keyed(Rearranged(q, f))
<1> DEFINE r == Rearranged(q, f)
           n == Len(q)
<1>1. /\ n \in Nat
      /\ \A k \in 1..n : q[k] \in Entry /\ f[k] \in 1..n /\ k \in Nat \ {0} /\ q[f[k]] \in Entry
  <2>1. n \in Nat /\ \A k \in 1..n : q[k] \in Entry
    BY Places
  <2>2. \A k \in 1..n : f[k] \in 1..n /\ k \in Nat \ {0}
    BY <2>1
  <2>3. QED
    BY <2>1, <2>2, Zenon
<1>2. r = [k \in 1..n |-> IF f[k] = k THEN q[k] ELSE [q[f[k]] EXCEPT !.index = k]]
  BY DEF Rearranged
<1>3. \A k \in 1..n : r[k] = IF f[k] = k THEN q[k] ELSE [q[f[k]] EXCEPT !.index = k]
  BY <1>2
<1>4. \A k \in 1..n : r[k] \in Entry /\ Same(r[k], q[f[k]])
  <2> SUFFICES ASSUME NEW k \in 1..n PROVE r[k] \in Entry /\ Same(r[k], q[f[k]])
    OBVIOUS
  <2>1. f[k] \in 1..n /\ k \in Nat \ {0} /\ q[f[k]] \in Entry
    BY <1>1
  <2>2. CASE f[k] = k
    BY <1>3, <2>1, <2>2 DEF Same
  <2>3. CASE f[k] # k
    <3>1. r[k] = [q[f[k]] EXCEPT !.index = k]
      BY <1>3, <2>3
    <3> DEFINE e == q[f[k]]
    <3>2. e \in Entry /\ r[k] = [e EXCEPT !.index = k]
      BY <2>1, <3>1
    <3> HIDE DEF e
    <3>3. [e EXCEPT !.index = k] \in Entry /\ Same([e EXCEPT !.index = k], e)
      BY <2>1, <3>2, Reindexed
    <3>4. r[k] \in Entry /\ Same(r[k], e)
      BY <3>2, <3>3
    <3>5. QED
      BY <3>4 DEF e
  <2>4. QED
    BY <2>2, <2>3
<1>5. r = [k \in 1..n |-> r[k]]
  BY <1>2
<1>6. r \in Seq(Entry) /\ Len(r) = n
  BY <1>1, <1>4, <1>5, IsSeq
<1>7. ASSUME IndexInPlace(q) PROVE IndexInPlace(r)
  <2>1. ASSUME NEW k \in 1..n PROVE r[k].index = k
    <3>1. f[k] \in 1..n /\ k \in Nat \ {0} /\ q[f[k]] \in Entry
      BY <1>1
    <3>2. CASE f[k] = k
      BY <1>3, <1>7, <3>2 DEF IndexInPlace
    <3>3. CASE f[k] # k
      <4>1. r[k] = [q[f[k]] EXCEPT !.index = k]
        BY <1>3, <3>3
      <4>2. QED
        BY <3>1, <4>1, Reindexed
    <3>4. QED
      BY <3>2, <3>3
  <2>2. QED
    BY <1>6, <2>1 DEF IndexInPlace
<1>8. ASSUME Keyed(q) PROVE Keyed(r)
  <2>1. ASSUME NEW k \in 1..n, NEW l \in 1..n, r[k].joined = r[l].joined PROVE k = l
    <3>1. q[f[k]].joined = q[f[l]].joined /\ f[k] \in 1..n /\ f[l] \in 1..n
      BY <1>4, <2>1 DEF Same
    <3>2. f[k] = f[l]
      BY <1>8, <3>1 DEF Keyed
    <3>3. QED
      BY <1>1, <3>2, OntoIsOneToOne
  <2>2. QED
    BY <1>6, <2>1 DEF Keyed
<1>9. \A k \in 1..n : f[k] = k => r[k] = q[k]
  BY <1>3
<1>10. QED
  BY <1>4, <1>6, <1>7, <1>8, <1>9

-----------------------------------------------------------------------------
(* The heap: the way up *)

LEMMA ClimbFacts ==
    ASSUME NEW q \in Seq(Entry), NEW j \in 1..Len(q)
    PROVE  /\ Climb(q, j) \subseteq 1..j /\ j \in Climb(q, j)
           /\ \A k \in Climb(q, j) : Rises(q, q[j], k) => k \div 2 \in Climb(q, j)
           /\ \A k \in Climb(q, j) : k # j =>
                 \E l \in Climb(q, j) : Rises(q, q[j], l) /\ l \div 2 = k
<1> DEFINE way == Climb(q, j)
           Closed(S) == j \in S /\ \A l \in S : Rises(q, q[j], l) => l \div 2 \in S
<1>1. way = {k \in 1..j : \A S \in SUBSET (1..j) : Closed(S) => k \in S}
  BY DEF Climb
<1>2. j \in Nat \ {0}
  BY Places
<1>3. way \subseteq 1..j /\ j \in way
  BY <1>1, <1>2
<1>4. ASSUME NEW k \in way, Rises(q, q[j], k) PROVE k \div 2 \in way
  <2>1. k \div 2 \in 1..j
    BY <1>2, <1>3, <1>4, Half DEF Rises
  <2>2. ASSUME NEW S \in SUBSET (1..j), Closed(S) PROVE k \div 2 \in S
    BY <1>1, <1>4, <2>2
  <2>3. QED
    BY <1>1, <2>1, <2>2
<1>5. ASSUME NEW k \in way, k # j,
             ~\E l \in way : Rises(q, q[j], l) /\ l \div 2 = k
      PROVE  FALSE
  <2>1. way \ {k} \in SUBSET (1..j)
    BY <1>3
  <2>2. Closed(way \ {k})
    BY <1>3, <1>4, <1>5
  <2>3. QED
    BY <1>1, <1>5, <2>1, <2>2
<1> HIDE DEF Closed
<1>6. QED
  BY <1>3, <1>4, <1>5

Ascent(q, j) ==
    [k \in 1..Len(q) |-> IF k \notin Climb(q, j) THEN k
                         ELSE IF Rises(q, q[j], k) THEN k \div 2
                         ELSE j]

LEMMA AscentOnto ==
    ASSUME NEW q \in Seq(Entry), NEW j \in 1..Len(q)
    PROVE  /\ Ascent(q, j) \in [1..Len(q) -> 1..Len(q)]
           /\ \A l \in 1..Len(q) : \E k \in 1..Len(q) : Ascent(q, j)[k] = l
<1> DEFINE n == Len(q)
           way == Climb(q, j)
<1>1. n \in Nat /\ j \in Nat /\ 1 <= j /\ j <= n
  BY Places
<1>2. /\ way \subseteq 1..j /\ way \subseteq 1..n /\ j \in way
      /\ \A k \in way : Rises(q, q[j], k) => k \div 2 \in way
      /\ \A k \in way : k # j => \E l \in way : Rises(q, q[j], l) /\ l \div 2 = k
  BY <1>1, ClimbFacts
<1> HIDE DEF way
<1>3. \A k \in 1..n : Ascent(q, j)[k] = IF k \notin way THEN k
                                        ELSE IF Rises(q, q[j], k) THEN k \div 2
                                        ELSE j
  BY DEF Ascent, way
<1>4. Ascent(q, j) \in [1..n -> 1..n]
  <2>1. \A k \in 1..n : Ascent(q, j)[k] \in 1..n
    BY <1>1, <1>2, <1>3
  <2>2. QED
    BY <2>1 DEF Ascent
<1>5. PICK t \in way : ~Rises(q, q[j], t)
  <2>1. PICK t \in way : \A y \in way : ~(<<y, t>> \in OpToRel(<, Nat))
    <3>1. way \subseteq Nat /\ way # {}
      BY <1>1, <1>2
    <3>2. QED
      BY <3>1, NatLessThanWellFounded, WFMin
  <2>2. \A y \in way : ~(y < t)
    <3>1. way \subseteq Nat
      BY <1>1, <1>2
    <3>2. QED
      BY <2>1, <3>1 DEF OpToRel
  <2>3. t \in Nat /\ t >= 1
    BY <1>1, <1>2
  <2>4. ASSUME Rises(q, q[j], t) PROVE FALSE
    BY <1>2, <2>2, <2>3, <2>4, Half
  <2>5. QED
    BY <2>4
<1>6. ASSUME NEW l \in 1..n PROVE \E k \in 1..n : Ascent(q, j)[k] = l
  <2>1. CASE l \notin way
    BY <1>3, <2>1
  <2>2. CASE l = j
    BY <1>2, <1>3, <1>5, <2>2
  <2>3. CASE l \in way /\ l # j
    BY <1>2, <1>3, <2>3
  <2>4. QED
    BY <2>1, <2>2, <2>3
<1>7. QED
  BY <1>4, <1>6

LEMMA UpFacts ==
    ASSUME NEW q \in Seq(Entry), NEW j \in 1..Len(q)
    PROVE  /\ up(q, j) = Rearranged(q, Ascent(q, j))
           /\ up(q, j) \in Seq(Entry) /\ Len(up(q, j)) = Len(q)
           /\ \A k \in 1..Len(q) : Same(up(q, j)[k], q[Ascent(q, j)[k]])
           /\ \A k \in 1..Len(q) : k > j => up(q, j)[k] = q[k]
           /\ IndexInPlace(q) => IndexInPlace(up(q, j))
           /\ Keyed(q) => Keyed(up(q, j))
<1>1. up(q, j) = Rearranged(q, Ascent(q, j))
  BY DEF up, Ascent
<1>2. \A k \in 1..Len(q) : k > j => Ascent(q, j)[k] = k
  <2>1. Climb(q, j) \subseteq 1..j /\ j \in Nat
    BY ClimbFacts, Places
  <2>2. QED
    BY <2>1, Places DEF Ascent
<1>3. /\ Ascent(q, j) \in [1..Len(q) -> 1..Len(q)]
      /\ \A l \in 1..Len(q) : \E k \in 1..Len(q) : Ascent(q, j)[k] = l
  BY AscentOnto
<1> DEFINE f == Ascent(q, j)
<1> HIDE DEF f
<1>4. /\ Rearranged(q, f) \in Seq(Entry) /\ Len(Rearranged(q, f)) = Len(q)
      /\ \A k \in 1..Len(q) : Same(Rearranged(q, f)[k], q[f[k]])
      /\ \A k \in 1..Len(q) : f[k] = k => Rearranged(q, f)[k] = q[k]
      /\ IndexInPlace(q) => IndexInPlace(Rearranged(q, f))
      /\ Keyed(q) => Keyed(Rearranged(q, f))
  BY <1>3, RearrangedFacts DEF f
<1>5. QED
  BY <1>1, <1>2, <1>4, Places DEF f

\* The entry at j may come before its parent, but its children do not.
LEMMA UpHeap ==
    ASSUME NEW q \in Seq(Entry), NEW n \in 0..Len(q), NEW j \in 1..n,
           \A k \in 2..n : k # j => ~Less(q[k], q[k \div 2]),
           \A k \in 2..n : k \div 2 = j /\ j > 1 => ~Less(q[k], q[j \div 2])
    PROVE  HeapUpTo(up(q, j), n)
<1> DEFINE way == Climb(q, j)
           e == q[j]
           r == up(q, j)
<1>1. n \in Nat /\ j \in Nat /\ 1 <= j /\ j <= n /\ n <= Len(q) /\ j \in 1..Len(q)
  BY Places
<1>2. \A k \in 1..n : k \in 1..Len(q) /\ q[k] \in Entry
  BY <1>1, Places
<1>3. /\ way \subseteq 1..j /\ j \in way
      /\ \A k \in way : Rises(q, e, k) => k \div 2 \in way
      /\ \A k \in way : k # j => \E l \in way : Rises(q, e, l) /\ l \div 2 = k
  BY <1>1, ClimbFacts
<1>4. \A k \in way : k # j => Less(e, q[k])
  BY <1>3 DEF Rises
<1>5. \A k \in 1..n : Same(r[k], IF k \notin way THEN q[k]
                                 ELSE IF Rises(q, e, k) THEN q[k \div 2] ELSE e)
  BY <1>1, <1>2, UpFacts DEF Ascent
<1> HIDE DEF way, r, e
<1> SUFFICES ASSUME NEW k \in 2..n PROVE ~Less(r[k], r[k \div 2])
  BY DEF HeapUpTo, r
<1> DEFINE p == k \div 2
<1>6. /\ p \in 1..n /\ p < k /\ k \in 1..n /\ k > 1
      /\ q[k] \in Entry /\ q[p] \in Entry /\ e \in Entry
  BY <1>1, <1>2, Half DEF e
<1>7. /\ p \in way /\ Rises(q, e, p) => /\ p \div 2 \in 1..n /\ q[p \div 2] \in Entry
                                        /\ p \in 2..n /\ p > 1
  BY <1>1, <1>2, <1>6, Half DEF Rises
<1>8. /\ Same(r[k], IF k \notin way THEN q[k] ELSE IF Rises(q, e, k) THEN q[p] ELSE e)
      /\ Same(r[p], IF p \notin way THEN q[p]
                    ELSE IF Rises(q, e, p) THEN q[p \div 2] ELSE e)
  BY <1>5, <1>6
<1>9. Rises(q, e, k) <=> Less(e, q[p])
  BY <1>6 DEF Rises
<1>10. /\ k # j => ~Less(q[k], q[p])
       /\ p \in 2..n /\ p # j => ~Less(q[p], q[p \div 2])
       /\ p = j /\ j > 1 => ~Less(q[k], q[j \div 2])
  OBVIOUS
<1> SUFFICES ~Less(r[k], r[p])
  OBVIOUS
<1> HIDE DEF p
\* Of the entries that came to k and to p, the first does not come before the other.
<1>11. ASSUME NEW f, NEW g, Same(r[k], f), Same(r[p], g), ~Less(f, g)
       PROVE  ~Less(r[k], r[p])
  BY <1>11, LessOfSame
<1>12. CASE k \in way /\ Rises(q, e, k)
  <2>1. p \in way /\ p # j
    BY <1>1, <1>3, <1>6, <1>12 DEF p
  <2>2. Same(r[k], q[p])
    BY <1>8, <1>12
  <2>3. CASE Rises(q, e, p)
    <3>1. Same(r[p], q[p \div 2]) /\ ~Less(q[p], q[p \div 2])
      BY <1>7, <1>8, <1>10, <2>1, <2>3
    <3>2. QED
      BY <1>11, <2>2, <3>1
  <2>4. CASE ~Rises(q, e, p)
    <3>1. Same(r[p], e)
      BY <1>8, <2>1, <2>4
    <3>2. ~Less(q[p], e)
      BY <1>4, <1>6, <2>1, LessOrder
    <3>3. QED
      BY <1>11, <2>2, <3>1, <3>2
  <2>5. QED
    BY <2>3, <2>4
<1>13. CASE k \in way /\ ~Rises(q, e, k)
  <2>1. p \notin way
    <3>1. ASSUME p \in way PROVE FALSE
      <4>1. p # j
        BY <1>1, <1>3, <1>6, <1>13
      <4>2. PICK l \in way : Rises(q, e, l) /\ l \div 2 = p
        BY <1>3, <3>1, <4>1
      <4>3. Less(e, q[p])
        BY <4>2 DEF Rises
      <4>4. QED
        BY <1>9, <1>13, <4>3
    <3>2. QED
      BY <3>1
  <2>2. Same(r[k], e) /\ Same(r[p], q[p]) /\ ~Less(e, q[p])
    BY <1>8, <1>9, <1>13, <2>1
  <2>3. QED
    BY <1>11, <2>2
<1>14. CASE k \notin way /\ p \in way
  <2>1. k # j /\ Same(r[k], q[k])
    BY <1>3, <1>8, <1>14
  <2>2. CASE Rises(q, e, p)
    <3>1. Same(r[p], q[p \div 2]) /\ p \in 2..n /\ q[p \div 2] \in Entry /\ p > 1
      BY <1>7, <1>8, <1>14, <2>2
    <3>2. ~Less(q[k], q[p \div 2])
      <4>1. CASE p = j
        BY <1>10, <3>1, <4>1
      <4>2. CASE p # j
        BY <1>6, <1>10, <2>1, <3>1, <4>2, LessOrder
      <4>3. QED
        BY <4>1, <4>2
    <3>3. QED
      BY <1>11, <2>1, <3>1, <3>2
  <2>3. CASE ~Rises(q, e, p)
    <3>1. Same(r[p], e)
      BY <1>8, <1>14, <2>3
    <3>2. ~Less(q[k], e)
      <4>1. CASE p = j
        BY <1>10, <2>1, <4>1 DEF e
      <4>2. CASE p # j
        BY <1>4, <1>6, <1>10, <1>14, <2>1, <4>2, LessOrder
      <4>3. QED
        BY <4>1, <4>2
    <3>3. QED
      BY <1>11, <2>1, <3>1, <3>2
  <2>4. QED
    BY <2>2, <2>3
<1>15. CASE k \notin way /\ p \notin way
  <2>1. k # j /\ Same(r[k], q[k]) /\ Same(r[p], q[p])
    BY <1>3, <1>8, <1>15
  <2>2. QED
    BY <1>10, <1>11, <2>1
<1>16. QED
  BY <1>12, <1>13, <1>14, <1>15

-----------------------------------------------------------------------------
(* The heap: the way down *)

LEMMA ChildFacts ==
    ASSUME NEW q, NEW k \in Nat, NEW n \in Nat, 2 * k <= n
    PROVE  /\ Child(q, k, n) \in Nat /\ Child(q, k, n) <= n
           /\ Child(q, k, n) = 2 * k \/ Child(q, k, n) = 2 * k + 1
           /\ Child(q, k, n) \div 2 = k
           /\ k >= 1 => Child(q, k, n) > k
BY DEF Child

\* The other child does not come before it.
LEMMA ChildIsFirst ==
    ASSUME NEW q \in Seq(Entry), NEW n \in 0..Len(q), NEW k \in 2..n
    PROVE  /\ 2 * (k \div 2) <= n
           /\ ~Less(q[k], q[Child(q, k \div 2, n)])
<1> DEFINE p == k \div 2
           c == Child(q, p, n)
<1>1. p \in Nat /\ p >= 1 /\ (k = 2 * p \/ k = 2 * p + 1) /\ n \in Nat /\ k <= n
  BY Half, Places
<1>2. 2 * p <= n
  BY <1>1
<1>3. \A m \in 1..n : q[m] \in Entry
  BY Places
<1>4. \A m \in 1..n : ~Less(q[m], q[m])
  BY <1>3, LessOrder
<1>5. CASE k = c
  BY <1>4, <1>5
<1>6. CASE k # c
  <2>1. CASE k = 2 * p + 1
    BY <1>1, <1>2, <1>6, <2>1 DEF Child
  <2>2. CASE k = 2 * p
    <3>1. 2 * p + 1 <= n /\ Less(q[2 * p + 1], q[2 * p]) /\ c = 2 * p + 1
      BY <1>6, <2>2 DEF Child
    <3>2. q[2 * p + 1] \in Entry /\ q[2 * p] \in Entry
      BY <1>1, <1>3, <3>1
    <3>3. ~Less(q[2 * p], q[2 * p + 1])
      BY <3>1, <3>2, LessOrder
    <3>4. QED
      BY <2>2, <3>1, <3>3
  <2>3. QED
    BY <1>1, <2>1, <2>2
<1>7. QED
  BY <1>2, <1>5, <1>6

LEMMA DescentFacts ==
    ASSUME NEW q \in Seq(Entry), NEW n \in 0..Len(q), NEW i \in 1..n
    PROVE  /\ Descent(q, i, n) \subseteq i..n /\ i \in Descent(q, i, n)
           /\ \A k \in Descent(q, i, n) :
                 Sinks(q, q[i], k, n) => Child(q, k, n) \in Descent(q, i, n)
           /\ \A k \in Descent(q, i, n) : k # i =>
                 \E l \in Descent(q, i, n) : Sinks(q, q[i], l, n) /\ Child(q, l, n) = k
<1> DEFINE way == Descent(q, i, n)
           Closed(S) == i \in S /\ \A l \in S : Sinks(q, q[i], l, n) => Child(q, l, n) \in S
<1>1. way = {k \in i..n : \A S \in SUBSET (i..n) : Closed(S) => k \in S}
  BY DEF Descent
<1>2. i \in Nat \ {0} /\ n \in Nat /\ i <= n
  BY Places
<1>3. way \subseteq i..n /\ i \in way
  BY <1>1, <1>2
<1>4. ASSUME NEW k \in way, Sinks(q, q[i], k, n) PROVE Child(q, k, n) \in way
  <2>1. Child(q, k, n) \in i..n
    BY <1>2, <1>3, <1>4, ChildFacts DEF Sinks
  <2>2. ASSUME NEW S \in SUBSET (i..n), Closed(S) PROVE Child(q, k, n) \in S
    BY <1>1, <1>4, <2>2
  <2>3. QED
    BY <1>1, <2>1, <2>2
<1>5. ASSUME NEW k \in way, k # i,
             ~\E l \in way : Sinks(q, q[i], l, n) /\ Child(q, l, n) = k
      PROVE  FALSE
  <2>1. way \ {k} \in SUBSET (i..n)
    BY <1>3
  <2>2. Closed(way \ {k})
    BY <1>3, <1>4, <1>5
  <2>3. QED
    BY <1>1, <1>5, <2>1, <2>2
<1> HIDE DEF Closed
<1>6. QED
  BY <1>3, <1>4, <1>5

Dive(q, i, n) ==
    [k \in 1..Len(q) |-> IF k \notin Descent(q, i, n) THEN k
                         ELSE IF Sinks(q, q[i], k, n) THEN Child(q, k, n)
                         ELSE i]

LEMMA DiveOnto ==
    ASSUME NEW q \in Seq(Entry), NEW n \in 0..Len(q), NEW i \in 1..n
    PROVE  /\ Dive(q, i, n) \in [1..Len(q) -> 1..Len(q)]
           /\ \A l \in 1..Len(q) : \E k \in 1..Len(q) : Dive(q, i, n)[k] = l
<1> DEFINE m == Len(q)
           way == Descent(q, i, n)
<1>1. m \in Nat /\ n \in Nat /\ n <= m /\ i \in Nat /\ 1 <= i /\ i <= n
  BY Places
<1>2. /\ way \subseteq i..n /\ way \subseteq 1..m /\ way \subseteq Nat /\ i \in way
      /\ \A k \in way : Sinks(q, q[i], k, n) => Child(q, k, n) \in way
      /\ \A k \in way : k # i => \E l \in way : Sinks(q, q[i], l, n) /\ Child(q, l, n) = k
  BY <1>1, DescentFacts
<1> HIDE DEF way
<1>3. \A k \in 1..m : Dive(q, i, n)[k] = IF k \notin way THEN k
                                         ELSE IF Sinks(q, q[i], k, n) THEN Child(q, k, n)
                                         ELSE i
  BY DEF Dive, way
<1>4. Dive(q, i, n) \in [1..m -> 1..m]
  <2>1. ASSUME NEW k \in 1..m PROVE Dive(q, i, n)[k] \in 1..m
    <3>1. CASE k \in way /\ Sinks(q, q[i], k, n)
      BY <1>2, <1>3, <3>1, Zenon
    <3>2. CASE k \in way /\ ~Sinks(q, q[i], k, n)
      <4>1. i \in 1..m
        BY <1>2
      <4>2. QED
        BY <1>3, <3>2, <4>1, Zenon
    <3>3. CASE k \notin way
      BY <1>3, <3>3, Zenon
    <3>4. QED
      BY <3>1, <3>2, <3>3
  <2>2. QED
    BY <2>1 DEF Dive
<1>5. PICK t \in way : ~Sinks(q, q[i], t, n)
  <2> DEFINE Depths == {n - k : k \in way}
  <2>1. Depths \subseteq Nat /\ Depths # {}
    BY <1>1, <1>2
  <2>2. PICK d \in Depths : \A y \in Depths : ~(<<y, d>> \in OpToRel(<, Nat))
    <3> HIDE DEF Depths
    <3>1. QED
      BY <2>1, NatLessThanWellFounded, WFMin
  <2>3. d \in Nat /\ \A y \in Depths : y \in Nat /\ ~(y < d)
    BY <2>1, <2>2 DEF OpToRel
  <2>4. PICK t \in way : d = n - t
    OBVIOUS
  <2>5. ASSUME NEW k \in way PROVE k <= t
    <3>1. n - k \in Depths /\ k \in Nat /\ t \in Nat
      BY <1>1, <1>2
    <3>2. ~(n - k < n - t)
      BY <2>3, <2>4, <3>1
    <3>3. QED
      BY <1>1, <3>1, <3>2
  <2>6. ASSUME Sinks(q, q[i], t, n) PROVE FALSE
    <3>1. Child(q, t, n) \in way
      BY <1>2, <2>6
    <3>2. Child(q, t, n) > t /\ Child(q, t, n) \in Nat /\ t \in Nat
      <4>1. 2 * t <= n /\ t \in Nat /\ t >= 1
        BY <1>1, <1>2, <2>6 DEF Sinks
      <4>2. QED
        BY <1>1, <4>1, ChildFacts
    <3>3. QED
      BY <2>5, <3>1, <3>2
  <2>7. QED
    BY <2>6
<1>6. ASSUME NEW l \in 1..m PROVE \E k \in 1..m : Dive(q, i, n)[k] = l
  <2>1. CASE l \notin way
    BY <1>3, <2>1
  <2>2. CASE l = i
    BY <1>2, <1>3, <1>5, <2>2
  <2>3. CASE l \in way /\ l # i
    BY <1>2, <1>3, <2>3
  <2>4. QED
    BY <2>1, <2>2, <2>3
<1>7. QED
  BY <1>4, <1>6

LEMMA DownFacts ==
    ASSUME NEW q \in Seq(Entry), NEW n \in 0..Len(q), NEW i \in 1..n
    PROVE  /\ down(q, i, n) \in Seq(Entry) /\ Len(down(q, i, n)) = Len(q)
           /\ \A k \in 1..Len(q) : Same(down(q, i, n)[k], q[Dive(q, i, n)[k]])
           /\ \A k \in 1..Len(q) : k > n => down(q, i, n)[k] = q[k]
           /\ ~Sinks(q, q[i], i, n) => down(q, i, n) = q
           /\ IndexInPlace(q) => IndexInPlace(down(q, i, n))
           /\ Keyed(q) => Keyed(down(q, i, n))
<1>1. down(q, i, n) = Rearranged(q, Dive(q, i, n))
  BY DEF down, Dive
<1>2. \A k \in 1..Len(q) : k > n => Dive(q, i, n)[k] = k
  <2>1. Descent(q, i, n) \subseteq i..n /\ i \in Nat /\ n \in Nat
    BY DescentFacts, Places
  <2>2. QED
    BY <2>1, Places DEF Dive
<1>3. /\ Dive(q, i, n) \in [1..Len(q) -> 1..Len(q)]
      /\ \A l \in 1..Len(q) : \E k \in 1..Len(q) : Dive(q, i, n)[k] = l
  BY DiveOnto
<1>4. ~Sinks(q, q[i], i, n) => \A k \in 1..Len(q) : Dive(q, i, n)[k] = k
  <2> SUFFICES ASSUME ~Sinks(q, q[i], i, n), NEW k \in 1..Len(q) PROVE Dive(q, i, n)[k] = k
    OBVIOUS
  <2>1. {i} \in SUBSET (i..n) /\ i \in i..n
    BY Places
  <2>2. \A l \in {i} : Sinks(q, q[i], l, n) => Child(q, l, n) \in {i}
    OBVIOUS
  <2>3. k \in Descent(q, i, n) => k = i
    BY <2>1, <2>2 DEF Descent
  <2>4. QED
    BY <2>3 DEF Dive
<1> DEFINE f == Dive(q, i, n)
<1> HIDE DEF f
<1>5. /\ Rearranged(q, f) \in Seq(Entry) /\ Len(Rearranged(q, f)) = Len(q)
      /\ \A k \in 1..Len(q) : Same(Rearranged(q, f)[k], q[f[k]])
      /\ \A k \in 1..Len(q) : f[k] = k => Rearranged(q, f)[k] = q[k]
      /\ IndexInPlace(q) => IndexInPlace(Rearranged(q, f))
      /\ Keyed(q) => Keyed(Rearranged(q, f))
  BY <1>3, RearrangedFacts DEF f
<1>6. ASSUME ~Sinks(q, q[i], i, n) PROVE Rearranged(q, f) = q
  <2>1. \A k \in 1..Len(q) : Rearranged(q, f)[k] = q[k]
    BY <1>4, <1>5, <1>6 DEF f
  <2>2. QED
    BY <1>5, <2>1, SeqEqual
<1>7. QED
  BY <1>1, <1>2, <1>5, <1>6, Places DEF f

\* The entry at i may come after its children, but its parent does not.
LEMMA DownHeap ==
    ASSUME NEW q \in Seq(Entry), NEW n \in 0..Len(q), NEW i \in 1..n,
           \A k \in 2..n : k # i /\ k \div 2 # i => ~Less(q[k], q[k \div 2]),
           \A k \in 2..n : k \div 2 = i /\ i > 1 => ~Less(q[k], q[i \div 2])
    PROVE  /\ \A k \in 2..n : k # i => ~Less(down(q, i, n)[k], down(q, i, n)[k \div 2])
           /\ Sinks(q, q[i], i, n) => HeapUpTo(down(q, i, n), n)
<1> DEFINE way == Descent(q, i, n)
           e == q[i]
           r == down(q, i, n)
<1>1. n \in Nat /\ i \in Nat /\ 1 <= i /\ i <= n /\ n <= Len(q) /\ i \in 1..Len(q)
  BY Places
<1>2. \A k \in 1..n : k \in 1..Len(q) /\ q[k] \in Entry
  BY <1>1, Places
<1>3. /\ way \subseteq i..n /\ i \in way
      /\ \A k \in way : Sinks(q, e, k, n) => Child(q, k, n) \in way
      /\ \A k \in way : k # i => \E l \in way : Sinks(q, e, l, n) /\ Child(q, l, n) = k
  BY <1>1, DescentFacts
<1>4. \A k \in way : k # i => Less(q[k], e)
  BY <1>3 DEF Sinks
<1>5. \A k \in 1..n : Same(r[k], IF k \notin way THEN q[k]
                                 ELSE IF Sinks(q, e, k, n) THEN q[Child(q, k, n)] ELSE e)
  BY <1>1, <1>2, DownFacts DEF Dive
<1>6. \A k \in 1..n : Sinks(q, e, k, n) =>
         /\ Child(q, k, n) \in 2..n /\ Child(q, k, n) \div 2 = k /\ Child(q, k, n) > k
  BY <1>1, ChildFacts DEF Sinks
\* The parent of a place on the way is on the way, and the entry sank from there.
<1>7. \A k \in way : k # i => /\ k \div 2 \in way /\ Sinks(q, e, k \div 2, n)
                              /\ Child(q, k \div 2, n) = k
  <2> SUFFICES ASSUME NEW k \in way, k # i
               PROVE  /\ k \div 2 \in way /\ Sinks(q, e, k \div 2, n)
                      /\ Child(q, k \div 2, n) = k
    OBVIOUS
  <2>1. PICK l \in way : Sinks(q, e, l, n) /\ Child(q, l, n) = k
    BY <1>3
  <2>2. l \in 1..n
    BY <1>1, <1>3
  <2>3. k \div 2 = l
    BY <1>6, <2>1, <2>2
  <2>4. QED
    BY <2>1, <2>3
<1> HIDE DEF way, r, e
<1>8. ASSUME NEW k \in 2..n, k # i \/ Sinks(q, e, i, n)
      PROVE  ~Less(r[k], r[k \div 2])
  <2> DEFINE p == k \div 2
  <2>1. /\ p \in 1..n /\ p < k /\ k \in 1..n /\ k > 1
        /\ q[k] \in Entry /\ q[p] \in Entry /\ e \in Entry
    BY <1>1, <1>2, Half DEF e
  <2>2. 2 * p <= n /\ ~Less(q[k], q[Child(q, p, n)])
    BY ChildIsFirst
  <2>3. /\ Child(q, p, n) \in 1..n /\ q[Child(q, p, n)] \in Entry
    BY <1>1, <1>2, <2>1, <2>2, ChildFacts
  <2>4. Sinks(q, e, p, n) <=> Less(q[Child(q, p, n)], e)
    BY <2>2 DEF Sinks
  <2>5. /\ k # i /\ p # i => ~Less(q[k], q[p])
        /\ p = i /\ i > 1 => ~Less(q[k], q[i \div 2])
    OBVIOUS
  <2>6. \A c \in 2..n : c \div 2 = k /\ c # i /\ k # i => ~Less(q[c], q[k])
    OBVIOUS
  <2>7. \A c \in 2..n : c \div 2 = k /\ k = i => ~Less(q[c], q[p])
    BY <2>1
  <2>8. k \in way /\ k # i => p \in way /\ Sinks(q, e, p, n) /\ Child(q, p, n) = k
    BY <1>7
  <2>9. p < i => p \notin way
    BY <1>1, <1>3, <2>1
  <2>10. /\ Same(r[k], IF k \notin way THEN q[k]
                       ELSE IF Sinks(q, e, k, n) THEN q[Child(q, k, n)] ELSE e)
         /\ Same(r[p], IF p \notin way THEN q[p]
                       ELSE IF Sinks(q, e, p, n) THEN q[Child(q, p, n)] ELSE e)
    BY <1>5, <2>1
  <2> SUFFICES ~Less(r[k], r[p])
    OBVIOUS
  <2> HIDE DEF p
  \* Of the entries that came to k and to p, the first does not come before the other.
  <2>11. ASSUME NEW f, NEW g, Same(r[k], f), Same(r[p], g), ~Less(f, g)
         PROVE  ~Less(r[k], r[p])
    BY <2>11, LessOfSame
  <2>12. CASE k \in way /\ Sinks(q, e, k, n)
    <3> DEFINE c == Child(q, k, n)
    <3>1. Same(r[k], q[c]) /\ c \in 2..n /\ c \div 2 = k /\ c > k /\ k >= i
      BY <1>3, <1>6, <2>1, <2>10, <2>12
    <3>2. CASE k = i
      <4>1. Same(r[p], q[p])
        BY <2>1, <2>9, <2>10, <3>2
      <4>2. QED
        BY <2>7, <2>11, <3>1, <3>2, <4>1
    <3>3. CASE k # i
      <4>1. Same(r[p], q[k])
        BY <2>8, <2>10, <2>12, <3>3
      <4>2. ~Less(q[c], q[k])
        BY <1>1, <2>1, <2>6, <3>1, <3>3
      <4>3. QED
        BY <2>11, <3>1, <4>1, <4>2
    <3>4. QED
      BY <3>2, <3>3
  <2>13. CASE k \in way /\ ~Sinks(q, e, k, n)
    <3>1. k # i
      BY <1>8, <2>13
    <3>2. Same(r[k], e) /\ Same(r[p], q[k])
      BY <2>8, <2>10, <2>13, <3>1
    <3>3. ~Less(e, q[k])
      BY <1>4, <2>1, <2>13, <3>1, LessOrder
    <3>4. QED
      BY <2>11, <3>2, <3>3
  <2>14. CASE k \notin way /\ p \in way
    <3>1. Same(r[k], q[k])
      BY <2>10, <2>14
    <3>2. CASE Sinks(q, e, p, n)
      BY <2>2, <2>10, <2>11, <2>14, <3>1, <3>2
    <3>3. CASE ~Sinks(q, e, p, n)
      <4>1. ~Less(q[k], e)
        BY <2>1, <2>2, <2>3, <2>4, <3>3, LessOrder
      <4>2. QED
        BY <2>10, <2>11, <2>14, <3>1, <3>3, <4>1
    <3>4. QED
      BY <3>2, <3>3
  <2>15. CASE k \notin way /\ p \notin way
    <3>1. k # i /\ p # i
      BY <1>3, <2>15
    <3>2. QED
      BY <2>5, <2>10, <2>11, <2>15, <3>1
  <2>16. QED
    BY <2>12, <2>13, <2>14, <2>15
<1>9. QED
  BY <1>8 DEF HeapUpTo, r, e

-----------------------------------------------------------------------------
(* The heap: its operations *)

\* The queue of the manager: a heap whose entries know their places.
IsLine(q) == q \in Seq(Entry) /\ Keyed(q) /\ IndexInPlace(q) /\ HeapOrder(q)

\* The entries of r are those of q, in another order.
Shuffled(r, q) ==
    /\ r \in Seq(Entry) /\ Len(r) = Len(q)
    /\ \A k \in 1..Len(q) : \E l \in 1..Len(q) : Same(r[k], q[l])
    /\ \A l \in 1..Len(q) : \E k \in 1..Len(q) : Same(r[k], q[l])
    /\ Keyed(q) => Keyed(r)
    /\ IndexInPlace(q) => IndexInPlace(r)

LEMMA SameIsTransitive ==
    ASSUME NEW e, NEW f, NEW g, Same(e, f), Same(f, g)
    PROVE  Same(e, g) /\ Same(f, e)
BY DEF Same

LEMMA ShuffledTwice ==
    ASSUME NEW q, NEW r, NEW s, Shuffled(s, r), Shuffled(r, q)
    PROVE  Shuffled(s, q)
<1>1. Len(s) = Len(q) /\ Len(r) = Len(q) /\ s \in Seq(Entry)
  BY DEF Shuffled
<1>2. \A k \in 1..Len(q) : \E l \in 1..Len(q) : Same(s[k], q[l])
  BY <1>1, SameIsTransitive DEF Shuffled
<1>3. \A l \in 1..Len(q) : \E k \in 1..Len(q) : Same(s[k], q[l])
  BY <1>1, SameIsTransitive DEF Shuffled
<1>4. QED
  BY <1>1, <1>2, <1>3 DEF Shuffled

LEMMA RearrangedIsShuffled ==
    ASSUME NEW q \in Seq(Entry), NEW f \in [1..Len(q) -> 1..Len(q)],
           \A l \in 1..Len(q) : \E k \in 1..Len(q) : f[k] = l
    PROVE  Shuffled(Rearranged(q, f), q)
<1> DEFINE r == Rearranged(q, f)
<1>1. /\ r \in Seq(Entry) /\ Len(r) = Len(q)
      /\ \A k \in 1..Len(q) : Same(r[k], q[f[k]])
      /\ IndexInPlace(q) => IndexInPlace(r)
      /\ Keyed(q) => Keyed(r)
  BY RearrangedFacts
<1> HIDE DEF r
<1>2. \A k \in 1..Len(q) : \E l \in 1..Len(q) : Same(r[k], q[l])
  BY <1>1
<1>3. \A l \in 1..Len(q) : \E k \in 1..Len(q) : Same(r[k], q[l])
  BY <1>1
<1>4. QED
  BY <1>1, <1>2, <1>3 DEF Shuffled, r

LEMMA UpShuffles ==
    ASSUME NEW q \in Seq(Entry), NEW j \in 1..Len(q)
    PROVE  Shuffled(up(q, j), q)
BY UpFacts, AscentOnto, RearrangedIsShuffled

LEMMA DownShuffles ==
    ASSUME NEW q \in Seq(Entry), NEW n \in 0..Len(q), NEW i \in 1..n
    PROVE  Shuffled(down(q, i, n), q)
<1>1. down(q, i, n) = Rearranged(q, Dive(q, i, n))
  BY DEF down, Dive
<1>2. /\ Dive(q, i, n) \in [1..Len(q) -> 1..Len(q)]
      /\ \A l \in 1..Len(q) : \E k \in 1..Len(q) : Dive(q, i, n)[k] = l
  BY DiveOnto
<1> DEFINE f == Dive(q, i, n)
<1> HIDE DEF f
<1>3. Shuffled(Rearranged(q, f), q)
  BY <1>2, RearrangedIsShuffled DEF f
<1>4. QED
  BY <1>1, <1>3 DEF f

LEMMA SwapFacts ==
    ASSUME NEW q \in Seq(Entry), NEW i \in 1..Len(q), NEW j \in 1..Len(q), i # j
    PROVE  /\ Shuffled(Swap(q, i, j), q)
           /\ Same(Swap(q, i, j)[i], q[j]) /\ Same(Swap(q, i, j)[j], q[i])
           /\ \A k \in 1..Len(q) : k # i /\ k # j => Swap(q, i, j)[k] = q[k]
<1> DEFINE f == [k \in 1..Len(q) |-> IF k = i THEN j ELSE IF k = j THEN i ELSE k]
           a == [q[j] EXCEPT !.index = i]
           b == [q[i] EXCEPT !.index = j]
<1>1. Len(q) \in Nat /\ q \in [1..Len(q) -> Entry]
  BY LenProperties
<1>2. Swap(q, i, j) = [q EXCEPT ![i] = a, ![j] = b]
  BY DEF Swap
<1>3. Rearranged(q, f) = [k \in 1..Len(q) |-> IF k = i THEN a ELSE IF k = j THEN b ELSE q[k]]
  BY DEF Rearranged
<1>4. Swap(q, i, j) = Rearranged(q, f)
  <2> HIDE DEF a, b
  <2>1. QED
    BY <1>1, <1>2, <1>3
<1>5. f \in [1..Len(q) -> 1..Len(q)]
  OBVIOUS
<1>6. \A l \in 1..Len(q) : \E k \in 1..Len(q) : f[k] = l
  OBVIOUS
<1>7. f[i] = j /\ f[j] = i /\ \A k \in 1..Len(q) : k # i /\ k # j => f[k] = k
  OBVIOUS
<1> HIDE DEF f
<1>8. /\ \A k \in 1..Len(q) : Same(Rearranged(q, f)[k], q[f[k]])
      /\ \A k \in 1..Len(q) : f[k] = k => Rearranged(q, f)[k] = q[k]
      /\ Shuffled(Rearranged(q, f), q)
  BY <1>5, <1>6, RearrangedFacts, RearrangedIsShuffled
<1>9. QED
  BY <1>4, <1>7, <1>8

LEMMA HeapWhole ==
    ASSUME NEW q \in Seq(Entry)
    PROVE  HeapOrder(q) <=> HeapUpTo(q, Len(q))
BY DEF HeapOrder, HeapUpTo

\* Entry e, which gets the index of its place, joins the queue.
LEMMA PushFacts ==
    ASSUME NEW q, IsLine(q), NEW e, NEW f,
           f = [e EXCEPT !.index = Len(q) + 1], f \in Entry,
           \A k \in 1..Len(q) : q[k].joined # f.joined
    PROVE  /\ IsLine(heapPush(q, e))
           /\ \A k \in 1..Len(q) : \E l \in 1..Len(heapPush(q, e)) : Same(heapPush(q, e)[l], q[k])
           /\ \E l \in 1..Len(heapPush(q, e)) : Same(heapPush(q, e)[l], f)
           /\ \A l \in 1..Len(heapPush(q, e)) :
                 \/ Same(heapPush(q, e)[l], f)
                 \/ \E k \in 1..Len(q) : Same(heapPush(q, e)[l], q[k])
<1> DEFINE n == Len(q) + 1
           s == Append(q, f)
           r == heapPush(q, e)
<1>1. q \in Seq(Entry) /\ Keyed(q) /\ IndexInPlace(q) /\ HeapOrder(q)
  BY DEF IsLine
<1>2. Len(q) \in Nat
  BY <1>1, Places
<1>3. /\ s \in Seq(Entry) /\ Len(s) = n /\ s[n] = f
      /\ \A k \in 1..Len(q) : s[k] = q[k]
  BY <1>1, AppendProperties
<1>4. r = up(s, n)
  BY <1>3 DEF heapPush, Push
<1>5. f.index = n
  <2>1. e.index = e.index
    OBVIOUS
  <2>2. QED
    BY DEF Entry
<1> HIDE DEF s, r
<1>6. \A k \in 1..n : k = n \/ k \in 1..Len(q)
  BY <1>2
<1>7. n \in 1..n /\ \A k \in 1..Len(q) : k \in 1..n
  BY <1>2
<1>8. Keyed(s)
  <2> HIDE DEF n
  <2>1. ASSUME NEW k \in 1..n, NEW l \in 1..n, s[k].joined = s[l].joined PROVE k = l
    <3>1. CASE k \in 1..Len(q) /\ l \in 1..Len(q)
      BY <1>1, <1>3, <2>1, <3>1 DEF Keyed
    <3>2. CASE k = n
      <4>1. CASE l \in 1..Len(q)
        BY <1>3, <2>1, <3>2, <4>1
      <4>2. QED
        BY <1>6, <3>2, <4>1
    <3>3. CASE k \in 1..Len(q) /\ l = n
      BY <1>3, <2>1, <3>3
    <3>4. QED
      BY <1>6, <3>1, <3>2, <3>3
  <2>2. QED
    BY <1>3, <2>1 DEF Keyed
<1>9. IndexInPlace(s)
  BY <1>1, <1>3, <1>5, <1>6 DEF IndexInPlace
<1>10. Shuffled(r, s)
  BY <1>3, <1>4, <1>7, UpShuffles
<1>11. HeapUpTo(r, n)
  <2>1. \A k \in 2..n : k # n => ~Less(s[k], s[k \div 2])
    <3> SUFFICES ASSUME NEW k \in 2..n, k # n PROVE ~Less(s[k], s[k \div 2])
      OBVIOUS
    <3>1. k \in 2..Len(q) /\ k \in 1..Len(q) /\ k \div 2 \in 1..Len(q)
      BY <1>2, Half
    <3>2. QED
      BY <1>1, <1>3, <3>1 DEF HeapOrder
  <2>2. \A k \in 2..n : k \div 2 # n
    BY <1>2, Half
  <2>3. n \in 0..Len(s)
    BY <1>2, <1>3
  <2>4. QED
    BY <1>3, <1>4, <1>7, <2>1, <2>2, <2>3, UpHeap
<1>12. r \in Seq(Entry) /\ Len(r) = n /\ IsLine(r)
  BY <1>3, <1>8, <1>9, <1>10, <1>11, HeapWhole DEF Shuffled, IsLine
<1>13. \A k \in 1..Len(q) : \E l \in 1..Len(r) : Same(r[l], q[k])
  BY <1>3, <1>7, <1>10, <1>12 DEF Shuffled
<1>14. \E l \in 1..Len(r) : Same(r[l], f)
  <2>1. \E l \in 1..n : Same(r[l], s[n])
    BY <1>3, <1>7, <1>10 DEF Shuffled
  <2>2. QED
    BY <1>3, <1>12, <2>1
<1>15. ASSUME NEW l \in 1..Len(r)
       PROVE  Same(r[l], f) \/ \E k \in 1..Len(q) : Same(r[l], q[k])
  <2>1. PICK k \in 1..n : Same(r[l], s[k])
    BY <1>3, <1>10, <1>12 DEF Shuffled
  <2>2. CASE k = n
    BY <1>3, <2>1, <2>2
  <2>3. CASE k \in 1..Len(q)
    BY <1>3, <2>1, <2>3
  <2>4. QED
    BY <1>6, <2>2, <2>3
<1>16. QED
  BY <1>12, <1>13, <1>14, <1>15 DEF r

\* The entry at i leaves the queue, and nobody else.
LEMMA RemoveFacts ==
    ASSUME NEW q, IsLine(q), NEW i \in 1..Len(q)
    PROVE  /\ IsLine(heapRemove(q, i))
           /\ \A k \in 1..Len(q) : k # i =>
                 \E l \in 1..Len(heapRemove(q, i)) : Same(heapRemove(q, i)[l], q[k])
           /\ \A l \in 1..Len(heapRemove(q, i)) :
                 \E k \in 1..Len(q) : k # i /\ Same(heapRemove(q, i)[l], q[k])
<1> DEFINE n == Len(q) - 1
           s == Swap(q, i, n + 1)
           d == down(s, i, n)
           t == IF i = n + 1 THEN q ELSE IF d # s THEN d ELSE up(s, i)
           r == heapRemove(q, i)
<1>1. q \in Seq(Entry) /\ Keyed(q) /\ IndexInPlace(q) /\ HeapOrder(q)
  BY DEF IsLine
<1>2. /\ n \in Nat /\ Len(q) = n + 1 /\ i \in Nat /\ 1 <= i /\ i <= n + 1
      /\ n + 1 \in 1..Len(q) /\ n \in 0..Len(q)
      /\ \A k \in 1..Len(q) : q[k] \in Entry
  BY <1>1, Places
<1>3. r = SubSeq(t, 1, Len(t) - 1)
  BY DEF heapRemove, Pop
<1> HIDE DEF n, s, d, t, r
<1>4. Shuffled(t, q) /\ HeapUpTo(t, n) /\ Same(t[n + 1], q[i])
  <2>1. CASE i = n + 1
    <3>1. t = q
      BY <2>1 DEF t
    <3>2. Shuffled(q, q)
      BY <1>1 DEF Shuffled, Same
    <3>3. HeapUpTo(q, n)
      BY <1>1, <1>2 DEF HeapOrder, HeapUpTo
    <3>4. QED
      BY <2>1, <3>1, <3>2, <3>3 DEF Same
  <2>2. CASE i # n + 1
    <3>1. i \in 1..n /\ i \in 1..Len(q)
      BY <1>2, <2>2
    <3>2. /\ Shuffled(s, q) /\ Same(s[n + 1], q[i])
          /\ \A k \in 1..n : k # i => s[k] = q[k]
      BY <1>1, <1>2, <2>2, SwapFacts DEF s
    <3>3. s \in Seq(Entry) /\ Len(s) = n + 1 /\ n \in 0..Len(s) /\ i \in 1..Len(s)
      BY <1>2, <3>1, <3>2 DEF Shuffled
    <3>4. \A k \in 2..n : k # i /\ k \div 2 # i => ~Less(s[k], s[k \div 2])
      <4> SUFFICES ASSUME NEW k \in 2..n, k # i, k \div 2 # i PROVE ~Less(s[k], s[k \div 2])
        OBVIOUS
      <4>1. k \in 2..Len(q) /\ k \in 1..n /\ k \div 2 \in 1..n
        BY <1>2, Half
      <4>2. QED
        BY <1>1, <3>2, <4>1 DEF HeapOrder
    <3>5. \A k \in 2..n : k \div 2 = i /\ i > 1 => ~Less(s[k], s[i \div 2])
      <4> SUFFICES ASSUME NEW k \in 2..n, k \div 2 = i, i > 1 PROVE ~Less(s[k], s[i \div 2])
        OBVIOUS
      <4>1. /\ k \in 2..Len(q) /\ k \in 1..n /\ k # i /\ i \in 2..Len(q)
            /\ i \div 2 \in 1..n /\ i \div 2 # i
        BY <1>2, Half
      <4>2. ~Less(q[k], q[i]) /\ ~Less(q[i], q[i \div 2])
        BY <1>1, <4>1 DEF HeapOrder
      <4>3. q[k] \in Entry /\ q[i] \in Entry /\ q[i \div 2] \in Entry
        BY <1>2, <4>1
      <4>4. ~Less(q[k], q[i \div 2])
        BY <4>2, <4>3, LessOrder
      <4>5. QED
        BY <3>2, <4>1, <4>4
    <3>6. CASE d # s
      <4>1. t = d
        BY <2>2, <3>6 DEF t
      <4>2. Shuffled(d, s) /\ d[n + 1] = s[n + 1] /\ Sinks(s, s[i], i, n)
        <5>1. n + 1 \in 1..Len(s) /\ n + 1 > n
          BY <1>2, <3>3
        <5>2. QED
          BY <3>1, <3>3, <3>6, <5>1, DownShuffles, DownFacts DEF d
      <4>3. HeapUpTo(d, n)
        BY <3>1, <3>3, <3>4, <3>5, <4>2, DownHeap DEF d
      <4>4. QED
        BY <3>2, <4>1, <4>2, <4>3, ShuffledTwice
    <3>7. CASE d = s
      <4>1. t = up(s, i)
        BY <2>2, <3>7 DEF t
      <4>2. \A k \in 2..n : k # i => ~Less(s[k], s[k \div 2])
        BY <3>1, <3>3, <3>4, <3>5, <3>7, DownHeap DEF d
      <4>3. HeapUpTo(up(s, i), n)
        BY <3>1, <3>3, <3>5, <4>2, UpHeap
      <4>4. Shuffled(up(s, i), s) /\ up(s, i)[n + 1] = s[n + 1]
        <5>1. n + 1 \in 1..Len(s) /\ n + 1 > i
          BY <1>2, <3>1, <3>3
        <5>2. QED
          BY <3>3, <5>1, UpShuffles, UpFacts
      <4>5. QED
        BY <3>2, <4>1, <4>3, <4>4, ShuffledTwice
    <3>8. QED
      BY <3>6, <3>7
  <2>3. QED
    BY <2>1, <2>2
<1>5. t \in Seq(Entry) /\ Len(t) = n + 1 /\ Keyed(t) /\ IndexInPlace(t)
  BY <1>1, <1>2, <1>4 DEF Shuffled
<1>6. \A k \in 1..n : k \in 1..(n + 1) /\ t[k] \in Entry
  BY <1>2, <1>5, Places
<1>7. r \in Seq(Entry) /\ Len(r) = n /\ \A k \in 1..n : r[k] = t[k]
  <2>1. Len(t) - 1 = n
    BY <1>2, <1>5
  <2>2. r = SubSeq(t, 1, n)
    BY <1>3, <2>1
  <2>3. QED
    BY <1>2, <1>6, <2>2, SubSeqProperties
<1>8. IsLine(r)
  <2>1. Keyed(r)
    BY <1>5, <1>6, <1>7 DEF Keyed
  <2>2. IndexInPlace(r)
    BY <1>5, <1>6, <1>7 DEF IndexInPlace
  <2>3. ASSUME NEW k \in 2..n PROVE ~Less(r[k], r[k \div 2])
    <3>1. k \in 1..n /\ k \div 2 \in 1..n
      BY <1>2, Half
    <3>2. QED
      BY <1>4, <1>7, <3>1 DEF HeapUpTo
  <2>4. QED
    BY <1>7, <2>1, <2>2, <2>3 DEF IsLine, HeapOrder
<1>9. n + 1 \in 1..(n + 1) /\ \A k \in 1..(n + 1) : k = n + 1 \/ k \in 1..n
  BY <1>2
<1>10. ASSUME NEW k \in 1..Len(q), k # i PROVE \E l \in 1..Len(r) : Same(r[l], q[k])
  <2>1. PICK l \in 1..(n + 1) : Same(t[l], q[k])
    BY <1>2, <1>4 DEF Shuffled
  <2>2. l # n + 1
    BY <1>1, <1>4, <1>10, <2>1 DEF Same, Keyed
  <2>3. QED
    BY <1>7, <1>9, <2>1, <2>2
<1>11. ASSUME NEW l \in 1..Len(r) PROVE \E k \in 1..Len(q) : k # i /\ Same(r[l], q[k])
  <2>1. l \in 1..n /\ l \in 1..(n + 1) /\ l # n + 1
    BY <1>2, <1>6, <1>7
  <2>2. PICK k \in 1..Len(q) : Same(t[l], q[k])
    BY <1>2, <1>4, <2>1 DEF Shuffled
  <2>3. k # i
    BY <1>4, <1>5, <1>9, <2>1, <2>2 DEF Same, Keyed
  <2>4. QED
    BY <1>7, <2>1, <2>2, <2>3
<1>12. QED
  BY <1>8, <1>10, <1>11 DEF r

-----------------------------------------------------------------------------
(* The line: entries that leave it *)

\* The entries of r are those of q that were not at the places gone.
Left(r, q, gone) ==
    /\ IsLine(r)
    /\ \A k \in 1..Len(q) : k \notin gone => \E l \in 1..Len(r) : Same(r[l], q[k])
    /\ \A l \in 1..Len(r) : \E k \in 1..Len(q) : k \notin gone /\ Same(r[l], q[k])

LEMMA NothingLeft ==
    ASSUME NEW q, IsLine(q)
    PROVE  Left(q, q, {})
BY DEF Left, Same

LEMMA RemoveLeaves ==
    ASSUME NEW q, IsLine(q), NEW i \in 1..Len(q)
    PROVE  Left(heapRemove(q, i), q, {i})
<1> DEFINE r == heapRemove(q, i)
<1>1. /\ IsLine(r)
      /\ \A k \in 1..Len(q) : k # i => \E l \in 1..Len(r) : Same(r[l], q[k])
      /\ \A l \in 1..Len(r) : \E k \in 1..Len(q) : k # i /\ Same(r[l], q[k])
  BY RemoveFacts
<1> HIDE DEF r
<1>2. Left(r, q, {i})
  BY <1>1 DEF Left
<1>3. QED
  BY <1>2 DEF r

\* The entry that has the join time of e is found by the index that it carries.
LEMMA RemoveEntryLeaves ==
    ASSUME NEW q, IsLine(q), NEW e, NEW o \in 1..Len(q), q[o].joined = e.joined
    PROVE  Left(removeEntry(q, e), q, {o})
<1>1. \A i \in 1..Len(q) : q[i].joined = e.joined => i = o
  BY DEF IsLine, Keyed
<1>2. (CHOOSE i \in 1..Len(q) : q[i].joined = e.joined) = o
  BY <1>1
<1>3. q[o].index = o
  BY DEF IsLine, IndexInPlace
<1>4. removeEntry(q, e) = heapRemove(q, o)
  BY <1>2, <1>3 DEF removeEntry
<1>5. QED
  BY <1>4, RemoveLeaves

LEMMA LeftTwice ==
    ASSUME NEW q, Keyed(q), NEW r, NEW s, NEW gone, NEW i \in 1..Len(q), NEW o \in 1..Len(r),
           Left(r, q, gone), Same(r[o], q[i]), Left(s, r, {o})
    PROVE  Left(s, q, gone \cup {i})
<1>1. IsLine(s) /\ IsLine(r)
  BY DEF Left
<1>2. ASSUME NEW k \in 1..Len(q), k \notin gone, k # i
      PROVE  \E l \in 1..Len(s) : Same(s[l], q[k])
  <2>1. PICK m \in 1..Len(r) : Same(r[m], q[k])
    BY <1>2 DEF Left
  <2>2. m # o
    BY <1>2, <2>1 DEF Same, Keyed
  <2>3. PICK l \in 1..Len(s) : Same(s[l], r[m])
    BY <2>2 DEF Left
  <2>4. QED
    BY <2>1, <2>3, SameIsTransitive
<1>3. ASSUME NEW l \in 1..Len(s)
      PROVE  \E k \in 1..Len(q) : k \notin gone \cup {i} /\ Same(s[l], q[k])
  <2>1. PICK m \in 1..Len(r) : m # o /\ Same(s[l], r[m])
    BY DEF Left
  <2>2. PICK k \in 1..Len(q) : k \notin gone /\ Same(r[m], q[k])
    BY DEF Left
  <2>3. k # i
    BY <1>1, <2>1, <2>2 DEF Same, IsLine, Keyed
  <2>4. QED
    BY <2>1, <2>2, <2>3, SameIsTransitive
<1>4. QED
  BY <1>1, <1>2, <1>3 DEF Left

\* The queue after the first entries of the array were looked at.
Stage(q, gone, m, g) ==
    g = [i \in 0..m |-> IF i = 0 THEN q
                        ELSE IF i \in gone THEN removeEntry(g[i - 1], q[i])
                        ELSE g[i - 1]]

LEMMA StageStep ==
    ASSUME NEW q, NEW gone, NEW m \in Nat, NEW g, Stage(q, gone, m, g)
    PROVE  /\ g[0] = q
           /\ \A i \in 1..m : g[i] = IF i \in gone THEN removeEntry(g[i - 1], q[i]) ELSE g[i - 1]
BY DEF Stage

LEMMA StageExists ==
    ASSUME NEW q, NEW gone
    PROVE  \A m \in Nat : \E g : Stage(q, gone, m, g)
<1> DEFINE None == {m \in Nat : ~\E g : Stage(q, gone, m, g)}
<1> SUFFICES ASSUME None # {} PROVE FALSE
  OBVIOUS
<1>1. PICK m \in None : \A k \in None : ~(k < m)
  <2>1. PICK m \in None : \A k \in None : ~(<<k, m>> \in OpToRel(<, Nat))
    BY NatLessThanWellFounded, WFMin
  <2>2. QED
    BY <2>1 DEF OpToRel
<1>2. CASE m = 0
  <2>1. Stage(q, gone, 0, [i \in 0..0 |-> q])
    BY DEF Stage
  <2>2. QED
    BY <1>2, <2>1
<1>3. CASE m # 0
  <2>1. m - 1 \in Nat /\ m - 1 < m /\ m - 1 \notin None
    BY <1>1, <1>3
  <2>2. PICK g : Stage(q, gone, m - 1, g)
    BY <2>1
  <2>3. DEFINE h == [i \in 0..m |-> IF i < m THEN g[i]
                                    ELSE IF m \in gone THEN removeEntry(g[m - 1], q[m])
                                    ELSE g[m - 1]]
  <2>4. /\ g[0] = q
        /\ \A i \in 1..(m - 1) :
              g[i] = IF i \in gone THEN removeEntry(g[i - 1], q[i]) ELSE g[i - 1]
    BY <2>1, <2>2, StageStep
  <2>5. h[0] = q
    BY <1>3, <2>4
  <2>6. ASSUME NEW i \in 0..m, i # 0
        PROVE  h[i] = IF i \in gone THEN removeEntry(h[i - 1], q[i]) ELSE h[i - 1]
    <3>1. i - 1 \in 0..m /\ i - 1 < m /\ h[i - 1] = g[i - 1]
      BY <2>6
    <3>2. CASE i < m
      <4>1. i \in 1..(m - 1) /\ h[i] = g[i]
        BY <2>6, <3>2
      <4>2. QED
        BY <2>4, <3>1, <4>1
    <3>3. CASE i = m
      <4>1. h[i] = IF i \in gone THEN removeEntry(g[i - 1], q[i]) ELSE g[i - 1]
        BY <3>3
      <4>2. QED
        BY <3>1, <4>1
    <3>4. QED
      BY <3>2, <3>3
  <2>7. h = [i \in 0..m |-> h[i]]
    OBVIOUS
  <2> HIDE DEF h
  <2>8. \A i \in 0..m : h[i] = IF i = 0 THEN q
                               ELSE IF i \in gone THEN removeEntry(h[i - 1], q[i])
                               ELSE h[i - 1]
    BY <2>5, <2>6
  <2>9. Stage(q, gone, m, h)
    BY <2>7, <2>8, Zenon DEF Stage
  <2>10. QED
    BY <1>1, <2>9
<1>4. QED
  BY <1>2, <1>3

LEMMA RemoveEntriesIsStage ==
    ASSUME NEW q \in Seq(Entry), NEW gone
    PROVE  \E g : Stage(q, gone, Len(q), g) /\ removeEntries(q, gone) = g[Len(q)]
<1> DEFINE g == CHOOSE g : Stage(q, gone, Len(q), g)
<1>1. removeEntries(q, gone) = g[Len(q)]
  BY DEF removeEntries, Stage
<1>2. Len(q) \in Nat
  BY Places
<1>3. Stage(q, gone, Len(q), g)
  BY <1>2, StageExists
<1>4. QED
  BY <1>1, <1>3

\* What is left are the other entries, and if nobody goes the line itself.
LEMMA RemoveEntriesLeaves ==
    ASSUME NEW q, IsLine(q), NEW gone \in SUBSET (1..Len(q))
    PROVE  /\ Left(removeEntries(q, gone), q, gone)
           /\ gone = {} => removeEntries(q, gone) = q
<1> DEFINE n == Len(q)
<1>1. q \in Seq(Entry) /\ Keyed(q)
  BY DEF IsLine
<1>2. n \in Nat
  BY <1>1, Places
<1>3. PICK g : Stage(q, gone, n, g) /\ removeEntries(q, gone) = g[n]
  BY <1>1, RemoveEntriesIsStage
<1>4. /\ g[0] = q
      /\ \A i \in 1..n : g[i] = IF i \in gone THEN removeEntry(g[i - 1], q[i]) ELSE g[i - 1]
  BY <1>2, <1>3, StageStep
<1> DEFINE Good(m) == /\ Left(g[m], q, gone \cap (1..m))
                      /\ gone = {} => g[m] = q
           Bad == {m \in 0..n : ~Good(m)}
<1> SUFFICES ASSUME Bad # {} PROVE FALSE
  <2>1. Bad = {} => Good(n)
    BY <1>2
  <2>2. gone \cap (1..n) = gone
    OBVIOUS
  <2>3. QED
    BY <1>3, <2>1, <2>2
<1>5. PICK m \in Bad : \A k \in Bad : ~(k < m)
  <2>1. Bad \subseteq Nat
    BY <1>2
  <2>2. PICK m \in Bad : \A k \in Bad : ~(<<k, m>> \in OpToRel(<, Nat))
    BY <2>1, NatLessThanWellFounded, WFMin
  <2>3. QED
    BY <2>1, <2>2 DEF OpToRel
<1>6. m # 0
  <2>1. gone \cap (1..0) = {}
    OBVIOUS
  <2>2. Good(0)
    BY <1>4, <2>1, NothingLeft
  <2>3. QED
    BY <1>5, <2>2
<1>7. m \in 1..n /\ m - 1 \in 0..n /\ m - 1 < m
  BY <1>2, <1>5, <1>6
<1>8. Good(m - 1)
  BY <1>5, <1>7
<1>9. CASE m \in gone
  <2>1. g[m] = removeEntry(g[m - 1], q[m])
    BY <1>4, <1>7, <1>9
  <2>2. m \notin gone \cap (1..(m - 1)) /\ gone \cap (1..m) = (gone \cap (1..(m - 1))) \cup {m}
    BY <1>7, <1>9
  <2>3. PICK o \in 1..Len(g[m - 1]) : Same(g[m - 1][o], q[m])
    BY <1>7, <1>8, <2>2 DEF Left
  <2> DEFINE r == g[m - 1]
             before == gone \cap (1..(m - 1))
  <2>4. IsLine(r) /\ o \in 1..Len(r) /\ r[o].joined = q[m].joined /\ Same(r[o], q[m])
        /\ Left(r, q, before)
    BY <1>8, <2>3 DEF Left, Same
  <2>5. g[m] = removeEntry(r, q[m]) /\ gone \cap (1..m) = before \cup {m}
    BY <2>1, <2>2
  <2> HIDE DEF r, before
  <2>6. Left(g[m], r, {o})
    BY <2>4, <2>5, RemoveEntryLeaves
  <2>7. Left(g[m], q, gone \cap (1..m))
    <3>1. Left(g[m], q, before \cup {m})
      BY <1>1, <1>7, <2>4, <2>6, LeftTwice
    <3>2. QED
      BY <2>5, <3>1
  <2>8. QED
    BY <1>5, <1>9, <2>7
<1>10. CASE m \notin gone
  <2>1. g[m] = g[m - 1]
    BY <1>4, <1>7, <1>10
  <2>2. gone \cap (1..m) = gone \cap (1..(m - 1))
    BY <1>7, <1>10
  <2>3. Good(m)
    BY <1>8, <2>1, <2>2
  <2>4. QED
    BY <1>5, <2>3
<1>11. QED
  BY <1>9, <1>10

-----------------------------------------------------------------------------
(* The line: its invariant *)

\* A player waits at most once.
Lone(q) == \A k, l \in 1..Len(q) : q[k].player = q[l].player => k = l

\* Nobody joined after t.
InLine(q, t) == IsLine(q) /\ Lone(q) /\ \A k \in 1..Len(q) : q[k].joined <= t

LineInv == TypeOK /\ InLine(pq, joins) /\ BossBarsAreFresh /\ KeepsItsPlace

\* A player waits for the same in two lines that hold the same entries of it.
LEMMA SameRequests ==
    ASSUME NEW q, NEW r, NEW p,
           \A k \in 1..Len(q) : q[k].player = p => \E l \in 1..Len(r) : Same(r[l], q[k]),
           \A l \in 1..Len(r) : r[l].player = p => \E k \in 1..Len(q) : Same(r[l], q[k])
    PROVE  Requests(r, p) = Requests(q, p)
BY DEF Requests, Same

LEMMA LeftInLine ==
    ASSUME NEW q, NEW t, InLine(q, t), NEW r, NEW gone, Left(r, q, gone)
    PROVE  InLine(r, t)
<1>1. IsLine(r) /\ Keyed(r)
  BY DEF Left, IsLine
<1>2. ASSUME NEW k \in 1..Len(r), NEW l \in 1..Len(r), r[k].player = r[l].player
      PROVE  k = l
  <2>1. PICK m \in 1..Len(q) : Same(r[k], q[m])
    BY DEF Left
  <2>2. PICK o \in 1..Len(q) : Same(r[l], q[o])
    BY DEF Left
  <2>3. m = o
    BY <1>2, <2>1, <2>2 DEF Same, InLine, Lone
  <2>4. r[k].joined = r[l].joined
    BY <2>1, <2>2, <2>3 DEF Same
  <2>5. QED
    BY <1>1, <2>4 DEF Keyed
<1>3. ASSUME NEW k \in 1..Len(r)
      PROVE  r[k].joined <= t
  <2>1. PICK m \in 1..Len(q) : Same(r[k], q[m])
    BY DEF Left
  <2>2. QED
    BY <2>1 DEF Same, InLine
<1>4. QED
  BY <1>1, <1>2, <1>3 DEF InLine, Lone

LEMMA PushInLine ==
    ASSUME NEW q, NEW t, InLine(q, t), NEW e, NEW f,
           f = [e EXCEPT !.index = Len(q) + 1], f \in Entry, f.joined <= t,
           \A k \in 1..Len(q) : q[k].joined # f.joined /\ q[k].player # f.player
    PROVE  InLine(heapPush(q, e), t)
<1> DEFINE r == heapPush(q, e)
<1>1. /\ IsLine(r)
      /\ \A l \in 1..Len(r) : Same(r[l], f) \/ \E k \in 1..Len(q) : Same(r[l], q[k])
  BY PushFacts DEF InLine
<1> HIDE DEF r
<1>2. ASSUME NEW k \in 1..Len(r), NEW l \in 1..Len(r), r[k].player = r[l].player
      PROVE  r[k].joined = r[l].joined
  <2>1. CASE Same(r[k], f)
    <3>1. Same(r[l], f)
      <4>1. r[l].player = f.player
        BY <1>2, <2>1 DEF Same
      <4>2. ~\E k2 \in 1..Len(q) : Same(r[l], q[k2])
        BY <4>1 DEF Same
      <4>3. QED
        BY <1>1, <4>2, Zenon
    <3>2. QED
      BY <2>1, <3>1 DEF Same
  <2>2. CASE \E m \in 1..Len(q) : Same(r[k], q[m])
    <3>1. PICK m \in 1..Len(q) : Same(r[k], q[m])
      BY <2>2
    <3>2. PICK o \in 1..Len(q) : Same(r[l], q[o])
      BY <1>1, <1>2, <3>1 DEF Same
    <3>3. m = o
      BY <1>2, <3>1, <3>2 DEF Same, InLine, Lone
    <3>4. QED
      BY <3>1, <3>2, <3>3 DEF Same
  <2>3. QED
    BY <1>1, <2>1, <2>2
<1>3. Lone(r)
  BY <1>1, <1>2 DEF Lone, IsLine, Keyed
<1>4. \A k \in 1..Len(r) : r[k].joined <= t
  BY <1>1 DEF Same, InLine
<1>5. QED
  BY <1>1, <1>3, <1>4 DEF InLine, r

LEMMA ByHandleLeaves ==
    ASSUME NEW q, NEW t, InLine(q, t), NEW p
    PROVE  Left(removeByHandle(q, p), q, {k \in 1..Len(q) : q[k].player = p})
<1> DEFINE gone == {k \in 1..Len(q) : q[k].player = p}
<1>1. IsLine(q) /\ Lone(q) /\ Len(q) \in Nat
  BY Places DEF InLine, IsLine
<1>2. CASE p \notin Waiting(q)
  <2>1. gone = {}
    BY <1>2 DEF Waiting
  <2>2. removeByHandle(q, p) = q
    BY <1>2 DEF removeByHandle
  <2>3. QED
    BY <1>1, <2>1, <2>2, NothingLeft
<1>3. CASE p \in Waiting(q)
  <2>1. PICK i \in 1..Len(q) : q[i].player = p
    BY <1>3 DEF Waiting
  <2>2. \A k \in 1..Len(q) : q[k].player = p => k = i
    BY <1>1, <2>1 DEF Lone
  <2>3. gone = {i}
    BY <2>1, <2>2
  <2>4. \A j \in 1..(i - 1) : q[j].player # p
    BY <1>1, <2>2
  <2>5. (CHOOSE k \in 1..Len(q) : q[k].player = p /\ \A j \in 1..(k - 1) : q[j].player # p) = i
    BY <2>1, <2>2, <2>4
  <2>6. removeByHandle(q, p) = heapRemove(q, i)
    BY <1>3, <2>5 DEF removeByHandle
  <2>7. QED
    BY <1>1, <2>3, <2>6, RemoveLeaves
<1>4. QED
  BY <1>2, <1>3

-----------------------------------------------------------------------------
(* The line: a player asks *)

\* Whoever waited, except the one that asks again, waits as before.
LEMMA AddFacts ==
    ASSUME LineInv, NEW p \in Player, NEW r \in RankValue, NEW s \in Target,
           AddPlayer(p, r, s)
    PROVE  /\ InLine(pq', joins') /\ joins' = joins + 1 /\ joins' \in 1..MaxJoins
           /\ \A k \in 1..Len(pq) : pq[k].player # p =>
                 \E l \in 1..Len(pq') : Same(pq'[l], pq[k])
           /\ \A l \in 1..Len(pq') : pq'[l].player # p =>
                 \E k \in 1..Len(pq) : Same(pq'[l], pq[k])
           /\ Requests(pq', p) = {[rank |-> r, srv |-> s, joined |-> joins']}
<1> DEFINE q == removeByHandle(pq, p)
           e == [player |-> p, rank |-> r, srv |-> s, joined |-> joins', index |-> 0]
           f == [e EXCEPT !.index = Len(q) + 1]
           gone == {k \in 1..Len(pq) : pq[k].player = p}
<1>1. pq' = heapPush(q, e) /\ joins' = joins + 1
  BY DEF AddPlayer
<1>2. joins \in Nat /\ joins' \in 1..MaxJoins
  BY QueueAssumption DEF AddPlayer, LineInv, TypeOK
<1>3. Left(q, pq, gone) /\ InLine(q, joins)
  BY ByHandleLeaves, LeftInLine DEF LineInv
<1>4. Len(q) \in Nat
  BY <1>3, Places DEF InLine, IsLine
<1>5. f = [player |-> p, rank |-> r, srv |-> s, joined |-> joins', index |-> Len(q) + 1]
  OBVIOUS
<1>6. f \in Entry /\ f.joined = joins' /\ f.player = p
  BY <1>2, <1>4, <1>5 DEF Entry
<1> HIDE DEF q, e
<1>60. f.rank = r /\ f.srv = s
  BY <1>5
<1>7. \A k \in 1..Len(q) : q[k].joined # f.joined /\ q[k].player # f.player /\ q[k].joined <= joins'
  <2> SUFFICES ASSUME NEW k \in 1..Len(q)
               PROVE  q[k].joined # joins' /\ q[k].player # p /\ q[k].joined <= joins'
    BY <1>6
  <2>1. q[k].joined <= joins /\ q[k] \in Entry
    BY <1>3, Places DEF InLine, IsLine
  <2>2. q[k].joined \in Nat
    BY <2>1, EntryFacts
  <2>3. q[k].player # p
    BY <1>3 DEF Left, Same
  <2>4. QED
    BY <1>1, <1>2, <2>1, <2>2, <2>3
<1> HIDE DEF f
<1>8. InLine(q, joins') /\ f.joined <= joins'
  BY <1>2, <1>3, <1>6, <1>7 DEF InLine
<1>9. InLine(pq', joins')
  <2>1. f = [e EXCEPT !.index = Len(q) + 1]
    BY DEF f
  <2>2. \A k \in 1..Len(q) : q[k].joined # f.joined /\ q[k].player # f.player
    BY <1>7
  <2> DEFINE t == joins'
  <2>3. InLine(q, t) /\ f.joined <= t
    BY <1>8
  <2> HIDE DEF t
  <2>4. InLine(heapPush(q, e), t)
    BY <1>6, <2>1, <2>2, <2>3, PushInLine
  <2>5. QED
    BY <1>1, <2>4 DEF t
<1>10. /\ \A k \in 1..Len(q) : \E l \in 1..Len(pq') : Same(pq'[l], q[k])
       /\ \E l \in 1..Len(pq') : Same(pq'[l], f)
       /\ \A l \in 1..Len(pq') :
             Same(pq'[l], f) \/ \E k \in 1..Len(q) : Same(pq'[l], q[k])
  BY <1>1, <1>3, <1>6, <1>7, PushFacts DEF InLine, f
<1>11. ASSUME NEW k \in 1..Len(pq), pq[k].player # p
       PROVE  \E l \in 1..Len(pq') : Same(pq'[l], pq[k])
  <2>1. PICK m \in 1..Len(q) : Same(q[m], pq[k])
    BY <1>3, <1>11 DEF Left
  <2>2. QED
    BY <1>10, <2>1, SameIsTransitive
<1>12. ASSUME NEW l \in 1..Len(pq'), pq'[l].player # p
       PROVE  \E k \in 1..Len(pq) : Same(pq'[l], pq[k])
  <2>1. PICK m \in 1..Len(q) : Same(pq'[l], q[m])
    BY <1>6, <1>10, <1>12 DEF Same
  <2>2. \E k \in 1..Len(pq) : Same(q[m], pq[k])
    BY <1>3 DEF Left
  <2>3. QED
    BY <2>1, <2>2, SameIsTransitive
<1>13. Requests(pq', p) = {[rank |-> r, srv |-> s, joined |-> joins']}
  <2>1. ASSUME NEW l \in 1..Len(pq'), pq'[l].player = p
        PROVE  pq'[l].rank = r /\ pq'[l].srv = s /\ pq'[l].joined = joins'
    BY <1>6, <1>60, <1>7, <1>10, <2>1 DEF Same
  <2>2. \E l \in 1..Len(pq') : pq'[l].player = p
    BY <1>6, <1>10 DEF Same
  <2>3. QED
    BY <2>1, <2>2 DEF Requests
<1>14. QED
  BY <1>1, <1>2, <1>9, <1>11, <1>12, <1>13

-----------------------------------------------------------------------------
(* The line: the manager serves *)

LEMMA RemovedFacts ==
    ASSUME LineInv
    PROVE  /\ FirstEligible \subseteq Removed /\ Removed \in SUBSET (1..Len(pq))
           /\ \A k \in Removed : k \in FirstEligible \/ Stale(pq[k])
BY DEF FirstEligible, Removed, Met

LEMMA OneIsFirst ==
    ASSUME pq \in Seq(Entry), NEW i \in FirstEligible, NEW k \in FirstEligible
    PROVE  i = k
<1>1. Len(pq) \in Nat
  BY Places
<1>2. /\ i \in 1..Len(pq) /\ k \in 1..Len(pq) /\ Eligible(pq[i]) /\ Eligible(pq[k])
      /\ \A j \in 1..(i - 1) : ~Eligible(pq[j])
      /\ \A j \in 1..(k - 1) : ~Eligible(pq[j])
  BY DEF FirstEligible
<1>3. i \notin 1..(k - 1) /\ k \notin 1..(i - 1)
  BY <1>2
<1>4. QED
  BY <1>1, <1>2, <1>3

\* Whoever is not removed waits as before, and so does whoever is pushed back;
\* nobody else comes.
LEMMA UpdateFacts ==
    ASSUME LineInv, Update
    PROVE  /\ InLine(pq', joins) /\ joins' = joins
           /\ \A k \in 1..Len(pq) : k \notin Removed =>
                 \E l \in 1..Len(pq') : Same(pq'[l], pq[k])
           /\ Removed = {} => pq' = pq
           /\ \A l \in 1..Len(pq') : \E k \in 1..Len(pq) : Same(pq'[l], pq[k])
           /\ \/ /\ asked' = Unserved
                 /\ \A l \in 1..Len(pq') :
                       \E k \in 1..Len(pq) : k \notin Removed /\ Same(pq'[l], pq[k])
              \/ /\ asked' = asked
                 /\ \A k \in FirstEligible : \E l \in 1..Len(pq') : Same(pq'[l], pq[k])
<1> DEFINE q == removeEntries(pq, Removed)
<1>1. InLine(pq, joins) /\ IsLine(pq) /\ pq \in Seq(Entry) /\ joins' = joins
  BY DEF LineInv, InLine, IsLine, Update
<1>2. Left(q, pq, Removed) /\ (Removed = {} => q = pq)
  BY <1>1, RemovedFacts, RemoveEntriesLeaves
<1>3. InLine(q, joins)
  BY <1>1, <1>2, LeftInLine
<1>4. \/ pq' = q /\ asked' = Unserved
      \/ \E k \in FirstEligible : pq' = heapPush(q, pq[k]) /\ asked' = asked
  BY DEF Update, pushBack
<1> HIDE DEF q
<1>5. CASE pq' = q /\ asked' = Unserved
  BY <1>1, <1>2, <1>3, <1>5 DEF Left
<1>6. ASSUME NEW k \in FirstEligible, pq' = heapPush(q, pq[k])
      PROVE  /\ InLine(pq', joins)
             /\ \A i \in 1..Len(pq) : i \notin Removed =>
                   \E l \in 1..Len(pq') : Same(pq'[l], pq[i])
             /\ Removed # {}
             /\ \A l \in 1..Len(pq') : \E i \in 1..Len(pq) : Same(pq'[l], pq[i])
             /\ \A i \in FirstEligible : \E l \in 1..Len(pq') : Same(pq'[l], pq[i])
  <2>1. k \in Removed /\ k \in 1..Len(pq) /\ pq[k] \in Entry
    BY <1>1, RemovedFacts, Places
  <2>2. Len(q) \in Nat /\ Len(q) + 1 \in Nat \ {0}
    BY <1>3, Places DEF InLine, IsLine
  <2> DEFINE f == [pq[k] EXCEPT !.index = Len(q) + 1]
  <2>3. f \in Entry /\ Same(f, pq[k])
    BY <2>1, <2>2, Reindexed, Zenon
  <2> HIDE DEF f
  <2>4. \A m \in 1..Len(q) : q[m].joined # f.joined /\ q[m].player # f.player
    <3> SUFFICES ASSUME NEW m \in 1..Len(q)
                 PROVE  q[m].joined # f.joined /\ q[m].player # f.player
      OBVIOUS
    <3>1. PICK o \in 1..Len(pq) : o \notin Removed /\ Same(q[m], pq[o])
      BY <1>2 DEF Left
    <3>2. o # k
      BY <2>1, <3>1
    <3>3. pq[o].joined # pq[k].joined /\ pq[o].player # pq[k].player
      BY <1>1, <2>1, <3>2 DEF InLine, IsLine, Keyed, Lone
    <3>4. QED
      BY <2>3, <3>1, <3>3 DEF Same
  <2>5. f.joined <= joins
    BY <1>1, <2>1, <2>3 DEF InLine, Same
  <2>6. InLine(pq', joins)
    BY <1>3, <1>6, <2>3, <2>4, <2>5, PushInLine DEF f
  <2>7. /\ \A m \in 1..Len(q) : \E l \in 1..Len(pq') : Same(pq'[l], q[m])
        /\ \E l \in 1..Len(pq') : Same(pq'[l], f)
        /\ \A l \in 1..Len(pq') : Same(pq'[l], f) \/ \E m \in 1..Len(q) : Same(pq'[l], q[m])
    BY <1>3, <1>6, <2>3, <2>4, PushFacts DEF f, InLine
  <2>8. ASSUME NEW i \in 1..Len(pq), i \notin Removed
        PROVE  \E l \in 1..Len(pq') : Same(pq'[l], pq[i])
    <3>1. PICK m \in 1..Len(q) : Same(q[m], pq[i])
      BY <1>2, <2>8 DEF Left
    <3>2. QED
      BY <2>7, <3>1, SameIsTransitive
  <2>9. ASSUME NEW l \in 1..Len(pq')
        PROVE  \E i \in 1..Len(pq) : Same(pq'[l], pq[i])
    <3>1. CASE Same(pq'[l], f)
      BY <2>1, <2>3, <3>1, SameIsTransitive
    <3>2. CASE \E m \in 1..Len(q) : Same(pq'[l], q[m])
      <4>1. PICK m \in 1..Len(q) : Same(pq'[l], q[m])
        BY <3>2
      <4>2. PICK i \in 1..Len(pq) : Same(q[m], pq[i])
        BY <1>2 DEF Left
      <4>3. QED
        BY <4>1, <4>2, SameIsTransitive
    <3>3. QED
      BY <2>7, <3>1, <3>2
  <2>10. ASSUME NEW i \in FirstEligible
         PROVE  \E l \in 1..Len(pq') : Same(pq'[l], pq[i])
    <3>1. i = k
      BY OneIsFirst DEF LineInv, TypeOK
    <3>2. QED
      BY <2>3, <2>7, <3>1, SameIsTransitive
  <2>11. QED
    BY <2>1, <2>6, <2>8, <2>9, <2>10
<1>7. QED
  BY <1>1, <1>4, <1>5, <1>6

-----------------------------------------------------------------------------
(* The line: its invariant is kept *)

LEMMA LineInit == Init => LineInv
<1> SUFFICES ASSUME Init PROVE LineInv
  OBVIOUS
<1>1. /\ place = [p \in Player |-> "hub"] /\ pq = <<>> /\ joins = 0
      /\ pending = {} /\ right = {} /\ asked = [p \in Player |-> {}]
  BY DEF Init
<1>2. pq \in Seq(Entry) /\ Len(pq) = 0
  BY <1>1
<1>3. TypeOK
  BY <1>1, <1>2, QueueAssumption DEF TypeOK
<1>4. InLine(pq, joins)
  BY <1>2 DEF InLine, IsLine, Lone, Keyed, IndexInPlace, HeapOrder
<1>5. BossBarsAreFresh
  BY <1>2 DEF BossBarsAreFresh, Waiting
<1>6. KeepsItsPlace
  BY <1>1, <1>2 DEF KeepsItsPlace, Requests
<1>7. QED
  BY <1>3, <1>4, <1>5, <1>6 DEF LineInv

LEMMA WaitingAreHere ==
    ASSUME NEW q \in Seq(Entry)
    PROVE  Waiting(q) \subseteq Player
BY Places, EntryFacts DEF Waiting

LEMMA AddPlayerKeeps ==
    ASSUME LineInv, NEW p \in Player, NEW r \in RankValue, NEW s \in Target,
           AddPlayer(p, r, s)
    PROVE  LineInv'
<1>1. InLine(pq', joins') /\ joins' \in 1..MaxJoins
  BY AddFacts
<1>2. /\ pending' = pending \cup Waiting(pq') /\ right' = Unmoved(pq') /\ place' = place
      /\ asked' = [asked EXCEPT ![p] = {[rank |-> r, srv |-> s, joined |-> joins']}]
  BY DEF AddPlayer
<1>20. asked' \in [Player -> SUBSET Request]
  <2>1. [rank |-> r, srv |-> s, joined |-> joins'] \in Request
    BY <1>1 DEF Request
  <2> DEFINE new == {[rank |-> r, srv |-> s, joined |-> joins']}
  <2>2. new \in SUBSET Request
    BY <2>1
  <2> HIDE DEF new
  <2>3. asked' = [asked EXCEPT ![p] = new]
    BY <1>2 DEF new
  <2>4. QED
    BY <2>2, <2>3 DEF LineInv, TypeOK
<1>3. pq' \in Seq(Entry) /\ Waiting(pq') \subseteq Player
  BY <1>1, WaitingAreHere DEF InLine, IsLine
<1>4. TypeOK'
  BY <1>1, <1>2, <1>20, <1>3, QueueAssumption DEF TypeOK, LineInv, Unmoved
<1>5. BossBarsAreFresh'
  BY <1>2 DEF BossBarsAreFresh
<1>6. ASSUME NEW x \in Player, place[x] = "hub"
      PROVE  Requests(pq', x) = asked'[x]
  <2>1. CASE x = p
    BY <1>2, <2>1, AddFacts DEF LineInv, TypeOK
  <2>2. CASE x # p
    <3>1. /\ \A k \in 1..Len(pq) : pq[k].player = x => \E l \in 1..Len(pq') : Same(pq'[l], pq[k])
          /\ \A l \in 1..Len(pq') : pq'[l].player = x => \E k \in 1..Len(pq) : Same(pq'[l], pq[k])
      BY <2>2, AddFacts
    <3> DEFINE t == pq'
    <3>2. /\ \A k \in 1..Len(pq) : pq[k].player = x => \E l \in 1..Len(t) : Same(t[l], pq[k])
          /\ \A l \in 1..Len(t) : t[l].player = x => \E k \in 1..Len(pq) : Same(t[l], pq[k])
      BY <3>1
    <3> HIDE DEF t
    <3>3. Requests(t, x) = Requests(pq, x)
      BY <3>2, SameRequests
    <3>4. asked'[x] = asked[x]
      BY <1>2, <2>2 DEF LineInv, TypeOK
    <3>5. QED
      BY <1>6, <3>3, <3>4 DEF t, LineInv, KeepsItsPlace
  <2>3. QED
    BY <2>1, <2>2
<1>7. KeepsItsPlace'
  BY <1>2, <1>6 DEF KeepsItsPlace
<1>8. QED
  BY <1>1, <1>4, <1>5, <1>7 DEF LineInv

\* Who is here is removed only as the first that can be served.
LEMMA UpdateKeepsPlaces ==
    ASSUME LineInv, Update, NEW p \in Player, place[p] = "hub"
    PROVE  Requests(pq', p) = asked'[p]
<1> DEFINE t == pq'
<1>1. /\ \A k \in 1..Len(pq) : k \notin Removed => \E l \in 1..Len(t) : Same(t[l], pq[k])
      /\ \A l \in 1..Len(t) : \E k \in 1..Len(pq) : Same(t[l], pq[k])
      /\ \/ /\ asked' = Unserved
            /\ \A l \in 1..Len(t) :
                  \E k \in 1..Len(pq) : k \notin Removed /\ Same(t[l], pq[k])
         \/ /\ asked' = asked
            /\ \A k \in FirstEligible : \E l \in 1..Len(t) : Same(t[l], pq[k])
  BY UpdateFacts
<1>2. \A k \in Removed : pq[k].player = p => k \in FirstEligible
  BY RemovedFacts DEF Stale
<1>3. Requests(pq, p) = asked[p]
  BY DEF LineInv, KeepsItsPlace
<1> HIDE DEF t
<1>4. CASE asked' = asked /\ \A k \in FirstEligible : \E l \in 1..Len(t) : Same(t[l], pq[k])
  <2>1. \A k \in 1..Len(pq) : pq[k].player = p => \E l \in 1..Len(t) : Same(t[l], pq[k])
    BY <1>1, <1>2, <1>4
  <2>2. Requests(t, p) = Requests(pq, p)
    BY <1>1, <2>1, SameRequests
  <2>3. QED
    BY <1>3, <1>4, <2>2 DEF t
<1>5. CASE /\ asked' = Unserved
           /\ \A l \in 1..Len(t) :
                 \E k \in 1..Len(pq) : k \notin Removed /\ Same(t[l], pq[k])
  <2>1. CASE \E k \in FirstEligible : pq[k].player = p
    <3>1. PICK k \in FirstEligible : pq[k].player = p
      BY <2>1
    <3>2. k \in Removed /\ k \in 1..Len(pq)
      BY <3>1, RemovedFacts
    <3>3. \A l \in 1..Len(t) : t[l].player # p
      BY <1>5, <3>1, <3>2 DEF Same, LineInv, InLine, Lone
    <3>4. Requests(t, p) = {}
      BY <3>3 DEF Requests
    <3>5. asked'[p] = {}
      BY <1>5, <2>1 DEF Unserved
    <3>6. QED
      BY <3>4, <3>5 DEF t
  <2>2. CASE ~\E k \in FirstEligible : pq[k].player = p
    <3>1. \A k \in 1..Len(pq) : pq[k].player = p => \E l \in 1..Len(t) : Same(t[l], pq[k])
      BY <1>1, <1>2, <2>2
    <3>2. Requests(t, p) = Requests(pq, p)
      BY <1>1, <3>1, SameRequests
    <3>3. asked'[p] = asked[p]
      BY <1>5, <2>2 DEF Unserved
    <3>4. QED
      BY <1>3, <3>2, <3>3 DEF t
  <2>3. QED
    BY <2>1, <2>2
<1>6. QED
  BY <1>1, <1>4, <1>5

LEMMA UpdateKeeps ==
    ASSUME LineInv, Update
    PROVE  LineInv'
<1>1. InLine(pq', joins) /\ joins' = joins /\ (Removed = {} => pq' = pq)
  BY UpdateFacts
<1>2. place' = place
  BY DEF Update
<1> DEFINE todo == pending \cup IF Removed = {} THEN {} ELSE Waiting(pq')
<1>3. processBossBarUpdates(pq', todo)
  BY DEF Update
<1>4. pq' \in Seq(Entry) /\ Waiting(pq') \subseteq Player
  BY <1>1, WaitingAreHere DEF InLine, IsLine
<1>5. todo \subseteq Player
  BY <1>4 DEF LineInv, TypeOK
<1>6. PICK batch \in SUBSET todo :
        /\ pending' = todo \ batch
        /\ right' = Unmoved(pq') \cup {p \in batch \cap Waiting(pq') : place[p] = "hub"}
  BY <1>3, Zenon DEF processBossBarUpdates
<1>7. TypeOK'
  <2>1. asked' \in [Player -> SUBSET Request]
    BY UpdateFacts DEF Unserved, TypeOK, LineInv
  <2>2. QED
    BY <1>1, <1>2, <1>4, <1>5, <1>6, <2>1 DEF TypeOK, LineInv, Unmoved
<1>8. ASSUME NEW p \in Waiting(pq'), p \notin pending', place[p] = "hub"
      PROVE  p \in right'
  <2>1. CASE p \in batch
    BY <1>6, <1>8, <2>1
  <2>2. CASE p \notin batch
    <3>1. p \notin todo
      BY <1>6, <1>8, <2>2
    <3>2. Removed = {} /\ p \notin pending
      BY <1>8, <3>1
    <3>3. pq' = pq /\ p \in right
      BY <1>1, <1>8, <3>2 DEF LineInv, BossBarsAreFresh
    <3>4. p \in Unmoved(pq')
      BY <1>8, <3>3 DEF Unmoved
    <3>5. QED
      BY <1>6, <3>4
  <2>3. QED
    BY <2>1, <2>2
<1>9. BossBarsAreFresh'
  BY <1>2, <1>8 DEF BossBarsAreFresh
<1>10. KeepsItsPlace'
  BY <1>2, UpdateKeepsPlaces DEF KeepsItsPlace
<1>11. QED
  BY <1>1, <1>7, <1>9, <1>10 DEF LineInv

LEMMA LeaveKeeps ==
    ASSUME LineInv, NEW p \in Player, Leave(p)
    PROVE  LineInv'
<1>1. /\ place' = [place EXCEPT ![p] = "gone"] /\ right' = right \ {p}
      /\ pq' = pq /\ joins' = joins /\ pending' = pending
      /\ asked' = [asked EXCEPT ![p] = {}]
  BY DEF Leave
<1>2. TypeOK'
  BY <1>1 DEF TypeOK, LineInv
<1>3. InLine(pq', joins')
  BY <1>1 DEF LineInv
<1>4. BossBarsAreFresh'
  <2>1. ASSUME NEW x \in Waiting(pq), x \notin pending, place'[x] = "hub" PROVE x \in right'
    <3>1. x \in Player
      BY <2>1, WaitingAreHere DEF LineInv, TypeOK
    <3>2. x # p /\ place[x] = "hub"
      BY <1>1, <2>1, <3>1 DEF LineInv, TypeOK
    <3>3. QED
      BY <1>1, <2>1, <3>2 DEF LineInv, BossBarsAreFresh
  <2>2. QED
    BY <1>1, <2>1 DEF BossBarsAreFresh
<1>5. KeepsItsPlace'
  <2>1. ASSUME NEW x \in Player, place'[x] = "hub" PROVE Requests(pq, x) = asked'[x]
    <3>1. x # p /\ place[x] = "hub"
      BY <1>1, <2>1 DEF LineInv, TypeOK
    <3>2. asked'[x] = asked[x]
      BY <1>1, <3>1 DEF LineInv, TypeOK
    <3>3. QED
      BY <3>1, <3>2 DEF LineInv, KeepsItsPlace
  <2>2. QED
    BY <1>1, <2>1 DEF KeepsItsPlace
<1>6. QED
  BY <1>2, <1>3, <1>4, <1>5 DEF LineInv

LEMMA LineStep ==
    ASSUME LineInv, [Next]_vars
    PROVE  LineInv'
<1>1. CASE UNCHANGED vars
  <2>1. /\ place' = place /\ pq' = pq /\ joins' = joins /\ pending' = pending
        /\ right' = right /\ asked' = asked
    BY <1>1 DEF vars
  <2>2. TypeOK' /\ BossBarsAreFresh' /\ KeepsItsPlace'
    BY <2>1 DEF LineInv, TypeOK, BossBarsAreFresh, KeepsItsPlace
  <2>3. QED
    BY <2>1, <2>2 DEF LineInv
<1>2. CASE Next
  BY <1>2, AddPlayerKeeps, UpdateKeeps, LeaveKeeps DEF Next
<1>3. QED
  BY <1>1, <1>2

LEMMA StepOfLine == [AllNext]_allVars => [Next]_vars
BY DEF AllNext, allVars

\* The inductive invariant of the line: it stays a heap of entries that know
\* their places, of players that wait once, with join times of the past.
THEOREM LineInvariant == AllSpec => []LineInv
<1>1. LineInv /\ [AllNext]_allVars => LineInv'
  BY LineStep, StepOfLine
<1>2. AllInit => LineInv
  BY LineInit DEF AllInit
<1>3. QED
  BY <1>1, <1>2, PTL DEF AllSpec

-----------------------------------------------------------------------------
(* The line: what it shows *)

LEMMA LineInvSound == LineInv => LineIsSound
BY DEF LineInv, InLine, IsLine, Lone, LineIsSound

\* The array of the manager stays a heap whose entries know their places, and
\* nobody waits twice.
THEOREM LineStaysSound == AllSpec => []LineIsSound
BY LineInvariant, LineInvSound, PTL

\* The boss bar of a player that waits shows its place, or is to be refreshed.
THEOREM BossBarsStayFresh == AllSpec => []BossBarsAreFresh
<1>1. LineInv => BossBarsAreFresh
  BY DEF LineInv
<1>2. QED
  BY <1>1, LineInvariant, PTL

\* Nobody in a line comes before the first entry of its array.
LEMMA FirstIsBest ==
    ASSUME NEW q, IsLine(q), NEW i \in 1..Len(q)
    PROVE  ~Less(q[i], q[1])
<1>1. q \in Seq(Entry) /\ Len(q) \in Nat /\ HeapOrder(q)
  BY Places DEF IsLine
<1> DEFINE Bad == {k \in 1..Len(q) : Less(q[k], q[1])}
<1> SUFFICES ASSUME Bad # {} PROVE FALSE
  OBVIOUS
<1>2. PICK m \in Bad : \A k \in Bad : ~(k < m)
  <2>1. Bad \subseteq Nat
    BY <1>1
  <2>2. PICK m \in Bad : \A k \in Bad : ~(<<k, m>> \in OpToRel(<, Nat))
    BY <2>1, NatLessThanWellFounded, WFMin
  <2>3. QED
    BY <2>1, <2>2 DEF OpToRel
<1>3. q[m] \in Entry /\ q[1] \in Entry /\ m \in 1..Len(q) /\ 1 \in 1..Len(q)
  BY <1>1, Places
<1>4. m # 1
  BY <1>2, <1>3, LessOrder
<1>5. m \in 2..Len(q) /\ m \div 2 \in 1..Len(q) /\ m \div 2 < m
  BY <1>1, <1>3, <1>4, Half
<1>6. ~Less(q[m], q[m \div 2]) /\ ~Less(q[m \div 2], q[1]) /\ q[m \div 2] \in Entry
  BY <1>1, <1>2, <1>5, Places DEF HeapOrder
<1>7. QED
  BY <1>2, <1>3, <1>6, LessOrder

\* A player in the hub waits for what it asked for last, with its rank and its join
\* time, until a transfer succeeds, and for nothing else: a transfer that fails and
\* the removal of others cost it nothing.
THEOREM PlacesAreKept == AllSpec => []KeepsItsPlace
<1>1. LineInv => KeepsItsPlace
  BY DEF LineInv
<1>2. QED
  BY <1>1, LineInvariant, PTL

\* Who is served is the first of the array when everybody can be served.
LEMMA ServedStep ==
    ASSUME LineInv, Next, NEW i \in 1..Len(pq), NEW k \in 1..Len(pq),
           \A j \in 1..Len(pq) : Eligible(pq[j]), Served(pq[k].player)
    PROVE  ~Less(pq[i], pq[k])
<1>1. pq[k].player \in Waiting(pq) /\ \A l \in 1..Len(pq') : pq'[l].player # pq[k].player
  BY DEF Served, Waiting
<1>2. ASSUME NEW p \in Player, NEW r \in RankValue, NEW s \in Target, AddPlayer(p, r, s)
      PROVE  FALSE
  <2>1. Requests(pq', p) # {}
    BY <1>2, AddFacts
  <2>2. \E l \in 1..Len(pq') : pq'[l].player = p
    BY <2>1 DEF Requests
  <2>3. pq[k].player = p
    BY <1>1, <1>2, AddFacts DEF Same
  <2>4. QED
    BY <1>1, <2>2, <2>3
<1>3. ASSUME NEW p \in Player, Leave(p)
      PROVE  FALSE
  BY <1>1, <1>3 DEF Leave
<1>4. CASE Update
  <2>1. k \in Removed
    BY <1>1, <1>4, UpdateFacts DEF Same
  <2>2. k \in FirstEligible
    BY <2>1, RemovedFacts DEF Eligible
  <2>3. Len(pq) \in Nat /\ IsLine(pq)
    BY Places DEF LineInv, TypeOK, InLine
  <2>4. k = 1
    BY <2>2, <2>3 DEF FirstEligible
  <2>5. QED
    BY <2>3, <2>4, FirstIsBest
<1>5. QED
  BY <1>2, <1>3, <1>4 DEF Next

\* Update serves nobody before another that comes before it in line.
THEOREM BestComesFirst == AllSpec => BestIsServed
<1>1. LineInv /\ [AllNext]_allVars =>
        [\A i, k \in 1..Len(pq) :
            ((\A j \in 1..Len(pq) : Eligible(pq[j])) /\ Served(pq[k].player))
                => ~Less(pq[i], pq[k])]_vars
  BY StepOfLine, ServedStep
<1>2. QED
  BY <1>1, LineInvariant, PTL DEF AllSpec, BestIsServed

-----------------------------------------------------------------------------
(* The servers: the inductive invariant *)

\* Twice the failures that are missed at most.
Bound == MaxPings * (2 * MaxRetries + MaxPings + 1)

\* The failures of this round, with the counter at r, a pings that have not read
\* it, b that will make the server offline and c that will reset the counter.  A
\* ping that reads the counter before it is exhausted makes room for another.
ThisRound(r, a, b, c) ==
    IF r > MaxRetries THEN MaxPings - (a + b + c)
    ELSE IF b + c = MaxPings THEN 0
    ELSE (MaxRetries - r) + (MaxPings - (b + c))

\* Twice the failures of the c rounds that begin with a reset.
NextRounds(b, c) == c * (2 * (MaxRetries + MaxPings - b) + 1 - c)

\* What holds of a server, f pings of which have failed.
Sound(r, a, b, c, online, f) ==
    /\ r \in Nat /\ a \in Nat /\ b \in Nat /\ c \in Nat /\ f \in Nat
    /\ a + b + c <= MaxPings
    /\ r > MaxRetries => r <= MaxRetries + a + b + c
    /\ online => 2 * f + 2 * ThisRound(r, a, b, c) + NextRounds(b, c) <= Bound

ServerSound(s) ==
    Sound(retries[s], pings[s]["Retries"], pings[s]["assumeOffline"], pings[s]["Store"],
          status[s].online, failed[s])

ServersInv ==
    /\ status \in [Target -> Status]
    /\ retries \in [Target -> Nat]
    /\ pings \in [Target -> [Call -> Nat]]
    /\ failed \in [Target -> Nat]
    /\ \A s \in Target : ServerSound(s)

-----------------------------------------------------------------------------
(* The servers: counting *)

LEMMA Products ==
    ASSUME NEW m \in Int, NEW c \in Int
    PROVE  /\ c * m \in Int
           /\ (c + 1) * (m - 1) = c * m - c + m - 1
           /\ c * (m - 2) = c * m - 2 * c
           /\ m \in Nat /\ c \in Nat => c * m \in Nat
OBVIOUS

LEMMA Limits == MaxPings \in Nat \ {0} /\ MaxRetries \in Nat
  BY ServerAssumption

LEMMA RoundsFacts ==
    ASSUME NEW b \in Nat, NEW c \in Nat, b + c <= MaxPings
    PROVE  /\ NextRounds(b, c) \in Nat
           /\ NextRounds(b, c + 1) = NextRounds(b, c) + 2 * (MaxRetries + MaxPings - b - c)
           /\ NextRounds(b + 1, c) <= NextRounds(b, c)
<1> DEFINE m == 2 * (MaxRetries + MaxPings - b) + 1 - c
<1>1. m \in Nat
  BY Limits
<1>2. NextRounds(b, c) = c * m
  BY DEF NextRounds
<1>3. NextRounds(b, c + 1) = (c + 1) * (m - 1)
  <2>1. 2 * (MaxRetries + MaxPings - b) + 1 - (c + 1) = m - 1
    BY Limits
  <2>2. QED
    BY <2>1 DEF NextRounds
<1>4. NextRounds(b + 1, c) = c * (m - 2)
  <2>1. 2 * (MaxRetries + MaxPings - (b + 1)) + 1 - c = m - 2
    BY Limits
  <2>2. QED
    BY <2>1 DEF NextRounds
<1>5. m - 1 - c = 2 * (MaxRetries + MaxPings - b - c)
  BY Limits
<1> HIDE DEF m
<1>6. QED
  BY <1>1, <1>2, <1>3, <1>4, <1>5, Products, Limits

\* All rounds there can be, whoever is under way.
LEMMA RoundsBounded ==
    ASSUME NEW b \in Nat, NEW c \in Nat, b + c <= MaxPings
    PROVE  NextRounds(b, c) <= Bound
<1>1. PICK e \in Nat : MaxPings = c + e
  <2>1. MaxPings - c \in Nat /\ MaxPings = c + (MaxPings - c)
    BY Limits
  <2>2. QED
    BY <2>1
<1> DEFINE m == 2 * MaxRetries + 1
<1>2. m \in Nat
  BY Limits
<1>3. Bound = (c + e) * (m + (c + e))
  BY <1>1, Limits DEF Bound
<1>4. NextRounds(b, c) = c * (m + c + 2 * e - 2 * b)
  <2>1. 2 * (MaxRetries + MaxPings - b) + 1 - c = m + c + 2 * e - 2 * b
    BY <1>1, Limits
  <2>2. QED
    BY <2>1 DEF NextRounds
<1> HIDE DEF m
<1>5. (c + e) * (m + (c + e)) = c * (m + c + 2 * e) + e * (m + e)
  BY <1>1, <1>2
<1>6. c * (m + c + 2 * e - 2 * b) = c * (m + c + 2 * e) - 2 * (c * b)
  BY <1>1, <1>2
<1>7. c * b \in Nat /\ e * (m + e) \in Nat /\ c * (m + c + 2 * e) \in Nat
  BY <1>1, <1>2, Products
<1>8. QED
  BY <1>3, <1>4, <1>5, <1>6, <1>7

\* The ping fails, and is counted.
LEMMA FailSound ==
    ASSUME NEW r, NEW a, NEW b, NEW c, NEW online, NEW f, NEW g,
           Sound(r, a, b, c, online, f), a + b + c < MaxPings,
           g \in Nat, online => g = f + 1
    PROVE  Sound(r + 1, a + 1, b, c, online, g)
<1>1. /\ r \in Nat /\ a \in Nat /\ b \in Nat /\ c \in Nat /\ f \in Nat
      /\ r > MaxRetries => r <= MaxRetries + a + b + c
  BY DEF Sound
<1>2. ThisRound(r + 1, a + 1, b, c) \in Int /\ ThisRound(r, a, b, c) \in Int
  BY <1>1, Limits DEF ThisRound
<1>3. ThisRound(r + 1, a + 1, b, c) + 1 <= ThisRound(r, a, b, c)
  BY <1>1, Limits DEF ThisRound
<1>4. NextRounds(b, c) \in Nat /\ Bound \in Int
  BY <1>1, Limits, RoundsFacts, Products DEF Bound
<1>5. ASSUME online
      PROVE  2 * g + 2 * ThisRound(r + 1, a + 1, b, c) + NextRounds(b, c) <= Bound
  BY <1>1, <1>2, <1>3, <1>4, <1>5 DEF Sound
<1>6. QED
  BY <1>1, <1>5, Limits DEF Sound

\* The counter is read.
LEMMA ReadSound ==
    ASSUME NEW r, NEW a, NEW b, NEW c, NEW online, NEW f, NEW d,
           Sound(r, a, b, c, online, f), a > 0,
           d = IF r > MaxRetries THEN b + 1 ELSE b
    PROVE  Sound(r, a - 1, d, c, online, f)
<1>1. /\ r \in Nat /\ a \in Nat /\ b \in Nat /\ c \in Nat /\ f \in Nat /\ d \in Nat
      /\ a + b + c <= MaxPings /\ a - 1 \in Nat
      /\ r > MaxRetries => r <= MaxRetries + a + b + c
  BY Limits DEF Sound
<1>2. ThisRound(r, a - 1, d, c) = ThisRound(r, a, b, c) /\ ThisRound(r, a, b, c) \in Int
  BY <1>1, Limits DEF ThisRound
<1>3. /\ NextRounds(b, c) \in Nat /\ NextRounds(d, c) \in Nat
      /\ NextRounds(d, c) <= NextRounds(b, c)
  <2>1. NextRounds(b, c) \in Nat /\ NextRounds(b + 1, c) <= NextRounds(b, c)
    BY <1>1, Limits, RoundsFacts
  <2>2. NextRounds(d, c) \in Nat
    BY <1>1, Limits, RoundsFacts
  <2>3. QED
    BY <1>1, <2>1, <2>2
<1>4. Bound \in Int
  BY Limits, Products DEF Bound
<1>5. ASSUME online
      PROVE  2 * f + 2 * ThisRound(r, a - 1, d, c) + NextRounds(d, c) <= Bound
  BY <1>1, <1>2, <1>3, <1>4, <1>5 DEF Sound
<1>6. QED
  BY <1>1, <1>5, Limits DEF Sound

\* The server is made offline.
LEMMA OfflineSound ==
    ASSUME NEW r, NEW a, NEW b, NEW c, NEW online, NEW f,
           Sound(r, a, b, c, online, f), b > 0
    PROVE  Sound(r, a, b - 1, c + 1, FALSE, 0)
BY Limits DEF Sound

\* The counter is reset.
LEMMA StoreSound ==
    ASSUME NEW r, NEW a, NEW b, NEW c, NEW online, NEW f,
           Sound(r, a, b, c, online, f), c > 0
    PROVE  Sound(0, a, b, c - 1, online, f)
<1>1. /\ r \in Nat /\ a \in Nat /\ b \in Nat /\ c \in Nat /\ f \in Nat /\ c - 1 \in Nat
      /\ a + b + c <= MaxPings
  BY DEF Sound
<1>2. ThisRound(0, a, b, c - 1) = MaxRetries + MaxPings - b - (c - 1)
  BY <1>1, Limits DEF ThisRound
<1>3. ThisRound(r, a, b, c) \in Nat
  BY <1>1, Limits DEF ThisRound
<1>4. /\ NextRounds(b, c - 1) \in Nat /\ NextRounds(b, c) \in Nat
      /\ NextRounds(b, c) = NextRounds(b, c - 1) + 2 * (MaxRetries + MaxPings - b - (c - 1))
  <2>1. b + (c - 1) <= MaxPings /\ (c - 1) + 1 = c /\ b + c <= MaxPings
    BY <1>1, Limits
  <2>2. QED
    BY <1>1, <2>1, RoundsFacts
<1>5. Bound \in Int
  BY Limits, Products DEF Bound
<1>6. ASSUME online
      PROVE  2 * f + 2 * ThisRound(0, a, b, c - 1) + NextRounds(b, c - 1) <= Bound
  BY <1>1, <1>2, <1>3, <1>4, <1>5, <1>6, Limits DEF Sound
<1>7. QED
  BY <1>1, <1>6, Limits DEF Sound

\* A pong, whoever is under way.
LEMMA PongSound ==
    ASSUME NEW r, NEW a, NEW b, NEW c, NEW online, NEW f,
           Sound(r, a, b, c, online, f)
    PROVE  Sound(r, a, b, c, TRUE, 0)
<1>1. /\ r \in Nat /\ a \in Nat /\ b \in Nat /\ c \in Nat
      /\ a + b + c <= MaxPings /\ b + c <= MaxPings
  BY Limits DEF Sound
<1>2. Bound \in Int /\ NextRounds(b, c) \in Nat
  BY <1>1, Limits, Products, RoundsFacts DEF Bound
<1>3. 2 * ThisRound(r, a, b, c) + NextRounds(b, c) <= Bound
  <2>1. CASE b + c = MaxPings
    <3>1. ThisRound(r, a, b, c) = 0
      BY <1>1, <2>1, Limits DEF ThisRound
    <3>2. QED
      BY <1>1, <1>2, <3>1, RoundsBounded
  <2>2. CASE b + c # MaxPings
    <3>1. b + (c + 1) <= MaxPings /\ c + 1 \in Nat
      BY <1>1, <2>2, Limits
    <3>2. NextRounds(b, c + 1) <= Bound
      BY <1>1, <3>1, RoundsBounded
    <3>3. NextRounds(b, c + 1) = NextRounds(b, c) + 2 * (MaxRetries + MaxPings - b - c)
      BY <1>1, RoundsFacts
    <3>4. ThisRound(r, a, b, c) <= MaxRetries + MaxPings - b - c /\ ThisRound(r, a, b, c) \in Int
      BY <1>1, <2>2, Limits DEF ThisRound
    <3>5. QED
      BY <1>1, <1>2, <3>2, <3>3, <3>4, Limits
  <2>3. QED
    BY <2>1, <2>2
<1>4. r > MaxRetries => r <= MaxRetries + a + b + c
  BY DEF Sound
<1>5. ThisRound(r, a, b, c) \in Int
  BY <1>1, Limits DEF ThisRound
<1>6. QED
  BY <1>1, <1>2, <1>3, <1>4, <1>5 DEF Sound

-----------------------------------------------------------------------------
(* The servers: the invariant is kept *)

LEMMA ServersInvInit == ServersInit => ServersInv
<1> SUFFICES ASSUME ServersInit PROVE ServersInv
  OBVIOUS
<1>1. /\ status \in [Target -> Status]
      /\ retries \in [Target -> Nat]
      /\ pings \in [Target -> [Call -> Nat]]
      /\ failed \in [Target -> Nat]
  BY DEF ServersInit, Status
<1>2. ASSUME NEW s \in Target
      PROVE  ServerSound(s)
  BY Limits DEF ServersInit, ServerSound, Sound, Offline, Call
<1>3. QED
  BY <1>1, <1>2 DEF ServersInv

\* What the invariant says of the types of one server.
LEMMA ServerTypes ==
    ASSUME ServersInv, NEW s \in Target
    PROVE  /\ status[s] \in Status /\ status[s].online \in BOOLEAN
           /\ retries[s] \in Nat /\ failed[s] \in Nat
           /\ pings[s] \in [Call -> Nat]
           /\ pings[s]["Retries"] \in Nat
           /\ pings[s]["assumeOffline"] \in Nat
           /\ pings[s]["Store"] \in Nat
           /\ ServerSound(s)
<1>1. status[s] \in Status /\ ServerSound(s)
  BY DEF ServersInv
<1>2. status[s].online \in BOOLEAN
  <2>1. CASE status[s] = Offline
    <3>1. Offline.online = FALSE
      BY DEF Offline
    <3>2. QED
      BY <2>1, <3>1, Zenon
  <2>2. CASE status[s] \in [online : {TRUE}, players : 0..MaxPlayerCount]
    <3>1. status[s].online \in {TRUE}
      BY <2>2
    <3>2. status[s].online = TRUE
      BY <3>1, Zenon
    <3>3. QED
      BY <3>2, Zenon
  <2>3. QED
    BY <1>1, <2>1, <2>2 DEF Status
<1>3. retries[s] \in Nat /\ failed[s] \in Nat /\ pings[s] \in [Call -> Nat]
  BY DEF ServersInv
<1>4. QED
  BY <1>1, <1>2, <1>3 DEF Call

\* An action of one server leaves the others alone.
LEMMA OthersKeep ==
    ASSUME ServersInv, NEW s \in Target, NEW x \in Target, x # s,
           status'[x] = status[x], retries'[x] = retries[x],
           pings'[x] = pings[x], failed'[x] = failed[x]
    PROVE  ServerSound(x)'
BY DEF ServersInv, ServerSound

LEMMA PingAnsweredKeeps ==
    ASSUME ServersInv, NEW s \in Target, PingAnswered(s)
    PROVE  ServersInv'
<1>1. PICK n \in 0..MaxPlayerCount :
          status' = [status EXCEPT ![s] = [online |-> TRUE, players |-> n]]
  BY DEF PingAnswered
<1>2. failed' = [failed EXCEPT ![s] = 0] /\ retries' = retries /\ pings' = pings
  BY DEF PingAnswered
<1>3. /\ status' \in [Target -> Status] /\ failed' \in [Target -> Nat]
      /\ retries' \in [Target -> Nat] /\ pings' \in [Target -> [Call -> Nat]]
  BY <1>1, <1>2 DEF ServersInv, Status
<1>4. status'[s].online = TRUE /\ failed'[s] = 0
  BY <1>1, <1>2 DEF ServersInv
<1>5. ServerSound(s)'
  BY <1>2, <1>4, ServerTypes, PongSound DEF ServerSound
<1>6. ASSUME NEW x \in Target, x # s PROVE ServerSound(x)'
  BY <1>1, <1>2, <1>6, OthersKeep DEF ServersInv
<1>7. QED
  BY <1>3, <1>5, <1>6 DEF ServersInv

LEMMA PingFailedKeeps ==
    ASSUME ServersInv, NEW s \in Target, PingFailed(s)
    PROVE  ServersInv'
<1>1. /\ Under(s) < MaxPings
      /\ retries' = [retries EXCEPT ![s] = @ + 1]
      /\ pings' = [pings EXCEPT ![s]["Retries"] = @ + 1]
      /\ failed' = IF status[s].online THEN [failed EXCEPT ![s] = @ + 1] ELSE failed
      /\ status' = status
  BY DEF PingFailed
<1>2. /\ pings[s] \in [Call -> Nat] /\ retries[s] \in Nat /\ failed[s] \in Nat
      /\ ServerSound(s)
  BY ServerTypes
<1>3. /\ status' \in [Target -> Status] /\ retries' \in [Target -> Nat]
      /\ pings' \in [Target -> [Call -> Nat]]
      /\ failed' \in [Target -> Nat]
  BY <1>1 DEF ServersInv, Call
<1>4. /\ pings'[s]["Retries"] = pings[s]["Retries"] + 1
      /\ pings'[s]["assumeOffline"] = pings[s]["assumeOffline"]
      /\ pings'[s]["Store"] = pings[s]["Store"]
      /\ retries'[s] = retries[s] + 1
      /\ failed'[s] = IF status[s].online THEN failed[s] + 1 ELSE failed[s]
  BY <1>1 DEF ServersInv, Call
<1>5. ServerSound(s)'
  <2>1. Sound(retries[s], pings[s]["Retries"], pings[s]["assumeOffline"], pings[s]["Store"],
              status[s].online, failed[s])
    BY <1>2 DEF ServerSound
  <2>2. pings[s]["Retries"] + pings[s]["assumeOffline"] + pings[s]["Store"] < MaxPings
    BY <1>1 DEF Under
  <2>3. failed'[s] \in Nat /\ (status[s].online => failed'[s] = failed[s] + 1)
    BY <1>2, <1>4
  <2>4. Sound(retries[s] + 1, pings[s]["Retries"] + 1, pings[s]["assumeOffline"],
              pings[s]["Store"], status[s].online, failed'[s])
    BY <2>1, <2>2, <2>3, FailSound
  <2>5. QED
    BY <1>1, <1>4, <2>4 DEF ServerSound
<1>6. ASSUME NEW x \in Target, x # s PROVE ServerSound(x)'
  <2>1. /\ status'[x] = status[x] /\ retries'[x] = retries[x]
        /\ pings'[x] = pings[x] /\ failed'[x] = failed[x]
    BY <1>1, <1>6 DEF ServersInv
  <2>2. QED
    BY <1>6, <2>1, OthersKeep
<1>7. QED
  BY <1>3, <1>5, <1>6 DEF ServersInv

LEMMA RetriesKeeps ==
    ASSUME ServersInv, NEW s \in Target, Retries(s)
    PROVE  ServersInv'
<1>1. /\ pings[s]["Retries"] > 0
      /\ pings' = [pings EXCEPT ![s]["Retries"] = @ - 1,
                                ![s]["assumeOffline"] = IF Exhausted(s) THEN @ + 1 ELSE @]
      /\ status' = status /\ retries' = retries /\ failed' = failed
  BY DEF Retries
<1>2. /\ pings[s] \in [Call -> Nat] /\ pings[s]["Retries"] \in Nat
      /\ pings[s]["assumeOffline"] \in Nat /\ ServerSound(s)
  BY ServerTypes
<1>3. /\ pings'[s] = [pings[s] EXCEPT !["Retries"] = pings[s]["Retries"] - 1,
                          !["assumeOffline"] = IF Exhausted(s) THEN pings[s]["assumeOffline"] + 1
                                               ELSE pings[s]["assumeOffline"]]
      /\ \A x \in Target : x # s => pings'[x] = pings[x]
      /\ DOMAIN pings' = Target /\ pings' = [x \in Target |-> pings'[x]]
  BY <1>1 DEF ServersInv, Call
<1>4. /\ pings'[s]["Retries"] = pings[s]["Retries"] - 1
      /\ pings'[s]["assumeOffline"] = IF Exhausted(s) THEN pings[s]["assumeOffline"] + 1
                                      ELSE pings[s]["assumeOffline"]
      /\ pings'[s]["Store"] = pings[s]["Store"]
      /\ pings'[s] \in [Call -> Nat]
  BY <1>1, <1>2, <1>3 DEF Call
<1>5. pings' \in [Target -> [Call -> Nat]]
  BY <1>3, <1>4 DEF ServersInv
<1>6. ServerSound(s)'
  <2>1. Sound(retries[s], pings[s]["Retries"], pings[s]["assumeOffline"], pings[s]["Store"],
              status[s].online, failed[s])
    BY <1>2 DEF ServerSound
  <2>2. pings'[s]["assumeOffline"] = IF retries[s] > MaxRetries
                                     THEN pings[s]["assumeOffline"] + 1
                                     ELSE pings[s]["assumeOffline"]
    BY <1>4 DEF Exhausted
  <2>3. Sound(retries[s], pings[s]["Retries"] - 1, pings'[s]["assumeOffline"],
              pings[s]["Store"], status[s].online, failed[s])
    BY <1>1, <2>1, <2>2, ReadSound
  <2>4. QED
    BY <1>1, <1>4, <2>3 DEF ServerSound
<1>7. ASSUME NEW x \in Target, x # s PROVE ServerSound(x)'
  BY <1>1, <1>3, <1>7, OthersKeep
<1>8. QED
  BY <1>1, <1>5, <1>6, <1>7 DEF ServersInv

LEMMA AssumeOfflineKeeps ==
    ASSUME ServersInv, NEW s \in Target, assumeOffline(s)
    PROVE  ServersInv'
<1>1. /\ pings[s]["assumeOffline"] > 0
      /\ status' = [status EXCEPT ![s] = Offline]
      /\ pings' = [pings EXCEPT ![s]["assumeOffline"] = @ - 1, ![s]["Store"] = @ + 1]
      /\ failed' = [failed EXCEPT ![s] = 0]
      /\ retries' = retries
  BY DEF assumeOffline
<1>2. /\ pings[s] \in [Call -> Nat] /\ pings[s]["Store"] \in Nat
      /\ pings[s]["assumeOffline"] \in Nat /\ ServerSound(s)
  BY ServerTypes
<1>3. /\ pings'[s] = [pings[s] EXCEPT !["assumeOffline"] = pings[s]["assumeOffline"] - 1,
                                      !["Store"] = pings[s]["Store"] + 1]
      /\ \A x \in Target : x # s => pings'[x] = pings[x]
      /\ DOMAIN pings' = Target /\ pings' = [x \in Target |-> pings'[x]]
  BY <1>1 DEF ServersInv, Call
<1>4. /\ pings'[s]["assumeOffline"] = pings[s]["assumeOffline"] - 1
      /\ pings'[s]["Store"] = pings[s]["Store"] + 1
      /\ pings'[s]["Retries"] = pings[s]["Retries"]
      /\ pings'[s] \in [Call -> Nat]
  BY <1>1, <1>2, <1>3 DEF Call
<1>5. /\ pings' \in [Target -> [Call -> Nat]] /\ retries' \in [Target -> Nat]
      /\ status' \in [Target -> Status] /\ failed' \in [Target -> Nat]
  BY <1>1, <1>3, <1>4 DEF ServersInv, Status
<1>6. ServerSound(s)'
  <2>1. Sound(retries[s], pings[s]["Retries"], pings[s]["assumeOffline"], pings[s]["Store"],
              status[s].online, failed[s])
    BY <1>2 DEF ServerSound
  <2>2. Sound(retries[s], pings[s]["Retries"], pings[s]["assumeOffline"] - 1,
              pings[s]["Store"] + 1, FALSE, 0)
    BY <1>1, <2>1, OfflineSound
  <2>3. status'[s].online = FALSE /\ failed'[s] = 0
    BY <1>1 DEF ServersInv, Offline
  <2>4. QED
    BY <1>1, <1>4, <2>2, <2>3 DEF ServerSound
<1>7. ASSUME NEW x \in Target, x # s PROVE ServerSound(x)'
  <2>1. status'[x] = status[x] /\ failed'[x] = failed[x]
    BY <1>1, <1>7 DEF ServersInv
  <2>2. QED
    BY <1>1, <1>3, <1>7, <2>1, OthersKeep
<1>8. QED
  BY <1>5, <1>6, <1>7 DEF ServersInv

LEMMA StoreKeeps ==
    ASSUME ServersInv, NEW s \in Target, Store(s)
    PROVE  ServersInv'
<1>1. /\ pings[s]["Store"] > 0
      /\ pings' = [pings EXCEPT ![s]["Store"] = @ - 1]
      /\ retries' = [retries EXCEPT ![s] = 0]
      /\ status' = status /\ failed' = failed
  BY DEF Store
<1>2. pings[s] \in [Call -> Nat] /\ pings[s]["Store"] \in Nat /\ ServerSound(s)
  BY ServerTypes
<1>3. /\ pings'[s] = [pings[s] EXCEPT !["Store"] = pings[s]["Store"] - 1]
      /\ \A x \in Target : x # s => pings'[x] = pings[x]
      /\ DOMAIN pings' = Target /\ pings' = [x \in Target |-> pings'[x]]
  BY <1>1 DEF ServersInv, Call
<1>4. /\ pings'[s]["Store"] = pings[s]["Store"] - 1
      /\ pings'[s]["Retries"] = pings[s]["Retries"]
      /\ pings'[s]["assumeOffline"] = pings[s]["assumeOffline"]
      /\ pings'[s] \in [Call -> Nat]
  BY <1>1, <1>2, <1>3 DEF Call
<1>5. pings' \in [Target -> [Call -> Nat]] /\ retries' \in [Target -> Nat]
  BY <1>1, <1>3, <1>4 DEF ServersInv
<1>6. ServerSound(s)'
  <2>1. Sound(retries[s], pings[s]["Retries"], pings[s]["assumeOffline"], pings[s]["Store"],
              status[s].online, failed[s])
    BY <1>2 DEF ServerSound
  <2>2. Sound(0, pings[s]["Retries"], pings[s]["assumeOffline"], pings[s]["Store"] - 1,
              status[s].online, failed[s])
    BY <1>1, <2>1, StoreSound
  <2>3. retries'[s] = 0
    BY <1>1 DEF ServersInv
  <2>4. QED
    BY <1>1, <1>4, <2>2, <2>3 DEF ServerSound
<1>7. ASSUME NEW x \in Target, x # s PROVE ServerSound(x)'
  <2>1. retries'[x] = retries[x]
    BY <1>1, <1>7 DEF ServersInv
  <2>2. QED
    BY <1>1, <1>3, <1>7, <2>1, OthersKeep
<1>8. QED
  BY <1>1, <1>5, <1>6, <1>7 DEF ServersInv

LEMMA ServersStep ==
    ASSUME ServersInv, [ServersNext]_serverVars
    PROVE  ServersInv'
<1>1. CASE UNCHANGED serverVars
  BY <1>1 DEF serverVars, ServersInv, ServerSound
<1>2. CASE ServersNext
  <2>1. PICK s \in Target : pingServer(s)
    BY <1>2 DEF ServersNext
  <2>2. QED
    BY <2>1, PingAnsweredKeeps, PingFailedKeeps, RetriesKeeps, AssumeOfflineKeeps,
       StoreKeeps DEF pingServer
<1>3. QED
  BY <1>1, <1>2

\* The inductive invariant: the failures of a server that is shown online, and
\* those its counter and its pings still allow, stay within the bound.
THEOREM ServersInvariant == ServersSpec => []ServersInv
<1>1. ServersInv /\ [ServersNext]_serverVars => ServersInv'
  BY ServersStep
<1>2. QED
  BY <1>1, ServersInvInit, PTL DEF ServersSpec

-----------------------------------------------------------------------------
(* The servers: what it shows *)

LEMMA InvTypes == ServersInv => ServersTypeOK
<1> SUFFICES ASSUME ServersInv PROVE ServersTypeOK
  OBVIOUS
<1>1. ASSUME NEW s \in Target
      PROVE  retries[s] \in 0..(MaxRetries + MaxPings) /\ pings[s] \in [Call -> 0..MaxPings]
  <2>1. /\ pings[s]["Retries"] \in 0..MaxPings
        /\ pings[s]["assumeOffline"] \in 0..MaxPings
        /\ pings[s]["Store"] \in 0..MaxPings
        /\ retries[s] \in 0..(MaxRetries + MaxPings)
    BY ServerTypes, Limits DEF ServerSound, Sound
  <2>2. pings[s] \in [Call -> Nat]
    BY ServerTypes
  <2>3. QED
    BY <2>1, <2>2 DEF Call
<1>2. QED
  BY <1>1 DEF ServersInv, ServersTypeOK

\* Type correctness: the counter of failures never runs further past maxRetries
\* than there are pings at a time.
THEOREM ServersTypes == ServersSpec => []ServersTypeOK
BY ServersInvariant, InvTypes, PTL

\* Missable is half of Bound, which is even.
LEMMA MissableIsHalf == 2 * Missable = Bound /\ Missable \in Int
<1>1. PICK k \in Int : MaxPings * (MaxPings + 1) = 2 * k
  <2>1. PICK h \in Int : MaxPings = 2 * h \/ MaxPings = 2 * h + 1
    <3>1. MaxPings = 2 * (MaxPings \div 2) \/ MaxPings = 2 * (MaxPings \div 2) + 1
      BY Limits
    <3>2. MaxPings \div 2 \in Int
      BY Limits
    <3>3. QED
      BY <3>1, <3>2
  <2>2. CASE MaxPings = 2 * h
    <3>1. MaxPings * (MaxPings + 1) = 2 * (h * (2 * h + 1))
      BY <2>1, <2>2
    <3>2. h * (2 * h + 1) \in Int
      BY <2>1
    <3>3. QED
      BY <3>1, <3>2
  <2>3. CASE MaxPings = 2 * h + 1
    <3>1. MaxPings * (MaxPings + 1) = 2 * ((2 * h + 1) * (h + 1))
      BY <2>1, <2>3
    <3>2. (2 * h + 1) * (h + 1) \in Int
      BY <2>1
    <3>3. QED
      BY <3>1, <3>2
  <2>4. QED
    BY <2>1, <2>2, <2>3
<1>2. (MaxPings * (MaxPings + 1)) \div 2 = k
  BY <1>1
<1>3. MaxPings * MaxRetries \in Int /\ Missable = MaxPings * MaxRetries + k
  BY <1>2, Limits, Products DEF Missable
<1>4. Bound = 2 * (MaxPings * MaxRetries) + MaxPings * (MaxPings + 1)
  BY Limits DEF Bound
<1>5. QED
  BY <1>1, <1>3, <1>4

LEMMA InvRecent == ServersInv => OnlineIsRecent
<1> SUFFICES ASSUME ServersInv, NEW s \in Target, status[s].online
             PROVE  failed[s] <= Missable
  BY DEF OnlineIsRecent
<1> DEFINE r == retries[s]
           a == pings[s]["Retries"]
           b == pings[s]["assumeOffline"]
           c == pings[s]["Store"]
<1>1. Sound(r, a, b, c, TRUE, failed[s])
  BY ServerTypes DEF ServerSound
<1> HIDE DEF r, a, b, c
<1>2. /\ r \in Nat /\ a \in Nat /\ b \in Nat /\ c \in Nat /\ failed[s] \in Nat
      /\ a + b + c <= MaxPings
      /\ 2 * failed[s] + 2 * ThisRound(r, a, b, c) + NextRounds(b, c) <= Bound
  BY <1>1 DEF Sound
<1>3. ThisRound(r, a, b, c) \in Nat
  BY <1>2, Limits DEF ThisRound
<1>4. NextRounds(b, c) \in Nat
  BY <1>2, Limits, RoundsFacts
<1>5. QED
  BY <1>2, <1>3, <1>4, MissableIsHalf

\* A server that stopped answering is not shown online for ever: while it is, no
\* more than Missable pings have failed since its last pong, however they overlap.
THEOREM OfflineInTime == ServersSpec => []OnlineIsRecent
BY ServersInvariant, InvRecent, PTL

-----------------------------------------------------------------------------
(* The line and the servers *)

\* Type correctness of the line and of the servers beside it.
THEOREM AllTypes == AllSpec => []AllTypeOK
<1>1. ServersInv /\ [AllNext]_allVars => ServersInv'
  <2> SUFFICES ASSUME ServersInv, [AllNext]_allVars PROVE ServersInv'
    OBVIOUS
  <2>1. [ServersNext]_serverVars
    BY DEF AllNext, allVars
  <2>2. QED
    BY <2>1, ServersStep
<1>2. AllInit => ServersInv
  BY ServersInvInit DEF AllInit
<1>3. LineInv /\ ServersInv => AllTypeOK
  BY InvTypes DEF LineInv, AllTypeOK
<1>4. QED
  BY <1>1, <1>2, <1>3, LineInvariant, PTL DEF AllSpec

=============================================================================
