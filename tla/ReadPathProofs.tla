--------------------------- MODULE ReadPathProofs ----------------------------
(***************************************************************************)
(* That the invariant of ReadPathInvariant.tla holds of every behaviour of *)
(* ReadPath.tla, and what follows: the byte cache's accounts are exact,    *)
(* point reads miss nothing, and none is older than the index it took.     *)
(***************************************************************************)
EXTENDS ReadPathInvariant, BloomProofs, RecordProofs

------------------------------------------------------------------------------
(* The byte cache's accounts.                                               *)

\* Induction over a set of naturals, from the order of the naturals being well-founded.
LEMMA NaturalsOf ==
    ASSUME NEW S, 0 \in S, \A n \in Nat : n \in S => n + 1 \in S
    PROVE  Nat \subseteq S
<1> DEFINE T == Nat \ S
<1> SUFFICES ASSUME T # {} PROVE FALSE
  OBVIOUS
<1>1. PICK m \in T : \A y \in T : m <= y
  BY T \in SUBSET Nat, MinOfNaturals
<1>2. m \in Nat \ {0}
  OBVIOUS
<1>3. m - 1 \in Nat /\ m - 1 < m /\ (m - 1) + 1 = m
  BY <1>2
<1> QED BY <1>1, <1>3

\* The numbers from 1 to n are n.
LEMMA CountTo ==
    ASSUME NEW n \in Nat
    PROVE  IsFiniteSet(1 .. n) /\ Cardinality(1 .. n) = n
<1>1. 1 \in Int /\ n \in Int
  OBVIOUS
<1>2. IsFiniteSet(1 .. n) /\ Cardinality(1 .. n) = IF 1 > n THEN 0 ELSE n - 1 + 1
  BY <1>1, FS_Interval
<1>3. (IF 1 > n THEN 0 ELSE n - 1 + 1) = n
  OBVIOUS
<1> QED
  BY <1>2, <1>3

\* One cell for each byte that the entries ents hold for the keys S: the sum Held
\* takes, as a set to be counted.
Cells(ents, S) == UNION {{x} \X (1 .. Size(ents[x].bytes)) : x \in S}

\* The bytes of finitely many entries are finitely many cells.
LEMMA CellsFinite ==
    ASSUME NEW ents, NEW S, IsFiniteSet(S), \A x \in S : Size(ents[x].bytes) \in Nat
    PROVE  IsFiniteSet(Cells(ents, S))
<1> DEFINE f == [x \in S |-> {x} \X (1 .. Size(ents[x].bytes))]
           T == {{x} \X (1 .. Size(ents[x].bytes)) : x \in S}
<1>1. f \in Surjection(S, T)
  BY DEF Surjection
<1>2. IsFiniteSet(T)
  BY <1>1, FS_Surjection
<1>3. \A t \in T : IsFiniteSet(t)
  <2> SUFFICES ASSUME NEW x \in S PROVE IsFiniteSet({x} \X (1 .. Size(ents[x].bytes)))
    OBVIOUS
  <2>1. IsFiniteSet({x}) /\ IsFiniteSet(1 .. Size(ents[x].bytes))
    BY FS_Singleton, CountTo
  <2> QED BY <2>1, FS_Product
<1> QED
  BY <1>2, <1>3, FS_UNION DEF Cells

\* One entry has as many cells as bytes.
LEMMA CellsOfOne ==
    ASSUME NEW ents, NEW x, Size(ents[x].bytes) \in Nat
    PROVE  IsFiniteSet(Cells(ents, {x})) /\ Cardinality(Cells(ents, {x})) = Size(ents[x].bytes)
<1> DEFINE n == Size(ents[x].bytes)
<1>0. n \in Nat
  OBVIOUS
<1>1. Cells(ents, {x}) = {x} \X (1 .. n)
  BY DEF Cells
<1> HIDE DEF n
<1>2. IsFiniteSet({x}) /\ Cardinality({x}) = 1
  BY FS_Singleton
<1>3. IsFiniteSet(1 .. n) /\ Cardinality(1 .. n) = n
  BY <1>0, CountTo
<1>4. Cardinality({x} \X (1 .. n)) = Cardinality({x}) * Cardinality(1 .. n)
  BY <1>2, <1>3, FS_Product
<1>5. IsFiniteSet({x} \X (1 .. n))
  BY <1>2, <1>3, FS_Product
<1>6. Cardinality(Cells(ents, {x})) = n
  <2>1. 1 * n = n
    BY <1>0
  <2> QED BY <1>1, <1>2, <1>3, <1>4, <2>1
<1> QED
  BY <1>1, <1>5, <1>6 DEF n

\* Different keys have different cells.
LEMMA CellsOfUnion ==
    ASSUME NEW ents, NEW S, NEW T, IsFiniteSet(S), IsFiniteSet(T), S \cap T = {},
           \A x \in S \cup T : Size(ents[x].bytes) \in Nat
    PROVE  Cardinality(Cells(ents, S \cup T)) = Cardinality(Cells(ents, S)) + Cardinality(Cells(ents, T))
<1>1. IsFiniteSet(Cells(ents, S)) /\ IsFiniteSet(Cells(ents, T))
  BY CellsFinite
<1>2. Cells(ents, S \cup T) = Cells(ents, S) \cup Cells(ents, T)
  BY DEF Cells
<1>3. Cells(ents, S) \cap Cells(ents, T) = {}
  BY DEF Cells
<1>4. /\ Cardinality(Cells(ents, S)) \in Nat
      /\ Cardinality(Cells(ents, T)) \in Nat
  BY <1>1, FS_CardinalityType
<1>5. Cardinality(Cells(ents, S) \cup Cells(ents, T))
        = Cardinality(Cells(ents, S)) + Cardinality(Cells(ents, T)) - Cardinality({})
  BY <1>1, <1>3, FS_Union
<1>6. Cardinality({}) = 0
  BY FS_EmptySet
<1>7. \A a, b \in Nat : a + b - 0 = a + b
  OBVIOUS
<1> QED
  BY <1>2, <1>4, <1>5, <1>6, <1>7

\* Held, a fold over its set in an order of the library's choosing, is that count.
LEMMA HeldCounts ==
    ASSUME NEW ents, NEW S, IsFiniteSet(S), \A x \in S : Size(ents[x].bytes) \in Nat
    PROVE  Held(ents, S) = Cardinality(Cells(ents, S)) /\ Held(ents, S) \in Nat
<1> DEFINE c(s) == CHOOSE x \in s : TRUE
           Is(it) == it = [s \in SUBSET S |->
                             IF s = {} THEN 0 ELSE Size(ents[c(s)].bytes) + it[s \ {c(s)}]]
           count == [s \in SUBSET S |-> Cardinality(Cells(ents, s))]
<1>1. Held(ents, S) = (CHOOSE it : Is(it))[S]
  BY DEF Held, MapThenSumSet, MapThenFoldSet
<1>2. \A s \in SUBSET S : IsFiniteSet(s)
  BY FS_Subset
<1>3. \A s \in SUBSET S : s # {} => c(s) \in s
  OBVIOUS
<1>4. ASSUME NEW s \in SUBSET S, s # {}
      PROVE  count[s] = Size(ents[c(s)].bytes) + count[s \ {c(s)}]
  <2> DEFINE x == c(s)
  <2>1. x \in s
    BY <1>3, <1>4
  <2> HIDE DEF x
  <2>2. IsFiniteSet({x}) /\ IsFiniteSet(s \ {x}) /\ s \ {x} \in SUBSET S
    BY <1>2, FS_Singleton
  <2>3. s = {x} \cup (s \ {x}) /\ {x} \cap (s \ {x}) = {}
    BY <2>1
  <2>4. Cardinality(Cells(ents, {x} \cup (s \ {x})))
          = Cardinality(Cells(ents, {x})) + Cardinality(Cells(ents, s \ {x}))
    BY <2>1, <2>2, <2>3, CellsOfUnion
  <2>5. Cardinality(Cells(ents, {x})) = Size(ents[x].bytes)
    BY <2>1, CellsOfOne
  <2> QED BY <2>2, <2>3, <2>4, <2>5 DEF x
<1>5. count[{}] = 0
  BY FS_EmptySet DEF Cells
<1>6. Is(count)
  BY <1>4, <1>5
<1>7. PICK it : it = (CHOOSE i : Is(i)) /\ Is(it)
  BY <1>6
<1> DEFINE N == {n \in Nat : \A s \in SUBSET S : Cardinality(s) = n => it[s] = count[s]}
<1>8. 0 \in N
  <2> SUFFICES ASSUME NEW s \in SUBSET S, Cardinality(s) = 0 PROVE it[s] = count[s]
    OBVIOUS
  <2>1. s = {}
    BY <1>2, FS_EmptySet
  <2> QED BY <1>5, <1>7, <2>1
<1>9. ASSUME NEW n \in Nat, n \in N PROVE n + 1 \in N
  <2> HIDE DEF count
  <2> SUFFICES ASSUME NEW s \in SUBSET S, Cardinality(s) = n + 1 PROVE it[s] = count[s]
    <3>1. n + 1 \in Nat
      OBVIOUS
    <3> QED BY <3>1
  <2>1. s # {}
    BY FS_EmptySet
  <2>2. c(s) \in s
    BY <1>3, <2>1
  <2>3. s \ {c(s)} \in SUBSET S /\ Cardinality(s \ {c(s)}) = n
    <3>1. Cardinality(s \ {c(s)}) = Cardinality(s) - 1
      BY <1>2, <2>2, FS_RemoveElement
    <3> QED BY <3>1
  <2>4. it[s \ {c(s)}] = count[s \ {c(s)}]
    BY <1>9, <2>3
  <2>5. it[s] = Size(ents[c(s)].bytes) + it[s \ {c(s)}]
    BY <1>7, <2>1
  <2> QED BY <1>4, <2>1, <2>4, <2>5
<1>10. Nat \subseteq N
  <2> HIDE DEF N
  <2> QED BY <1>8, <1>9, NaturalsOf
<1>11. it[S] = count[S]
  BY <1>10, FS_CardinalityType
<1>12. IsFiniteSet(Cells(ents, S))
  BY CellsFinite
<1> QED
  BY <1>1, <1>7, <1>11, <1>12, FS_CardinalityType

\* What two disjoint sets of keys hold adds up.
LEMMA HeldSplits ==
    ASSUME NEW ents, NEW S, NEW T, IsFiniteSet(S), IsFiniteSet(T), S \cap T = {},
           \A x \in S \cup T : Size(ents[x].bytes) \in Nat
    PROVE  Held(ents, S \cup T) = Held(ents, S) + Held(ents, T)
<1>1. IsFiniteSet(S \cup T)
  BY FS_Union
<1>2. /\ Held(ents, S) = Cardinality(Cells(ents, S))
      /\ Held(ents, T) = Cardinality(Cells(ents, T))
      /\ Held(ents, S \cup T) = Cardinality(Cells(ents, S \cup T))
  BY <1>1, HeldCounts
<1> QED
  BY <1>2, CellsOfUnion

\* What is held depends on the bytes of the entries alone, not on their ticks.
LEMMA HeldSame ==
    ASSUME NEW e, NEW f, NEW S, IsFiniteSet(S), \A x \in S : Size(e[x].bytes) \in Nat,
           \A x \in S : f[x].bytes = e[x].bytes
    PROVE  Held(f, S) = Held(e, S)
<1>1. Cells(f, S) = Cells(e, S)
  BY DEF Cells
<1>2. \A x \in S : Size(f[x].bytes) \in Nat
  OBVIOUS
<1>3. Held(e, S) = Cardinality(Cells(e, S)) /\ Held(f, S) = Cardinality(Cells(f, S))
  BY <1>2, HeldCounts
<1> QED
  BY <1>1, <1>3

\* One key holds the bytes of its entry.
LEMMA HeldOne ==
    ASSUME NEW e, NEW x, Size(e[x].bytes) \in Nat
    PROVE  Held(e, {x}) = Size(e[x].bytes)
<1>1. IsFiniteSet({x})
  BY FS_Singleton
<1>2. Held(e, {x}) = Cardinality(Cells(e, {x}))
  BY <1>1, HeldCounts
<1> QED
  BY <1>2, CellsOfOne

------------------------------------------------------------------------------
(* Its two maps.                                                            *)

\* MapsAgree, of any two maps.
Agree(ents, rec) ==
    /\ \A k \in DOMAIN ents : ents[k].tick \in DOMAIN rec /\ rec[ents[k].tick] = k
    /\ \A t \in DOMAIN rec : rec[t] \in DOMAIN ents /\ ents[rec[t]].tick = t

\* Evicting some ticks with the keys they name leaves the maps inverse.
LEMMA AgreeWithout ==
    ASSUME NEW ents, NEW rec, Agree(ents, rec), NEW T \in SUBSET DOMAIN rec
    PROVE  Agree(Without(ents, {rec[t] : t \in T}), Without(rec, T))
  BY DEF Agree, Without

\* So does a new key under a new tick.
LEMMA AgreeWith ==
    ASSUME NEW ents, NEW rec, Agree(ents, rec), NEW k, k \notin DOMAIN ents,
           NEW t, t \notin DOMAIN rec, NEW b
    PROVE  Agree(With(ents, k, [bytes |-> b, tick |-> t]), With(rec, t, k))
  BY DEF Agree, With

\* There are no more entries than ticks.
LEMMA AgreeFinite ==
    ASSUME NEW ents, NEW rec, Agree(ents, rec), IsFiniteSet(DOMAIN rec)
    PROVE  IsFiniteSet(DOMAIN ents)
<1> DEFINE f == [k \in DOMAIN ents |-> ents[k].tick]
<1>1. f \in Injection(DOMAIN ents, DOMAIN rec)
  BY DEF Agree, Injection, IsInjective
<1> QED
  BY <1>1, FS_Injection

\* The loop that evicts ends with room for the n bytes, having evicted by ticks, the
\* oldest first, and none more than it had to.
LEMMA VictimsMakeRoom ==
    ASSUME NEW ents, NEW rec, Agree(ents, rec), NEW m \in Nat, DOMAIN rec \subseteq 1 .. m,
           \A x \in DOMAIN ents : Size(ents[x].bytes) \in Nat,
           NEW n \in Nat, n <= MaxBytes
    PROVE  LET out  == Victims(ents, rec, Held(ents, DOMAIN ents), n)
               gone == {rec[t] : t \in out}
           IN  /\ out \in SUBSET DOMAIN rec
               /\ SaturatingSub(Held(ents, DOMAIN ents), Held(ents, gone)) + n <= MaxBytes
               /\ \A t \in out, u \in DOMAIN rec : u <= t => u \in out
               /\ \A T \in SUBSET DOMAIN rec :
                     /\ \A t \in T, u \in DOMAIN rec : u <= t => u \in T
                     /\ SaturatingSub(Held(ents, DOMAIN ents), Held(ents, {rec[t] : t \in T})) + n <= MaxBytes
                     => out \subseteq T
<1> DEFINE res == Held(ents, DOMAIN ents)
           oldest(t) == {u \in DOMAIN rec : u <= t}
           room(T)   == SaturatingSub(res, Held(ents, {rec[u] : u \in T} \cap DOMAIN ents)) + n <= MaxBytes
           enough    == {T \in {oldest(t) : t \in DOMAIN rec \cup {0}} : room(T)}
           out  == Victims(ents, rec, res, n)
<1>1. DOMAIN rec \subseteq Nat /\ IsFiniteSet(DOMAIN rec) /\ IsFiniteSet(DOMAIN ents)
  <2>1. IsFiniteSet(1 .. m)
    BY CountTo
  <2>2. IsFiniteSet(DOMAIN rec)
    BY <2>1, FS_Subset
  <2> QED BY <2>2, AgreeFinite
<1>2. res \in Nat
  BY <1>1, HeldCounts
<1>3. {rec[u] : u \in DOMAIN rec} \cap DOMAIN ents = DOMAIN ents
  BY DEF Agree
<1>4. room(DOMAIN rec)
  <2>1. SaturatingSub(res, res) + n = n
    BY <1>2 DEF SaturatingSub
  <2> QED BY <1>3, <2>1
<1>5. \E t \in DOMAIN rec \cup {0} : oldest(t) = DOMAIN rec
  <2>1. CASE DOMAIN rec = {}
    BY <2>1
  <2>2. CASE DOMAIN rec # {}
    <3>1. DOMAIN rec \in SUBSET (0 .. m)
      OBVIOUS
    <3>2. Max(DOMAIN rec) \in DOMAIN rec /\ \A x \in DOMAIN rec : x <= Max(DOMAIN rec)
      BY <2>2, <3>1, MaxOfBounded
    <3> QED BY <3>2
  <2> QED BY <2>1, <2>2
<1>6. DOMAIN rec \in enough
  BY <1>4, <1>5
<1> DEFINE ticks == {t \in DOMAIN rec \cup {0} : room(oldest(t))}
<1>7. ticks \in SUBSET Nat /\ ticks # {}
  BY <1>1, <1>4, <1>5
<1>8. PICK t \in ticks : \A u \in ticks : t <= u
  BY <1>7, MinOfNaturals
<1>9. oldest(t) \in enough
  BY <1>8
<1>10. \A U \in enough : oldest(t) \subseteq U
  <2> SUFFICES ASSUME NEW u \in DOMAIN rec \cup {0}, room(oldest(u)), NEW x \in DOMAIN rec, x <= t
               PROVE  x <= u
    OBVIOUS
  <2>1. t <= u
    BY <1>8
  <2> QED BY <1>1, <1>7, <2>1
<1>11. out = CHOOSE T \in enough : \A U \in enough : T \subseteq U
  BY <1>6 DEF Victims
<1>12. out \in enough
  <2> HIDE DEF enough, out
  <2> QED BY <1>9, <1>10, <1>11
<1>13. out \in SUBSET DOMAIN rec /\ room(out)
  <2> HIDE DEF out, room
  <2> QED BY <1>12
<1>14. {rec[t1] : t1 \in out} \cap DOMAIN ents = {rec[t1] : t1 \in out}
  <2> HIDE DEF out, room
  <2> QED BY <1>13 DEF Agree
<1>15. \A U \in enough : out \subseteq U
  <2> HIDE DEF enough, out
  <2> QED BY <1>9, <1>10, <1>11
<1>16. \A t1 \in out, u \in DOMAIN rec : u <= t1 => u \in out
  <2>1. PICK t2 \in DOMAIN rec \cup {0} : out = oldest(t2)
    <3> HIDE DEF out, room, oldest
    <3> QED BY <1>12
  <2> HIDE DEF out
  <2> QED BY <1>1, <2>1
<1>17. ASSUME NEW T \in SUBSET DOMAIN rec, \A t1 \in T, u \in DOMAIN rec : u <= t1 => u \in T,
              SaturatingSub(res, Held(ents, {rec[t1] : t1 \in T})) + n <= MaxBytes
       PROVE  out \subseteq T
  <2>1. {rec[u] : u \in T} \cap DOMAIN ents = {rec[t1] : t1 \in T}
    BY DEF Agree
  <2>2. room(T)
    BY <1>17, <2>1
  <2>3. \E t1 \in DOMAIN rec \cup {0} : T = oldest(t1)
    <3>1. CASE T = {}
      <4>1. oldest(0) = {}
        OBVIOUS
      <4> QED BY <3>1, <4>1
    <3>2. CASE T # {}
      <4>1. T \in SUBSET (0 .. m)
        OBVIOUS
      <4>2. Max(T) \in T /\ \A x \in T : x <= Max(T)
        BY <3>2, <4>1, MaxOfBounded
      <4>3. T = oldest(Max(T))
        BY <1>1, <1>17, <4>2
      <4> QED BY <4>2, <4>3
    <3> QED BY <3>1, <3>2
  <2>4. T \in enough
    <3> HIDE DEF room, oldest
    <3> QED BY <2>2, <2>3
  <2> HIDE DEF enough, out
  <2> QED BY <1>15, <2>4
<1> QED
  <2> HIDE DEF out
  <2>1. out \in SUBSET DOMAIN rec /\ SaturatingSub(res, Held(ents, {rec[t1] : t1 \in out})) + n <= MaxBytes
    BY <1>13, <1>14
  <2> QED BY <1>16, <1>17, <2>1 DEF out

\* So what stays is the most of the recently used that leaves room.
LEMMA KeepsTheRecent ==
    ASSUME NEW ents, NEW rec, Agree(ents, rec), NEW m \in Nat, DOMAIN rec \subseteq 1 .. m,
           \A x \in DOMAIN ents : Size(ents[x].bytes) \in Nat,
           NEW n \in Nat, n <= MaxBytes
    PROVE  LET out      == Victims(ents, rec, Held(ents, DOMAIN ents), n)
               kept     == DOMAIN ents \ {rec[t] : t \in out}
               later(S) == \A x \in S, y \in DOMAIN ents : ents[x].tick < ents[y].tick => y \in S
               fits(S)  == Held(ents, S) + n <= MaxBytes
           IN  /\ later(kept) /\ fits(kept)
               /\ \A S \in SUBSET DOMAIN ents : later(S) /\ fits(S) => S \subseteq kept
<1> DEFINE res      == Held(ents, DOMAIN ents)
           out      == Victims(ents, rec, res, n)
           gone     == {rec[t] : t \in out}
           kept     == DOMAIN ents \ gone
           later(S) == \A x \in S, y \in DOMAIN ents : ents[x].tick < ents[y].tick => y \in S
           fits(S)  == Held(ents, S) + n <= MaxBytes
<1>1. /\ out \in SUBSET DOMAIN rec
      /\ SaturatingSub(res, Held(ents, gone)) + n <= MaxBytes
      /\ \A t \in out, u \in DOMAIN rec : u <= t => u \in out
      /\ \A T \in SUBSET DOMAIN rec :
            /\ \A t \in T, u \in DOMAIN rec : u <= t => u \in T
            /\ SaturatingSub(res, Held(ents, {rec[t] : t \in T})) + n <= MaxBytes
            => out \subseteq T
  BY VictimsMakeRoom
<1> HIDE DEF out, res
<1>2. DOMAIN rec \subseteq Nat /\ IsFiniteSet(DOMAIN ents)
  <2>1. IsFiniteSet(DOMAIN rec)
    BY CountTo, FS_Subset
  <2> QED BY <2>1, AgreeFinite
<1>3. ASSUME NEW S \in SUBSET DOMAIN ents
      PROVE  SaturatingSub(res, Held(ents, DOMAIN ents \ S)) = Held(ents, S)
  <2>1. IsFiniteSet(S) /\ IsFiniteSet(DOMAIN ents \ S)
    BY <1>2, FS_Subset
  <2>2. Held(ents, S \cup (DOMAIN ents \ S)) = Held(ents, S) + Held(ents, DOMAIN ents \ S)
    BY <2>1, HeldSplits
  <2>3. Held(ents, S) \in Nat /\ Held(ents, DOMAIN ents \ S) \in Nat
    BY <2>1, HeldCounts
  <2>4. S \cup (DOMAIN ents \ S) = DOMAIN ents
    OBVIOUS
  <2>5. res = Held(ents, S) + Held(ents, DOMAIN ents \ S)
    BY <2>2, <2>4 DEF res
  <2> QED BY <2>3, <2>5 DEF SaturatingSub
<1>4. gone \subseteq DOMAIN ents
  BY <1>1 DEF Agree
<1>5. fits(kept)
  <2>1. DOMAIN ents \ kept = gone /\ kept \in SUBSET DOMAIN ents
    BY <1>4
  <2> HIDE DEF gone, kept
  <2> QED BY <1>1, <1>3, <2>1
<1>6. later(kept)
  <2> SUFFICES ASSUME NEW x \in DOMAIN ents, NEW y \in DOMAIN ents, ents[x].tick < ents[y].tick, y \in gone
               PROVE  x \in gone
    OBVIOUS
  <2>1. PICK t \in out : y = rec[t]
    OBVIOUS
  <2>2. ents[y].tick = t /\ ents[x].tick \in DOMAIN rec /\ rec[ents[x].tick] = x
    BY <1>1, <2>1 DEF Agree
  <2>3. ents[x].tick <= t
    BY <1>1, <1>2, <2>2
  <2> QED BY <1>1, <2>2, <2>3
<1>7. ASSUME NEW S \in SUBSET DOMAIN ents, later(S), fits(S) PROVE S \subseteq kept
  <2> DEFINE T == {ents[x].tick : x \in DOMAIN ents \ S}
  <2>1. T \in SUBSET DOMAIN rec /\ {rec[t] : t \in T} = DOMAIN ents \ S
    BY DEF Agree
  <2>2. ASSUME NEW t \in T, NEW u \in DOMAIN rec, u <= t PROVE u \in T
    <3>1. PICK x \in DOMAIN ents \ S : t = ents[x].tick
      OBVIOUS
    <3>2. rec[u] \in DOMAIN ents /\ ents[rec[u]].tick = u /\ rec[t] = x
      BY <3>1 DEF Agree
    <3>3. CASE u = t
      BY <3>3
    <3>4. CASE u < t
      BY <1>7, <3>1, <3>2, <3>4
    <3>5. t \in Nat /\ u \in Nat
      <4> HIDE DEF T
      <4> QED BY <1>2, <2>1, <2>2
    <3> QED BY <2>2, <3>3, <3>4, <3>5
  <2>3. SaturatingSub(res, Held(ents, {rec[t] : t \in T})) + n <= MaxBytes
    BY <1>3, <1>7, <2>1
  <2>4. out \subseteq T
    <3> HIDE DEF T
    <3> QED BY <1>1, <2>1, <2>2, <2>3
  <2> QED BY <2>1, <2>4
<1> QED
  <2> HIDE DEF kept
  <2>1. later(kept) /\ fits(kept) /\ \A S \in SUBSET DOMAIN ents : later(S) /\ fits(S) => S \subseteq kept
    BY <1>5, <1>6, <1>7
  <2> QED BY <2>1 DEF kept, out, res

\* What the invariant says of the cache, as the lemmas on its operations need it.
LEMMA CacheFacts ==
    ASSUME CacheInv
    PROVE  /\ Agree(entries, by_recency)
           /\ tick \in Nat /\ DOMAIN by_recency \subseteq 1 .. tick
           /\ IsFiniteSet(DOMAIN entries)
           /\ \A x \in DOMAIN entries : Size(entries[x].bytes) \in Nat
           /\ resident = Held(entries, DOMAIN entries) /\ resident <= MaxBytes
<1>1. Agree(entries, by_recency)
  BY DEF CacheInv, MapsAgree, Agree
<1>2. tick \in Nat /\ DOMAIN by_recency \subseteq 1 .. tick
  BY CacheAssumption DEF CacheInv, CacheTypeOK
<1>3. IsFiniteSet(DOMAIN entries)
  <2>1. IsFiniteSet(DOMAIN by_recency)
    BY <1>2, CountTo, FS_Subset
  <2> QED BY <1>1, <2>1, AgreeFinite
<1>4. \A x \in DOMAIN entries : Size(entries[x].bytes) \in Nat
  BY CacheAssumption DEF CacheInv, CacheTypeOK, Size
<1> QED
  BY <1>1, <1>2, <1>3, <1>4 DEF CacheInv, ResidentIsExact

\* Where bytes are cached under their own key, the weight of some keys is what is held
\* for them.
LEMMA WeightIsHeld ==
    ASSUME NEW ents, NEW S, \A x \in S : ents[x].bytes = x
    PROVE  LRU!Weight(S) = Held(ents, S)
<1> DEFINE c(s) == CHOOSE x \in s : TRUE
           Is(it) == it = [s \in SUBSET S |->
                             IF s = {} THEN 0 ELSE Size(ents[c(s)].bytes) + it[s \ {c(s)}]]
           IsW(it) == it = [s \in SUBSET S |->
                              IF s = {} THEN 0 ELSE Size(c(s)) + it[s \ {c(s)}]]
<1>1. Held(ents, S) = (CHOOSE it : Is(it))[S]
  BY DEF Held, MapThenSumSet, MapThenFoldSet
<1>2. LRU!Weight(S) = (CHOOSE it : IsW(it))[S]
  BY DEF LRU!Weight, LRU!MapThenSumSet, LRU!MapThenFoldSet
<1>3. \A s \in SUBSET S : s # {} => ents[c(s)].bytes = c(s)
  OBVIOUS
<1>4. \A it : Is(it) <=> IsW(it)
  BY <1>3
<1>5. (CHOOSE it : Is(it)) = (CHOOSE it : IsW(it))
  <2> HIDE DEF Is, IsW
  <2> QED BY <1>4, Zenon
<1> QED
  BY <1>1, <1>2, <1>5

\* A new tick is above all others, so a key that gets one is the most recent, and the
\* keys that keep theirs keep their order.
LEMMA NewTickIsLast ==
    ASSUME CacheInv, NEW S \in SUBSET DOMAIN entries, NEW k \in CacheKeys, k \notin S,
           DOMAIN entries' = S \cup {k}, entries'[k].tick = tick + 1,
           \A x \in S : entries'[x].tick = entries[x].tick
    PROVE  LRU!UsedLast(S, k)
<1>1. \A x \in DOMAIN entries : entries[x].tick \in Nat /\ entries[x].tick < tick + 1
  <2>1. /\ Agree(entries, by_recency)
        /\ tick \in Nat /\ DOMAIN by_recency \subseteq 1 .. tick
    BY CacheFacts
  <2> QED BY <2>1 DEF Agree
<1>2. tick \in Nat
  BY CacheFacts
<1>3. ASSUME NEW x, NEW y
      PROVE  <<x, y>> \in ByRecency' <=> <<x, y>> \in (ByRecency \cap (S \X S)) \cup (S \X {k})
  <2>1. <<x, y>> \in ByRecency <=>
            x \in DOMAIN entries /\ y \in DOMAIN entries /\ entries[x].tick < entries[y].tick
    BY DEF ByRecency
  <2>2. <<x, y>> \in ByRecency' <=>
            x \in DOMAIN entries' /\ y \in DOMAIN entries' /\ entries'[x].tick < entries'[y].tick
    BY DEF ByRecency
  <2>3. CASE x \in S /\ y \in S
    BY <2>1, <2>2, <2>3
  <2>4. CASE x \in S /\ y = k
    BY <1>1, <2>2, <2>4
  <2>5. CASE x = k /\ y \in S
    BY <1>1, <1>2, <2>2, <2>5
  <2>6. CASE x = k /\ y = k
    BY <1>2, <2>2, <2>6
  <2>7. CASE x \notin S \cup {k} \/ y \notin S \cup {k}
    BY <2>2, <2>7
  <2> QED BY <2>3, <2>4, <2>5, <2>6, <2>7
<1>4. ByRecency' = (ByRecency \cap (S \X S)) \cup (S \X {k})
  <2>1. \A p \in ByRecency' : \E x, y : p = <<x, y>>
    BY DEF ByRecency
  <2>2. \A p \in (ByRecency \cap (S \X S)) \cup (S \X {k}) : \E x, y : p = <<x, y>>
    OBVIOUS
  <2> QED BY <1>3, <2>1, <2>2
<1> QED
  BY <1>4 DEF LRU!UsedLast

\* ByteCache::get.
LEMMA HitStep ==
    ASSUME CacheInv, NEW k, CacheHit(k)
    PROVE  CacheInv' /\ k \in CacheKeys /\ LRU!Use(k)
<1> DEFINE t0 == entries[k].tick
           e0 == Without(entries, {k})
           r0 == Without(by_recency, {t0})
<1>0. /\ k \in DOMAIN entries /\ tick < MaxTick /\ tick' = tick + 1 /\ resident' = resident
      /\ by_recency' = With(r0, tick + 1, k)
      /\ entries' = [entries EXCEPT ![k].tick = tick + 1]
  BY DEF CacheHit, Absent, NextTick
<1>1. /\ Agree(entries, by_recency) /\ tick \in Nat /\ DOMAIN by_recency \subseteq 1 .. tick
      /\ MaxTick \in Nat
  BY CacheFacts, CacheAssumption
<1>2. t0 \in DOMAIN by_recency /\ by_recency[t0] = k
  BY <1>0, <1>1 DEF Agree
<1>3. /\ entries \in [DOMAIN entries -> [bytes : CacheKeys, tick : 1 .. MaxTick]]
      /\ DOMAIN entries \subseteq CacheKeys
      /\ by_recency \in [DOMAIN by_recency -> CacheKeys] /\ resident \in Nat
      /\ \A x \in DOMAIN entries : entries[x].bytes = x
  BY DEF CacheInv, CacheTypeOK
<1>4. /\ DOMAIN entries' = DOMAIN entries
      /\ \A x \in DOMAIN entries : /\ entries'[x].bytes = entries[x].bytes
                                   /\ x # k => entries'[x] = entries[x]
      /\ entries'[k] = [bytes |-> entries[k].bytes, tick |-> tick + 1]
  BY <1>0, <1>3
<1>5. entries' = With(e0, k, [bytes |-> entries[k].bytes, tick |-> tick + 1])
  <2>1. DOMAIN e0 \cup {k} = DOMAIN entries
    BY <1>0 DEF Without
  <2>2. \A x \in DOMAIN e0 : e0[x] = entries[x] /\ x # k
    BY DEF Without
  <2>3. entries' = [x \in DOMAIN entries |-> IF x = k THEN [bytes |-> entries[k].bytes, tick |-> tick + 1]
                                             ELSE entries[x]]
    <3>1. entries' = [entries EXCEPT ![k] = [@ EXCEPT !.tick = tick + 1]]
      BY <1>0
    <3>2. [entries[k] EXCEPT !.tick = tick + 1] = [bytes |-> entries[k].bytes, tick |-> tick + 1]
      BY <1>0, <1>3
    <3> QED BY <1>0, <1>3, <3>1, <3>2
  <2>4. \A x \in DOMAIN entries : x # k => e0[x] = entries[x]
    BY DEF Without
  <2> HIDE DEF e0
  <2> QED BY <2>1, <2>3, <2>4 DEF With
<1>6. Agree(e0, r0)
  <2>1. {by_recency[t] : t \in {t0}} = {k}
    BY <1>2
  <2>2. {t0} \in SUBSET DOMAIN by_recency
    BY <1>2
  <2>3. Agree(Without(entries, {by_recency[t] : t \in {t0}}), Without(by_recency, {t0}))
    BY <1>1, <2>2, AgreeWithout
  <2> QED BY <2>1, <2>3
<1>7. DOMAIN r0 \subseteq 1 .. tick /\ tick + 1 \notin DOMAIN r0 /\ k \notin DOMAIN e0
  BY <1>1 DEF Without
<1>8. Agree(entries', by_recency')
  <2> HIDE DEF e0, r0
  <2> DEFINE b == entries[k].bytes
             t == tick + 1
  <2> HIDE DEF b, t
  <2>1. k \notin DOMAIN e0 /\ t \notin DOMAIN r0
    BY <1>7 DEF t
  <2>2. Agree(With(e0, k, [bytes |-> b, tick |-> t]), With(r0, t, k))
    BY <1>6, <2>1, AgreeWith
  <2> QED BY <1>0, <1>5, <2>2 DEF b, t
<1>9. MapsAgree'
  BY <1>8 DEF Agree, MapsAgree
<1>10. CacheTypeOK'
  <2>1. tick' \in 0 .. MaxTick /\ tick + 1 \in 1 .. MaxTick
    BY <1>0, <1>1
  <2>2. DOMAIN by_recency' \subseteq 1 .. tick' /\ by_recency' \in [DOMAIN by_recency' -> CacheKeys]
    <3>1. r0 \in [DOMAIN r0 -> CacheKeys]
      BY <1>3 DEF Without
    <3>2. DOMAIN by_recency' = DOMAIN r0 \cup {tick + 1}
      BY <1>0 DEF With
    <3>3. k \in CacheKeys
      BY <1>0, <1>3
    <3>4. by_recency' \in [DOMAIN by_recency' -> CacheKeys]
      <4> HIDE DEF r0
      <4> QED BY <1>0, <3>1, <3>2, <3>3 DEF With
    <3>5. DOMAIN by_recency' \subseteq 1 .. tick + 1
      <4> HIDE DEF r0
      <4> QED BY <1>1, <1>7, <3>2
    <3> QED BY <1>0, <3>4, <3>5
  <2>3. entries' \in [DOMAIN entries' -> [bytes : CacheKeys, tick : 1 .. MaxTick]]
    BY <1>0, <1>3, <1>4, <2>1
  <2> QED BY <1>0, <1>3, <1>4, <2>1, <2>2, <2>3 DEF CacheTypeOK
<1>11. ResidentIsExact'
  <2>1. Held(entries', DOMAIN entries) = Held(entries, DOMAIN entries)
    BY <1>4, CacheFacts, HeldSame
  <2>2. resident' = Held(entries', DOMAIN entries') /\ resident' <= MaxBytes
    BY <1>0, <1>4, <2>1, CacheFacts
  <2> QED BY <2>2 DEF ResidentIsExact
<1>12. (\A x \in DOMAIN entries : entries[x].bytes = x)'
  BY <1>3, <1>4
<1>13. k \in CacheKeys /\ LRU!Use(k)
  <2> DEFINE S == DOMAIN entries \ {k}
  <2>1. /\ k \in CacheKeys /\ k \notin S /\ S \in SUBSET DOMAIN entries
        /\ DOMAIN entries' = S \cup {k} /\ entries'[k].tick = tick + 1
        /\ \A x \in S : entries'[x].tick = entries[x].tick
    <3>1. entries'[k].tick = tick + 1
      BY <1>4
    <3>2. \A x \in S : entries'[x] = entries[x]
      BY <1>4
    <3>3. DOMAIN entries' = DOMAIN entries /\ k \in DOMAIN entries /\ DOMAIN entries \subseteq CacheKeys
      BY <1>0, <1>3, <1>4
    <3> QED BY <3>1, <3>2, <3>3
  <2>2. LRU!UsedLast(S, k)
    <3> HIDE DEF S
    <3> QED BY <2>1, NewTickIsLast
  <2> QED BY <1>0, <2>1, <2>2 DEF LRU!Use
<1> QED
  BY <1>9, <1>10, <1>11, <1>12, <1>13 DEF CacheInv

\* ByteCache::insert of bytes under their own key, there already or not.
LEMMA InsertStep ==
    ASSUME CacheInv, NEW b \in CacheKeys, CacheInsert(b, b)
    PROVE  CacheInv' /\ (LRU!Admit(b) \/ UNCHANGED cacheVars)
<1>1. CASE UNCHANGED cacheVars
  BY <1>1 DEF cacheVars, CacheInv, CacheTypeOK, MapsAgree, ResidentIsExact
<1>2. CASE ~ UNCHANGED cacheVars
  <2> DEFINE n     == Size(b)
             there == {b} \cap DOMAIN entries
             old   == {entries[j].tick : j \in there}
             ents  == Without(entries, there)
             rec   == Without(by_recency, old)
             res   == Released(b, n)
             out   == Victims(ents, rec, res, n)
             gone  == {rec[t] : t \in out} \cap DOMAIN ents
             e0    == Without(ents, gone)
             r0    == Without(rec, out)
             t1    == tick + 1
  <2>0. /\ n <= MaxBytes /\ tick < MaxTick /\ tick' = t1
        /\ entries' = With(e0, b, [bytes |-> b, tick |-> t1])
        /\ by_recency' = With(r0, t1, b)
        /\ resident' = SaturatingSub(res, Held(ents, gone)) + n
    BY <1>2 DEF CacheInsert, NextTick
  <2>1. /\ Agree(entries, by_recency) /\ tick \in Nat /\ DOMAIN by_recency \subseteq 1 .. tick
        /\ IsFiniteSet(DOMAIN entries)
        /\ \A x \in DOMAIN entries : Size(entries[x].bytes) \in Nat
        /\ resident = Held(entries, DOMAIN entries)
    BY CacheFacts
  <2>2. /\ entries \in [DOMAIN entries -> [bytes : CacheKeys, tick : 1 .. MaxTick]]
        /\ DOMAIN entries \subseteq CacheKeys
        /\ by_recency \in [DOMAIN by_recency -> CacheKeys] /\ resident \in Nat
        /\ \A x \in DOMAIN entries : entries[x].bytes = x
    BY DEF CacheInv, CacheTypeOK
  <2>3. n \in Nat /\ MaxTick \in Nat /\ MaxBytes \in Nat
    BY CacheAssumption DEF Size
  <2>4. /\ DOMAIN ents = DOMAIN entries \ {b}
        /\ \A x \in DOMAIN ents : ents[x] = entries[x]
    BY DEF Without
  <2>5. Agree(ents, rec)
    <3>1. old \in SUBSET DOMAIN by_recency
      BY <2>1 DEF Agree
    <3>2. {by_recency[t] : t \in old} = there
      BY <2>1 DEF Agree
    <3>3. Agree(Without(entries, {by_recency[t] : t \in old}), Without(by_recency, old))
      BY <2>1, <3>1, AgreeWithout
    <3> QED BY <3>2, <3>3
  <2>6. DOMAIN rec \subseteq DOMAIN by_recency /\ \A t \in DOMAIN rec : rec[t] = by_recency[t]
    BY DEF Without
  <2>7. /\ IsFiniteSet(DOMAIN ents)
        /\ \A x \in DOMAIN ents : Size(ents[x].bytes) \in Nat
        /\ Held(ents, DOMAIN ents) = Held(entries, DOMAIN ents)
    <3>1. IsFiniteSet(DOMAIN ents)
      BY <2>1, <2>4, FS_Subset
    <3>2. \A x \in DOMAIN ents : Size(entries[x].bytes) \in Nat /\ ents[x].bytes = entries[x].bytes
      BY <2>1, <2>4
    <3>3. Held(ents, DOMAIN ents) = Held(entries, DOMAIN ents)
      <4> HIDE DEF ents
      <4> QED BY <3>1, <3>2, HeldSame
    <3> QED BY <3>1, <3>2, <3>3
  <2> HIDE DEF ents, rec, n
  <2>8. res = Held(ents, DOMAIN ents)
    <3>1. CASE b \notin DOMAIN entries
      <4>1. DOMAIN ents = DOMAIN entries
        BY <2>4, <3>1
      <4> QED BY <2>1, <2>7, <3>1, <4>1 DEF Released, Absent
    <3>2. CASE b \in DOMAIN entries
      <4>1. DOMAIN entries = DOMAIN ents \cup {b} /\ DOMAIN ents \cap {b} = {} /\ IsFiniteSet({b})
        BY <2>4, <3>2, FS_Singleton
      <4>2. Held(entries, DOMAIN ents \cup {b}) = Held(entries, DOMAIN ents) + Held(entries, {b})
        BY <2>1, <2>7, <4>1, HeldSplits
      <4>3. Held(entries, {b}) = n
        <5>1. Size(entries[b].bytes) = n
          BY <2>2, <3>2 DEF n
        <5> QED BY <2>3, <5>1, HeldOne
      <4>4. Held(ents, DOMAIN ents) \in Nat
        BY <2>7, HeldCounts
      <4>5. resident = Held(ents, DOMAIN ents) + n
        BY <2>1, <2>7, <4>1, <4>2, <4>3
      <4>6. SaturatingSub(resident, n) = Held(ents, DOMAIN ents)
        BY <2>3, <4>4, <4>5 DEF SaturatingSub
      <4> QED BY <3>2, <4>6 DEF Released, Absent
    <3> QED BY <3>1, <3>2
  <2>9. /\ out \in SUBSET DOMAIN rec
        /\ SaturatingSub(res, Held(ents, {rec[t] : t \in out})) + n <= MaxBytes
    <3>1. DOMAIN rec \subseteq 1 .. tick
      BY <2>1, <2>6
    <3>2. out = Victims(ents, rec, Held(ents, DOMAIN ents), n)
      BY <2>8
    <3> HIDE DEF res, out
    <3>3. tick \in Nat /\ n \in Nat /\ n <= MaxBytes
      BY <2>0, <2>1, <2>3
    <3>4. \A x \in DOMAIN ents : Size(ents[x].bytes) \in Nat
      BY <2>7
    <3> QED BY <2>5, <2>8, <3>1, <3>2, <3>3, <3>4, VictimsMakeRoom
  <2> HIDE DEF res, out
  <2>10. gone = {rec[t] : t \in out} /\ gone \subseteq DOMAIN ents
    BY <2>5, <2>9 DEF Agree
  <2>11. /\ DOMAIN e0 = DOMAIN ents \ gone /\ \A x \in DOMAIN e0 : e0[x] = ents[x]
         /\ DOMAIN r0 = DOMAIN rec \ out /\ \A t \in DOMAIN r0 : r0[t] = rec[t]
    BY DEF Without
  <2>12. Agree(e0, r0)
    BY <2>5, <2>9, <2>10, AgreeWithout
  <2> HIDE DEF gone, e0, r0
  <2>13. b \notin DOMAIN e0 /\ t1 \notin DOMAIN r0 /\ DOMAIN r0 \subseteq 1 .. tick
    BY <2>1, <2>4, <2>6, <2>11
  <2>14. Agree(entries', by_recency')
    <3> HIDE DEF t1
    <3> QED BY <2>0, <2>12, <2>13, AgreeWith
  <2>15. MapsAgree'
    BY <2>14 DEF Agree, MapsAgree
  <2>16. /\ DOMAIN entries' = DOMAIN e0 \cup {b}
         /\ \A x \in DOMAIN e0 : entries'[x] = entries[x]
         /\ entries'[b] = [bytes |-> b, tick |-> t1]
         /\ DOMAIN by_recency' = DOMAIN r0 \cup {t1}
         /\ \A t \in DOMAIN r0 : by_recency'[t] = by_recency[t]
         /\ by_recency'[t1] = b
         /\ entries' = [x \in DOMAIN entries' |-> entries'[x]]
         /\ by_recency' = [t \in DOMAIN by_recency' |-> by_recency'[t]]
    <3> HIDE DEF t1
    <3> QED BY <2>0, <2>4, <2>6, <2>11, <2>13 DEF With
  <2>17. resident' \in Nat /\ ResidentIsExact'
    <3>1. IsFiniteSet(gone) /\ IsFiniteSet(DOMAIN e0) /\ IsFiniteSet({b})
      BY <2>7, <2>10, <2>11, FS_Subset, FS_Singleton
    <3>2. DOMAIN ents = gone \cup DOMAIN e0 /\ gone \cap DOMAIN e0 = {}
      BY <2>10, <2>11
    <3>3. Held(ents, gone \cup DOMAIN e0) = Held(ents, gone) + Held(ents, DOMAIN e0)
      BY <2>7, <3>1, <3>2, HeldSplits
    <3>4. Held(ents, gone) \in Nat /\ Held(ents, DOMAIN e0) \in Nat
      BY <2>7, <3>1, <3>2, HeldCounts
    <3>5. SaturatingSub(res, Held(ents, gone)) = Held(ents, DOMAIN e0)
      BY <2>8, <3>2, <3>3, <3>4 DEF SaturatingSub
    <3>6. Held(entries', DOMAIN e0) = Held(ents, DOMAIN e0)
      BY <2>4, <2>7, <2>11, <2>16, <3>1, HeldSame
    <3>7. Held(entries', {b}) = n
      <4>1. Size(entries'[b].bytes) = n
        BY <2>16 DEF n
      <4> QED BY <2>3, <4>1, HeldOne
    <3>8. Held(entries', DOMAIN e0 \cup {b}) = Held(entries', DOMAIN e0) + Held(entries', {b})
      <4>1. \A x \in DOMAIN e0 \cup {b} : Size(entries'[x].bytes) \in Nat
        BY <2>3, <2>4, <2>7, <2>11, <2>16 DEF n
      <4> QED BY <2>13, <3>1, <4>1, HeldSplits
    <3>9. resident' = Held(entries', DOMAIN entries')
      BY <2>0, <2>16, <3>5, <3>6, <3>7, <3>8
    <3>10. resident' <= MaxBytes
      BY <2>0, <2>9, <2>10
    <3> QED BY <2>0, <2>3, <3>4, <3>5, <3>9, <3>10 DEF ResidentIsExact
  <2>18. CacheTypeOK'
    <3>1. tick' \in 0 .. MaxTick /\ t1 \in 1 .. MaxTick /\ tick' = t1
      BY <2>0, <2>1, <2>3
    <3>2. DOMAIN entries' \subseteq CacheKeys
      BY <2>2, <2>4, <2>11, <2>16
    <3>3. entries' \in [DOMAIN entries' -> [bytes : CacheKeys, tick : 1 .. MaxTick]]
      <4>1. \A x \in DOMAIN entries' : entries'[x] \in [bytes : CacheKeys, tick : 1 .. MaxTick]
        <5> HIDE DEF t1
        <5> QED BY <2>2, <2>4, <2>11, <2>16, <3>1
      <4> QED BY <2>16, <4>1
    <3>4. DOMAIN by_recency' \subseteq 1 .. tick'
      BY <2>0, <2>1, <2>13, <2>16
    <3>5. by_recency' \in [DOMAIN by_recency' -> CacheKeys]
      <4>1. \A t \in DOMAIN by_recency' : by_recency'[t] \in CacheKeys
        <5> HIDE DEF t1
        <5> QED BY <2>2, <2>6, <2>11, <2>16
      <4> QED BY <2>16, <4>1
    <3> QED BY <2>17, <3>1, <3>2, <3>3, <3>4, <3>5 DEF CacheTypeOK
  <2>19. (\A x \in DOMAIN entries : entries[x].bytes = x)'
    BY <2>2, <2>4, <2>11, <2>16
  <2>20. LRU!Keep(DOMAIN entries \ {b}, n) = DOMAIN e0
    <3> DEFINE others   == DOMAIN ents
               kept     == others \ {rec[t] : t \in out}
               later(S) == \A x \in S, y \in others : ents[x].tick < ents[y].tick => y \in S
               fits(S)  == Held(ents, S) + n <= MaxBytes
    <3>1. later(kept) /\ fits(kept) /\ \A S \in SUBSET others : later(S) /\ fits(S) => S \subseteq kept
      <4>1. DOMAIN rec \subseteq 1 .. tick
        BY <2>1, <2>6
      <4>2. out = Victims(ents, rec, Held(ents, DOMAIN ents), n)
        BY <2>8 DEF out
      <4>3. tick \in Nat /\ n \in Nat /\ n <= MaxBytes
        BY <2>0, <2>1, <2>3
      <4>4. \A x \in DOMAIN ents : Size(ents[x].bytes) \in Nat
        BY <2>7
      <4> QED BY <2>5, <4>1, <4>2, <4>3, <4>4, KeepsTheRecent
    <3>2. kept = DOMAIN e0 /\ others = DOMAIN entries \ {b}
      BY <2>4, <2>10, <2>11
    <3>3. \A S \in SUBSET others : LRU!Weight(S) = Held(ents, S)
      <4> SUFFICES ASSUME NEW S \in SUBSET others PROVE LRU!Weight(S) = Held(ents, S)
        OBVIOUS
      <4>1. \A x \in S : ents[x].bytes = x
        BY <2>2, <2>4
      <4> QED BY <4>1, WeightIsHeld
    <3>4. \A S \in SUBSET others : LRU!Recent(S, others) <=> later(S)
      <4> SUFFICES ASSUME NEW S \in SUBSET others PROVE LRU!Recent(S, others) <=> later(S)
        OBVIOUS
      <4>1. \A x, y \in others :
                <<x, y>> \in ByRecency <=> ents[x].tick < ents[y].tick
        BY <2>4 DEF ByRecency
      <4>2. \A p \in ByRecency : p = <<p[1], p[2]>>
        BY DEF ByRecency
      <4> HIDE DEF others
      <4>3. LRU!Recent(S, others) => later(S)
        BY <4>1 DEF LRU!Recent
      <4>4. later(S) => LRU!Recent(S, others)
        BY <4>1, <4>2 DEF LRU!Recent
      <4> QED BY <4>3, <4>4
    <3> HIDE DEF others, later
    <3>5. LRU!Keep(others, n) = UNION {S \in SUBSET others : later(S) /\ fits(S)}
      <4>1. {S \in SUBSET others : LRU!Recent(S, others) /\ LRU!Weight(S) + n <= MaxBytes}
              = {S \in SUBSET others : later(S) /\ fits(S)}
        BY <3>3, <3>4
      <4> QED BY <4>1 DEF LRU!Keep
    <3>6. kept \in SUBSET others
      OBVIOUS
    <3>7. UNION {S \in SUBSET others : later(S) /\ fits(S)} = kept
      <4> HIDE DEF kept, fits
      <4> QED BY <3>1, <3>6
    <3> QED BY <3>2, <3>5, <3>7
  <2>21. LRU!Admit(b)
    <3> DEFINE K == DOMAIN e0
    <3>1. /\ K \in SUBSET DOMAIN entries /\ b \notin K
          /\ DOMAIN entries' = K \cup {b} /\ entries'[b].tick = tick + 1
          /\ \A x \in K : entries'[x].tick = entries[x].tick
      BY <2>4, <2>11, <2>13, <2>16
    <3>2. LRU!UsedLast(K, b)
      <4> HIDE DEF K
      <4> QED BY <3>1, NewTickIsLast
    <3> QED BY <2>0, <2>20, <3>2 DEF LRU!Admit, n
  <2> QED BY <2>15, <2>17, <2>18, <2>19, <2>21 DEF CacheInv
<1> QED
  BY <1>1, <1>2

------------------------------------------------------------------------------
(* Row groups.                                                              *)

\* The rows of one file: finitely many, one per key, their keys numbers.
Rows(rows) ==
    /\ IsFiniteSet(rows) /\ rows # {}
    /\ \A r \in rows : r.key \in Nat
    /\ \A r, s \in rows : r.key = s.key => r = s

Rank(rows, r) == Cardinality({s \in rows : s.key < r.key})

\* Sorted by pk, the rows have the ranks from 0 to one less than their number.
LEMMA RanksOrder ==
    ASSUME NEW rows, Rows(rows)
    PROVE  /\ Cardinality(rows) \in Nat \ {0}
           /\ \A r \in rows : Rank(rows, r) \in 0 .. Cardinality(rows) - 1
           /\ \A r, s \in rows : r.key < s.key => Rank(rows, r) < Rank(rows, s)
<1> DEFINE N == Cardinality(rows)
           below(r) == {s \in rows : s.key < r.key}
<1>1. N \in Nat \ {0}
  <2>1. N \in Nat
    BY FS_CardinalityType DEF Rows
  <2>2. N # 0
    BY FS_EmptySet DEF Rows
  <2> QED BY <2>1, <2>2
<1>2. ASSUME NEW A, NEW B \in SUBSET rows, A \subseteq B, NEW x \in B, x \notin A
      PROVE  Cardinality(A) \in Nat /\ Cardinality(B) \in Nat /\ Cardinality(A) < Cardinality(B)
  <2>1. IsFiniteSet(B)
    BY FS_Subset DEF Rows
  <2>2. IsFiniteSet(A) /\ Cardinality(A) <= Cardinality(B) /\ (Cardinality(B) = Cardinality(A) => B = A)
    BY <1>2, <2>1, FS_Subset
  <2>3. Cardinality(A) \in Nat /\ Cardinality(B) \in Nat
    BY <2>1, <2>2, FS_CardinalityType
  <2>4. Cardinality(A) # Cardinality(B)
    BY <1>2, <2>2
  <2> QED BY <2>2, <2>3, <2>4
<1>3. ASSUME NEW r \in rows PROVE Rank(rows, r) \in 0 .. N - 1
  <2>1. below(r) \subseteq rows /\ r \notin below(r)
    BY DEF Rows
  <2>2. Cardinality(below(r)) \in Nat /\ Cardinality(below(r)) < N
    BY <1>2, <2>1
  <2> QED BY <1>1, <2>2 DEF Rank
<1>4. ASSUME NEW r \in rows, NEW s \in rows, r.key < s.key PROVE Rank(rows, r) < Rank(rows, s)
  <2>1. below(r) \subseteq below(s) /\ r \in below(s) /\ r \notin below(r) /\ below(s) \in SUBSET rows
    BY <1>4 DEF Rows
  <2> HIDE DEF below
  <2>2. Cardinality(below(r)) < Cardinality(below(s))
    BY <1>2, <2>1
  <2> QED BY <2>2 DEF Rank, below
<1> QED
  BY <1>1, <1>3, <1>4

\* Every rank below their number is the rank of a row.
LEMMA RanksFill ==
    ASSUME NEW rows, Rows(rows), NEW j \in 0 .. Cardinality(rows) - 1
    PROVE  \E r \in rows : Rank(rows, r) = j
<1> DEFINE N == Cardinality(rows)
           f == [r \in rows |-> Rank(rows, r) + 1]
<1>1. N \in Nat \ {0} /\ IsFiniteSet(1 .. N) /\ Cardinality(1 .. N) = N
  <2>1. N \in Nat \ {0}
    BY RanksOrder
  <2> QED BY <2>1, CountTo
<1>2. \A r \in rows : Rank(rows, r) \in 0 .. N - 1
  BY RanksOrder
<1>3. f \in [rows -> 1 .. N]
  <2>1. \A r \in rows : Rank(rows, r) + 1 \in 1 .. N
    BY <1>1, <1>2
  <2> QED BY <2>1
<1>4. ASSUME NEW r \in rows, NEW s \in rows, f[r] = f[s] PROVE r = s
  <2>1. Rank(rows, r) = Rank(rows, s)
    BY <1>1, <1>2, <1>4
  <2>2. ~(r.key < s.key) /\ ~(s.key < r.key)
    BY <1>1, <1>2, <2>1, RanksOrder
  <2>3. r.key = s.key
    BY <2>2 DEF Rows
  <2> QED BY <2>3 DEF Rows
<1>5. f \in Injection(rows, 1 .. N)
  <2> HIDE DEF f
  <2>1. DOMAIN f = rows
    BY <1>3
  <2> QED BY <1>3, <1>4, <2>1 DEF Injection, IsInjective
<1>6. f \in Surjection(rows, 1 .. N)
  <2> HIDE DEF f
  <2> QED BY <1>1, <1>5, FS_Injection
<1>7. j + 1 \in 1 .. N
  BY <1>1
<1>8. PICK r \in rows : f[r] = j + 1
  <2> HIDE DEF f, N
  <2> QED BY <1>6, <1>7 DEF Surjection
<1>9. Rank(rows, r) = j
  BY <1>1, <1>2, <1>8
<1> QED
  BY <1>9

\* The least and the greatest key of some of the rows bound them.
LEMMA KeyBounds ==
    ASSUME NEW rows, Rows(rows), NEW R \in SUBSET rows, R # {}
    PROVE  /\ Min(KeysOf(R)) \in KeysOf(R) /\ \A r \in R : Min(KeysOf(R)) <= r.key
           /\ Max(KeysOf(R)) \in KeysOf(R) /\ \A r \in R : r.key <= Max(KeysOf(R))
<1> DEFINE K == KeysOf(R)
<1>1. K \in SUBSET Nat /\ K # {} /\ \A r \in R : r.key \in K
  BY DEF KeysOf, Rows
<1>2. PICK top \in rows : Rank(rows, top) = Cardinality(rows) - 1
  <2>1. Cardinality(rows) - 1 \in 0 .. Cardinality(rows) - 1
    BY RanksOrder
  <2> QED BY <2>1, RanksFill
<1>3. \A r \in rows : r.key <= top.key
  <2> SUFFICES ASSUME NEW r \in rows, top.key < r.key PROVE FALSE
    BY DEF Rows
  <2>1. Rank(rows, top) < Rank(rows, r) /\ Rank(rows, r) \in 0 .. Cardinality(rows) - 1
    BY RanksOrder
  <2>2. Cardinality(rows) \in Nat
    BY RanksOrder
  <2> QED BY <1>2, <2>1, <2>2
<1>4. top.key \in Nat /\ K \in SUBSET (0 .. top.key)
  BY <1>3 DEF KeysOf, Rows
<1>5. Min(K) \in K /\ \A x \in K : Min(K) <= x
  BY <1>1, MinOfNaturals
<1>6. Max(K) \in K /\ \A x \in K : x <= Max(K)
  BY <1>1, <1>4, MaxOfBounded
<1> QED
  BY <1>1, <1>5, <1>6

\* Facts on division, for where row_group_size cuts: the quotient from below,
LEMMA QuotientAtLeast ==
    ASSUME NEW a \in Nat, NEW d \in Nat \ {0}, NEW m \in Nat, d * m <= a
    PROVE  m <= a \div d /\ a \div d \in Nat
<1> DEFINE q == a \div d
<1>1. q \in Nat /\ a < d * q + d
  BY Z3
<1>2. ASSUME q < m PROVE FALSE
  <2>1. d * q + d <= d * m
    BY <1>1, <1>2, Z3
  <2>2. d * q \in Nat /\ d * m \in Nat
    BY <1>1
  <2> QED BY <1>1, <2>1, <2>2
<1> QED
  BY <1>1, <1>2

\* from above,
LEMMA QuotientAtMost ==
    ASSUME NEW a \in Nat, NEW d \in Nat \ {0}
    PROVE  a \div d \in Nat /\ d * (a \div d) <= a
  BY Z3

\* of a multiple,
LEMMA QuotientOfMultiple ==
    ASSUME NEW d \in Nat \ {0}, NEW m \in Nat
    PROVE  (d * m) \div d = m
<1>1. 0 \in 0 .. d - 1
  OBVIOUS
<1>2. (m * d + 0) \div d = m
  BY <1>1, WordSplits
<1>3. m * d + 0 = d * m
  BY Z3
<1> QED
  BY <1>2, <1>3

\* and in order.
LEMMA QuotientOrder ==
    ASSUME NEW a \in Nat, NEW b \in Nat, NEW d \in Nat \ {0}, a \div d < b \div d
    PROVE  a < b
<1>1. SUFFICES ASSUME b <= a PROVE FALSE
  OBVIOUS
<1>2. b \div d \in Nat /\ d * (b \div d) <= b
  BY QuotientAtMost
<1>3. d * (b \div d) \in Nat
  BY <1>2
<1>4. d * (b \div d) <= a
  BY <1>1, <1>2, <1>3
<1>5. b \div d <= a \div d /\ a \div d \in Nat
  BY <1>2, <1>4, QuotientAtLeast
<1> QED
  BY <1>2, <1>5

\* The row groups of a file cut its rows, in pk order, into pieces none of which is
\* empty.
LEMMA GroupsCut ==
    ASSUME NEW rows, Rows(rows), NEW n \in Nat \ {0}
    PROVE  LET gs == RowGroups(rows, n)
           IN  /\ DOMAIN gs \in SUBSET (1 .. Cardinality(rows))
               /\ \A g \in DOMAIN gs : gs[g] \subseteq rows /\ gs[g] # {}
               /\ \A r \in rows : \E g \in DOMAIN gs : r \in gs[g]
               /\ \A g, h \in DOMAIN gs : g < h => \A r \in gs[g], s \in gs[h] : r.key < s.key
<1> DEFINE N  == Cardinality(rows)
           Q  == (N + n - 1) \div n
           gs == RowGroups(rows, n)
<1>1. gs = [g \in 1 .. Q |-> {r \in rows : Rank(rows, r) \div n + 1 = g}]
  BY DEF RowGroups, Rank
<1>2. N \in Nat \ {0} /\ N + n - 1 \in Nat
  BY RanksOrder
<1>3. \A r \in rows : Rank(rows, r) \in 0 .. N - 1
  BY RanksOrder
<1>4. Q \in Nat /\ n * Q <= N + n - 1
  BY <1>2, QuotientAtMost
<1> HIDE DEF N, Q, gs
<1>5. Q <= N
  <2> SUFFICES ASSUME N + 1 <= Q PROVE FALSE
    BY <1>2, <1>4
  <2>1. n * (N + 1) <= n * Q
    BY <1>2, <1>4, Z3
  <2>2. n * N + n <= N + n - 1
    <3>1. n * (N + 1) = n * N + n /\ n * N \in Nat /\ n * Q \in Nat
      BY <1>2, <1>4, Z3
    <3> QED BY <1>2, <1>4, <2>1, <3>1
  <2>3. N <= n * N
    BY <1>2, Z3
  <2>4. n * N \in Nat
    BY <1>2
  <2> QED BY <1>2, <2>2, <2>3, <2>4
<1>6. DOMAIN gs \in SUBSET (1 .. N)
  BY <1>1, <1>2, <1>4, <1>5
<1>7. ASSUME NEW g \in DOMAIN gs PROVE gs[g] \subseteq rows /\ gs[g] # {}
  <2>1. g \in Nat \ {0} /\ g <= Q /\ gs[g] = {r \in rows : Rank(rows, r) \div n + 1 = g}
    BY <1>1, <1>4
  <2> DEFINE j == n * (g - 1)
  <2>2. j \in Nat /\ j <= N - 1
    <3>1. n * g <= n * Q /\ n * g = n * (g - 1) + n /\ n * (g - 1) \in Nat
      BY <1>4, <2>1, Z3
    <3>2. n * Q \in Nat
      BY <1>4
    <3> QED BY <1>2, <1>4, <3>1, <3>2
  <2>3. j \div n = g - 1
    BY <2>1, QuotientOfMultiple
  <2>4. PICK r \in rows : Rank(rows, r) = j
    <3>1. j \in 0 .. Cardinality(rows) - 1
      BY <1>2, <2>2 DEF N
    <3> HIDE DEF j
    <3> QED BY <3>1, RanksFill
  <2>5. Rank(rows, r) \div n + 1 = g
    BY <2>1, <2>3, <2>4
  <2> QED BY <2>1, <2>5
<1>8. ASSUME NEW r \in rows PROVE \E g \in DOMAIN gs : r \in gs[g]
  <2> DEFINE q == Rank(rows, r) \div n
  <2>1. Rank(rows, r) \in Nat /\ Rank(rows, r) <= N - 1
    BY <1>2, <1>3
  <2>2. q \in Nat /\ n * q <= Rank(rows, r)
    BY <2>1, QuotientAtMost
  <2> HIDE DEF q
  <2>3. n * (q + 1) <= N + n - 1
    <3>1. n * (q + 1) = n * q + n /\ n * q \in Nat
      BY <2>2, Z3
    <3> QED BY <1>2, <2>1, <2>2, <3>1
  <2>4. q + 1 <= Q
    BY <1>2, <2>2, <2>3, QuotientAtLeast DEF Q
  <2>5. q + 1 \in 1 .. Q
    BY <1>4, <2>2, <2>4
  <2> QED BY <1>1, <2>5 DEF q
<1>9. ASSUME NEW g \in DOMAIN gs, NEW h \in DOMAIN gs, g < h, NEW r \in gs[g], NEW s \in gs[h]
      PROVE  r.key < s.key
  <2>1. /\ g \in Nat /\ h \in Nat /\ r \in rows /\ s \in rows
        /\ Rank(rows, r) \div n + 1 = g /\ Rank(rows, s) \div n + 1 = h
    BY <1>1, <1>4, <1>9
  <2>2. /\ Rank(rows, r) \in Nat /\ Rank(rows, s) \in Nat
    BY <1>2, <1>3, <2>1
  <2>3. Rank(rows, r) \div n \in Nat /\ Rank(rows, s) \div n \in Nat
    BY <2>2, QuotientAtMost
  <2>4. Rank(rows, r) \div n < Rank(rows, s) \div n
    BY <1>9, <2>1, <2>3
  <2>5. Rank(rows, r) < Rank(rows, s)
    BY <2>2, <2>4, QuotientOrder
  <2>6. r # s /\ ~(s.key < r.key)
    BY <2>1, <2>2, <2>5, RanksOrder
  <2> QED BY <2>1, <2>6 DEF Rows
<1> QED
  BY <1>6, <1>7, <1>8, <1>9 DEF gs, N

------------------------------------------------------------------------------
(* What is true of a file.                                                  *)

FileOK(f) == Whole(f) /\ f.rows \subseteq Record /\ f.rows # {}

\* A file's statistics, row groups and bloom are those of its rows.
LEMMA FileFacts ==
    ASSUME NEW f, FileOK(f)
    PROVE  /\ Rows(f.rows)
           /\ f.watermark = MaxLsnOf(f.rows)
           /\ f.pk_min = Min(KeysOf(f.rows)) /\ f.pk_max = Max(KeysOf(f.rows))
           /\ \E n \in Nat \ {0} : f.groups = RowGroups(f.rows, n)
           /\ \E cut \in {0, 1} : f.bloom \subseteq Blob(f.rows, cut)
<1>1. Rows(f.rows)
  BY ReadAssumption DEF FileOK, Whole, Rows, Record
<1>2. \E n \in Nat \ {0} : f.groups = RowGroups(f.rows, n)
  <2>1. \E c \in Configs : f.groups = RowGroups(f.rows, c.row_group_size)
    BY DEF FileOK, Whole, Groupings
  <2> QED BY <2>1, ReadAssumption
<1>3. \E cut \in {0, 1} : f.bloom \subseteq Blob(f.rows, cut)
  BY DEF FileOK, Whole, Blooms
<1> QED
  BY <1>1, <1>2, <1>3 DEF FileOK, Whole

\* Neither its bounds nor its bloom dismiss a file that holds the key.
LEMMA HolderIsCandidate ==
    ASSUME NEW f, FileOK(f), NEW k \in Keys, Of(f.rows, k) # {}
    PROVE  MayContain(f, k) /\ BloomMayContain(f, k)
<1>1. PICK r \in f.rows : r.key = k
  BY DEF Of
<1>2. Rows(f.rows)
  BY FileFacts
<1>3. MayContain(f, k)
  <2>1. Min(KeysOf(f.rows)) <= r.key /\ r.key <= Max(KeysOf(f.rows))
    BY <1>2, KeyBounds DEF Rows
  <2> QED BY <1>1, <2>1, FileFacts DEF MayContain
<1>4. BloomMayContain(f, k)
  <2> DEFINE n == Cardinality(f.rows)
             S == KeysOf(f.rows)
  <2>1. n \in Nat \ {0}
    BY <1>2, RanksOrder
  <2>2. S \in SUBSET Hashed /\ k \in S
    BY <1>1, ReadAssumption DEF KeysOf, FileOK, Record
  <2>3. PICK cut \in {0, 1} : f.bloom \subseteq FromBase64(Built(n, S), n * WordsPerBlock - cut)
    BY FileFacts DEF Blob
  <2>4. WordsPerBlock \in Nat /\ WordsPerBlock > 1
    BY BloomAssumption, ReadAssumption
  <2> HIDE DEF n, S
  <2>5. CASE cut = 0
    <3>1. n * WordsPerBlock - 0 = n * WordsPerBlock
      BY <2>1, <2>4
    <3>2. \A b \in FromBase64(Built(n, S), n * WordsPerBlock) : MightContain(b, k)
      BY <2>1, <2>2, NoFalseNegatives
    <3> QED BY <2>3, <2>5, <3>1, <3>2 DEF BloomMayContain
  <2>6. CASE cut = 1
    <3> DEFINE w == WordsPerBlock
    <3>1. n - 1 \in Nat /\ w \in Nat \ {0} /\ w - 1 \in 0 .. w - 1
      BY <2>1, <2>4
    <3>2. ((n - 1) * w + (w - 1)) % w = w - 1
      BY <3>1, WordSplits
    <3>3. (n - 1) * w + (w - 1) = n * w - 1
      BY <2>1, <2>4, Z3
    <3>4. (n * w - 1) % w # 0
      BY <2>4, <3>2, <3>3
    <3>5. FromBase64(Built(n, S), n * w - 1) = {}
      BY <3>4 DEF FromBase64
    <3> QED BY <2>3, <2>6, <3>5 DEF BloomMayContain
  <2> QED BY <2>5, <2>6
<1> QED
  BY <1>3, <1>4

Admitted(f, k) == {g \in DOMAIN f.groups : RowGroupMayContain(f.groups[g], f.stats, k)}

\* "The file is PK-sorted with unique keys": with statistics, the first row group that
\* may hold the key is the only one that can, and what it says is final.
LEMMA FirstGroupIsFinal ==
    ASSUME NEW f, FileOK(f), NEW k \in Keys
    PROVE  /\ Admitted(f, k) # {} => Min(Admitted(f, k)) \in DOMAIN f.groups
           /\ f.stats /\ Admitted(f, k) = {} => Of(f.rows, k) = {}
           /\ f.stats /\ Admitted(f, k) # {} =>
                 Of(f.groups[Min(Admitted(f, k))], k) = Of(f.rows, k)
<1> DEFINE A == Admitted(f, k)
           gs == f.groups
<1>1. Rows(f.rows)
  BY FileFacts
<1>2. PICK n \in Nat \ {0} : gs = RowGroups(f.rows, n)
  BY FileFacts
<1>3. /\ DOMAIN gs \in SUBSET (1 .. Cardinality(f.rows))
      /\ \A g \in DOMAIN gs : gs[g] \subseteq f.rows /\ gs[g] # {}
      /\ \A r \in f.rows : \E g \in DOMAIN gs : r \in gs[g]
      /\ \A g, h \in DOMAIN gs : g < h => \A r \in gs[g], s \in gs[h] : r.key < s.key
  BY <1>1, <1>2, GroupsCut
<1>4. A \in SUBSET DOMAIN gs /\ A \in SUBSET Nat
  BY <1>3 DEF Admitted
<1>5. A # {} => Min(A) \in A /\ \A x \in A : Min(A) <= x
  BY <1>4, MinOfNaturals
<1>6. k \in Nat
  BY ReadAssumption
<1>7. ASSUME f.stats, NEW r \in Of(f.rows, k)
      PROVE  A # {} /\ r \in gs[Min(A)]
  <2>1. r \in f.rows /\ r.key = k
    BY DEF Of
  <2>2. PICK g \in DOMAIN gs : r \in gs[g]
    BY <1>3, <2>1
  <2>3. Min(KeysOf(gs[g])) <= k /\ k <= Max(KeysOf(gs[g]))
    BY <1>1, <1>3, <2>1, <2>2, KeyBounds
  <2>4. g \in A
    BY <2>3 DEF Admitted, RowGroupMayContain
  <2>5. ASSUME NEW h \in A, h < g PROVE FALSE
    <3>1. h \in DOMAIN gs /\ k <= Max(KeysOf(gs[h]))
      BY <1>7, <2>5 DEF Admitted, RowGroupMayContain
    <3>2. Max(KeysOf(gs[h])) \in KeysOf(gs[h])
      BY <1>1, <1>3, <3>1, KeyBounds
    <3>3. PICK s \in gs[h] : s.key = Max(KeysOf(gs[h]))
      BY <3>2 DEF KeysOf
    <3>4. s.key < r.key /\ s.key \in Nat
      BY <1>1, <1>3, <2>2, <2>5, <3>1 DEF Rows
    <3> QED BY <1>6, <2>1, <3>1, <3>3, <3>4
  <2>6. Min(A) = g
    <3>1. Min(A) \in A /\ Min(A) <= g /\ ~(Min(A) < g)
      BY <1>5, <2>4, <2>5
    <3>2. g \in Nat /\ Min(A) \in Nat
      BY <1>4, <2>4, <3>1
    <3> HIDE DEF A
    <3> QED BY <3>1, <3>2
  <2> QED BY <2>2, <2>4, <2>6
<1>8. ASSUME f.stats, A # {} PROVE Of(gs[Min(A)], k) = Of(f.rows, k)
  <2>1. gs[Min(A)] \subseteq f.rows
    BY <1>3, <1>4, <1>5, <1>8
  <2>2. \A r \in Of(f.rows, k) : r \in gs[Min(A)] /\ r.key = k
    BY <1>7, <1>8 DEF Of
  <2> QED BY <2>1, <2>2 DEF Of
<1>9. ASSUME f.stats, A = {} PROVE Of(f.rows, k) = {}
  BY <1>7, <1>9
<1> QED
  BY <1>4, <1>5, <1>8, <1>9

\* The ranges of a file are keys of the cache.
LEMMA RangesAreKeys ==
    ASSUME NEW p \in DOMAIN files, FileOK(files[p]), p \in 1 .. MaxFiles,
           NEW g \in DOMAIN files[p].groups
    PROVE  PkRange(p, g) \in CacheKeys /\ ValueRange(p, g) \in CacheKeys
<1> DEFINE f == files[p]
           m == Cardinality(f.groups[g])
<1>1. f.rows \in Batches
  BY DEF FileOK, Whole
<1>2. Rows(f.rows)
  BY FileFacts
<1>3. PICK n \in Nat \ {0} : f.groups = RowGroups(f.rows, n)
  BY FileFacts
<1>4. g \in 1 .. Cardinality(f.rows) /\ f.groups[g] \subseteq f.rows /\ f.groups[g] # {}
  BY <1>2, <1>3, GroupsCut
<1>5. m \in 1 .. Cardinality(f.rows)
  <2>1. IsFiniteSet(f.groups[g]) /\ m <= Cardinality(f.rows)
    BY <1>2, <1>4, FS_Subset DEF Rows
  <2>2. m \in Nat /\ Cardinality(f.rows) \in Nat
    BY <1>2, <2>1, FS_CardinalityType DEF Rows
  <2>3. m # 0
    BY <1>4, <2>1, FS_EmptySet
  <2> QED BY <2>1, <2>2, <2>3
<1> HIDE DEF m
<1>6. ByteRange(p, "pk", g, 1) \in CacheKeys /\ ByteRange(p, "value", g, 2 * m) \in CacheKeys
  BY <1>1, <1>4, <1>5, RangeAssumption
<1> QED
  BY <1>6 DEF PkRange, ValueRange, m

\* So is its footer.
LEMMA FooterIsKey ==
    ASSUME NEW p \in DOMAIN files, FileOK(files[p]), p \in 1 .. MaxFiles
    PROVE  FooterRange(p) \in CacheKeys
<1>1. files[p].rows \in Batches
  BY DEF FileOK, Whole
<1> QED
  BY <1>1, RangeAssumption DEF FooterRange

------------------------------------------------------------------------------
(* FileIndex::load.                                                         *)

\* Every listing of a finite set has all of it.
LEMMA ListingIsOnto ==
    ASSUME NEW L, IsFiniteSet(L), NEW s \in SetToSeqs(L)
    PROVE  s \in Seq(L) /\ Range(s) = L /\ \A i, j \in DOMAIN s : i # j => s[i] # s[j]
<1> DEFINE N == Cardinality(L)
<1>1. N \in Nat
  BY FS_CardinalityType
<1>2. s \in [1 .. N -> L] /\ \A i, j \in 1 .. N : i # j => s[i] # s[j]
  BY DEF SetToSeqs
<1>3. DOMAIN s = 1 .. N
  BY <1>2
<1>4. s \in Injection(1 .. N, L)
  BY <1>2, <1>3 DEF Injection, IsInjective
<1>5. Cardinality(1 .. N) = N
  BY <1>1, CountTo
<1>6. s \in Surjection(1 .. N, L)
  <2> HIDE DEF N
  <2> QED BY <1>4, <1>5, FS_Injection DEF N
<1>7. Range(s) = L
  BY <1>2, <1>3, <1>6 DEF Surjection, Range
<1>8. s \in Seq(L)
  <2> HIDE DEF N
  <2> QED BY <1>1, <1>2
<1> QED
  BY <1>2, <1>3, <1>7, <1>8

FileTypes ==
    /\ files \in Seq(Range(files)) /\ Len(files) <= MaxFiles
    /\ \A i \in DOMAIN files : files[i].rows \subseteq Record /\ files[i].rows # {}

\* A file's watermark bounds the LSNs of its rows.
LEMMA WatermarkBounds ==
    ASSUME FileTypes, FilesInv, NEW i \in DOMAIN files
    PROVE  /\ files[i].watermark \in Nat
           /\ \A r \in files[i].rows : r.lsn <= files[i].watermark
<1>1. files[i].watermark = MaxLsnOf(files[i].rows)
  BY DEF FilesInv, Whole
<1>2. files[i].rows \in SUBSET Record
  BY DEF FileTypes
<1> QED
  BY <1>1, <1>2, MaxLsnOfRecords, RecordAssumption

\* What load finds are the listed files, the newest first.
LEMMA LoadIsNewestFirst ==
    ASSUME FileTypes, NEW s \in Loads
    PROVE  s \in Seq(DOMAIN files) /\ NewestFirst(s)
<1> DEFINE L == {p \in DOMAIN files : files[p].listed}
           n == Len(files)
<1>1. n \in Nat /\ DOMAIN files = 1 .. n
  BY DEF FileTypes
<1>2. IsFiniteSet(L)
  <2>1. IsFiniteSet(1 .. n) /\ L \subseteq 1 .. n
    BY <1>1, CountTo
  <2> QED BY <2>1, FS_Subset
<1>3. s \in SetToSeqs(L) /\ ByWatermark(s)
  BY DEF Loads
<1>4. L \subseteq DOMAIN files /\ L = Listed(n)
  BY <1>1 DEF Listed
<1> HIDE DEF L
<1>5. s \in Seq(L) /\ Range(s) = L
  BY <1>2, <1>3, ListingIsOnto
<1>6. n \in 0 .. Len(files)
  BY <1>1
<1> QED
  BY <1>3, <1>4, <1>5, <1>6 DEF NewestFirst

------------------------------------------------------------------------------
(* A commit.                                                                *)

\* Files are only ever added.
Grown ==
    /\ Len(files) \in Nat /\ Len(files)' \in Nat /\ Len(files) <= Len(files)'
    /\ DOMAIN files = 1 .. Len(files) /\ (DOMAIN files)' = 1 .. Len(files)'
    /\ \A i \in DOMAIN files : files'[i] = files[i]

\* A commit adds one whole file.
LEMMA CommitAddsOne ==
    ASSUME FileTypes, FilesInv,
           table \subseteq [rg : {c.row_group_size : c \in Configs}, blooms : BOOLEAN],
           NEW rows \in Batches, NEW stats \in BOOLEAN, NEW listed \in BOOLEAN, NEW parses \in BOOLEAN,
           Commit(rows, stats, listed, parses)
    PROVE  FileTypes' /\ FilesInv' /\ Grown
<1> DEFINE len == Cardinality(rows) * WordsPerBlock
           n == Len(files)
<1>1. /\ n < MaxFiles
      /\ stats \/ "no_stats" \in ReadFaults
      /\ listed \/ "no_catalog_stats" \in ReadFaults
  BY DEF Commit
<1>2. PICK o \in table :
          files' = Append(files, DataFile(rows, o, IF parses THEN len ELSE len - 1, stats, listed))
  BY DEF Commit
<1>3. n \in Nat /\ DOMAIN files = 1 .. n
  BY DEF FileTypes
<1>5. rows \subseteq Record /\ rows # {} /\ IsFiniteSet(rows)
  BY ReadAssumption
<1>6. PICK cut \in {0, 1} : (IF parses THEN len ELSE len - 1) = len - cut
  <2>1. Cardinality(rows) \in Nat /\ WordsPerBlock \in Nat
    BY <1>5, FS_CardinalityType, BloomAssumption
  <2>2. len \in Int
    BY <2>1
  <2> HIDE DEF len
  <2> QED BY <2>2
<1> DEFINE f == DataFile(rows, o, len - cut, stats, listed)
<1>7. files' = Append(files, f)
  BY <1>2, <1>6
<1>8. /\ f.rows = rows /\ f.stats = stats /\ f.listed = listed
      /\ f.watermark = MaxLsnOf(rows)
      /\ f.pk_min = Min(KeysOf(rows)) /\ f.pk_max = Max(KeysOf(rows))
      /\ f.groups = RowGroups(rows, o.rg)
      /\ f.bloom = {} \/ f.bloom = Blob(rows, cut)
  BY DEF DataFile, Blob
<1>9. PICK c \in Configs : o.rg = c.row_group_size
  OBVIOUS
<1> HIDE DEF f
<1>10. f.groups \in Groupings[rows] /\ f.bloom \in Blooms[rows]
  BY <1>8, <1>9 DEF Groupings, Blooms
<1>11. Whole(f)
  BY <1>1, <1>8, <1>10 DEF Whole
<1>12. files \in Seq(Range(files) \cup {f})
  BY DEF FileTypes
<1>13. Range(files') = Range(files) \cup {f}
  BY <1>7, <1>12, RangeOfAppend
<1>14. /\ files' \in Seq(Range(files'))
       /\ Len(files') = n + 1 /\ DOMAIN files' = 1 .. n + 1
       /\ files'[n + 1] = f /\ \A i \in 1 .. n : files'[i] = files[i]
  <2>1. Append(files, f) \in Seq(Range(files) \cup {f})
    BY <1>12
  <2>2. /\ Len(Append(files, f)) = n + 1
        /\ Append(files, f)[n + 1] = f /\ \A i \in 1 .. n : Append(files, f)[i] = files[i]
    BY <1>12
  <2>3. DOMAIN Append(files, f) = 1 .. n + 1
    BY <2>1, <2>2
  <2> QED BY <1>7, <1>13, <2>1, <2>2, <2>3
<1>15. \A i \in DOMAIN files' : i \in DOMAIN files \/ i = n + 1
  BY <1>3, <1>14
<1>16. FileTypes'
  <2>1. \A i \in DOMAIN files' : files'[i].rows \subseteq Record /\ files'[i].rows # {}
    BY <1>3, <1>5, <1>8, <1>14, <1>15 DEF FileTypes
  <2>2. Len(files') <= MaxFiles
    BY <1>1, <1>3, <1>14, ReadAssumption
  <2> QED BY <1>14, <2>1, <2>2 DEF FileTypes
<1>17. \A i \in DOMAIN files' : Whole(files'[i])
  BY <1>3, <1>11, <1>14, <1>15 DEF FilesInv
<1>19. FilesInv'
  BY <1>17 DEF FilesInv, Whole
<1>20. Grown
  BY <1>3, <1>14 DEF Grown
<1> QED
  BY <1>16, <1>19, <1>20

\* A list of files stays what it was when files are added.
LEMMA ListsStand ==
    ASSUME Grown, NEW s, NewestFirst(s)
    PROVE  NewestFirst(s)'
<1>1. PICK n \in 0 .. Len(files) : Range(s) = Listed(n)
  BY DEF NewestFirst
<1>2. n \in 0 .. Len(files)' /\ \A p \in 1 .. n : p \in DOMAIN files
  BY DEF Grown
<1>3. Listed(n)' = Listed(n)
  BY <1>2 DEF Listed, Grown
<1>4. \A i \in DOMAIN s : s[i] \in DOMAIN files /\ files'[s[i]] = files[s[i]]
  BY <1>1, <1>2 DEF Listed, Range, Grown
<1>5. ByWatermark(s)'
  BY <1>4 DEF NewestFirst, ByWatermark
<1> QED
  BY <1>1, <1>2, <1>3, <1>5 DEF NewestFirst

------------------------------------------------------------------------------
(* The reads.                                                               *)

\* What the invariant says of one read.
Good(w) == w \in Walk /\ NewestFirst(w.snapshot) /\ WalkOK(w)

\* What it says of the files.
FilesGood == FileTypes /\ FilesInv

\* Each file is whole, and among the files a run may publish.
LEMMA FileGood ==
    ASSUME FilesGood, NEW p \in DOMAIN files
    PROVE  FileOK(files[p]) /\ p \in 1 .. MaxFiles /\ p \in Nat
<1>1. Len(files) \in Nat /\ DOMAIN files = 1 .. Len(files) /\ Len(files) <= MaxFiles
  BY DEF FilesGood, FileTypes
<1>2. p \in 1 .. MaxFiles /\ p \in Nat
  BY <1>1, ReadAssumption
<1> QED
  BY <1>2 DEF FilesGood, FileTypes, FilesInv, FileOK

\* A list names files.
LEMMA PlacesAreFiles ==
    ASSUME FilesGood, NEW s, NewestFirst(s), NEW i \in DOMAIN s
    PROVE  s[i] \in DOMAIN files
<1>1. PICK n \in 0 .. Len(files) : Range(s) = Listed(n)
  BY DEF NewestFirst
<1>2. s[i] \in 1 .. n
  BY <1>1 DEF Range, Listed
<1>3. Len(files) \in Nat /\ DOMAIN files = 1 .. Len(files)
  BY DEF FilesGood, FileTypes
<1> QED
  BY <1>2, <1>3

\* So the walk is at a file while it has places to visit.
LEMMA CurrentIsFile ==
    ASSUME FilesGood, NEW w, Good(w), w.todo # {}
    PROVE  /\ Min(w.todo) \in w.todo /\ \A i \in w.todo : Min(w.todo) <= i
           /\ Current(w) \in DOMAIN files
<1>1. w.todo \in SUBSET Nat
  BY DEF Good, Walk
<1>2. Min(w.todo) \in w.todo /\ \A i \in w.todo : Min(w.todo) <= i
  BY <1>1, MinOfNaturals
<1>3. Min(w.todo) \in DOMAIN w.snapshot
  BY <1>2 DEF Good, WalkOK
<1> QED
  BY <1>2, <1>3, PlacesAreFiles DEF Current, Good

\* A sequence has its head and what its tail has.
LEMMA RangeOfTail ==
    ASSUME NEW T, NEW s \in Seq(T), s # << >>
    PROVE  Range(s) = {Head(s)} \cup Range(Tail(s)) /\ Tail(s) \in Seq(T) /\ Head(s) \in T
<1>1. /\ Len(s) \in Nat \ {0} /\ DOMAIN s = 1 .. Len(s) /\ Head(s) = s[1]
      /\ Tail(s) \in Seq(T) /\ Len(Tail(s)) = Len(s) - 1
      /\ \A i \in 1 .. Len(s) - 1 : Tail(s)[i] = s[i + 1]
  OBVIOUS
<1>2. DOMAIN Tail(s) = 1 .. Len(s) - 1
  BY <1>1
<1>3. ASSUME NEW i \in DOMAIN s PROVE s[i] \in {Head(s)} \cup Range(Tail(s))
  <2>1. CASE i = 1
    BY <1>1, <2>1
  <2>2. CASE i # 1
    <3>1. i - 1 \in 1 .. Len(s) - 1 /\ (i - 1) + 1 = i
      BY <1>1, <2>2
    <3>2. Tail(s)[i - 1] = s[i]
      BY <1>1, <3>1
    <3> QED BY <1>2, <3>1, <3>2 DEF Range
  <2> QED BY <2>1, <2>2
<1>4. ASSUME NEW i \in DOMAIN Tail(s) PROVE Tail(s)[i] \in Range(s)
  <2>1. i + 1 \in DOMAIN s /\ Tail(s)[i] = s[i + 1]
    BY <1>1, <1>2
  <2> QED BY <2>1 DEF Range
<1>5. Head(s) \in Range(s) /\ Head(s) \in T
  <2>1. 1 \in DOMAIN s
    BY <1>1
  <2> QED BY <1>1, <2>1 DEF Range
<1> QED
  BY <1>1, <1>3, <1>4, <1>5 DEF Range

\* Every range that a read deals in names itself as a key of the cache.
LEMMA PiecesAreKeys ==
    ASSUME NEW w, Good(w), NEW b \in Pieces(w)
    PROVE  CacheKey(b) = b /\ w.at \in {"footer", "scan"}
<1>1. w.at \in {"footer", "scan"}
  BY DEF Good, Walk, WalkOK
<1>2. CacheKey(b) = b
  <2>1. CASE w.at = "footer"
    BY <2>1 DEF Good, WalkOK, CacheKey, FooterRange, ByteRange
  <2>2. CASE w.at = "scan"
    BY <2>2 DEF Good, WalkOK, CacheKey, PkRange, ValueRange, ByteRange
  <2> QED BY <1>1, <2>1, <2>2
<1> QED
  BY <1>1, <1>2

\* A read that has the same pieces at the same place is as good.
LEMMA PiecesMove ==
    ASSUME NEW w, Good(w), NEW v \in Walk, Pieces(v) = Pieces(w), v.at = w.at,
           v.key = w.key, v.snapshot = w.snapshot, v.todo = w.todo, v.got = w.got
    PROVE  Good(v) /\ (ExactOK(w) => ExactOK(v))
<1>1. Current(v) = Current(w)
  BY DEF Current
<1>2. WalkOK(v)
  BY <1>1 DEF Good, WalkOK
<1>3. ExactOK(w) => ExactOK(v)
  BY <1>1 DEF ExactOK
<1> QED
  BY <1>2, <1>3 DEF Good

\* fetch_range moves a range from asked for to had when the cache has it,
LEMMA HitMoves ==
    ASSUME NEW w, Good(w), w.ask # << >>, NEW v,
           v = [w EXCEPT !.ask = Tail(@), !.have = @ \cup {Head(w.ask)}]
    PROVE  v \in Walk /\ Good(v) /\ (ExactOK(w) => ExactOK(v))
<1>1. w \in Walk /\ w.ask \in Seq(CacheKeys)
  BY DEF Good, Walk
<1>2. /\ Range(w.ask) = {Head(w.ask)} \cup Range(Tail(w.ask))
      /\ Tail(w.ask) \in Seq(CacheKeys) /\ Head(w.ask) \in CacheKeys
  BY <1>1, RangeOfTail
<1>3. v \in Walk
  BY <1>1, <1>2 DEF Walk
<1>4. /\ v.at = w.at /\ v.key = w.key /\ v.snapshot = w.snapshot /\ v.todo = w.todo
      /\ v.got = w.got /\ v.ask = Tail(w.ask) /\ v.waiting = w.waiting
      /\ v.have = w.have \cup {Head(w.ask)}
  BY <1>1 DEF Walk
<1>5. Pieces(v) = Pieces(w)
  BY <1>2, <1>4 DEF Pieces
<1> QED
  BY <1>3, <1>4, <1>5, PiecesMove

\* to waited for when it has not,
LEMMA MissMoves ==
    ASSUME NEW w, Good(w), w.ask # << >>, NEW v,
           v = [w EXCEPT !.ask = Tail(@), !.waiting = @ \cup {Head(w.ask)}]
    PROVE  v \in Walk /\ Good(v) /\ (ExactOK(w) => ExactOK(v))
<1>1. w \in Walk /\ w.ask \in Seq(CacheKeys)
  BY DEF Good, Walk
<1>2. /\ Range(w.ask) = {Head(w.ask)} \cup Range(Tail(w.ask))
      /\ Tail(w.ask) \in Seq(CacheKeys) /\ Head(w.ask) \in CacheKeys
  BY <1>1, RangeOfTail
<1>3. v \in Walk
  BY <1>1, <1>2 DEF Walk
<1>4. /\ v.at = w.at /\ v.key = w.key /\ v.snapshot = w.snapshot /\ v.todo = w.todo
      /\ v.got = w.got /\ v.ask = Tail(w.ask) /\ v.have = w.have
      /\ v.waiting = w.waiting \cup {Head(w.ask)}
  BY <1>1 DEF Walk
<1>5. Pieces(v) = Pieces(w)
  BY <1>2, <1>4 DEF Pieces
<1> QED
  BY <1>3, <1>4, <1>5, PiecesMove

\* and to had when the store answers.
LEMMA AnswerMoves ==
    ASSUME NEW w, Good(w), NEW b \in w.waiting, NEW v,
           v = [w EXCEPT !.waiting = @ \ {b}, !.have = @ \cup {b}]
    PROVE  v \in Walk /\ Good(v) /\ (ExactOK(w) => ExactOK(v))
<1>1. w \in Walk /\ b \in CacheKeys
  BY DEF Good, Walk
<1>3. v \in Walk
  BY <1>1 DEF Walk
<1>4. /\ v.at = w.at /\ v.key = w.key /\ v.snapshot = w.snapshot /\ v.todo = w.todo
      /\ v.got = w.got /\ v.ask = w.ask
      /\ v.waiting = w.waiting \ {b} /\ v.have = w.have \cup {b}
  BY <1>1 DEF Walk
<1>5. Pieces(v) = Pieces(w)
  BY <1>4 DEF Pieces
<1> QED
  BY <1>3, <1>4, <1>5, PiecesMove

\* get_from_file with the footer of the file the walk is at: it asks for both chunks
\* of one row group, or leaves the file; with statistics, not a file that has the key.
LEMMA RowGroupRead ==
    ASSUME FilesGood, NEW w, Good(w), w.at \in {"walk", "footer"}, w.todo # {},
           w.ask = << >>, w.waiting = {}, NEW v, v = ReadRowGroup(w, Current(w))
    PROVE  /\ v \in Walk /\ Good(v)
           /\ "no_stats" \notin ReadFaults /\ ExactOK(w) => ExactOK(v)
<1> DEFINE p == Current(w)
           f == files[p]
<1>1. w \in Walk
  BY DEF Good
<1>2. PICK k \in Keys : w.key = {k}
  BY DEF Good, WalkOK
<1>3. /\ Min(w.todo) \in w.todo /\ \A i \in w.todo : Min(w.todo) <= i
      /\ p \in DOMAIN files
  BY CurrentIsFile
<1>4. FileOK(f) /\ p \in 1 .. MaxFiles
  BY <1>3, FileGood
<1> DEFINE A == Admitted(f, k)
           g == Min(A)
           out == [w EXCEPT !.at = "walk", !.todo = Rest(w), !.have = {}]
           in == [w EXCEPT !.at = "scan", !.have = {},
                           !.ask = <<[PkRange(p, g) EXCEPT !.path = p],
                                     [ValueRange(p, g) EXCEPT !.path = p]>>]
<1>5. v = IF A = {} THEN out ELSE in
  BY <1>2 DEF ReadRowGroup, Admitted
<1>6. /\ A # {} => g \in DOMAIN f.groups
      /\ f.stats /\ A = {} => Of(f.rows, k) = {}
      /\ f.stats /\ A # {} => Of(f.groups[g], k) = Of(f.rows, k)
  BY <1>4, FirstGroupIsFinal
<1>7. "no_stats" \notin ReadFaults => f.stats
  BY <1>4 DEF FileOK, Whole
<1> HIDE DEF A, g
<1>8. CASE A = {}
  <2> HIDE DEF f
  <2>1. v \in Walk
    <3>1. v = out /\ w.todo \in SUBSET Nat /\ Rest(w) \in SUBSET Nat
      BY <1>1, <1>5, <1>8 DEF Walk, Rest
    <3> QED BY <1>1, <3>1 DEF Walk
  <2>2. /\ v.at = "walk" /\ v.key = w.key /\ v.snapshot = w.snapshot /\ v.todo = Rest(w)
        /\ v.got = w.got /\ v.ask = << >> /\ v.waiting = {} /\ v.have = {}
    BY <1>1, <1>5, <1>8 DEF Walk
  <2>3. Pieces(v) = {}
    BY <2>2 DEF Pieces, Range
  <2>4. Good(v)
    BY <2>1, <2>2, <2>3 DEF Good, WalkOK, Rest
  <2>5. ASSUME "no_stats" \notin ReadFaults, ExactOK(w) PROVE ExactOK(v)
    <3>1. Of(f.rows, k) = {}
      BY <1>6, <1>7, <1>8, <2>5
    <3>2. w.got = {} /\ \A i \in DOMAIN w.snapshot : Holds(w.snapshot[i], k) => i \in w.todo
      BY <1>2, <2>5 DEF ExactOK
    <3>3. ~Holds(w.snapshot[Min(w.todo)], k)
      BY <3>1 DEF Holds, f, Current
    <3>4. \A i \in DOMAIN w.snapshot : Holds(w.snapshot[i], k) => i \in Rest(w)
      BY <3>2, <3>3 DEF Rest
    <3> QED BY <1>2, <2>2, <3>2, <3>4 DEF ExactOK
  <2> QED BY <2>1, <2>4, <2>5
<1>9. CASE A # {}
  <2>1. PkRange(p, g) \in CacheKeys /\ ValueRange(p, g) \in CacheKeys
    BY <1>3, <1>4, <1>6, <1>9, RangesAreKeys
  <2>2. [PkRange(p, g) EXCEPT !.path = p] = PkRange(p, g)
    BY DEF PkRange, ByteRange
  <2>3. [ValueRange(p, g) EXCEPT !.path = p] = ValueRange(p, g)
    BY DEF ValueRange, ByteRange
  <2>4. v = [w EXCEPT !.at = "scan", !.have = {}, !.ask = <<PkRange(p, g), ValueRange(p, g)>>]
    BY <1>5, <1>9, <2>2, <2>3
  <2> HIDE DEF p
  <2>5. v \in Walk
    <3> DEFINE q == <<PkRange(p, g), ValueRange(p, g)>>
    <3>1. q \in Seq(CacheKeys)
      BY <2>1
    <3> HIDE DEF q
    <3>2. v = [w EXCEPT !.at = "scan", !.have = {}, !.ask = q]
      BY <2>4 DEF q
    <3> QED BY <1>1, <3>1, <3>2 DEF Walk
  <2>6. /\ v.at = "scan" /\ v.key = w.key /\ v.snapshot = w.snapshot /\ v.todo = w.todo
        /\ v.got = w.got /\ v.ask = <<PkRange(p, g), ValueRange(p, g)>>
        /\ v.waiting = {} /\ v.have = {}
    BY <1>1, <2>4 DEF Walk
  <2>7. Pieces(v) = {PkRange(p, g), ValueRange(p, g)}
    BY <2>6 DEF Pieces, Range
  <2>8. Current(v) = p
    BY <2>6 DEF Current, p
  <2>9. Good(v)
    <3>1. g \in DOMAIN files[Current(v)].groups
      BY <1>6, <1>9, <2>8
    <3>2. \E h \in DOMAIN files[Current(v)].groups :
              Pieces(v) = {PkRange(Current(v), h), ValueRange(Current(v), h)}
      BY <2>7, <2>8, <3>1
    <3>3. v.todo # {} /\ v.todo \subseteq DOMAIN v.snapshot /\ \E j \in Keys : v.key = {j}
      BY <1>2, <2>6 DEF Good, WalkOK
    <3>4. WalkOK(v)
      BY <2>6, <3>2, <3>3 DEF WalkOK
    <3> QED BY <2>5, <2>6, <3>4 DEF Good
  <2>10. ASSUME "no_stats" \notin ReadFaults, ExactOK(w) PROVE ExactOK(v)
    <3>1. Of(f.groups[g], k) = Of(f.rows, k)
      BY <1>6, <1>7, <1>9, <2>10
    <3>2. w.got = {} /\ \A i \in DOMAIN w.snapshot : Holds(w.snapshot[i], k) => i \in w.todo
      BY <1>2, <2>10 DEF ExactOK
    <3>3. \A b \in Pieces(v) : RowsIn(b) = f.groups[g]
      BY <2>7 DEF RowsIn, PkRange, ValueRange, ByteRange
    <3> QED BY <1>2, <2>6, <2>8, <3>1, <3>2, <3>3 DEF ExactOK
  <2> QED BY <2>5, <2>9, <2>10
<1> QED
  BY <1>8, <1>9

\* The answers of a list are the rows of the key in its files of the highest watermark
\* among those that hold it.
LEMMA AnswersAreBest ==
    ASSUME NEW s, NEW k, NEW a
    PROVE  a \in ColumnarGet([i \in DOMAIN s |-> files[s[i]]], k) <=>
             \E j \in DOMAIN s :
                 /\ a \in Of(files[s[j]].rows, k)
                 /\ \A i \in DOMAIN s : Holds(s[i], k) => files[s[i]].watermark <= files[s[j]].watermark
<1> DEFINE list == [i \in DOMAIN s |-> files[s[i]]]
           holders == {f \in Range(list) : Of(f.rows, k) # {}}
           best == {h \in holders : \A g \in holders : g.watermark <= h.watermark}
<1>1. ColumnarGet(list, k) = UNION {Of(f.rows, k) : f \in best}
  BY DEF ColumnarGet
<1>2. \A f : f \in holders <=> \E i \in DOMAIN s : f = files[s[i]] /\ Holds(s[i], k)
  BY DEF Range, Holds
<1> HIDE DEF holders, list
<1>3. a \in ColumnarGet(list, k) <=> \E f \in best : a \in Of(f.rows, k)
  BY <1>1
<1>4. ASSUME NEW j \in DOMAIN s, Holds(s[j], k)
      PROVE  files[s[j]] \in best <=>
               \A i \in DOMAIN s : Holds(s[i], k) => files[s[i]].watermark <= files[s[j]].watermark
  BY <1>2, <1>4
<1>5. ASSUME NEW f \in best, a \in Of(f.rows, k)
      PROVE  \E j \in DOMAIN s :
                 /\ a \in Of(files[s[j]].rows, k)
                 /\ \A i \in DOMAIN s : Holds(s[i], k) => files[s[i]].watermark <= files[s[j]].watermark
  <2>1. PICK j \in DOMAIN s : f = files[s[j]] /\ Holds(s[j], k)
    BY <1>2
  <2> QED BY <1>4, <1>5, <2>1
<1>6. ASSUME NEW j \in DOMAIN s, a \in Of(files[s[j]].rows, k),
             \A i \in DOMAIN s : Holds(s[i], k) => files[s[i]].watermark <= files[s[j]].watermark
      PROVE  \E f \in best : a \in Of(f.rows, k)
  <2>1. Holds(s[j], k)
    BY <1>6 DEF Holds
  <2> QED BY <1>4, <1>6, <2>1
<1>7. (\E f \in best : a \in Of(f.rows, k)) <=>
        \E j \in DOMAIN s :
            /\ a \in Of(files[s[j]].rows, k)
            /\ \A i \in DOMAIN s : Holds(s[i], k) => files[s[i]].watermark <= files[s[j]].watermark
  <2> HIDE DEF best
  <2> QED BY <1>5, <1>6
<1> QED
  BY <1>3, <1>7 DEF list

\* The first place of a list whose file holds the key has one of the answers.
LEMMA FirstHolderAnswers ==
    ASSUME FilesGood, NEW s, NewestFirst(s), NEW k, NEW m \in DOMAIN s, DOMAIN s \subseteq Nat,
           Holds(s[m], k), \A i \in DOMAIN s : Holds(s[i], k) => m <= i
    PROVE  /\ OneOf(Of(files[s[m]].rows, k), ColumnarGet([i \in DOMAIN s |-> files[s[i]]], k))
           /\ ColumnarGet([i \in DOMAIN s |-> files[s[i]]], k) # {}
<1>1. \A i \in DOMAIN s : s[i] \in DOMAIN files /\ files[s[i]].watermark \in Nat
  BY PlacesAreFiles, WatermarkBounds DEF FilesGood
<1>2. ASSUME NEW i \in DOMAIN s, Holds(s[i], k)
      PROVE  files[s[i]].watermark <= files[s[m]].watermark
  <2>1. i = m \/ m < i
    BY <1>2
  <2> QED BY <1>1, <2>1 DEF NewestFirst, ByWatermark
<1>3. PICK a : a \in Of(files[s[m]].rows, k)
  BY DEF Holds
<1>4. Rows(files[s[m]].rows)
  BY <1>1, FileGood, FileFacts
<1>5. Of(files[s[m]].rows, k) = {a}
  BY <1>3, <1>4 DEF Rows, Of
<1>6. a \in ColumnarGet([i \in DOMAIN s |-> files[s[i]]], k)
  BY <1>2, <1>3, AnswersAreBest
<1> QED
  BY <1>5, <1>6 DEF OneOf

\* Where no file of a list holds the key there is no answer.
LEMMA NoHolderNoAnswer ==
    ASSUME NEW s, NEW k, \A i \in DOMAIN s : ~Holds(s[i], k)
    PROVE  ColumnarGet([i \in DOMAIN s |-> files[s[i]]], k) = {}
<1> DEFINE list == [i \in DOMAIN s |-> files[s[i]]]
           holders == {f \in Range(list) : Of(f.rows, k) # {}}
<1>1. holders = {}
  BY DEF Range, Holds
<1>2. ColumnarGet(list, k) = UNION {Of(f.rows, k) :
              f \in {h \in holders : \A g \in holders : g.watermark <= h.watermark}}
  BY DEF ColumnarGet
<1> HIDE DEF holders, list
<1> QED
  BY <1>1, <1>2 DEF list

\* A sequence over a set is one over a larger set.
LEMMA SeqWidens ==
    ASSUME NEW S, NEW T, S \subseteq T, NEW s \in Seq(S)
    PROVE  s \in Seq(T)
  OBVIOUS

\* get: the snapshot and its candidates.
LEMMA WalkStarts ==
    ASSUME FilesGood, NEW k \in Keys, NEW s \in Seq(DOMAIN files), NewestFirst(s),
           NEW v, v = NewWalk(k, s, Candidates(s, k))
    PROVE  v \in Walk /\ Good(v) /\ ExactOK(v)
<1>1. v = [at |-> "walk", key |-> {k}, snapshot |-> s, todo |-> Candidates(s, k),
           ask |-> << >>, waiting |-> {}, have |-> {}, got |-> {}]
  BY DEF NewWalk, NoWalk
<1>2. Candidates(s, k) \subseteq DOMAIN s /\ DOMAIN s \subseteq Nat
  BY DEF Candidates
<1>3. s \in Seq(1 .. MaxFiles)
  <2>1. DOMAIN files \subseteq 1 .. MaxFiles
    BY FileGood
  <2> QED BY <2>1, SeqWidens
<1>4. v \in Walk
  BY <1>1, <1>2, <1>3 DEF Walk
<1>5. Pieces(v) = {}
  BY <1>1 DEF Pieces, Range
<1>6. Good(v)
  <2>1. v.at = "walk" /\ v.key = {k} /\ v.snapshot = s /\ v.todo \subseteq DOMAIN s
    BY <1>1, <1>2
  <2>2. WalkOK(v)
    BY <1>5, <2>1 DEF WalkOK
  <2> QED BY <1>4, <2>1, <2>2 DEF Good
<1>7. ASSUME NEW i \in DOMAIN s, Holds(s[i], k) PROVE i \in Candidates(s, k)
  <2>1. s[i] \in DOMAIN files
    BY PlacesAreFiles
  <2>2. FileOK(files[s[i]])
    BY <2>1, FileGood
  <2> QED BY <1>7, <2>2, HolderIsCandidate DEF Holds, Candidates
<1>8. ExactOK(v)
  BY <1>1, <1>7 DEF ExactOK
<1> QED
  BY <1>4, <1>6, <1>8

\* get_metadata asks for the footer of the next file.
LEMMA WalkAsksFooter ==
    ASSUME FilesGood, NEW w, Good(w), w.at = "walk", w.todo # {},
           NEW v, v = [w EXCEPT !.at = "footer", !.ask = <<FooterRange(Current(w))>>]
    PROVE  v \in Walk /\ Good(v) /\ (ExactOK(w) => ExactOK(v))
<1> DEFINE p == Current(w)
           q == <<FooterRange(p)>>
<1>1. w \in Walk /\ Pieces(w) = {}
  BY DEF Good, WalkOK
<1>2. FooterRange(p) \in CacheKeys
  BY CurrentIsFile, FileGood, FooterIsKey
<1>3. q \in Seq(CacheKeys) /\ Range(q) = {FooterRange(p)}
  BY <1>2 DEF Range
<1> HIDE DEF q
<1>4. v = [w EXCEPT !.at = "footer", !.ask = q]
  BY DEF q
<1>5. v \in Walk
  BY <1>1, <1>3, <1>4 DEF Walk
<1>6. /\ v.at = "footer" /\ v.key = w.key /\ v.snapshot = w.snapshot /\ v.todo = w.todo
      /\ v.got = w.got /\ v.ask = q /\ v.waiting = w.waiting /\ v.have = w.have
  BY <1>1, <1>4 DEF Walk
<1>7. Pieces(v) = {FooterRange(Current(v))}
  BY <1>1, <1>3, <1>6 DEF Pieces, Current
<1>8. Good(v)
  BY <1>5, <1>6, <1>7 DEF Good, WalkOK
<1>9. ExactOK(w) => ExactOK(v)
  BY <1>6 DEF ExactOK
<1> QED
  BY <1>5, <1>8, <1>9

\* A read that failed wants nothing more.
LEMMA WalkFails ==
    ASSUME NEW w, Good(w), w.at # "idle", NEW v,
           v = [w EXCEPT !.at = "failed", !.ask = << >>, !.waiting = {}, !.have = {}]
    PROVE  v \in Walk /\ Good(v) /\ ExactOK(v)
<1>1. w \in Walk
  BY DEF Good
<1> DEFINE q == << >>
<1>2. q \in Seq(CacheKeys) /\ Range(q) = {}
  BY DEF Range
<1> HIDE DEF q
<1>3. v = [w EXCEPT !.at = "failed", !.ask = q, !.waiting = {}, !.have = {}]
  BY DEF q
<1>4. v \in Walk
  BY <1>1, <1>2, <1>3 DEF Walk
<1>5. /\ v.at = "failed" /\ v.key = w.key /\ v.snapshot = w.snapshot /\ v.todo = w.todo
      /\ v.got = w.got /\ v.ask = q /\ v.waiting = {} /\ v.have = {}
  BY <1>1, <1>3 DEF Walk
<1>6. Pieces(v) = {}
  BY <1>2, <1>5 DEF Pieces
<1> QED
  BY <1>4, <1>5, <1>6 DEF Good, WalkOK, ExactOK

\* No read is a good read.
LEMMA WalkIdle == NoWalk \in Walk /\ (FileTypes => Good(NoWalk)) /\ ExactOK(NoWalk)
<1> DEFINE e == << >>
<1>1. e \in Seq(CacheKeys) /\ e \in Seq(1 .. MaxFiles) /\ Range(e) = {} /\ DOMAIN e = {}
  BY DEF Range
<1> HIDE DEF e
<1>2. NoWalk = [at |-> "idle", key |-> {}, snapshot |-> e, todo |-> {},
                ask |-> e, waiting |-> {}, have |-> {}, got |-> {}]
  BY DEF NoWalk, e
<1>3. NoWalk \in Walk
  BY <1>1, <1>2 DEF Walk
<1>4. Pieces(NoWalk) = {}
  BY <1>1, <1>2 DEF Pieces
<1>5. ASSUME FileTypes PROVE NewestFirst(e)
  <2>1. 0 \in 0 .. Len(files) /\ Listed(0) = {}
    BY <1>5 DEF FileTypes, Listed
  <2> QED BY <1>1, <2>1 DEF NewestFirst, ByWatermark
<1> QED
  BY <1>2, <1>3, <1>4, <1>5 DEF Good, WalkOK, ExactOK

\* Every candidate was visited, and none has the key.
LEMMA WalkExhausts ==
    ASSUME NEW w, Good(w), w.at = "walk", w.todo = {}, NEW v, v = [w EXCEPT !.at = "done"]
    PROVE  v \in Walk /\ Good(v) /\ (ExactOK(w) => ExactOK(v))
<1>1. w \in Walk
  BY DEF Good
<1>2. v \in Walk
  BY <1>1 DEF Walk
<1>3. /\ v.at = "done" /\ v.key = w.key /\ v.snapshot = w.snapshot /\ v.todo = w.todo
      /\ v.got = w.got /\ v.ask = w.ask /\ v.waiting = w.waiting /\ v.have = w.have
  BY <1>1 DEF Walk
<1>4. Pieces(v) = Pieces(w)
  BY <1>3 DEF Pieces
<1>5. Good(v)
  BY <1>2, <1>3, <1>4 DEF Good, WalkOK
<1>6. ASSUME ExactOK(w), NEW k \in w.key
      PROVE  OneOf(w.got, ColumnarGet([i \in DOMAIN w.snapshot |-> files[w.snapshot[i]]], k))
  <2>1. w.got = {} /\ \A i \in DOMAIN w.snapshot : ~Holds(w.snapshot[i], k)
    BY <1>6 DEF ExactOK
  <2> QED BY <2>1, NoHolderNoAnswer DEF OneOf
<1>7. ExactOK(w) => ExactOK(v)
  BY <1>3, <1>6 DEF ExactOK
<1> QED
  BY <1>2, <1>5, <1>7

\* What scan_row_group makes of the read w.
Scanned(w) ==
    LET hit == UNION {Of(RowsIn(b), k) : b \in w.have, k \in w.key}
        all == {row \in hit : \A b \in w.have : row \in RowsIn(b)}
    IN  [w EXCEPT !.have = {}, !.got = all, !.todo = Rest(w),
                  !.at = IF all = {} THEN "walk" ELSE "done"]

\* scan_row_group: the rows of the chunks are rows of the file; with statistics the
\* file's row for the key is found or there is none.
LEMMA WalkScans ==
    ASSUME FilesGood, NEW w, Good(w), w.at = "scan", w.ask = << >>, w.waiting = {},
           NEW v, v = Scanned(w)
    PROVE  v \in Walk /\ Good(v) /\ (ExactOK(w) => ExactOK(v))
<1> DEFINE p == Current(w)
           f == files[p]
           hit == UNION {Of(RowsIn(b), k) : b \in w.have, k \in w.key}
           all == {row \in hit : \A b \in w.have : row \in RowsIn(b)}
<1>a. v = [w EXCEPT !.have = {}, !.got = all, !.todo = Rest(w),
                    !.at = IF all = {} THEN "walk" ELSE "done"]
  BY DEF Scanned
<1>h. \A x : x \in hit <=> \E b \in w.have, k \in w.key : x \in Of(RowsIn(b), k)
  OBVIOUS
<1> HIDE DEF hit
<1>1. w \in Walk /\ w.todo # {}
  BY DEF Good, WalkOK
<1>2. PICK k \in Keys : w.key = {k}
  BY DEF Good, WalkOK
<1>3. Pieces(w) = w.have
  BY DEF Pieces, Range
<1>4. PICK g \in DOMAIN f.groups : w.have = {PkRange(p, g), ValueRange(p, g)}
  BY <1>3 DEF Good, WalkOK
<1>5. \A b \in w.have : RowsIn(b) = f.groups[g]
  BY <1>4 DEF RowsIn, PkRange, ValueRange, ByteRange
<1>6. hit = Of(f.groups[g], k)
  <2>1. \A b \in w.have, j \in w.key : Of(RowsIn(b), j) = Of(f.groups[g], k)
    BY <1>2, <1>5
  <2>2. w.have # {} /\ w.key # {}
    BY <1>2, <1>4
  <2> HIDE DEF f
  <2> QED BY <1>h, <2>1, <2>2
<1>7. all = hit
  BY <1>5, <1>6 DEF Of
<1> HIDE DEF all
<1>8. /\ Min(w.todo) \in w.todo /\ \A i \in w.todo : Min(w.todo) <= i
      /\ p \in DOMAIN files
  BY <1>1, CurrentIsFile
<1>9. f.groups[g] \subseteq f.rows /\ f.rows \subseteq Record
  <2>1. FileOK(f)
    BY <1>8, FileGood
  <2>2. Rows(f.rows) /\ \E n \in Nat \ {0} : f.groups = RowGroups(f.rows, n)
    BY <2>1, FileFacts
  <2> QED BY <2>1, <2>2, GroupsCut DEF FileOK
<1>10. all \subseteq Record
  BY <1>6, <1>7, <1>9 DEF Of
<1> DEFINE a == IF all = {} THEN "walk" ELSE "done"
<1>11. a \in {"walk", "done"}
  OBVIOUS
<1>12. Rest(w) \in SUBSET Nat /\ Rest(w) \subseteq w.todo
  BY <1>1 DEF Rest, Walk
<1> HIDE DEF a
<1>13. v = [w EXCEPT !.have = {}, !.got = all, !.todo = Rest(w), !.at = a]
  BY <1>a DEF a
<1>14. v \in Walk
  BY <1>1, <1>10, <1>11, <1>12, <1>13 DEF Walk
<1>15. /\ v.at = a /\ v.key = w.key /\ v.snapshot = w.snapshot /\ v.todo = Rest(w)
       /\ v.got = all /\ v.ask = << >> /\ v.waiting = {} /\ v.have = {}
  BY <1>1, <1>13 DEF Walk
<1>16. Pieces(v) = {}
  BY <1>15 DEF Pieces, Range
<1>17. Good(v)
  BY <1>2, <1>11, <1>12, <1>14, <1>15, <1>16 DEF Good, WalkOK
<1>18. ASSUME ExactOK(w) PROVE ExactOK(v)
  <2>1. all = Of(f.rows, k)
    <3>1. PkRange(p, g) \in Pieces(w)
      BY <1>3, <1>4
    <3>2. Of(RowsIn(PkRange(p, g)), k) = Of(f.rows, k)
      BY <1>2, <1>18, <3>1 DEF ExactOK
    <3> QED BY <1>4, <1>5, <1>6, <1>7, <3>2
  <2>2. \A i \in DOMAIN w.snapshot : Holds(w.snapshot[i], k) => i \in w.todo
    BY <1>2, <1>18 DEF ExactOK
  <2>3. CASE all = {}
    <3>1. v.at = "walk" /\ ~Holds(w.snapshot[Min(w.todo)], k)
      BY <1>15, <2>1, <2>3 DEF a, Holds, Current
    <3>2. \A i \in DOMAIN w.snapshot : Holds(w.snapshot[i], k) => i \in Rest(w)
      BY <2>2, <3>1 DEF Rest
    <3> QED BY <1>2, <1>15, <2>3, <3>1, <3>2 DEF ExactOK
  <2>4. CASE all # {}
    <3> DEFINE s == w.snapshot
               m == Min(w.todo)
    <3>1. v.at = "done" /\ Holds(s[m], k)
      BY <1>15, <2>1, <2>4 DEF a, Holds, Current
    <3>2. m \in DOMAIN s /\ DOMAIN s \subseteq Nat /\ NewestFirst(s)
      BY <1>1, <1>8 DEF Good, WalkOK, Walk
    <3>3. \A i \in DOMAIN s : Holds(s[i], k) => m <= i
      BY <1>8, <2>2
    <3> HIDE DEF s, m
    <3>4. OneOf(Of(files[s[m]].rows, k), ColumnarGet([i \in DOMAIN s |-> files[s[i]]], k))
      BY <3>1, <3>2, <3>3, FirstHolderAnswers
    <3>5. all = Of(files[s[m]].rows, k)
      BY <2>1 DEF s, m, Current
    <3>6. OneOf(all, ColumnarGet([i \in DOMAIN s |-> files[s[i]]], k))
      BY <3>4, <3>5
    <3> QED BY <1>2, <1>15, <3>1, <3>6 DEF ExactOK, s
  <2> QED BY <2>3, <2>4
<1> QED
  BY <1>14, <1>17, <1>18

------------------------------------------------------------------------------
(* The steps.                                                               *)

FootersGood ==
    /\ metadata \in [DOMAIN metadata -> DOMAIN files] /\ DOMAIN metadata \subseteq DOMAIN files
    /\ FootersInv

ScalarsGood ==
    /\ table \subseteq [rg : {c.row_group_size : c \in Configs}, blooms : BOOLEAN]
    /\ up \in BOOLEAN
    /\ gets \in 0 .. MaxGets

ListGood(s) == s \in Seq(DOMAIN files) /\ NewestFirst(s)

\* The lists that flushes have loaded and not stored.
FlushesGood ==
    /\ flushes \in [DOMAIN flushes -> SUBSET Seq(DOMAIN files)] /\ DOMAIN flushes \subseteq DOMAIN files
    /\ \A p \in DOMAIN flushes : \A s \in flushes[p] : NewestFirst(s)

ListsGood == ListGood(index) /\ FlushesGood

WalksGood == walk \in [Readers -> Walk] /\ \A r \in Readers : Good(walk[r])

\* The invariant, part by part.
Parts == FilesGood /\ ScalarsGood /\ ListsGood /\ FootersGood /\ WalksGood /\ CacheInv

\* The parts are the invariant.
LEMMA InvHasParts == ReadPathInv <=> Parts
<1>1. ReadPathInv => Parts
  BY DEF ReadPathInv, Parts, TypeOK, FilesGood, FileTypes, ScalarsGood, ListsGood, ListGood, FlushesGood, ListsInv,
         FootersGood, WalksGood, Good, WalkInv
<1>2. Parts => ReadPathInv
  BY DEF ReadPathInv, Parts, TypeOK, FilesGood, FileTypes, ScalarsGood, ListsGood, ListGood, FlushesGood, ListsInv,
         FootersGood, WalksGood, Good, WalkInv, CacheInv
<1> QED
  BY <1>1, <1>2

\* With statistics on every row group.
ExactWithStats == "no_stats" \notin ReadFaults => ExactInv

\* The parts that depend on the files stand as files are added.
LEMMA WalkStands ==
    ASSUME FilesGood, Grown, NEW w, Good(w)
    PROVE  Good(w)' /\ (ExactOK(w) => ExactOK(w)')
<1>1. NewestFirst(w.snapshot)'
  <2> DEFINE s == w.snapshot
  <2>1. NewestFirst(s)
    BY DEF Good
  <2> HIDE DEF s
  <2>2. NewestFirst(s)'
    BY <2>1, ListsStand
  <2> QED BY <2>2 DEF s
<1>2. \A i \in DOMAIN w.snapshot :
          w.snapshot[i] \in DOMAIN files /\ files'[w.snapshot[i]] = files[w.snapshot[i]]
  <2> SUFFICES ASSUME NEW i \in DOMAIN w.snapshot
               PROVE  w.snapshot[i] \in DOMAIN files /\ files'[w.snapshot[i]] = files[w.snapshot[i]]
    OBVIOUS
  <2>1. w.snapshot[i] \in DOMAIN files
    BY PlacesAreFiles DEF Good
  <2> QED BY <2>1 DEF Grown
<1>3. w.todo # {} => Current(w) \in DOMAIN files /\ files'[Current(w)] = files[Current(w)]
  BY CurrentIsFile DEF Grown
<1>4. ASSUME w.todo # {}, NEW g PROVE ValueRange(Current(w), g)' = ValueRange(Current(w), g)
  BY <1>3, <1>4 DEF ValueRange
<1>5. WalkOK(w)'
  <2>1. ASSUME w.at = "scan"
        PROVE  \E g \in DOMAIN files'[Current(w)].groups :
                   Pieces(w) = {PkRange(Current(w), g), ValueRange(Current(w), g)'}
    <3>1. w.todo # {} /\ \E g \in DOMAIN files[Current(w)].groups :
              Pieces(w) = {PkRange(Current(w), g), ValueRange(Current(w), g)}
      BY <2>1 DEF Good, WalkOK
    <3> QED BY <1>3, <1>4, <3>1
  <2> QED BY <2>1 DEF Good, WalkOK
<1>6. ASSUME ExactOK(w) PROVE ExactOK(w)'
  <2>1. \A k : \A i \in DOMAIN w.snapshot : Holds(w.snapshot[i], k)' = Holds(w.snapshot[i], k)
    BY <1>2 DEF Holds
  <2>2. [i \in DOMAIN w.snapshot |-> files[w.snapshot[i]]]' = [i \in DOMAIN w.snapshot |-> files[w.snapshot[i]]]
    BY <1>2
  <2>3. ASSUME w.at = "scan", NEW b \in Pieces(w) PROVE RowsIn(b)' = RowsIn(b)
    <3>1. w.todo # {} /\ b.path = Current(w)
      BY <2>3 DEF Good, WalkOK, PkRange, ValueRange, ByteRange
    <3> QED BY <1>3, <3>1 DEF RowsIn
  <2>4. w.at = "scan" => files'[Current(w)] = files[Current(w)]
    BY <1>3 DEF Good, WalkOK
  <2> SUFFICES ASSUME NEW k \in w.key
        PROVE (/\ w.at \in {"walk", "footer", "scan"} =>
                    w.got = {} /\ \A i \in DOMAIN w.snapshot : Holds(w.snapshot[i], k) => i \in w.todo
               /\ w.at = "scan" =>
                    \A b \in Pieces(w) : Of(RowsIn(b), k) = Of(files[Current(w)].rows, k)
               /\ w.at = "done" =>
                    OneOf(w.got, ColumnarGet([i \in DOMAIN w.snapshot |-> files[w.snapshot[i]]], k)))'
    BY DEF ExactOK
  <2>5. (w.at \in {"walk", "footer", "scan"} =>
              w.got = {} /\ \A i \in DOMAIN w.snapshot : Holds(w.snapshot[i], k) => i \in w.todo)'
    BY <1>6, <2>1 DEF ExactOK
  <2>6. (w.at = "scan" =>
              \A b \in Pieces(w) : Of(RowsIn(b), k) = Of(files[Current(w)].rows, k))'
    BY <1>6, <2>3, <2>4 DEF ExactOK, Of
  <2>7. (w.at = "done" =>
              OneOf(w.got, ColumnarGet([i \in DOMAIN w.snapshot |-> files[w.snapshot[i]]], k)))'
    BY <1>6, <2>2 DEF ExactOK, ColumnarGet, OneOf
  <2> QED BY <2>5, <2>6, <2>7
<1> QED
  BY <1>1, <1>5, <1>6 DEF Good

\* Files that do not change stay good.
LEMMA FilesStand ==
    ASSUME FilesGood, UNCHANGED files
    PROVE  FilesGood' /\ Grown
<1>1. Grown
  BY DEF FilesGood, FileTypes, Grown
<1>2. FileTypes'
  BY DEF FilesGood, FileTypes
<1>3. \A i \in DOMAIN files' : Whole(files'[i])
  BY DEF FilesGood, FilesInv
<1>4. (\A i \in DOMAIN files : Whole(files[i]))'
  BY <1>3 DEF Whole
<1> QED
  BY <1>1, <1>2, <1>4 DEF FilesGood, FilesInv

\* A step of the catalog, the caches and the reads not touched.
LEMMA CatalogStep ==
    ASSUME Parts, ExactWithStats, Grown, FilesGood', ScalarsGood', ListsGood',
           UNCHANGED <<metadata, walk, cacheVars>>
    PROVE  Parts' /\ ExactWithStats'
<1>1. FootersGood'
  BY DEF Parts, FootersGood, FootersInv, Grown
<1>2. CacheInv'
  BY DEF Parts, cacheVars, CacheInv, CacheTypeOK, MapsAgree, ResidentIsExact
<1>3. ASSUME NEW r \in Readers
      PROVE  Good(walk[r])' /\ (ExactOK(walk[r]) => ExactOK(walk[r])')
  <2>1. PICK w : w = walk[r]
    OBVIOUS
  <2>2. Good(w)' /\ (ExactOK(w) => ExactOK(w)')
    BY <2>1, WalkStands DEF Parts, WalksGood
  <2>3. (w = walk[r])'
    BY <2>1
  <2> QED BY <2>1, <2>2, <2>3
<1>4. WalksGood'
  BY <1>3 DEF Parts, WalksGood
<1>5. ExactWithStats'
  BY <1>3 DEF ExactWithStats, ExactInv
<1> QED
  BY <1>1, <1>2, <1>4, <1>5 DEF Parts

\* A good list stays one while files are added.
LEMMA ListStands ==
    ASSUME Grown, NEW s, ListGood(s)
    PROVE  ListGood(s)'
<1>1. NewestFirst(s)'
  BY ListsStand DEF ListGood
<1>2. s \in Seq(DOMAIN files')
  <2>1. DOMAIN files \subseteq DOMAIN files' /\ s \in Seq(DOMAIN files)
    BY DEF Grown, ListGood
  <2> QED BY <2>1, SeqWidens
<1> QED
  BY <1>1, <1>2 DEF ListGood

\* So does the index, when it is left alone.
LEMMA IndexStands ==
    ASSUME ListsGood, Grown, UNCHANGED index
    PROVE  ListGood(index)'
<1>1. PICK s : s = index
  OBVIOUS
<1>2. ListGood(s)'
  BY <1>1, ListStands DEF ListsGood
<1>3. (s = index)'
  BY <1>1
<1> QED
  BY <1>2, <1>3

\* The flushes' lists stand, whichever flushes come, load or go, if those are good.
LEMMA FlushesStand ==
    ASSUME ListsGood, Grown, NEW D \in SUBSET (DOMAIN files)', DOMAIN flushes' = D,
           flushes' = [p \in D |-> flushes'[p]],
           \A p \in D : \/ p \in DOMAIN flushes /\ flushes'[p] = flushes[p]
                        \/ \A s \in flushes'[p] : ListGood(s)
    PROVE  FlushesGood'
<1>1. ASSUME NEW p \in D, NEW s \in flushes'[p] PROVE ListGood(s)'
  <2>1. ListGood(s)
    BY <1>1 DEF ListsGood, FlushesGood, ListGood
  <2> QED BY <2>1, ListStands
<1>2. \A p \in D : \A s \in flushes'[p] : s \in Seq(DOMAIN files') /\ NewestFirst(s)'
  BY <1>1 DEF ListGood
<1>3. flushes' \in [D -> SUBSET Seq(DOMAIN files')]
  BY <1>2
<1> QED
  BY <1>2, <1>3 DEF FlushesGood

\* The lists stand, when none is touched.
LEMMA ListsUntouched ==
    ASSUME ListsGood, Grown, UNCHANGED <<index, flushes>>
    PROVE  ListsGood'
<1>1. DOMAIN flushes \subseteq (DOMAIN files)' /\ flushes = [p \in DOMAIN flushes |-> flushes[p]]
  BY DEF ListsGood, FlushesGood, Grown
<1>2. FlushesGood'
  BY <1>1, FlushesStand
<1> QED
  BY <1>2, IndexStands DEF ListsGood

\* A step of one read.
LEMMA ReaderStep ==
    ASSUME Parts, ExactWithStats, NEW r \in Readers, NEW v \in Walk, Good(v), Step(r, v),
           "no_stats" \notin ReadFaults => ExactOK(v),
           UNCHANGED <<table, files, up, flushes, index>>, FootersGood', gets' \in 0 .. MaxGets, CacheInv'
    PROVE  Parts' /\ ExactWithStats'
<1>1. Grown
  BY FilesStand DEF Parts
<1>2. FilesGood'
  BY FilesStand DEF Parts
<1>3. ScalarsGood'
  BY DEF Parts, ScalarsGood
<1>4. ListsGood'
  BY <1>1, ListsUntouched DEF Parts
<1>5. Good(v)' /\ (ExactOK(v) => ExactOK(v)')
  BY <1>1, WalkStands DEF Parts
<1>6. walk' = [walk EXCEPT ![r] = v] /\ walk \in [Readers -> Walk]
  BY DEF Step, Parts, WalksGood
<1>7. walk' \in [Readers -> Walk] /\ walk'[r] = v
  BY <1>6
<1>8. ASSUME NEW q \in Readers
      PROVE  Good(walk[q])' /\ (ExactWithStats /\ "no_stats" \notin ReadFaults => ExactOK(walk[q])')
  <2>1. CASE q = r
    <3>1. (walk[q] = v)'
      BY <1>7, <2>1
    <3> QED BY <1>5, <3>1
  <2>2. CASE q # r
    <3>1. PICK w : w = walk[q]
      OBVIOUS
    <3>2. (w = walk[q])'
      BY <1>6, <2>2, <3>1
    <3>3. Good(w)' /\ (ExactOK(w) => ExactOK(w)')
      BY <1>1, <3>1, WalkStands DEF Parts, WalksGood
    <3>4. ExactWithStats /\ "no_stats" \notin ReadFaults => ExactOK(w)
      BY <3>1 DEF ExactWithStats, ExactInv
    <3> QED BY <3>2, <3>3, <3>4
  <2> QED BY <2>1, <2>2
<1>9. WalksGood'
  BY <1>7, <1>8 DEF WalksGood
<1>10. ExactWithStats'
  BY <1>8 DEF ExactWithStats, ExactInv
<1> QED
  BY <1>2, <1>3, <1>4, <1>9, <1>10 DEF Parts

\* At the start there is nothing to be wrong.
LEMMA InitGood ==
    ASSUME Init
    PROVE  Parts /\ ExactWithStats
<1>1. FilesGood
  BY ReadAssumption DEF Init, FilesGood, FileTypes, FilesInv, Range
<1>2. ScalarsGood
  <2>1. table = {} /\ up = FALSE /\ gets = 0
    BY DEF Init
  <2>2. 0 \in 0 .. MaxGets
    BY ReadAssumption
  <2> QED BY <2>1, <2>2, Zenon DEF ScalarsGood
<1>3. ListGood(index)
  <2>1. index \in Seq(DOMAIN files) /\ Range(index) = {} /\ DOMAIN index = {}
    BY DEF Init, Range
  <2>2. 0 \in 0 .. Len(files) /\ Listed(0) = {}
    BY <1>1 DEF FilesGood, FileTypes, Listed
  <2> QED BY <2>1, <2>2 DEF ListGood, NewestFirst, ByWatermark
<1>7. FlushesGood
  <2> DEFINE e == << >>
  <2>1. DOMAIN e = {} /\ e \in [{} -> {}]
    OBVIOUS
  <2>2. flushes = e /\ files = e
    BY DEF Init
  <2> HIDE DEF e
  <2> QED BY <2>1, <2>2 DEF FlushesGood
<1>4. FootersGood
  <2> DEFINE e == << >>
  <2>1. DOMAIN e = {} /\ e \in [{} -> {}]
    OBVIOUS
  <2>2. metadata = e /\ files = e
    BY DEF Init
  <2> HIDE DEF e
  <2> QED BY <2>1, <2>2 DEF FootersGood, FootersInv
<1>5. WalksGood /\ ExactWithStats
  <2>1. NoWalk \in Walk /\ Good(NoWalk) /\ ExactOK(NoWalk)
    BY <1>1, WalkIdle DEF FilesGood
  <2>2. walk = [r \in Readers |-> NoWalk]
    BY DEF Init
  <2> QED BY <2>1, <2>2 DEF WalksGood, ExactWithStats, ExactInv
<1>6. CacheInv
  <2> DEFINE e == << >>
  <2>1. DOMAIN e = {} /\ e \in [{} -> [bytes : CacheKeys, tick : 1 .. MaxTick]] /\ e \in [{} -> CacheKeys]
    OBVIOUS
  <2>2. entries = e /\ by_recency = e /\ resident = 0 /\ tick = 0
    BY DEF Init, CacheInit
  <2>3. Held(e, {}) = 0
    <3>1. Cells(e, {}) = {}
      BY DEF Cells
    <3>2. IsFiniteSet({}) /\ Cardinality({}) = 0
      BY FS_EmptySet
    <3> QED BY <3>1, <3>2, HeldCounts
  <2> HIDE DEF e
  <2>4. CacheTypeOK
    BY <2>1, <2>2, CacheAssumption DEF CacheTypeOK
  <2>5. MapsAgree
    BY <2>1, <2>2 DEF MapsAgree
  <2>6. ResidentIsExact
    BY <2>1, <2>2, <2>3, CacheAssumption DEF ResidentIsExact
  <2> QED BY <2>1, <2>2, <2>4, <2>5, <2>6 DEF CacheInv
<1> QED
  BY <1>1, <1>2, <1>3, <1>4, <1>5, <1>6, <1>7 DEF Parts, ListsGood

\* A step that adds no file, and leaves the caches and the reads alone.
LEMMA StutterGood ==
    ASSUME Parts, ExactWithStats, UNCHANGED <<files, metadata, walk, cacheVars>>, ScalarsGood', ListsGood'
    PROVE  Parts' /\ ExactWithStats'
<1>1. Grown
  BY FilesStand DEF Parts
<1>2. FilesGood'
  BY FilesStand DEF Parts
<1> QED
  BY <1>1, <1>2, CatalogStep

\* Every step keeps every part, one case per action.
LEMMA NextGood ==
    ASSUME Parts, ExactWithStats, [Next]_vars
    PROVE  Parts' /\ ExactWithStats'
<1> DEFINE Goal == Parts' /\ ExactWithStats'
<1>0. FilesGood /\ ScalarsGood /\ ListsGood /\ FootersGood /\ WalksGood /\ CacheInv
  BY DEF Parts
<1>s. ASSUME UNCHANGED files PROVE Grown
  BY <1>s, <1>0, FilesStand
<1>f. ASSUME UNCHANGED <<files, metadata>> PROVE FootersGood'
  BY <1>0, <1>f DEF FootersGood, FootersInv
<1>g. ASSUME UNCHANGED gets PROVE gets' \in 0 .. MaxGets
  BY <1>0, <1>g DEF ScalarsGood
<1>c. ASSUME UNCHANGED cacheVars PROVE CacheInv'
  BY <1>0, <1>c DEF cacheVars, CacheInv, CacheTypeOK, MapsAgree, ResidentIsExact
<1>1. CASE UNCHANGED vars
  <2>1. UNCHANGED <<table, files, up, flushes, index, metadata, walk, gets, cacheVars>>
    BY <1>1 DEF vars
  <2>2. ScalarsGood'
    BY <1>0, <2>1 DEF ScalarsGood
  <2>3. ListsGood'
    BY <1>0, <1>s, <2>1, ListsUntouched
  <2> QED BY <2>1, <2>2, <2>3, StutterGood
<1>2. ASSUME NEW c \in Configs, Bootstrap(c) PROVE Goal
  <2>1. UNCHANGED <<files, up, flushes, index, metadata, walk, gets, cacheVars>>
    BY <1>2 DEF Bootstrap
  <2>2. ScalarsGood'
    <3> DEFINE b == c.catalog_blooms \/ \E t \in table : t.blooms
    <3>1. table' = {[rg |-> c.row_group_size, blooms |-> b]} /\ b \in BOOLEAN
      BY <1>2, ReadAssumption DEF Bootstrap
    <3> HIDE DEF b
    <3> QED BY <1>0, <2>1, <3>1 DEF ScalarsGood
  <2>3. ListsGood'
    BY <1>0, <1>s, <2>1, ListsUntouched
  <2> QED BY <2>1, <2>2, <2>3, StutterGood
<1>3. ASSUME NEW op \in Batches, NEW stats \in BOOLEAN, NEW listed \in BOOLEAN, NEW parses \in BOOLEAN,
             Commit(op, stats, listed, parses)
      PROVE  Goal
  <2>1. UNCHANGED <<table, up, index, metadata, walk, gets, cacheVars>>
    BY <1>3 DEF Commit
  <2>2. FileTypes' /\ FilesInv' /\ Grown
    BY <1>0, <1>3, CommitAddsOne DEF FilesGood, ScalarsGood
  <2>3. FilesGood' /\ ScalarsGood'
    BY <1>0, <2>1, <2>2 DEF FilesGood, ScalarsGood
  <2>4. ListGood(index)'
    BY <1>0, <2>1, <2>2, IndexStands
  <2>5. FlushesGood'
    <3>1. flushes' = IF up THEN With(flushes, Len(files) + 1, {}) ELSE flushes
      BY <1>3 DEF Commit
    <3>2. Len(files) + 1 \in (DOMAIN files)' /\ DOMAIN flushes \subseteq (DOMAIN files)'
      <4>1. PICK f : files' = Append(files, f)
        BY <1>3 DEF Commit
      <4>2. Len(files') = Len(files) + 1
        BY <1>0, <4>1 DEF FilesGood, FileTypes
      <4> QED BY <1>0, <2>2, <4>2 DEF Grown, ListsGood, FlushesGood
    <3>3. flushes = [p \in DOMAIN flushes |-> flushes[p]]
      BY <1>0 DEF ListsGood, FlushesGood
    <3>4. CASE up
      <4> DEFINE n == Len(files) + 1
                 D == DOMAIN flushes \cup {n}
      <4>1. flushes' = [p \in D |-> IF p = n THEN {} ELSE flushes[p]]
        BY <3>1, <3>4 DEF With
      <4>2. D \in SUBSET (DOMAIN files)'
        BY <3>2
      <4> HIDE DEF n
      <4>3. /\ DOMAIN flushes' = D /\ flushes' = [p \in D |-> flushes'[p]]
            /\ \A p \in D : (p \in DOMAIN flushes /\ flushes'[p] = flushes[p]) \/ flushes'[p] = {}
        BY <4>1
      <4> HIDE DEF D
      <4> QED BY <1>0, <2>2, <4>2, <4>3, FlushesStand
    <3>5. CASE ~up
      BY <1>0, <2>2, <3>1, <3>2, <3>3, <3>5, FlushesStand
    <3> QED BY <3>4, <3>5
  <2> QED BY <2>1, <2>2, <2>3, <2>4, <2>5, CatalogStep DEF ListsGood
<1>4. ASSUME Open PROVE Goal
  <2>1. UNCHANGED <<table, files, flushes, metadata, walk, gets, cacheVars>> /\ up' \in BOOLEAN
    BY <1>4 DEF Open
  <2>2. PICK s \in Loads : index' = s
    BY <1>4 DEF Open
  <2>3. ScalarsGood'
    BY <1>0, <2>1 DEF ScalarsGood
  <2>4. ListGood(s)
    BY <1>0, LoadIsNewestFirst DEF FilesGood, ListGood
  <2>5. Grown
    BY <1>s, <2>1
  <2>6. ListGood(index)'
    <3>1. ListGood(s)'
      BY <2>4, <2>5, ListStands
    <3>2. (s = index)'
      BY <2>2
    <3> QED BY <3>1, <3>2
  <2>7. FlushesGood'
    <3>1. DOMAIN flushes \subseteq (DOMAIN files)' /\ flushes = [p \in DOMAIN flushes |-> flushes[p]]
      BY <1>0, <2>1 DEF ListsGood, FlushesGood
    <3> QED BY <1>0, <2>1, <2>5, <3>1, FlushesStand
  <2> QED BY <2>1, <2>3, <2>6, <2>7, StutterGood DEF ListsGood
<1>6. ASSUME NEW p \in DOMAIN files, LoadIndex(p) PROVE Goal
  <2>1. UNCHANGED <<table, files, up, index, metadata, walk, gets, cacheVars>> /\ p \in DOMAIN flushes
    BY <1>6 DEF LoadIndex
  <2>2. PICK s \in Loads : flushes' = [flushes EXCEPT ![p] = {s}]
    BY <1>6 DEF LoadIndex
  <2>3. ScalarsGood'
    BY <1>0, <2>1 DEF ScalarsGood
  <2>4. ListGood(s)
    BY <1>0, LoadIsNewestFirst DEF FilesGood, ListGood
  <2>5. FlushesGood'
    <3>1. /\ DOMAIN flushes \subseteq (DOMAIN files)' /\ DOMAIN flushes' = DOMAIN flushes
          /\ flushes' = [q \in DOMAIN flushes |-> flushes'[q]]
          /\ \A q \in DOMAIN flushes : flushes'[q] = flushes[q] \/ flushes'[q] = {s}
      BY <1>0, <2>1, <2>2 DEF ListsGood, FlushesGood
    <3>2. Grown
      BY <1>s, <2>1
    <3>3. \A x \in {s} : ListGood(x)
      BY <2>4
    <3> QED BY <1>0, <3>1, <3>2, <3>3, FlushesStand
  <2>6. ListGood(index)'
    BY <1>0, <1>s, <2>1, IndexStands
  <2> QED BY <2>1, <2>3, <2>5, <2>6, StutterGood DEF ListsGood
<1>7. ASSUME NEW p \in DOMAIN files, StoreIndex(p) PROVE Goal
  <2>1. UNCHANGED <<table, files, up, metadata, walk, gets, cacheVars>> /\ p \in DOMAIN flushes
    BY <1>7 DEF StoreIndex
  <2>2. PICK s \in flushes[p] : index' = s
    BY <1>7 DEF StoreIndex
  <2>3. ScalarsGood'
    BY <1>0, <2>1 DEF ScalarsGood
  <2>4. ListGood(s)
    BY <1>0, <2>1 DEF ListsGood, FlushesGood, ListGood
  <2>5. Grown
    BY <1>s, <2>1
  <2>6. ListGood(index)'
    <3>1. ListGood(s)'
      BY <2>4, <2>5, ListStands
    <3>2. (s = index)'
      BY <2>2
    <3> QED BY <3>1, <3>2
  <2>7. FlushesGood'
    <3> DEFINE D == DOMAIN flushes \ {p}
    <3>1. flushes' = [q \in D |-> flushes[q]]
      BY <1>7 DEF StoreIndex, Without
    <3>2. D \in SUBSET (DOMAIN files)'
      BY <1>0, <2>1 DEF ListsGood, FlushesGood
    <3>3. DOMAIN flushes' = D /\ flushes' = [q \in D |-> flushes'[q]]
          /\ \A q \in D : q \in DOMAIN flushes /\ flushes'[q] = flushes[q]
      BY <3>1
    <3> HIDE DEF D
    <3> QED BY <1>0, <2>5, <3>2, <3>3, FlushesStand
  <2> QED BY <2>1, <2>3, <2>6, <2>7, StutterGood DEF ListsGood
<1>5. ASSUME NEW r \in Readers
      PROVE  \/ \E k \in Keys : StartGet(r, k)
             \/ OpenFile(r) \/ FetchHit(r) \/ FetchMiss(r) \/ Fetched(r) \/ FetchFail(r)
             \/ FooterRead(r) \/ ScanRowGroup(r) \/ Exhaust(r) \/ GetReturn(r)
             => Goal
  <2>1. PICK w : w = walk[r]
    OBVIOUS
  <2>2. Good(w) /\ w \in Walk /\ ("no_stats" \notin ReadFaults => ExactOK(w))
    BY <1>0, <2>1 DEF WalksGood, ExactWithStats, ExactInv
  <2>3. ASSUME NEW v, v \in Walk, Good(v), "no_stats" \notin ReadFaults => ExactOK(v), Step(r, v),
               UNCHANGED <<table, files, up, flushes, index>>, FootersGood', gets' \in 0 .. MaxGets, CacheInv'
        PROVE  Goal
    BY <2>3, ReaderStep
  <2>4. ASSUME NEW k \in Keys, StartGet(r, k) PROVE Goal
    <3>1. PICK s : s = index
      OBVIOUS
    <3>2. PICK v : v = NewWalk(k, s, Candidates(s, k))
      OBVIOUS
    <3>3. v \in Walk /\ Good(v) /\ ExactOK(v)
      BY <1>0, <3>1, <3>2, WalkStarts DEF ListsGood, ListGood
    <3>4. Step(r, v) /\ UNCHANGED <<table, files, up, flushes, index, metadata, cacheVars>>
      BY <2>4, <3>1, <3>2 DEF StartGet
    <3>5. gets' \in 0 .. MaxGets
      BY <1>0, <2>4, ReadAssumption DEF StartGet, ScalarsGood
    <3> QED BY <1>c, <1>f, <2>3, <3>3, <3>4, <3>5
  <2>5. CASE OpenFile(r)
    <3>1. w.at = "walk" /\ w.todo # {} /\ UNCHANGED <<table, files, up, flushes, index, metadata, gets, cacheVars>>
      BY <2>1, <2>5 DEF OpenFile
    <3>2. w.ask = << >> /\ w.waiting = {}
      <4>1. Pieces(w) = {} /\ w.ask \in Seq(CacheKeys)
        BY <2>2, <3>1 DEF Good, WalkOK, Walk
      <4>2. ASSUME w.ask # << >> PROVE FALSE
        <5>1. Range(w.ask) = {Head(w.ask)} \cup Range(Tail(w.ask))
          BY <4>1, <4>2, RangeOfTail
        <5> QED BY <4>1, <5>1 DEF Pieces
      <4> QED BY <4>1, <4>2 DEF Pieces
    <3>3. CASE Current(w) \in DOMAIN metadata
      <4>1. PICK v : v = ReadRowGroup(w, Current(w))
        OBVIOUS
      <4>2. metadata[Current(w)] = Current(w)
        BY <1>0, <3>3 DEF FootersGood, FootersInv
      <4>3. Step(r, v)
        BY <2>1, <2>5, <3>3, <4>1, <4>2 DEF OpenFile
      <4>4. /\ v \in Walk /\ Good(v)
            /\ "no_stats" \notin ReadFaults /\ ExactOK(w) => ExactOK(v)
        BY <1>0, <2>2, <3>1, <3>2, <4>1, RowGroupRead
      <4> QED BY <1>c, <1>f, <1>g, <2>2, <2>3, <3>1, <4>3, <4>4
    <3>4. CASE Current(w) \notin DOMAIN metadata
      <4>1. PICK v : v = [w EXCEPT !.at = "footer", !.ask = <<FooterRange(Current(w))>>]
        OBVIOUS
      <4>2. Step(r, v)
        BY <2>1, <2>5, <3>4, <4>1 DEF OpenFile
      <4>3. v \in Walk /\ Good(v) /\ (ExactOK(w) => ExactOK(v))
        BY <1>0, <2>2, <3>1, <4>1, WalkAsksFooter
      <4> QED BY <1>c, <1>f, <1>g, <2>2, <2>3, <3>1, <4>2, <4>3
    <3> QED BY <3>3, <3>4
  <2>6. CASE FetchHit(r)
    <3>1. w.ask # << >> /\ UNCHANGED <<table, files, up, flushes, index, metadata, gets>>
      BY <2>1, <2>6 DEF FetchHit
    <3>2. PICK b : b = Head(w.ask)
      OBVIOUS
    <3>3. b \in Pieces(w)
      BY <2>2, <3>1, <3>2, RangeOfTail DEF Good, Walk, Pieces
    <3>4. CacheKey(b) = b
      BY <2>2, <3>3, PiecesAreKeys
    <3>5. CacheHit(b) /\ Step(r, [w EXCEPT !.ask = Tail(@), !.have = @ \cup {entries[b].bytes}])
      BY <2>1, <2>6, <3>2, <3>4 DEF FetchHit
    <3>6. entries[b].bytes = b
      BY <1>0, <3>5 DEF CacheHit, Absent, CacheInv
    <3>7. PICK v : v = [w EXCEPT !.ask = Tail(@), !.have = @ \cup {Head(w.ask)}]
      OBVIOUS
    <3>8. Step(r, v)
      BY <3>2, <3>5, <3>6, <3>7
    <3>9. v \in Walk /\ Good(v) /\ (ExactOK(w) => ExactOK(v))
      BY <2>2, <3>1, <3>7, HitMoves
    <3>10. CacheInv'
      BY <1>0, <3>5, HitStep
    <3> QED BY <1>f, <1>g, <2>2, <2>3, <3>1, <3>8, <3>9, <3>10
  <2>7. CASE FetchMiss(r)
    <3>1. w.ask # << >> /\ UNCHANGED <<table, files, up, flushes, index, metadata, gets, cacheVars>>
      BY <2>1, <2>7 DEF FetchMiss
    <3>2. PICK v : v = [w EXCEPT !.ask = Tail(@), !.waiting = @ \cup {Head(w.ask)}]
      OBVIOUS
    <3>3. Step(r, v)
      BY <2>1, <2>7, <3>2 DEF FetchMiss
    <3>4. v \in Walk /\ Good(v) /\ (ExactOK(w) => ExactOK(v))
      BY <2>2, <3>1, <3>2, MissMoves
    <3> QED BY <1>c, <1>f, <1>g, <2>2, <2>3, <3>1, <3>3, <3>4
  <2>8. CASE Fetched(r)
    <3>1. PICK b \in w.waiting :
              /\ CacheInsert(CacheKey(b), b)
              /\ Step(r, [w EXCEPT !.waiting = @ \ {b}, !.have = @ \cup {b}])
      BY <2>1, <2>8 DEF Fetched
    <3>2. UNCHANGED <<table, files, up, flushes, index, metadata, gets>>
      BY <2>8 DEF Fetched
    <3>3. b \in Pieces(w) /\ b \in CacheKeys
      BY <2>2 DEF Pieces, Walk
    <3>4. CacheKey(b) = b
      BY <2>2, <3>3, PiecesAreKeys
    <3>5. CacheInv'
      BY <1>0, <3>1, <3>3, <3>4, InsertStep
    <3>6. PICK v : v = [w EXCEPT !.waiting = @ \ {b}, !.have = @ \cup {b}]
      OBVIOUS
    <3>7. v \in Walk /\ Good(v) /\ (ExactOK(w) => ExactOK(v))
      BY <2>2, <3>6, AnswerMoves
    <3>8. Step(r, v)
      BY <3>1, <3>6
    <3> QED BY <1>f, <1>g, <2>2, <2>3, <3>2, <3>5, <3>7, <3>8
  <2>9. CASE FetchFail(r)
    <3>1. w.waiting # {} /\ UNCHANGED <<table, files, up, flushes, index, metadata, gets, cacheVars>>
      BY <2>1, <2>9 DEF FetchFail
    <3>2. w.at # "idle"
      BY <2>2, <3>1 DEF Good, WalkOK, Pieces
    <3>3. PICK v : v = [w EXCEPT !.at = "failed", !.ask = << >>, !.waiting = {}, !.have = {}]
      OBVIOUS
    <3>4. Step(r, v)
      BY <2>1, <2>9, <3>3 DEF FetchFail
    <3>5. v \in Walk /\ Good(v) /\ ExactOK(v)
      BY <2>2, <3>2, <3>3, WalkFails
    <3> QED BY <1>c, <1>f, <1>g, <2>3, <3>1, <3>4, <3>5
  <2>10. CASE FooterRead(r)
    <3>1. /\ w.at = "footer" /\ w.ask = << >> /\ w.waiting = {}
          /\ UNCHANGED <<table, files, up, flushes, index, gets, cacheVars>>
      BY <2>1, <2>10 DEF FooterRead, Delivered
    <3>2. PICK b \in w.have : /\ metadata' = With(metadata, Current(w), b.path)
                              /\ Step(r, ReadRowGroup(w, b.path))
      BY <2>1, <2>10 DEF FooterRead
    <3>3. w.todo # {} /\ b = FooterRange(Current(w))
      BY <2>2, <3>1 DEF Good, WalkOK, Pieces
    <3>4. b.path = Current(w)
      BY <3>3 DEF FooterRange, ByteRange
    <3>5. PICK v : v = ReadRowGroup(w, Current(w))
      OBVIOUS
    <3>6. /\ v \in Walk /\ Good(v)
          /\ "no_stats" \notin ReadFaults /\ ExactOK(w) => ExactOK(v)
      BY <1>0, <2>2, <3>1, <3>3, <3>5, RowGroupRead
    <3>7. FootersGood'
      <4>1. PICK p : p = Current(w)
        OBVIOUS
      <4>2. p \in DOMAIN files
        BY <1>0, <2>2, <3>3, <4>1, CurrentIsFile
      <4>3. metadata' = With(metadata, p, p)
        BY <3>2, <3>4, <4>1
      <4> QED BY <1>0, <3>1, <4>2, <4>3 DEF FootersGood, FootersInv, With
    <3>8. Step(r, v)
      BY <3>2, <3>4, <3>5
    <3> QED BY <1>c, <1>g, <2>2, <2>3, <3>1, <3>6, <3>7, <3>8
  <2>11. CASE ScanRowGroup(r)
    <3>1. /\ w.at = "scan" /\ w.ask = << >> /\ w.waiting = {}
          /\ UNCHANGED <<table, files, up, flushes, index, metadata, gets, cacheVars>>
      BY <2>1, <2>11 DEF ScanRowGroup, Delivered
    <3>2. PICK v : v = Scanned(w)
      OBVIOUS
    <3>5. Step(r, v)
      BY <2>1, <2>11, <3>2 DEF ScanRowGroup, Scanned
    <3>6. v \in Walk /\ Good(v) /\ (ExactOK(w) => ExactOK(v))
      BY <1>0, <2>2, <3>1, <3>2, WalkScans
    <3> QED BY <1>c, <1>f, <1>g, <2>2, <2>3, <3>1, <3>5, <3>6
  <2>12. CASE Exhaust(r)
    <3>1. w.at = "walk" /\ w.todo = {} /\ UNCHANGED <<table, files, up, flushes, index, metadata, gets, cacheVars>>
      BY <2>1, <2>12 DEF Exhaust
    <3>2. PICK v : v = [w EXCEPT !.at = "done"]
      OBVIOUS
    <3>3. Step(r, v)
      BY <2>1, <2>12, <3>2 DEF Exhaust
    <3>4. v \in Walk /\ Good(v) /\ (ExactOK(w) => ExactOK(v))
      BY <2>2, <3>1, <3>2, WalkExhausts
    <3> QED BY <1>c, <1>f, <1>g, <2>2, <2>3, <3>1, <3>3, <3>4
  <2>13. CASE GetReturn(r)
    <3>1. Step(r, NoWalk) /\ UNCHANGED <<table, files, up, flushes, index, metadata, gets, cacheVars>>
      BY <2>13 DEF GetReturn
    <3>2. NoWalk \in Walk /\ Good(NoWalk) /\ ExactOK(NoWalk)
      BY <1>0, WalkIdle DEF FilesGood
    <3> QED BY <1>c, <1>f, <1>g, <2>3, <3>1, <3>2
  <2> QED BY <2>4, <2>5, <2>6, <2>7, <2>8, <2>9, <2>10, <2>11, <2>12, <2>13
<1> QED
  <2> HIDE DEF Goal
  <2>1. Goal
    BY <1>1, <1>2, <1>3, <1>4, <1>5, <1>6, <1>7 DEF Next, Goal
  <2> QED BY <2>1 DEF Goal

------------------------------------------------------------------------------
(* Theorems.                                                                *)

\* The invariant: what the files, the lists of them, both caches and every read under
\* way are, whatever the faults, as get, flush and publish_index interleave.
THEOREM ReadPathInvariantHolds == Spec => []ReadPathInv
<1>1. Init => Parts /\ ExactWithStats
  BY InitGood
<1>2. Parts /\ ExactWithStats /\ [Next]_vars => (Parts /\ ExactWithStats)'
  BY NextGood
<1>3. Parts => ReadPathInv
  BY InvHasParts
<1> QED
  BY <1>1, <1>2, <1>3, PTL DEF Spec

\* ReadPath's variables keep their types.
THEOREM ReadPathTypeCorrect == Spec => []TypeOK
<1>1. ReadPathInv => TypeOK
  BY DEF ReadPathInv
<1> QED
  BY <1>1, ReadPathInvariantHolds, PTL

\* The byte accounting of ByteCache::insert is exact, and within max_bytes, whatever
\* fetches of one range race.
THEOREM ResidentExact == Spec => []ResidentIsExact
<1>1. ReadPathInv => ResidentIsExact
  BY DEF ReadPathInv, CacheInv
<1> QED
  BY <1>1, ReadPathInvariantHolds, PTL

\* The two maps of the byte cache are inverse to each other.
THEOREM MapsAlwaysAgree == Spec => []MapsAgree
<1>1. ReadPathInv => MapsAgree
  BY DEF ReadPathInv, CacheInv
<1> QED
  BY <1>1, ReadPathInvariantHolds, PTL

\* A step of the read path is a use, an admission, or no step of the LRU.
LEMMA NextIsLru ==
    ASSUME Parts, [Next]_vars
    PROVE  [LRU!Next]_LRU!lruVars
<1>1. ASSUME UNCHANGED cacheVars PROVE UNCHANGED LRU!lruVars
  BY <1>1 DEF cacheVars, LRU!lruVars, ByRecency
<1>2. CASE UNCHANGED vars
  BY <1>1, <1>2 DEF vars
<1>3. ASSUME NEW r \in Readers, FetchHit(r) PROVE LRU!Next
  <2>1. PICK w : w = walk[r]
    OBVIOUS
  <2>2. Good(w) /\ w \in Walk /\ w.ask # << >> /\ CacheHit(CacheKey(Head(w.ask)))
    BY <1>3, <2>1 DEF Parts, WalksGood, FetchHit
  <2>3. PICK b : b = CacheKey(Head(w.ask))
    OBVIOUS
  <2>4. b \in CacheKeys /\ LRU!Use(b)
    BY <2>2, <2>3, HitStep DEF Parts
  <2> QED BY <2>4 DEF LRU!Next
<1>4. ASSUME NEW r \in Readers, Fetched(r) PROVE LRU!Next \/ UNCHANGED cacheVars
  <2>1. PICK w : w = walk[r]
    OBVIOUS
  <2>2. Good(w) /\ w \in Walk
    BY <2>1 DEF Parts, WalksGood
  <2>3. PICK b \in w.waiting : CacheInsert(CacheKey(b), b)
    BY <1>4, <2>1 DEF Fetched
  <2>4. b \in Pieces(w) /\ b \in CacheKeys
    BY <2>2 DEF Pieces, Walk
  <2>5. CacheKey(b) = b
    BY <2>2, <2>4, PiecesAreKeys DEF Parts
  <2>6. LRU!Admit(b) \/ UNCHANGED cacheVars
    BY <2>3, <2>4, <2>5, InsertStep DEF Parts
  <2> QED BY <2>4, <2>6 DEF LRU!Next
<1>5. ASSUME NEW r \in Readers,
             \/ \E k \in Keys : StartGet(r, k)
             \/ OpenFile(r) \/ FetchMiss(r) \/ FetchFail(r) \/ FooterRead(r)
             \/ ScanRowGroup(r) \/ Exhaust(r) \/ GetReturn(r)
      PROVE  UNCHANGED cacheVars
  BY <1>5 DEF StartGet, OpenFile, FetchMiss, FetchFail, FooterRead, ScanRowGroup, Exhaust, GetReturn
<1>6. ASSUME \/ \E c \in Configs : Bootstrap(c)
             \/ \E op \in Batches, stats, listed, parses \in BOOLEAN : Commit(op, stats, listed, parses)
             \/ Open
             \/ \E p \in DOMAIN files : LoadIndex(p) \/ StoreIndex(p)
      PROVE  UNCHANGED cacheVars
  BY <1>6 DEF Bootstrap, Commit, Open, LoadIndex, StoreIndex
<1> QED
  BY <1>1, <1>2, <1>3, <1>4, <1>5, <1>6 DEF Next

\* The byte cache is an LRU, with the reads that use it: whatever fetches race, an
\* insert evicts the least recently used, and no more of them than it must.
THEOREM CacheIsLru == Spec => ImplementsLru
<1>1. Init => LRU!Init
  BY DEF Init, CacheInit, LRU!Init, ByRecency
<1>2. ReadPathInv /\ [Next]_vars => [LRU!Next]_LRU!lruVars
  BY InvHasParts, NextIsLru
<1> QED
  BY <1>1, <1>2, ReadPathInvariantHolds, PTL DEF Spec, ImplementsLru, LRU!Spec

\* No read passes over a file that holds its key, where row groups have statistics.
THEOREM ExactInvariantHolds ==
    ASSUME "no_stats" \notin ReadFaults
    PROVE  Spec => []ExactInv
<1>1. Init => Parts /\ ExactWithStats
  BY InitGood
<1>2. Parts /\ ExactWithStats /\ [Next]_vars => (Parts /\ ExactWithStats)'
  BY NextGood
<1>3. ExactWithStats => ExactInv
  BY DEF ExactWithStats
<1> QED
  BY <1>1, <1>2, <1>3, PTL DEF Spec

\* A point read with pruning and caches returns what reading every file of its
\* snapshot would, where row groups have statistics.
THEOREM PruningExact ==
    ASSUME "no_stats" \notin ReadFaults
    PROVE  Spec => []PruningIsExact
<1>1. ExactInv => PruningIsExact
  BY DEF ExactInv, ExactOK, PruningIsExact
<1> QED
  BY <1>1, ExactInvariantHolds, PTL

\* Where watermarks order the rows of a key, a get for it is at least as new as every row
\* committed up to the newest commit its index names, in whatever order flushes commit
\* and replace the index; where row groups have statistics and every live file its pk row
\* in the catalog.
THEOREM AnswerNewest ==
    ASSUME "no_stats" \notin ReadFaults, "no_catalog_stats" \notin ReadFaults
    PROVE  Spec => []AnswerIsNewest
<1>1. ASSUME Parts, ExactInv PROVE AnswerIsNewest
  <2> SUFFICES ASSUME NEW r \in Readers, walk[r].at = "done",
                      NEW k \in walk[r].key, InFileOrder(k),
                      NEW p \in DOMAIN files, NEW q \in Range(walk[r].snapshot), p <= q,
                      NEW row \in Of(files[p].rows, k)
               PROVE  \E a \in walk[r].got : a.lsn >= row.lsn
    BY DEF AnswerIsNewest
  <2> DEFINE w == walk[r]
             s == w.snapshot
             list == [i \in DOMAIN s |-> files[s[i]]]
             H == {i \in DOMAIN s : Holds(s[i], k)}
             m == Min(H)
  <2>1. FilesGood /\ Good(w)
    BY <1>1 DEF Parts, WalksGood
  <2>2. s \in Seq(1 .. MaxFiles) /\ NewestFirst(s)
    BY <2>1 DEF Good, Walk
  <2> HIDE DEF s
  <2>3. \E i \in DOMAIN s : s[i] = p
    <3>1. PICK n \in 0 .. Len(files) : Range(s) = Listed(n)
      BY <2>2 DEF NewestFirst
    <3>2. q \in 1 .. n
      BY <3>1 DEF s, Listed
    <3>3. files[p].listed /\ p \in 1 .. MaxFiles
      BY <2>1, FileGood DEF FileOK, Whole
    <3>4. p \in 1 .. n
      BY <3>2, <3>3, ReadAssumption
    <3> QED BY <3>1, <3>3, <3>4 DEF Listed, Range
  <2>4. PICK i \in DOMAIN s : s[i] = p
    BY <2>3
  <2>5. Holds(s[i], k) /\ i \in H
    BY <2>4 DEF Holds
  <2>6. H \in SUBSET Nat /\ DOMAIN s \subseteq Nat
    BY <2>2
  <2>7. m \in H /\ \A j \in H : m <= j
    BY <2>5, <2>6, MinOfNaturals
  <2>8. m \in DOMAIN s /\ Holds(s[m], k) /\ \A j \in DOMAIN s : Holds(s[j], k) => m <= j
    BY <2>7
  <2> HIDE DEF m, H
  <2>9. ColumnarGet(list, k) # {}
    BY <2>1, <2>2, <2>6, <2>8, FirstHolderAnswers
  <2>10. OneOf(w.got, ColumnarGet(list, k))
    BY <1>1 DEF ExactInv, ExactOK, s
  <2>11. PICK a \in ColumnarGet(list, k) : w.got = {a}
    BY <2>9, <2>10 DEF OneOf
  <2>12. PICK j \in DOMAIN s :
             /\ a \in Of(files[s[j]].rows, k)
             /\ \A l \in DOMAIN s : Holds(s[l], k) => files[s[l]].watermark <= files[s[j]].watermark
    BY <2>11, AnswersAreBest
  <2>13. files[p].watermark <= files[s[j]].watermark
    BY <2>4, <2>5, <2>12
  <2>14. s[j] \in DOMAIN files
    BY <2>1, <2>2, PlacesAreFiles
  <2>15. files[p] \in Range(files) /\ files[s[j]] \in Range(files)
    BY <2>14 DEF Range
  <2>16. row.lsn <= a.lsn
    BY <2>12, <2>13, <2>15 DEF InFileOrder
  <2>17. row.lsn \in Nat /\ a.lsn \in Nat
    <3>1. row \in Record /\ a \in Record
      BY <2>1, <2>12, <2>14, FileGood DEF FileOK, Of
    <3> QED BY <3>1 DEF Record, Lsn
  <2> QED BY <2>11, <2>16, <2>17
<1>2. ReadPathInv /\ ExactInv => AnswerIsNewest
  BY <1>1, InvHasParts
<1> QED
  BY <1>2, ReadPathInvariantHolds, ExactInvariantHolds, PTL

==============================================================================
