----------------------------- MODULE ObjDic_proofs -----------------------------
(***************************************************************************)
(* Proofs about ObjDic, for every dictionary, any number of axes and every  *)
(* size of a mailbox: what a mapping does to the linked list of objects,    *)
(* the sizes the sync managers were checked against, and the fragments of   *)
(* an object list.                                                          *)
(*                                                                         *)
(* The folds and the walks along pNext are reasoned about by induction over *)
(* sets of numbers (SetInduction): what holds at 0, and at n + 1 when it    *)
(* holds at n, holds for all.                                               *)
(***************************************************************************)
EXTENDS ObjDic, FiniteSetTheorems, SequenceTheorems, WellFoundedInduction, TLAPS
-------------------------------------------------------------------------------
(* Induction.                                                                *)

\* A set of numbers has a least one.
LEMMA Least ==
  ASSUME NEW T, T \subseteq Nat, T # {}
  PROVE  \E x \in T : \A y \in T : x <= y
<1> DEFINE R == {ss \in Nat \X Nat : ss[1] < ss[2]}
<1>1. IsWellFoundedOn(R, Nat)
  BY NatLessThanWellFounded DEF OpToRel
<1>2. \A y, x \in Nat : <<y, x>> \in R <=> y < x
  OBVIOUS
<1> HIDE DEF R
<1>3. \E x \in T : \A y \in T : ~ (<<y, x>> \in R)
  BY <1>1, WFMin
<1>4. \A x, y \in Nat : ~(y < x) => x <= y
  OBVIOUS
<1> QED  BY <1>2, <1>3, <1>4

LEMMA SetInduction ==
  ASSUME NEW T, 0 \in T, \A n \in Nat : n \in T => n + 1 \in T
  PROVE  Nat \subseteq T
<1>1. SUFFICES ASSUME Nat \ T # {} PROVE FALSE
  OBVIOUS
<1>2. PICK x \in Nat \ T : \A y \in Nat \ T : x <= y
  BY <1>1, Least
<1>3. x # 0 /\ x - 1 \in Nat
  BY <1>2
<1>4. x - 1 \in T
  BY <1>2, <1>3
<1>5. (x - 1) + 1 \in T
  BY <1>3, <1>4
<1> QED  BY <1>2, <1>3, <1>5

\* The greatest number of an interval.
LEMMA MaxOfInterval ==
  ASSUME NEW n \in Nat \ {0}
  PROVE  Max(1..n) = n /\ (1..n) \ {n} = 1..(n - 1)
<1>1. n \in 1..n /\ \A y \in 1..n : n >= y
  OBVIOUS
<1>2. \A x \in 1..n : (\A y \in 1..n : x >= y) => x = n
  BY <1>1
<1>3. Max(1..n) = n
  BY <1>1, <1>2 DEF Max
<1> QED  BY <1>3

\* it folds the step g over the sets of the first n numbers, from b on.
IsFold(it, n, V, b, g) ==
  /\ it \in [SUBSET (1..n) -> V]
  /\ \A t \in SUBSET (1..n) :
       it[t] = IF t = {} THEN b ELSE g[<<it[t \ {Max(t)}], Max(t)>>]

\* A step that stays in V can be folded.
LEMMA FoldExists ==
  ASSUME NEW n \in Nat, NEW V, NEW b \in V, NEW g \in [V \X (1..n) -> V]
  PROVE  \E it : IsFold(it, n, V, b, g)
<1> DEFINE Fold(it, k) == IsFold(it, k, V, b, g)
           T == {k \in Nat : k <= n => \E it : Fold(it, k)}
<1> HIDE DEF Fold
<1>1. 0 \in T
  <2> DEFINE it == [t \in SUBSET (1..0) |-> b]
  <2>1. \A t \in SUBSET (1..0) : t = {}
    OBVIOUS
  <2>2. Fold(it, 0)
    BY <2>1 DEF Fold, IsFold
  <2> QED  BY <2>2
<1>2. ASSUME NEW k \in Nat, k \in T
      PROVE  k + 1 \in T
  <2>1. SUFFICES ASSUME k + 1 <= n PROVE \E it : Fold(it, k + 1)
    OBVIOUS
  <2>2. PICK f : Fold(f, k)
    BY <1>2, <2>1
  <2> DEFINE it == [t \in SUBSET (1..(k + 1)) |->
                      IF t \subseteq 1..k THEN f[t] ELSE g[<<f[t \ {k + 1}], k + 1>>]]
  <2>3. ASSUME NEW t \in SUBSET (1..(k + 1)), ~(t \subseteq 1..k)
        PROVE  Max(t) = k + 1 /\ t \ {k + 1} \in SUBSET (1..k)
    <3>1. k + 1 \in t /\ \A y \in t : k + 1 >= y
      BY <2>3
    <3>2. \A x \in t : (\A y \in t : x >= y) => x = k + 1
      BY <3>1
    <3>3. Max(t) = k + 1
      BY <3>1, <3>2 DEF Max
    <3> QED  BY <3>3
  <2>4. ASSUME NEW t \in SUBSET (1..k), t # {}
        PROVE  t \ {Max(t)} \in SUBSET (1..k)
    OBVIOUS
  <2>5. it \in [SUBSET (1..(k + 1)) -> V]
    <3> SUFFICES ASSUME NEW t \in SUBSET (1..(k + 1)) PROVE it[t] \in V
      OBVIOUS
    <3>1. CASE t \subseteq 1..k
      BY <2>2, <3>1 DEF Fold, IsFold
    <3>2. CASE ~(t \subseteq 1..k)
      <4>1. f[t \ {k + 1}] \in V /\ k + 1 \in 1..n
        BY <2>1, <2>2, <2>3, <3>2 DEF Fold, IsFold
      <4> QED  BY <3>2, <4>1
    <3> QED  BY <3>1, <3>2
  <2>6. ASSUME NEW t \in SUBSET (1..(k + 1))
        PROVE  it[t] = IF t = {} THEN b ELSE g[<<it[t \ {Max(t)}], Max(t)>>]
    <3>1. CASE t \subseteq 1..k
      <4>1. it[t] = f[t] /\ (t # {} => it[t \ {Max(t)}] = f[t \ {Max(t)}])
        BY <3>1
      <4>2. f[t] = IF t = {} THEN b ELSE g[<<f[t \ {Max(t)}], Max(t)>>]
        BY <2>2, <3>1 DEF Fold, IsFold
      <4> QED  BY <4>1, <4>2
    <3>2. CASE ~(t \subseteq 1..k)
      <4>1. t # {} /\ it[t \ {k + 1}] = f[t \ {k + 1}]
        BY <2>3, <3>2
      <4> QED  BY <2>3, <3>2, <4>1
    <3> QED  BY <3>1, <3>2
  <2>7. Fold(it, k + 1)
    BY <2>5, <2>6 DEF Fold, IsFold
  <2> QED  BY <2>7
<1>3. n \in T
  <2> HIDE DEF T
  <2> QED  BY <1>1, <1>2, SetInduction
<1>4. PICK it : Fold(it, n)
  BY <1>3
<1> QED  BY <1>4 DEF Fold, IsFold

LEMMA Prefix ==
  ASSUME NEW n \in Nat, NEW i \in 1..n
  PROVE  1..i \in SUBSET (1..n) /\ 1..i # {} /\ i - 1 \in 0..n /\ i \in 0..n
<1>1. 1..i \in SUBSET (1..n)
  OBVIOUS
<1>2. 1 \in 1..i
  OBVIOUS
<1>3. i - 1 \in 0..n /\ i \in 0..n
  OBVIOUS
<1> QED  BY <1>1, <1>2, <1>3

LEMMA MaxIn ==
  ASSUME NEW n \in Nat, NEW t, t \subseteq 1..n, t # {}
  PROVE  Max(t) \in t
<1> DEFINE T == {n - x : x \in t}
<1>1. T \subseteq Nat /\ T # {}
  <2>1. \A x \in t : n - x \in Nat
    OBVIOUS
  <2>2. PICK x \in t : TRUE
    OBVIOUS
  <2>3. n - x \in T
    BY <2>2
  <2> QED  BY <2>1, <2>3
<1>2. PICK y \in T : \A z \in T : y <= z
  BY <1>1, Least
<1>3. PICK x \in t : y = n - x
  BY <1>2
<1>4. \A z \in t : x >= z
  <2> SUFFICES ASSUME NEW z \in t PROVE x >= z
    OBVIOUS
  <2>1. n - z \in T
    OBVIOUS
  <2> QED  BY <1>2, <1>3, <2>1
<1> QED  BY <1>4 DEF Max

\* The objects put into the list one after the other.
LEMMA AddRuns ==
  ASSUME NEW V, NEW d \in V, NEW s \in Seq(Indices),
         \A v \in V, x \in Indices : COE_AddObjectToDic(v, x) \in V
  PROVE  \E r : /\ r[0] = d
                /\ \A i \in 1..Len(s) : r[i] = COE_AddObjectToDic(r[i - 1], s[i])
                /\ FoldLeft(COE_AddObjectToDic, d, s) = r[Len(s)]
<1> DEFINE n == Len(s)
           g == [p \in V \X (1..n) |-> COE_AddObjectToDic(p[1], s[p[2]])]
           Step(f) == [t \in SUBSET (1..n) |->
                         IF t = {} THEN d ELSE COE_AddObjectToDic(f[t \ {Max(t)}], s[Max(t)])]
           It == CHOOSE f : f = Step(f)
<1>1. n \in Nat /\ DOMAIN s = 1..n /\ \A i \in 1..n : s[i] \in Indices
  BY LenProperties, ElementOfSeq
<1>2. g \in [V \X (1..n) -> V]
  BY <1>1
<1>3. PICK f : IsFold(f, n, V, d, g)
  <2> HIDE DEF g, n
  <2> QED  BY <1>1, <1>2, FoldExists
<1>4. \A t \in SUBSET (1..n) :
        t # {} => g[<<f[t \ {Max(t)}], Max(t)>>] = COE_AddObjectToDic(f[t \ {Max(t)}], s[Max(t)])
  <2> SUFFICES ASSUME NEW t \in SUBSET (1..n), t # {}
               PROVE  g[<<f[t \ {Max(t)}], Max(t)>>]
                        = COE_AddObjectToDic(f[t \ {Max(t)}], s[Max(t)])
    OBVIOUS
  <2>1. Max(t) \in 1..n /\ f[t \ {Max(t)}] \in V
    BY <1>1, <1>3, MaxIn DEF IsFold
  <2> QED  BY <2>1
<1>5. f = Step(f)
  <2> HIDE DEF g
  <2> QED  BY <1>3, <1>4 DEF IsFold
<1>6. It = Step(It)
  <2> HIDE DEF Step
  <2> QED  BY <1>5
<1>7. FoldLeft(COE_AddObjectToDic, d, s) = It[1..n]
  <2> HIDE DEF n
  <2> QED  BY <1>1 DEF FoldLeft, MapThenFoldSet
<1> HIDE DEF It
<1> DEFINE r == [k \in 0..n |-> It[1..k]]
<1>8. It[{}] = d /\ \A t \in SUBSET (1..n) :
        t # {} => It[t] = COE_AddObjectToDic(It[t \ {Max(t)}], s[Max(t)])
  BY <1>6
<1>9. r[0] = d
  BY <1>1, <1>8
<1>10. \A i \in 1..n : r[i] = COE_AddObjectToDic(r[i - 1], s[i])
  <2> SUFFICES ASSUME NEW i \in 1..n PROVE r[i] = COE_AddObjectToDic(r[i - 1], s[i])
    OBVIOUS
  <2>1. 1..i \in SUBSET (1..n) /\ 1..i # {} /\ i - 1 \in 0..n /\ i \in 0..n
    <3> HIDE DEF n
    <3> QED  BY <1>1, Prefix
  <2>2. Max(1..i) = i /\ (1..i) \ {i} = 1..(i - 1)
    BY <1>1, MaxOfInterval
  <2>3. It[1..i] = COE_AddObjectToDic(It[1..(i - 1)], s[i])
    BY <1>8, <2>1, <2>2
  <2> QED  BY <2>1, <2>3
<1>11. FoldLeft(COE_AddObjectToDic, d, s) = r[n]
  BY <1>1, <1>7
<1> HIDE DEF r
<1> QED  BY <1>9, <1>10, <1>11

\* The objects taken out of the list one after the other.
LEMMA RemoveRuns ==
  ASSUME NEW V, NEW d \in V, NEW s \in Seq(Indices),
         \A v \in V, x \in Indices : COE_RemoveDicEntry(v, x) \in V
  PROVE  \E r : /\ r[0] = d
                /\ \A i \in 1..Len(s) : r[i] = COE_RemoveDicEntry(r[i - 1], s[i])
                /\ FoldLeft(COE_RemoveDicEntry, d, s) = r[Len(s)]
<1> DEFINE n == Len(s)
           g == [p \in V \X (1..n) |-> COE_RemoveDicEntry(p[1], s[p[2]])]
           Step(f) == [t \in SUBSET (1..n) |->
                         IF t = {} THEN d ELSE COE_RemoveDicEntry(f[t \ {Max(t)}], s[Max(t)])]
           It == CHOOSE f : f = Step(f)
<1>1. n \in Nat /\ DOMAIN s = 1..n /\ \A i \in 1..n : s[i] \in Indices
  BY LenProperties, ElementOfSeq
<1>2. g \in [V \X (1..n) -> V]
  BY <1>1
<1>3. PICK f : IsFold(f, n, V, d, g)
  <2> HIDE DEF g, n
  <2> QED  BY <1>1, <1>2, FoldExists
<1>4. \A t \in SUBSET (1..n) :
        t # {} => g[<<f[t \ {Max(t)}], Max(t)>>] = COE_RemoveDicEntry(f[t \ {Max(t)}], s[Max(t)])
  <2> SUFFICES ASSUME NEW t \in SUBSET (1..n), t # {}
               PROVE  g[<<f[t \ {Max(t)}], Max(t)>>]
                        = COE_RemoveDicEntry(f[t \ {Max(t)}], s[Max(t)])
    OBVIOUS
  <2>1. Max(t) \in 1..n /\ f[t \ {Max(t)}] \in V
    BY <1>1, <1>3, MaxIn DEF IsFold
  <2> QED  BY <2>1
<1>5. f = Step(f)
  <2> HIDE DEF g
  <2> QED  BY <1>3, <1>4 DEF IsFold
<1>6. It = Step(It)
  <2> HIDE DEF Step
  <2> QED  BY <1>5
<1>7. FoldLeft(COE_RemoveDicEntry, d, s) = It[1..n]
  <2> HIDE DEF n
  <2> QED  BY <1>1 DEF FoldLeft, MapThenFoldSet
<1> HIDE DEF It
<1> DEFINE r == [k \in 0..n |-> It[1..k]]
<1>8. It[{}] = d /\ \A t \in SUBSET (1..n) :
        t # {} => It[t] = COE_RemoveDicEntry(It[t \ {Max(t)}], s[Max(t)])
  BY <1>6
<1>9. r[0] = d
  BY <1>1, <1>8
<1>10. \A i \in 1..n : r[i] = COE_RemoveDicEntry(r[i - 1], s[i])
  <2> SUFFICES ASSUME NEW i \in 1..n PROVE r[i] = COE_RemoveDicEntry(r[i - 1], s[i])
    OBVIOUS
  <2>1. 1..i \in SUBSET (1..n) /\ 1..i # {} /\ i - 1 \in 0..n /\ i \in 0..n
    <3> HIDE DEF n
    <3> QED  BY <1>1, Prefix
  <2>2. Max(1..i) = i /\ (1..i) \ {i} = 1..(i - 1)
    BY <1>1, MaxOfInterval
  <2>3. It[1..i] = COE_RemoveDicEntry(It[1..(i - 1)], s[i])
    BY <1>8, <2>1, <2>2
  <2> QED  BY <2>1, <2>3
<1>11. FoldLeft(COE_RemoveDicEntry, d, s) = r[n]
  BY <1>1, <1>7
<1> HIDE DEF r
<1> QED  BY <1>9, <1>10, <1>11
-------------------------------------------------------------------------------
(* The indices.                                                              *)

LEMMA FiniteImage ==
  ASSUME NEW S, IsFiniteSet(S), NEW f, DOMAIN f = S, NEW T, T = {f[x] : x \in S},
         f = [x \in S |-> f[x]]
  PROVE  IsFiniteSet(T)
<1>1. f \in Surjection(S, T)
  BY DEF Surjection
<1> QED  BY <1>1, FS_Surjection

LEMMA ToSetOfSeq ==
  ASSUME NEW S, NEW s \in Seq(S)
  PROVE  /\ ToSet(s) \subseteq S /\ IsFiniteSet(ToSet(s))
         /\ \A x : x \in ToSet(s) <=> \E i \in 1..Len(s) : s[i] = x
<1>1. DOMAIN s = 1..Len(s) /\ Len(s) \in Nat /\ s \in [1..Len(s) -> S]
  BY LenProperties
<1>2. IsFiniteSet(1..Len(s))
  BY <1>1, FS_Interval
<1>3. IsFiniteSet(ToSet(s))
  BY <1>1, <1>2, FiniteImage DEF ToSet
<1> QED  BY <1>1, <1>3 DEF ToSet

LEMMA IndicesFinite ==
  /\ Indices \subseteq Nat \ {0} /\ NULL \notin Indices
  /\ IsFiniteSet(Indices) /\ Cardinality(Indices) \in Nat
  /\ ToSet(General) \subseteq Indices
  /\ \A a \in Slots : ToSet(AxisObjects[a]) \subseteq Indices /\ AxisObjects[a] \in Seq(Nat \ {0})
<1> DEFINE P == Nat \ {0}
           f == [a \in Slots |-> ToSet(AxisObjects[a])]
           F == {ToSet(AxisObjects[a]) : a \in Slots}
<1>1. General \in Seq(P) /\ \A a \in Slots : AxisObjects[a] \in Seq(P)
  BY AxesAssumption
<1>2. ToSet(General) \subseteq P /\ IsFiniteSet(ToSet(General))
  BY <1>1, ToSetOfSeq
<1>3. \A a \in Slots : ToSet(AxisObjects[a]) \subseteq P /\ IsFiniteSet(ToSet(AxisObjects[a]))
  BY <1>1, ToSetOfSeq
<1>4. IsFiniteSet(Slots)
  BY AxesAssumption, FS_Interval DEF Slots
<1>5. IsFiniteSet(F)
  <2>1. DOMAIN f = Slots /\ f = [a \in Slots |-> f[a]]
    OBVIOUS
  <2>2. F = {f[a] : a \in Slots}
    OBVIOUS
  <2> HIDE DEF f, F
  <2> QED  BY <1>4, <2>1, <2>2, FiniteImage
<1>6. IsFiniteSet(UNION F) /\ UNION F \subseteq P
  BY <1>3, <1>5, FS_UNION
<1>7. IsFiniteSet(Indices)
  BY <1>2, <1>6, FS_Union DEF Indices
<1>8. Cardinality(Indices) \in Nat
  BY <1>7, FS_CardinalityType
<1> QED  BY <1>1, <1>2, <1>6, <1>7, <1>8 DEF Indices, NULL

\* What holds at 1, and at i + 1 when it holds at i, holds up to n.
LEMMA UpTo ==
  ASSUME NEW n \in Nat, NEW T, n >= 1 => 1 \in T,
         \A i \in 1..(n - 1) : i \in T => i + 1 \in T
  PROVE  1..n \subseteq T
<1> DEFINE U == {k \in Nat : k \in 1..n => k \in T}
<1>1. 0 \in U
  OBVIOUS
<1>2. ASSUME NEW k \in Nat, k \in U PROVE k + 1 \in U
  <2>1. CASE k = 0
    BY <2>1
  <2>2. CASE k \in 1..(n - 1)
    BY <1>2, <2>2
  <2>3. CASE k >= n
    BY <2>3
  <2> QED  BY <2>1, <2>2, <2>3
<1>3. Nat \subseteq U
  <2> HIDE DEF U
  <2> QED  BY <1>1, <1>2, SetInduction
<1> QED  BY <1>3
-------------------------------------------------------------------------------
(* The linked list of a set of objects.                                      *)

DicType == [head : Indices \cup {NULL}, next : [Indices -> Indices \cup {NULL}],
            prev : [Indices -> Indices \cup {NULL}]]

\* y is the first object of S after x, or NULL when there is none.
IsNext(S, x, y) ==
  \/ y = NULL /\ \A z \in S : z <= x
  \/ y \in S /\ x < y /\ \A z \in S : (z <= x \/ y <= z)

\* y is the last object of S before x, or NULL when there is none.
IsPrev(S, x, y) ==
  \/ y = NULL /\ \A z \in S : x <= z
  \/ y \in S /\ y < x /\ \A z \in S : (x <= z \/ z <= y)

\* The list links the objects of S both ways, and no others.
Linked(d, S) ==
  /\ d \in DicType /\ S \subseteq Indices
  /\ IsNext(S, NULL, d.head)
  /\ \A x \in S : IsNext(S, x, d.next[x]) /\ IsPrev(S, x, d.prev[x])
  /\ \A x \in Indices \ S : d.next[x] = NULL /\ d.prev[x] = NULL

\* c is the walk from e to the end of the list.
Walk(d, c, e) ==
  /\ c \in Seq(Indices) /\ c # <<>> /\ c[1] = e
  /\ \A i \in 1..(Len(c) - 1) : d.next[c[i]] = c[i + 1]
  /\ d.next[c[Len(c)]] = NULL

LEMMA NextAscends ==
  ASSUME NEW d, NEW S, Linked(d, S), NEW x \in Indices
  PROVE  d.next[x] = NULL \/ (d.next[x] \in S /\ x < d.next[x])
<1>1. CASE x \in S
  BY <1>1 DEF Linked, IsNext
<1>2. CASE x \notin S
  BY <1>2 DEF Linked
<1> QED  BY <1>1, <1>2

\* A walk passes each object once, by index.
LEMMA WalkAscends ==
  ASSUME NEW d, NEW S, Linked(d, S), NEW c, NEW e, Walk(d, c, e)
  PROVE  /\ Len(c) \in Nat \ {0} /\ DOMAIN c = 1..Len(c) /\ \A i \in 1..Len(c) : c[i] \in Indices
         /\ \A i, j \in 1..Len(c) : i < j => c[i] < c[j] /\ c[j] \in S
<1> DEFINE n == Len(c)
           T == {j \in 1..n : \A i \in 1..n : i < j => c[i] < c[j] /\ c[j] \in S}
<1>1. n \in Nat \ {0} /\ DOMAIN c = 1..n /\ \A i \in 1..n : c[i] \in Indices
  BY LenProperties, EmptySeq, ElementOfSeq DEF Walk
<1>2. 1 \in T
  BY <1>1
<1>3. ASSUME NEW k \in 1..(n - 1), k \in T PROVE k + 1 \in T
  <2>1. k \in 1..n /\ k + 1 \in 1..n /\ c[k + 1] = d.next[c[k]] /\ c[k + 1] # NULL
    <3> HIDE DEF n, T
    <3> QED  BY <1>1, <1>3, IndicesFinite DEF Walk, n
  <2>2. c[k] < c[k + 1] /\ c[k + 1] \in S
    BY <1>1, <2>1, NextAscends
  <2>3. ASSUME NEW i \in 1..n, i < k + 1 PROVE c[i] < c[k + 1]
    <3>1. CASE i = k
      BY <2>2, <3>1
    <3>2. CASE i < k
      <4>1. c[i] < c[k]
        BY <1>3, <3>2
      <4>2. {c[i], c[k], c[k + 1]} \subseteq Nat
        BY <1>1, <2>1, IndicesFinite
      <4> QED  BY <2>2, <4>1, <4>2
    <3> QED  BY <1>1, <2>3, <3>1, <3>2
  <2> QED  BY <2>1, <2>2, <2>3
<1>4. 1..n \subseteq T
  <2> HIDE DEF n, T
  <2> QED  BY <1>1, <1>2, <1>3, UpTo
<1> QED  BY <1>1, <1>4

\* A walk from an object of the list passes all that follow.
LEMMA WalkCovers ==
  ASSUME NEW d, NEW S, Linked(d, S), NEW c, NEW e \in S, Walk(d, c, e)
  PROVE  ToSet(c) = {z \in S : e <= z}
<1> DEFINE n == Len(c)
           T == {i \in 1..n : \A z \in S : e <= z => z > c[i] \/ \E j \in 1..i : z = c[j]}
<1>1. /\ n \in Nat \ {0} /\ DOMAIN c = 1..n
      /\ \A i \in 1..n : c[i] \in Indices
      /\ \A i, j \in 1..n : i < j => c[i] < c[j] /\ c[j] \in S
  BY WalkAscends
<1>2. S \subseteq Indices /\ Indices \subseteq Nat /\ NULL \notin Indices /\ c[1] = e
  BY IndicesFinite DEF Linked, Walk
<1>3. 1 \in T
  BY <1>1, <1>2
<1>4. ASSUME NEW i \in 1..n PROVE c[i] \in S /\ e <= c[i]
  <2>1. /\ 1 \in 1..n
        /\ e \in Nat /\ c[i] \in Nat
    <3>1. 1 \in 1..n
      BY <1>1
    <3>2. e \in Indices /\ c[i] \in Indices
      BY <1>1, <1>2
    <3> QED  BY <1>2, <3>1, <3>2
  <2>2. CASE i = 1
    BY <1>2, <2>1, <2>2
  <2>3. CASE i # 1
    <3>1. 1 < i
      BY <2>3
    <3>2. c[1] < c[i] /\ c[i] \in S
      BY <1>1, <2>1, <3>1
    <3> QED  BY <1>2, <2>1, <3>2
  <2> QED  BY <2>2, <2>3
<1>5. ASSUME NEW k \in 1..(n - 1), k \in T PROVE k + 1 \in T
  <2>1. k \in 1..n /\ k + 1 \in 1..n /\ c[k + 1] = d.next[c[k]]
    <3> HIDE DEF n, T
    <3> QED  BY <1>1 DEF Walk, n
  <2>2. c[k] \in S /\ c[k + 1] \in S /\ c[k + 1] # NULL
    BY <1>2, <1>4, <2>1
  <2>3. \A z \in S : z <= c[k] \/ c[k + 1] <= z
    BY <2>1, <2>2 DEF Linked, IsNext
  <2>4. ASSUME NEW z \in S, e <= z PROVE z > c[k + 1] \/ \E j \in 1..(k + 1) : z = c[j]
    <3>1. CASE z > c[k]
      <4>1. {z, c[k], c[k + 1]} \subseteq Nat
        BY <1>2, <2>2
      <4>2. z <= c[k] \/ c[k + 1] <= z
        BY <2>3
      <4>3. z = c[k + 1] \/ z > c[k + 1]
        BY <3>1, <4>1, <4>2
      <4>4. k + 1 \in 1..(k + 1)
        BY <2>1
      <4> QED  BY <4>3, <4>4
    <3>2. CASE \E j \in 1..k : z = c[j]
      BY <3>2
    <3> QED  BY <1>5, <2>4, <3>1, <3>2
  <2> QED  BY <2>1, <2>4
<1>6. n \in T
  <2>1. 1..n \subseteq T
    <3> HIDE DEF n, T
    <3> QED  BY <1>1, <1>3, <1>5, UpTo
  <2> QED  BY <1>1, <2>1
<1>7. \A z \in S : z <= c[n]
  <2>1. n \in 1..n /\ d.next[c[n]] = NULL
    BY <1>1 DEF Walk
  <2> QED  BY <1>2, <1>4, <2>1 DEF Linked, IsNext
<1>8. ASSUME NEW z \in S, e <= z PROVE z \in ToSet(c)
  <2>1. \E j \in 1..n : z = c[j]
    <3>1. n \in 1..n
      BY <1>1
    <3>2. c[n] \in S /\ S \subseteq Nat
      BY <1>2, <1>4, <3>1
    <3>3. z \in Nat /\ c[n] \in Nat
      BY <3>2
    <3> QED  BY <1>6, <1>7, <1>8, <3>1, <3>3
  <2> QED  BY <1>1, <2>1 DEF ToSet
<1>9. \A z \in ToSet(c) : z \in S /\ e <= z
  BY <1>1, <1>4 DEF ToSet
<1> QED  BY <1>8, <1>9

LEMMA WalkPrefix ==
  ASSUME NEW d, NEW S, Linked(d, S), NEW e, NEW b, Walk(d, b, e), NEW c, Walk(d, c, e),
         Len(b) <= Len(c)
  PROVE  b = c
<1> DEFINE n == Len(b)
           T == {i \in 1..n : b[i] = c[i]}
<1>1. /\ n \in Nat \ {0} /\ Len(c) \in Nat
      /\ b \in Seq(Indices) /\ c \in Seq(Indices)
      /\ \A i \in 1..Len(c) : c[i] # NULL
  BY WalkAscends, IndicesFinite DEF Walk
<1>2. 1 \in T
  BY <1>1 DEF Walk
<1>3. ASSUME NEW i \in 1..(n - 1), i \in T PROVE i + 1 \in T
  <2>1. b[i + 1] = d.next[b[i]] /\ c[i + 1] = d.next[c[i]]
    BY <1>1 DEF Walk
  <2> QED  BY <1>1, <1>3, <2>1
<1>4. 1..n \subseteq T
  <2> HIDE DEF n, T
  <2> QED  BY <1>1, <1>2, <1>3, UpTo
<1>5. n = Len(c)
  <2> SUFFICES ASSUME n < Len(c) PROVE FALSE
    BY <1>1
  <2>1. b[n] = c[n] /\ n \in 1..(Len(c) - 1) /\ n + 1 \in 1..Len(c)
    BY <1>1, <1>4
  <2>2. d.next[b[n]] = NULL /\ d.next[c[n]] = c[n + 1]
    BY <2>1 DEF Walk
  <2> QED  BY <1>1, <2>1, <2>2
<1> QED  BY <1>1, <1>4, <1>5, SeqEqual

LEMMA WalkUnique ==
  ASSUME NEW d, NEW S, Linked(d, S), NEW e, NEW b, Walk(d, b, e), NEW c, Walk(d, c, e)
  PROVE  b = c
<1>1. Len(b) \in Nat /\ Len(c) \in Nat
  BY WalkAscends
<1>2. Len(b) <= Len(c) \/ Len(c) <= Len(b)
  BY <1>1
<1> QED  BY <1>2, WalkPrefix

\* The rest of a walk is the walk from there.
LEMMA WalkRest ==
  ASSUME NEW d, NEW S, Linked(d, S), NEW e, NEW c, Walk(d, c, e), NEW k \in 1..Len(c)
  PROVE  Walk(d, SubSeq(c, k, Len(c)), c[k])
<1> DEFINE n == Len(c)
           r == SubSeq(c, k, n)
<1>1. n \in Nat \ {0} /\ \A i \in 1..n : c[i] \in Indices
  BY WalkAscends
<1>2. /\ r \in Seq(Indices) /\ Len(r) = n - k + 1
      /\ \A i \in 1..(n - k + 1) : r[i] = c[k + i - 1]
  BY <1>1, SubSeqProperties
<1> HIDE DEF r
<1>3. r # <<>> /\ r[1] = c[k]
  <2>1. Len(r) # 0
    BY <1>1, <1>2
  <2>2. r # <<>>
    BY <2>1, EmptySeq
  <2> QED  BY <1>1, <1>2, <2>2
<1>4. ASSUME NEW i \in 1..(Len(r) - 1) PROVE d.next[r[i]] = r[i + 1]
  <2>1. r[i] = c[k + i - 1] /\ r[i + 1] = c[(k + i - 1) + 1] /\ k + i - 1 \in 1..(n - 1)
    BY <1>1, <1>2
  <2> QED  BY <2>1 DEF Walk
<1>5. r[Len(r)] = c[n]
  BY <1>1, <1>2
<1> QED  BY <1>2, <1>3, <1>4, <1>5 DEF Walk, r
-------------------------------------------------------------------------------
(* ChainFrom.                                                                *)

\* The walk of ChainFrom, which goes on with NULL at the end of the list.
Steps == Cardinality(Indices) + 1
At(d, e) ==
  CHOOSE at : at = [i \in 1..Steps |->
                      IF i = 1 THEN e ELSE IF at[i - 1] = NULL THEN NULL ELSE d.next[at[i - 1]]]

IsAt(a, d, e) ==
  /\ Steps \in Nat \ {0} /\ a \in [1..Steps -> Indices \cup {NULL}] /\ a[1] = e
  /\ \A i \in 1..(Steps - 1) : a[i + 1] = IF a[i] = NULL THEN NULL ELSE d.next[a[i]]
  /\ ChainFrom(d, e) = SubSeq(a, 1, Cardinality({i \in 1..Steps : a[i] # NULL}))

LEMMA AtSteps ==
  ASSUME NEW d \in DicType, NEW e \in Indices \cup {NULL}
  PROVE  IsAt(At(d, e), d, e)
<1> DEFINE V == Indices \cup {NULL}
           Onward(x) == IF x = NULL THEN NULL ELSE d.next[x]
           g == [p \in V \X (1..Steps) |-> IF p[2] = 1 THEN e ELSE Onward(p[1])]
           Eq(at) == at = [i \in 1..Steps |->
                      IF i = 1 THEN e ELSE IF at[i - 1] = NULL THEN NULL ELSE d.next[at[i - 1]]]
           a == At(d, e)
<1>1. Steps \in Nat \ {0}
  BY IndicesFinite DEF Steps
<1>2. g \in [V \X (1..Steps) -> V]
  <2>1. \A x \in V : Onward(x) \in V
    BY DEF DicType
  <2> HIDE DEF Onward
  <2> QED  BY <2>1
<1>3. PICK f : IsFold(f, Steps, V, e, g)
  <2> HIDE DEF g, V
  <2>1. e \in V
    BY DEF V
  <2> QED  BY <1>1, <1>2, <2>1, FoldExists
<1> DEFINE h == [i \in 1..Steps |-> f[1..i]]
<1>4. ASSUME NEW i \in 1..Steps
      PROVE  h[i] = (IF i = 1 THEN e ELSE IF h[i - 1] = NULL THEN NULL ELSE d.next[h[i - 1]])
             /\ h[i] \in V
  <2>1. /\ 1..i \in SUBSET (1..Steps) /\ 1..i # {}
        /\ Max(1..i) = i /\ (1..i) \ {i} = 1..(i - 1)
        /\ 1..(i - 1) \in SUBSET (1..Steps)
    BY <1>1, Prefix, MaxOfInterval
  <2>2. f[1..i] = g[<<f[1..(i - 1)], i>>] /\ f[1..(i - 1)] \in V /\ f[1..i] \in V
    <3> HIDE DEF g, V
    <3> QED  BY <1>3, <2>1 DEF IsFold
  <2>3. f[1..i] = IF i = 1 THEN e ELSE Onward(f[1..(i - 1)])
    BY <2>2
  <2>4. h[i] = f[1..i] /\ (i # 1 => h[i - 1] = f[1..(i - 1)])
    <3>1. i # 1 => i - 1 \in 1..Steps
      BY <1>1
    <3> QED  BY <3>1
  <2> HIDE DEF h
  <2> QED  BY <2>2, <2>3, <2>4
<1>5. Eq(h)
  <2>1. h = [i \in 1..Steps |-> h[i]]
    BY Zenon
  <2> HIDE DEF h
  <2> QED  BY <1>4, <2>1, Zenon
<1>6. Eq(a)
  <2> HIDE DEF h
  <2>1. \E at : Eq(at)
    BY <1>5
  <2> QED  BY <2>1, Zenon DEF At
<1>7. a[1] = e /\ DOMAIN a = 1..Steps
  BY <1>1, <1>6
<1>8. ASSUME NEW i \in 1..(Steps - 1)
      PROVE  a[i + 1] = IF a[i] = NULL THEN NULL ELSE d.next[a[i]]
  <2>1. i + 1 \in 1..Steps /\ i + 1 # 1 /\ (i + 1) - 1 = i
    BY <1>1
  <2> HIDE DEF a
  <2> QED  BY <1>6, <2>1
<1>9. ChainFrom(d, e) = SubSeq(a, 1, Cardinality({i \in 1..Steps : a[i] # NULL}))
  <2>1. ChainFrom(d, e) = SubSeq(a, 1, Cardinality({i \in DOMAIN a : a[i] # NULL}))
    BY DEF ChainFrom, At, Steps
  <2> HIDE DEF a
  <2> QED  BY <1>7, <2>1
<1>10. a \in [1..Steps -> V]
  <2> DEFINE T == {i \in 1..Steps : a[i] \in V}
  <2> HIDE DEF a
  <2>1. 1 \in T
    BY <1>1, <1>7
  <2>2. ASSUME NEW i \in 1..(Steps - 1), i \in T PROVE i + 1 \in T
    <3>1. a[i + 1] \in V
      BY <1>8, <2>2 DEF DicType
    <3> QED  BY <1>1, <3>1
  <2>3. 1..Steps \subseteq T
    <3> HIDE DEF T
    <3> QED  BY <1>1, <2>1, <2>2, UpTo
  <2>4. a = [i \in 1..Steps |-> a[i]]
    BY <1>6, <1>7 DEF a
  <2> QED  BY <2>3, <2>4
<1> HIDE DEF a
<1> QED  BY <1>1, <1>7, <1>8, <1>9, <1>10 DEF IsAt, a

LEMMA ChainFromNull ==
  ASSUME NEW d \in DicType
  PROVE  ChainFrom(d, NULL) = <<>>
<1> DEFINE a == At(d, NULL)
           T == {i \in 1..Steps : a[i] = NULL}
<1>0. IsAt(a, d, NULL)
  BY AtSteps
<1> HIDE DEF a
<1>1. /\ Steps \in Nat \ {0} /\ a[1] = NULL
      /\ \A i \in 1..(Steps - 1) : a[i + 1] = IF a[i] = NULL THEN NULL ELSE d.next[a[i]]
      /\ ChainFrom(d, NULL) = SubSeq(a, 1, Cardinality({i \in 1..Steps : a[i] # NULL}))
  BY <1>0 DEF IsAt
<1>2. 1..Steps \subseteq T
  <2>1. 1 \in T
    BY <1>1
  <2>2. \A i \in 1..(Steps - 1) : i \in T => i + 1 \in T
    BY <1>1
  <2> HIDE DEF T
  <2> QED  BY <1>1, <2>1, <2>2, UpTo
<1>3. {i \in 1..Steps : a[i] # NULL} = {}
  BY <1>2
<1>4. SubSeq(a, 1, 0) = <<>>
  BY SubSeqEmpty
<1> QED  BY <1>1, <1>3, <1>4, FS_EmptySet

\* Numbers that ascend from step to step ascend.
LEMMA StepsAscend ==
  ASSUME NEW n \in Nat, NEW a, \A i \in 1..n : a[i] \in Nat,
         \A i \in 1..(n - 1) : a[i] < a[i + 1]
  PROVE  \A i, j \in 1..n : i < j => a[i] < a[j]
<1> DEFINE T == {j \in 1..n : \A i \in 1..n : i < j => a[i] < a[j]}
<1>1. n >= 1 => 1 \in T
  OBVIOUS
<1>2. ASSUME NEW k \in 1..(n - 1), k \in T PROVE k + 1 \in T
  <2>1. k \in 1..n /\ k + 1 \in 1..n /\ a[k] < a[k + 1]
    OBVIOUS
  <2>2. ASSUME NEW i \in 1..n, i < k + 1 PROVE a[i] < a[k + 1]
    <3>1. i = k \/ i < k
      BY <2>1, <2>2
    <3>2. i < k => a[i] < a[k]
      BY <1>2
    <3>3. {a[i], a[k], a[k + 1]} \subseteq Nat
      BY <2>1
    <3> QED  BY <2>1, <3>1, <3>2, <3>3
  <2> QED  BY <2>1, <2>2
<1>3. 1..n \subseteq T
  <2> HIDE DEF T
  <2> QED  BY <1>1, <1>2, UpTo
<1> QED  BY <1>3

\* ChainFrom comes to the end: it never passes an object twice.
LEMMA AtEnds ==
  ASSUME NEW d, NEW S, Linked(d, S), NEW e \in Indices
  PROVE  \E i \in 1..Steps : At(d, e)[i] = NULL
<1> DEFINE a == At(d, e)
<1> SUFFICES ASSUME \A i \in 1..Steps : a[i] # NULL PROVE FALSE
  OBVIOUS
<1>0. IsAt(a, d, e)
  BY AtSteps DEF Linked
<1> HIDE DEF a
<1>1. /\ Steps \in Nat \ {0} /\ a \in [1..Steps -> Indices \cup {NULL}]
      /\ \A i \in 1..(Steps - 1) : a[i + 1] = IF a[i] = NULL THEN NULL ELSE d.next[a[i]]
  BY <1>0 DEF IsAt
<1>2. a \in [1..Steps -> Indices]
  BY <1>1
<1>3. \A i \in 1..(Steps - 1) : a[i] < a[i + 1]
  <2> SUFFICES ASSUME NEW i \in 1..(Steps - 1) PROVE a[i] < a[i + 1]
    OBVIOUS
  <2>1. i \in 1..Steps /\ i + 1 \in 1..Steps
    BY <1>1
  <2>2. a[i] \in Indices /\ a[i + 1] = d.next[a[i]] /\ a[i + 1] # NULL
    BY <1>1, <1>2, <2>1
  <2> QED  BY <2>2, NextAscends
<1>4. \A i \in 1..Steps : a[i] \in Nat
  BY <1>2, IndicesFinite
<1>5. \A i, j \in 1..Steps : i < j => a[i] < a[j]
  BY <1>1, <1>3, <1>4, StepsAscend
<1>6. \A i, j \in 1..Steps : i # j => a[i] # a[j]
  <2> SUFFICES ASSUME NEW i \in 1..Steps, NEW j \in 1..Steps, i # j PROVE a[i] # a[j]
    OBVIOUS
  <2>1. i < j \/ j < i
    BY <1>1
  <2>2. a[i] \in Nat /\ a[j] \in Nat
    BY <1>4
  <2> QED  BY <1>5, <2>1, <2>2
<1>7. IsFiniteSet(1..Steps) /\ Cardinality(1..Steps) = Steps
  BY <1>1, FS_Interval
<1>8. Cardinality(Indices) < Cardinality(1..Steps) /\ IsFiniteSet(Indices)
  BY <1>7, IndicesFinite DEF Steps
<1>9. \E i, j \in 1..Steps : i # j /\ a[i] = a[j]
  BY <1>2, <1>7, <1>8, FS_PigeonHole
<1> QED  BY <1>6, <1>9

LEMMA ChainFromWalks ==
  ASSUME NEW d, NEW S, Linked(d, S), NEW e \in Indices
  PROVE  Walk(d, ChainFrom(d, e), e)
<1> DEFINE a == At(d, e)
           c == ChainFrom(d, e)
           E == {i \in 1..Steps : a[i] = NULL}
<1>0. IsAt(a, d, e)
  BY AtSteps DEF Linked
<1> HIDE DEF a
<1>1. /\ Steps \in Nat \ {0} /\ a \in [1..Steps -> Indices \cup {NULL}] /\ a[1] = e
      /\ \A i \in 1..(Steps - 1) : a[i + 1] = IF a[i] = NULL THEN NULL ELSE d.next[a[i]]
      /\ c = SubSeq(a, 1, Cardinality({i \in 1..Steps : a[i] # NULL}))
  BY <1>0 DEF IsAt
<1>2. E # {} /\ E \subseteq Nat
  BY AtEnds DEF a
<1>3. PICK m \in E : \A i \in E : m <= i
  <2> HIDE DEF E
  <2> QED  BY <1>2, Least
<1> DEFINE n == m - 1
<1>4. n \in Nat \ {0} /\ n + 1 = m /\ n + 1 \in 1..Steps /\ a[n + 1] = NULL
  <2>1. m # 1
    BY <1>1, <1>3, IndicesFinite
  <2> QED  BY <1>1, <1>3, <2>1
<1> HIDE DEF n
<1>5. \A i \in 1..n : a[i] \in Indices
  <2> SUFFICES ASSUME NEW i \in 1..n PROVE a[i] \in Indices
    OBVIOUS
  <2>1. i \in 1..Steps /\ ~(m <= i)
    BY <1>1, <1>4
  <2> QED  BY <1>1, <1>3, <2>1
<1>6. \A i \in 1..Steps : i > n => a[i] = NULL
  <2> DEFINE T == {i \in 1..Steps : i > n => a[i] = NULL}
  <2>1. 1 \in T
    BY <1>1, <1>4
  <2>2. ASSUME NEW i \in 1..(Steps - 1), i \in T PROVE i + 1 \in T
    <3>1. i + 1 \in 1..Steps
      BY <1>1
    <3>2. CASE i = n
      BY <1>4, <3>1, <3>2
    <3>3. CASE i > n
      BY <1>1, <2>2, <3>1, <3>3
    <3>4. CASE i < n
      BY <1>4, <3>1, <3>4
    <3> QED  BY <1>4, <3>2, <3>3, <3>4
  <2>3. 1..Steps \subseteq T
    <3> HIDE DEF T
    <3> QED  BY <1>1, <2>1, <2>2, UpTo
  <2> QED  BY <2>3
<1>7. {i \in 1..Steps : a[i] # NULL} = 1..n
  BY <1>1, <1>4, <1>5, <1>6, IndicesFinite
<1>8. Cardinality(1..n) = n
  BY <1>4, FS_Interval
<1>9. c = SubSeq(a, 1, n)
  BY <1>1, <1>7, <1>8
<1>10. /\ c \in Seq(Indices) /\ Len(c) = n
       /\ \A i \in 1..n : c[i] = a[i]
  <2>1. 1 \in Int /\ n \in Int /\ 1 <= n /\ n - 1 + 1 = n
    BY <1>4
  <2>2. \A i \in 1..n : 1 + i - 1 = i
    OBVIOUS
  <2> HIDE DEF c
  <2> QED  BY <1>5, <1>9, <2>1, <2>2, SubSeqProperties
<1> HIDE DEF c
<1>11. c # <<>> /\ c[1] = e
  <2>1. c # <<>>
    BY <1>4, <1>10, EmptySeq
  <2> QED  BY <1>1, <1>4, <1>10, <2>1
<1>12. ASSUME NEW i \in 1..n PROVE a[i + 1] = d.next[c[i]]
  <2>1. i \in 1..(Steps - 1) /\ a[i] # NULL /\ c[i] = a[i]
    BY <1>1, <1>4, <1>5, <1>10, IndicesFinite
  <2> QED  BY <1>1, <2>1
<1>13. \A i \in 1..(Len(c) - 1) : d.next[c[i]] = c[i + 1]
  BY <1>4, <1>10, <1>12
<1>14. d.next[c[Len(c)]] = NULL
  BY <1>4, <1>10, <1>12
<1> QED  BY <1>10, <1>11, <1>13, <1>14 DEF Walk, c
-------------------------------------------------------------------------------
(* Chain, and what is put into it and taken out.                             *)

\* What Chain reads: the objects by index.
Reads(c, d, S) ==
  /\ c \in Seq(Indices) /\ Len(c) \in Nat /\ DOMAIN c = 1..Len(c)
  /\ \A i \in 1..Len(c) : c[i] \in S
  /\ \A z \in S : \E i \in 1..Len(c) : c[i] = z
  /\ \A i, j \in 1..Len(c) : i < j => c[i] < c[j]
  /\ c # <<>> => Len(c) # 0 /\ c[1] = d.head
  /\ c = <<>> => d.head = NULL

LEMMA ChainReads ==
  ASSUME NEW d, NEW S, Linked(d, S)
  PROVE  Reads(Chain(d), d, S)
<1> DEFINE c == Chain(d)
           e == d.head
<1>0. /\ d \in DicType /\ S \subseteq Indices /\ Indices \subseteq Nat \ {0}
      /\ IsNext(S, NULL, e)
  BY IndicesFinite DEF Linked
<1>1. CASE e = NULL
  <2>1. c = <<>>
    BY <1>0, <1>1, ChainFromNull DEF Chain
  <2>2. S = {}
    <3>1. \A z \in S : z <= 0
      BY <1>0, <1>1 DEF IsNext, NULL
    <3> QED  BY <1>0, <3>1
  <2>3. <<>> \in Seq(Indices) /\ Len(<<>>) = 0 /\ DOMAIN <<>> = 1..0
    BY EmptySeq, LenProperties
  <2> HIDE DEF c
  <2> QED  BY <1>1, <2>1, <2>2, <2>3 DEF Reads, c
<1>2. CASE e # NULL
  <2>1. e \in S /\ \A z \in S : e <= z
    <3>1. e \in S /\ \A z \in S : z <= 0 \/ e <= z
      BY <1>0, <1>2 DEF IsNext, NULL
    <3> QED  BY <1>0, <3>1
  <2>2. Walk(d, c, e)
    BY <1>0, <2>1, ChainFromWalks DEF Chain
  <2> HIDE DEF c, e
  <2>3. ToSet(c) = S
    BY <2>1, <2>2, WalkCovers
  <2>4. /\ Len(c) \in Nat \ {0} /\ DOMAIN c = 1..Len(c)
        /\ \A i, j \in 1..Len(c) : i < j => c[i] < c[j] /\ c[j] \in S
    BY <2>2, WalkAscends
  <2>5. c \in Seq(Indices) /\ c # <<>> /\ c[1] = e
    BY <2>2 DEF Walk
  <2>6. \A i \in 1..Len(c) : c[i] \in S
    BY <2>3, <2>4 DEF ToSet
  <2>7. \A z \in S : \E i \in 1..Len(c) : c[i] = z
    BY <2>3, <2>4 DEF ToSet
  <2> QED  BY <2>4, <2>5, <2>6, <2>7 DEF Reads, c, e
<1> QED  BY <1>1, <1>2

\* SelectInSeq finds the first element that is at least x.
LEMMA SelectFirst ==
  ASSUME NEW c, Len(c) \in Nat, NEW x
  PROVE  LET i == SelectInSeq(c, LAMBDA y : y >= x)
         IN  \/ i = 0 /\ \A j \in 1..Len(c) : ~(c[j] >= x)
             \/ /\ i \in 1..Len(c) /\ c[i] >= x
                /\ \A j \in 1..Len(c) : j < i => ~(c[j] >= x)
<1> DEFINE I == {i \in 1..Len(c) : c[i] >= x}
           i == SelectInSeq(c, LAMBDA y : y >= x)
<1>1. i = IF I # {} THEN Min(I) ELSE 0
  BY DEF SelectInSeq
<1>2. CASE I = {}
  BY <1>1, <1>2
<1>3. CASE I # {}
  <2>1. PICK m \in I : \A y \in I : m <= y
    <3>1. I \subseteq Nat
      OBVIOUS
    <3> HIDE DEF I
    <3> QED  BY <1>3, <3>1, Least
  <2>2. \A y \in I : (\A z \in I : y <= z) => y = m
    BY <2>1
  <2>3. Min(I) = m
    <3> HIDE DEF I
    <3> QED  BY <2>1, <2>2 DEF Min
  <2>4. i = m
    BY <1>1, <1>3, <2>3
  <2>5. \A j \in 1..Len(c) : j < m => ~(c[j] >= x)
    BY <2>1
  <2> HIDE DEF i
  <2> QED  BY <2>1, <2>4, <2>5 DEF i
<1> QED  BY <1>2, <1>3

LEMMA InsertBeforeLinks ==
  ASSUME NEW d, NEW S, Linked(d, S), NEW x \in Indices, x \notin S, NEW e \in S,
         x < e, \A z \in S : z < x \/ e <= z
  PROVE  Linked(InsertBefore(d, x, e), S \cup {x})
<1> DEFINE k == InsertBefore(d, x, e)
           R == S \cup {x}
           p == IF e = d.head THEN NULL ELSE d.prev[e]
<1>1. /\ d \in DicType /\ S \subseteq Indices /\ Indices \subseteq Nat \ {0}
      /\ e \in Indices /\ S \subseteq Nat \ {0}
      /\ d.next \in [Indices -> Indices \cup {NULL}] /\ d.prev \in [Indices -> Indices \cup {NULL}]
      /\ d.head \in Indices \cup {NULL}
  BY IndicesFinite DEF Linked, DicType
<1>2. IsNext(S, NULL, d.head) /\ \A z \in S : IsNext(S, z, d.next[z]) /\ IsPrev(S, z, d.prev[z])
  BY DEF Linked
<1>3. p = d.prev[e]
  <2> SUFFICES ASSUME e = d.head PROVE d.prev[e] = NULL
    OBVIOUS
  <2>1. \A z \in S : e <= z
    BY <1>1, <1>2 DEF IsNext, NULL
  <2> QED  BY <1>1, <1>2, <2>1 DEF IsPrev
<1>4. IsPrev(S, e, p)
  BY <1>2, <1>3
<1> HIDE DEF p
<1>5. /\ p = NULL => \A z \in S : x < z
      /\ p # NULL => p \in S /\ p < x /\ p # e /\ \A z \in S : x < z \/ z <= p
      /\ p # x /\ p \in Indices \cup {NULL}
  <2>1. CASE p = NULL /\ \A z \in S : e <= z
    <3>1. \A z \in S : x < z
      BY <1>1, <2>1
    <3> QED  BY <1>1, <2>1, <3>1, IndicesFinite
  <2>2. CASE p \in S /\ p < e /\ \A z \in S : (e <= z \/ z <= p)
    <3>1. p \in Nat /\ e \in Nat /\ x \in Nat
      BY <1>1, <2>2
    <3>2. p < x
      BY <2>2, <3>1
    <3>3. \A z \in S : x < z \/ z <= p
      BY <1>1, <2>2
    <3>4. p # NULL /\ p # e /\ p # x /\ p \in Indices
      <4>1. p \in Nat \ {0} /\ p \in Indices
        BY <1>1, <2>2
      <4> QED  BY <2>2, <3>1, <3>2, <4>1 DEF NULL
    <3> QED  BY <2>2, <3>2, <3>3, <3>4
  <2> QED  BY <1>4, <2>1, <2>2 DEF IsPrev
<1>6. /\ k.head = (IF e = d.head THEN x ELSE d.head)
      /\ k.next = Link([d.next EXCEPT ![x] = e], p, x)
      /\ k.prev = [d.prev EXCEPT ![x] = p, ![e] = x]
      /\ k = [head |-> k.head, next |-> k.next, prev |-> k.prev]
  BY DEF InsertBefore, p
<1> HIDE DEF k
<1>7. /\ k.next \in [Indices -> Indices \cup {NULL}]
      /\ k.next[x] = e
      /\ p # NULL => k.next[p] = x
      /\ \A z \in Indices : z # x /\ z # p => k.next[z] = d.next[z]
  <2>1. CASE p = NULL
    BY <1>1, <1>6, <2>1, IndicesFinite DEF Link
  <2>2. CASE p # NULL
    BY <1>1, <1>5, <1>6, <2>2 DEF Link
  <2> QED  BY <2>1, <2>2
<1>8. /\ k.prev \in [Indices -> Indices \cup {NULL}]
      /\ k.prev[x] = p /\ k.prev[e] = x
      /\ \A z \in Indices : z # x /\ z # e => k.prev[z] = d.prev[z]
  BY <1>1, <1>5, <1>6
<1>9. k \in DicType
  BY <1>1, <1>6, <1>7, <1>8 DEF DicType
<1>10. IsNext(R, NULL, k.head)
  <2>1. CASE e = d.head
    BY <1>1, <1>2, <1>6, <2>1 DEF IsNext, NULL
  <2>2. CASE e # d.head
    <3> DEFINE u == d.head
    <3>1. u \in S /\ 0 < u /\ \A z \in S : z <= 0 \/ u <= z
      <4>1. ~(e <= 0)
        BY <1>1
      <4> QED  BY <1>2, <4>1 DEF IsNext, NULL
    <3>2. k.head = u
      BY <1>6, <2>2
    <3> HIDE DEF u
    <3>3. u \in Nat /\ e \in Nat /\ x \in Nat
      BY <1>1, <3>1
    <3>4. u <= x
      <4>1. u < x \/ e <= u
        BY <3>1
      <4>2. e # u /\ u <= e
        BY <1>1, <2>2, <3>1 DEF u
      <4> QED  BY <3>3, <4>1, <4>2
    <3> QED  BY <3>1, <3>2, <3>4 DEF IsNext, NULL
  <2> QED  BY <2>1, <2>2
<1>11. ASSUME NEW z \in R PROVE IsNext(R, z, k.next[z])
  <2>1. CASE z = x
    BY <1>1, <1>7, <2>1 DEF IsNext
  <2>2. CASE z # x /\ z = p
    <3>1. k.next[z] = x /\ x \in R /\ z < x
      BY <1>5, <1>7, <1>11, <2>2, IndicesFinite, <1>1
    <3>2. \A y \in R : y <= z \/ x <= y
      BY <1>1, <1>5, <2>2, <1>11, IndicesFinite
    <3> QED  BY <3>1, <3>2 DEF IsNext
  <2>3. CASE z # x /\ z # p
    <3>1. z \in S /\ k.next[z] = d.next[z] /\ IsNext(S, z, d.next[z]) /\ z \in Nat
      BY <1>1, <1>2, <1>7, <1>11, <2>3
    <3>2. z < p \/ e <= z
      BY <1>1, <1>4, <2>3, <3>1 DEF IsPrev, NULL
    <3>3. d.next[z] = NULL => x <= z
      BY <1>1, <3>1 DEF IsNext, NULL
    <3>4. d.next[z] # NULL => x <= z \/ d.next[z] <= x
      BY <1>1, <1>5, <3>1, <3>2 DEF IsNext, NULL
    <3> QED  BY <1>1, <3>1, <3>3, <3>4 DEF IsNext
  <2> QED  BY <2>1, <2>2, <2>3
<1>12. ASSUME NEW z \in R PROVE IsPrev(R, z, k.prev[z])
  <2>1. CASE z = x
    BY <1>1, <1>5, <1>8, <2>1 DEF IsPrev
  <2>2. CASE z # x /\ z = e
    BY <1>1, <1>8, <2>2 DEF IsPrev
  <2>3. CASE z # x /\ z # e
    <3>1. z \in S /\ k.prev[z] = d.prev[z] /\ IsPrev(S, z, d.prev[z]) /\ z \in Nat
      BY <1>1, <1>2, <1>8, <1>11, <1>12, <2>3
    <3>2. z < x \/ e < z
      BY <1>1, <2>3, <3>1
    <3>3. d.prev[z] = NULL => z <= x
      BY <1>1, <3>1, <3>2 DEF IsPrev, NULL
    <3>4. d.prev[z] # NULL => z <= x \/ x <= d.prev[z]
      <4> SUFFICES ASSUME d.prev[z] # NULL PROVE z <= x \/ x <= d.prev[z]
        OBVIOUS
      <4>1. d.prev[z] \in S /\ \A y \in S : (z <= y \/ y <= d.prev[z])
        BY <3>1 DEF IsPrev
      <4>2. {d.prev[z], z, x, e} \subseteq Nat
        BY <1>1, <3>1, <4>1
      <4>3. z <= e \/ e <= d.prev[z]
        BY <4>1
      <4> QED  BY <3>2, <4>2, <4>3
    <3> QED  BY <1>1, <3>1, <3>3, <3>4 DEF IsPrev
  <2> QED  BY <2>1, <2>2, <2>3
<1>13. ASSUME NEW z \in Indices \ R PROVE k.next[z] = NULL /\ k.prev[z] = NULL
  <2>1. z # x /\ z # e /\ z # p /\ z \in Indices \ S
    BY <1>5, <1>13, IndicesFinite
  <2> QED  BY <1>7, <1>8, <2>1 DEF Linked
<1> QED  BY <1>1, <1>9, <1>10, <1>11, <1>12, <1>13 DEF Linked, k

LEMMA InsertAfterLinks ==
  ASSUME NEW d, NEW S, Linked(d, S), NEW x \in Indices, NEW t \in S, t < x,
         \A z \in S : z <= t
  PROVE  Linked(InsertAfter(d, x, t), S \cup {x})
<1> DEFINE k == InsertAfter(d, x, t)
           R == S \cup {x}
<1>1. /\ d \in DicType /\ S \subseteq Indices /\ Indices \subseteq Nat \ {0}
      /\ t \in Indices /\ S \subseteq Nat \ {0} /\ x \notin S /\ t # NULL
      /\ d.next \in [Indices -> Indices \cup {NULL}] /\ d.prev \in [Indices -> Indices \cup {NULL}]
      /\ d.head \in Indices \cup {NULL}
  BY IndicesFinite DEF Linked, DicType
<1>2. IsNext(S, NULL, d.head) /\ \A z \in S : IsNext(S, z, d.next[z]) /\ IsPrev(S, z, d.prev[z])
  BY DEF Linked
<1>3. /\ k.head = d.head
      /\ k.next = [[d.next EXCEPT ![x] = NULL] EXCEPT ![t] = x]
      /\ k.prev = [d.prev EXCEPT ![x] = t]
      /\ k \in DicType
  BY <1>1 DEF InsertAfter, Link, DicType
<1> HIDE DEF k
<1>4. k.next[x] = NULL /\ k.next[t] = x /\ \A z \in Indices : z # x /\ z # t => k.next[z] = d.next[z]
  BY <1>1, <1>3
<1>5. k.prev[x] = t /\ \A z \in Indices : z # x => k.prev[z] = d.prev[z]
  BY <1>1, <1>3
<1>6. IsNext(R, NULL, k.head)
  <2>1. d.head \in S /\ NULL < d.head /\ \A z \in S : (z <= NULL \/ d.head <= z)
    <3>1. t \in Nat /\ ~(t <= NULL)
      BY <1>1 DEF NULL
    <3> QED  BY <1>2, <3>1 DEF IsNext
  <2>2. d.head <= x
    <3>1. {d.head, t, x} \subseteq Nat /\ t # 0
      BY <1>1, <2>1 DEF NULL
    <3>2. t <= NULL \/ d.head <= t
      BY <2>1
    <3> QED  BY <3>1, <3>2 DEF NULL
  <2> QED  BY <1>3, <2>1, <2>2 DEF IsNext
<1>7. ASSUME NEW z \in R PROVE IsNext(R, z, k.next[z])
  <2>1. CASE z = x
    BY <1>1, <1>4, <2>1 DEF IsNext
  <2>2. CASE z = t
    BY <1>1, <1>4, <2>2 DEF IsNext
  <2>3. CASE z # x /\ z # t
    <3>1. z \in S /\ z < t /\ k.next[z] = d.next[z] /\ IsNext(S, z, d.next[z])
      BY <1>1, <1>2, <1>4, <2>3, <1>7
    <3>2. z \in Nat /\ t \in Nat /\ ~(t <= z)
      BY <1>1, <3>1
    <3>3. /\ d.next[z] \in S /\ z < d.next[z]
          /\ \A y \in S : (y <= z \/ d.next[z] <= y)
      BY <3>1, <3>2 DEF IsNext
    <3>4. d.next[z] <= x
      <4>1. {d.next[z], t, x} \subseteq Nat
        BY <1>1, <3>3
      <4> QED  BY <3>3, <4>1
    <3> QED  BY <3>1, <3>3, <3>4 DEF IsNext
  <2> QED  BY <2>1, <2>2, <2>3
<1>8. ASSUME NEW z \in R PROVE IsPrev(R, z, k.prev[z])
  <2>1. CASE z = x
    BY <1>1, <1>5, <2>1 DEF IsPrev
  <2>2. CASE z # x
    <3>1. z \in S /\ z \in Indices /\ k.prev[z] = d.prev[z] /\ IsPrev(S, z, d.prev[z])
      BY <1>1, <1>2, <1>5, <1>8, <2>2
    <3>2. z <= x
      <4>1. {z, t, x} \subseteq Nat /\ z <= t
        BY <1>1, <3>1
      <4> QED  BY <4>1
    <3> QED  BY <3>1, <3>2 DEF IsPrev
  <2> QED  BY <2>1, <2>2
<1>9. ASSUME NEW z \in Indices \ R PROVE k.next[z] = NULL /\ k.prev[z] = NULL
  BY <1>4, <1>5, <1>9 DEF Linked
<1> QED  BY <1>1, <1>3, <1>6, <1>7, <1>8, <1>9 DEF Linked, k

LEMMA COE_AddObjectToDicLinks ==
  ASSUME NEW d, NEW S, Linked(d, S), NEW x \in Indices
  PROVE  Linked(COE_AddObjectToDic(d, x), S \cup {x})
<1> DEFINE c == Chain(d)
           i == SelectInSeq(c, LAMBDA y : y >= x)
           n == Len(c)
<1>1. Reads(c, d, S)
  BY ChainReads
<1> HIDE DEF c
<1>2. /\ c \in Seq(Indices) /\ n \in Nat
      /\ \A j \in 1..n : c[j] \in S
      /\ \A z \in S : \E j \in 1..n : c[j] = z
      /\ \A j, l \in 1..n : j < l => c[j] < c[l]
      /\ c # <<>> => n # 0
      /\ c = <<>> => d.head = NULL
  BY <1>1 DEF Reads
<1>3. \/ i = 0 /\ \A j \in 1..n : ~(c[j] >= x)
      \/ /\ i \in 1..n /\ c[i] >= x
         /\ \A j \in 1..n : j < i => ~(c[j] >= x)
  BY <1>2, SelectFirst
<1>4. /\ c = <<>> =>
           COE_AddObjectToDic(d, x) = [d EXCEPT !.head = x, !.next[x] = NULL, !.prev[x] = NULL]
      /\ c # <<>> /\ i = 0 => COE_AddObjectToDic(d, x) = InsertAfter(d, x, Last(c))
      /\ c # <<>> /\ i # 0 /\ c[i] = x => COE_AddObjectToDic(d, x) = d
      /\ c # <<>> /\ i # 0 /\ c[i] # x => COE_AddObjectToDic(d, x) = InsertBefore(d, x, c[i])
  <2>1. c = <<>> => i = 0
    <3> SUFFICES ASSUME c = <<>> PROVE i = 0
      OBVIOUS
    <3>1. n = 0
      BY EmptySeq
    <3> HIDE DEF i, n
    <3> QED  BY <1>3, <3>1
  <2> QED  BY <2>1 DEF COE_AddObjectToDic, c, i
<1> HIDE DEF i
<1>5. S \subseteq Indices /\ Indices \subseteq Nat \ {0} /\ d \in DicType /\ x \in Nat \ {0}
  BY IndicesFinite DEF Linked
<1>6. CASE c = <<>>
  <2> DEFINE k == [d EXCEPT !.head = x, !.next[x] = NULL, !.prev[x] = NULL]
  <2>1. S = {}
    <3>1. n = 0
      BY <1>6, EmptySeq
    <3> HIDE DEF n
    <3> QED  BY <1>2, <3>1
  <2>2. \A z \in Indices : d.next[z] = NULL /\ d.prev[z] = NULL
    BY <2>1 DEF Linked
  <2>3. /\ k \in DicType /\ k.head = x
        /\ \A z \in Indices : k.next[z] = NULL /\ k.prev[z] = NULL
    BY <1>5, <2>2 DEF DicType
  <2> HIDE DEF k
  <2>4. Linked(k, {x})
    BY <1>5, <2>3 DEF Linked, IsNext, IsPrev, NULL
  <2> QED  BY <1>4, <1>6, <2>1, <2>4 DEF k
<1>7. CASE c # <<>> /\ i = 0
  <2> DEFINE t == c[n]
  <2>1. n \in 1..n /\ t \in S /\ \A j \in 1..n : c[j] <= t
    <3>1. n \in 1..n /\ t \in S
      BY <1>2, <1>7
    <3>2. ASSUME NEW j \in 1..n PROVE c[j] <= t
      <4>1. j = n \/ j < n
        BY <1>2
      <4>2. c[j] \in Nat /\ t \in Nat
        BY <1>2, <1>5, <3>1
      <4> QED  BY <1>2, <3>1, <4>1, <4>2
    <3> QED  BY <3>1, <3>2
  <2>2. \A z \in S : z <= t
    BY <1>2, <2>1
  <2>3. t < x
    <3>1. ~(t >= x)
      BY <1>3, <1>7, <2>1
    <3>2. t \in Nat
      BY <1>5, <2>1
    <3> QED  BY <1>5, <3>1, <3>2
  <2>4. Last(c) = t
    BY DEF Last
  <2> HIDE DEF t, n
  <2> QED  BY <1>4, <1>7, <2>1, <2>2, <2>3, <2>4, InsertAfterLinks
<1>8. CASE c # <<>> /\ i # 0 /\ c[i] = x
  <2>1. x \in S
    BY <1>2, <1>3, <1>8
  <2>2. S \cup {x} = S
    BY <2>1
  <2> QED  BY <1>4, <1>8, <2>2
<1>9. CASE c # <<>> /\ i # 0 /\ c[i] # x
  <2> DEFINE e == c[i]
  <2>1. i \in 1..n /\ e \in S /\ x < e
    <3>1. i \in 1..n /\ e >= x /\ e # x
      BY <1>3, <1>9
    <3>2. e \in S
      BY <1>2, <3>1
    <3>3. e \in Nat
      BY <1>5, <3>2
    <3> QED  BY <1>5, <3>1, <3>2, <3>3
  <2>2. \A z \in S : z < x \/ e <= z
    <3> SUFFICES ASSUME NEW z \in S PROVE z < x \/ e <= z
      OBVIOUS
    <3>1. PICK j \in 1..n : c[j] = z
      BY <1>2
    <3>2. j < i \/ j = i \/ i < j
      BY <1>2, <2>1
    <3>3. z \in Nat /\ e \in Nat
      BY <1>5, <2>1
    <3>4. j < i => ~(z >= x)
      BY <1>3, <1>9, <3>1
    <3>5. i < j => e < z
      BY <1>2, <2>1, <3>1
    <3> QED  BY <1>5, <3>1, <3>2, <3>3, <3>4, <3>5
  <2>3. x \notin S
    <3>1. ~(x < x) /\ ~(e <= x)
      <4>1. e \in Nat
        BY <1>5, <2>1
      <4> QED  BY <1>5, <2>1, <4>1
    <3> HIDE DEF e
    <3> QED  BY <2>2, <3>1
  <2> HIDE DEF e
  <2> QED  BY <1>4, <1>9, <2>1, <2>2, <2>3, <1>5, InsertBeforeLinks DEF e
<1> QED  BY <1>6, <1>7, <1>8, <1>9

\* y comes right before z for the one exactly if it does so for the other.
LEMMA Neighbours ==
  ASSUME NEW S, S \subseteq Nat \ {0}, NEW x \in S, NEW z \in S, NEW y \in S \cup {NULL},
         NEW w \in S \cup {NULL}
  PROVE  /\ IsNext(S, z, x) /\ IsPrev(S, x, y) => z = y
         /\ IsPrev(S, z, x) /\ IsNext(S, x, w) => z = w
<1>0. x \in Nat \ {0} /\ z \in Nat \ {0} /\ NULL = 0
  BY DEF NULL
<1>1. ASSUME IsNext(S, z, x), IsPrev(S, x, y) PROVE z = y
  <2>1. z < x /\ \A u \in S : (u <= z \/ x <= u)
    BY <1>0, <1>1 DEF IsNext
  <2>2. y \in S /\ y < x /\ \A u \in S : (x <= u \/ u <= y)
    BY <1>0, <1>1, <2>1 DEF IsPrev
  <2>3. (y <= z \/ x <= y) /\ (x <= z \/ z <= y) /\ y \in Nat
    BY <2>1, <2>2
  <2> QED  BY <1>0, <2>1, <2>2, <2>3
<1>2. ASSUME IsPrev(S, z, x), IsNext(S, x, w) PROVE z = w
  <2>1. x < z /\ \A u \in S : (z <= u \/ u <= x)
    BY <1>0, <1>2 DEF IsPrev
  <2>2. w \in S /\ x < w /\ \A u \in S : (u <= x \/ w <= u)
    BY <1>0, <1>2, <2>1 DEF IsNext
  <2>3. (z <= w \/ w <= x) /\ (z <= x \/ w <= z) /\ w \in Nat
    BY <2>1, <2>2
  <2> QED  BY <1>0, <2>1, <2>2, <2>3
<1> QED  BY <1>1, <1>2

LEMMA COE_RemoveDicEntryLinks ==
  ASSUME NEW d, NEW S, Linked(d, S), NEW x \in Indices
  PROVE  Linked(COE_RemoveDicEntry(d, x), S \ {x})
<1> DEFINE k == COE_RemoveDicEntry(d, x)
           R == S \ {x}
           nx == d.next[x]
           pv == d.prev[x]
<1>1. x \in ToSet(Chain(d)) <=> x \in S
  BY ChainReads DEF Reads, ToSet
<1>2. CASE x \notin S
  <2>1. k = d /\ R = S
    BY <1>1, <1>2 DEF COE_RemoveDicEntry
  <2> QED  BY <2>1
<1>3. CASE x \in S
  <2>1. /\ d \in DicType /\ S \subseteq Indices /\ S \subseteq Nat \ {0}
        /\ x \in Nat \ {0} /\ NULL = 0 /\ NULL \notin Indices
        /\ d.next \in [Indices -> Indices \cup {NULL}]
        /\ d.prev \in [Indices -> Indices \cup {NULL}]
        /\ d.head \in Indices \cup {NULL}
    BY IndicesFinite DEF Linked, DicType, NULL
  <2>2. /\ IsNext(S, NULL, d.head)
        /\ \A z \in S : IsNext(S, z, d.next[z]) /\ IsPrev(S, z, d.prev[z])
    BY DEF Linked
  <2>3. /\ IsNext(S, x, nx) /\ IsPrev(S, x, pv)
        /\ nx \in S \cup {NULL} /\ pv \in S \cup {NULL} /\ nx # x /\ pv # x
    <3>1. IsNext(S, x, nx) /\ IsPrev(S, x, pv)
      BY <1>3, <2>2
    <3> QED  BY <2>1, <3>1 DEF IsNext, IsPrev
  <2>4. /\ k.head = (IF x = d.head THEN nx ELSE d.head)
        /\ k.next = [Link(d.next, pv, nx) EXCEPT ![x] = NULL]
        /\ k.prev = [Link(d.prev, nx, pv) EXCEPT ![x] = NULL]
        /\ k = [head |-> k.head, next |-> k.next, prev |-> k.prev]
    BY <1>1, <1>3 DEF COE_RemoveDicEntry
  <2> HIDE DEF k, nx, pv
  <2>5. /\ k.next \in [Indices -> Indices \cup {NULL}] /\ k.next[x] = NULL
        /\ pv # NULL => k.next[pv] = nx
        /\ \A z \in Indices : z # x /\ z # pv => k.next[z] = d.next[z]
    <3>1. CASE pv = NULL
      BY <2>1, <2>4, <3>1 DEF Link
    <3>2. CASE pv # NULL
      BY <2>1, <2>3, <2>4, <3>2 DEF Link
    <3> QED  BY <3>1, <3>2
  <2>6. /\ k.prev \in [Indices -> Indices \cup {NULL}] /\ k.prev[x] = NULL
        /\ nx # NULL => k.prev[nx] = pv
        /\ \A z \in Indices : z # x /\ z # nx => k.prev[z] = d.prev[z]
    <3>1. CASE nx = NULL
      BY <2>1, <2>4, <3>1 DEF Link
    <3>2. CASE nx # NULL
      BY <2>1, <2>3, <2>4, <3>2 DEF Link
    <3> QED  BY <3>1, <3>2
  <2>7. k \in DicType
    BY <2>1, <2>3, <2>4, <2>5, <2>6 DEF DicType
  <2>8. IsNext(R, NULL, k.head)
    <3>1. CASE x = d.head
      <4>1. \A z \in S : z <= 0 \/ x <= z
        BY <2>1, <2>2, <3>1 DEF IsNext
      <4>2. \A z \in R : z \in Nat /\ x < z
        BY <2>1, <4>1
      <4>3. CASE nx = NULL
        <5>1. \A z \in S : z <= x
          BY <2>1, <2>3, <4>3 DEF IsNext
        <5>2. R = {}
          BY <2>1, <4>2, <5>1
        <5> QED  BY <2>4, <3>1, <4>3, <5>2 DEF IsNext
      <4>4. CASE nx # NULL
        <5>1. nx \in S /\ x < nx /\ \A z \in S : (z <= x \/ nx <= z)
          BY <2>3, <4>4 DEF IsNext
        <5>2. nx \in R /\ 0 < nx /\ \A z \in R : nx <= z
          BY <2>1, <2>3, <4>2, <5>1
        <5> QED  BY <2>1, <2>4, <3>1, <5>2 DEF IsNext
      <4> QED  BY <4>3, <4>4
    <3>2. CASE x # d.head
      BY <2>1, <2>2, <2>4, <3>2 DEF IsNext
    <3> QED  BY <3>1, <3>2
  <2>9. ASSUME NEW z \in R PROVE IsNext(R, z, k.next[z])
    <3>1. CASE z = pv
      <4>1. pv # NULL /\ k.next[z] = nx /\ z < x /\ z \in Nat
        BY <2>1, <2>3, <2>5, <3>1 DEF IsPrev
      <4>2. \A u \in S : x <= u \/ u <= z
        BY <2>3, <3>1, <4>1 DEF IsPrev
      <4>3. CASE nx = NULL
        <5>1. \A u \in S : u <= x
          BY <2>1, <2>3, <4>3 DEF IsNext
        <5>2. \A u \in R : u <= z
          BY <2>1, <4>2, <5>1
        <5> QED  BY <4>1, <4>3, <5>2 DEF IsNext
      <4>4. CASE nx # NULL
        <5>1. nx \in S /\ x < nx /\ \A u \in S : (u <= x \/ nx <= u)
          BY <2>3, <4>4 DEF IsNext
        <5>2. nx \in R /\ z < nx
          <6>1. nx \in Nat
            BY <2>1, <5>1
          <6> QED  BY <2>1, <2>3, <4>1, <5>1, <6>1
        <5>3. \A u \in R : u <= z \/ nx <= u
          BY <2>1, <4>2, <5>1
        <5> QED  BY <4>1, <5>2, <5>3 DEF IsNext
      <4> QED  BY <4>3, <4>4
    <3>2. CASE z # pv
      <4>1. z \in S /\ z \in Indices /\ z # x
        BY <2>1, <2>9
      <4>2. k.next[z] = d.next[z] /\ IsNext(S, z, d.next[z])
        BY <2>2, <2>5, <3>2, <4>1
      <4>3. d.next[z] # x
        <5> SUFFICES ASSUME d.next[z] = x PROVE FALSE
          OBVIOUS
        <5>1. IsNext(S, z, x) /\ IsPrev(S, x, pv)
          BY <2>3, <4>2
        <5>2. z = pv
          BY <1>3, <2>1, <2>3, <4>1, <5>1, Neighbours
        <5> QED  BY <3>2, <5>2
      <4> QED  BY <4>2, <4>3 DEF IsNext
    <3> QED  BY <3>1, <3>2
  <2>10. ASSUME NEW z \in R PROVE IsPrev(R, z, k.prev[z])
    <3>1. CASE z = nx
      <4>1. nx # NULL /\ k.prev[z] = pv /\ x < z /\ z \in Nat
        BY <2>1, <2>3, <2>6, <3>1 DEF IsNext
      <4>2. \A u \in S : u <= x \/ z <= u
        BY <2>3, <3>1, <4>1 DEF IsNext
      <4>3. CASE pv = NULL
        <5>1. \A u \in S : x <= u
          BY <2>1, <2>3, <4>3 DEF IsPrev
        <5>2. \A u \in R : z <= u
          BY <2>1, <4>2, <5>1
        <5> QED  BY <4>1, <4>3, <5>2 DEF IsPrev
      <4>4. CASE pv # NULL
        <5>1. pv \in S /\ pv < x /\ \A u \in S : (x <= u \/ u <= pv)
          BY <2>3, <4>4 DEF IsPrev
        <5>2. pv \in R /\ pv < z
          <6>1. pv \in Nat
            BY <2>1, <5>1
          <6> QED  BY <2>1, <2>3, <4>1, <5>1, <6>1
        <5>3. \A u \in R : z <= u \/ u <= pv
          BY <2>1, <4>2, <5>1
        <5> QED  BY <4>1, <5>2, <5>3 DEF IsPrev
      <4> QED  BY <4>3, <4>4
    <3>2. CASE z # nx
      <4>1. z \in S /\ z \in Indices /\ z # x
        BY <2>1, <2>10
      <4>2. k.prev[z] = d.prev[z] /\ IsPrev(S, z, d.prev[z])
        BY <2>2, <2>6, <3>2, <4>1
      <4>3. d.prev[z] # x
        <5> SUFFICES ASSUME d.prev[z] = x PROVE FALSE
          OBVIOUS
        <5>1. IsPrev(S, z, x) /\ IsNext(S, x, nx)
          BY <2>3, <4>2
        <5>2. z = nx
          BY <1>3, <2>1, <2>3, <4>1, <5>1, Neighbours
        <5> QED  BY <3>2, <5>2
      <4> QED  BY <4>2, <4>3 DEF IsPrev
    <3> QED  BY <3>1, <3>2
  <2>11. ASSUME NEW z \in Indices \ R PROVE k.next[z] = NULL /\ k.prev[z] = NULL
    <3>1. z = x \/ (z \notin S /\ z # nx /\ z # pv)
      BY <2>1, <2>3, <2>11
    <3> QED  BY <2>5, <2>6, <3>1 DEF Linked
  <2> QED  BY <2>1, <2>7, <2>8, <2>9, <2>10, <2>11 DEF Linked, k
<1> QED  BY <1>2, <1>3
-------------------------------------------------------------------------------
(* The objects of an axis, all put in or all taken out.                      *)

LEMMA SeqOfIndices ==
  ASSUME NEW P, NEW s \in Seq(P), ToSet(s) \subseteq Indices
  PROVE  s \in Seq(Indices)
<1>1. Len(s) \in Nat /\ s \in [1..Len(s) -> P] /\ DOMAIN s = 1..Len(s)
  BY LenProperties
<1>2. \A i \in 1..Len(s) : s[i] \in Indices
  BY <1>1 DEF ToSet
<1>3. s \in [1..Len(s) -> Indices]
  BY <1>1, <1>2
<1> QED  BY <1>1, <1>3, SeqDef

\* The lists of objects.
Dics == {d \in DicType : \E S \in SUBSET Indices : Linked(d, S)}

LEMMA AddAllLinks ==
  ASSUME NEW d, NEW S, Linked(d, S), NEW s \in Seq(Indices)
  PROVE  Linked(FoldLeft(COE_AddObjectToDic, d, s), S \cup ToSet(s))
<1> DEFINE n == Len(s)
           R(i) == S \cup {s[j] : j \in 1..i}
<1>1. n \in Nat /\ DOMAIN s = 1..n /\ \A i \in 1..n : s[i] \in Indices
  BY LenProperties, ElementOfSeq
<1>2. d \in Dics
  BY DEF Dics, Linked
<1>3. \A e \in Dics, x \in Indices : COE_AddObjectToDic(e, x) \in Dics
  <2> SUFFICES ASSUME NEW e \in Dics, NEW x \in Indices PROVE COE_AddObjectToDic(e, x) \in Dics
    OBVIOUS
  <2>1. PICK U \in SUBSET Indices : Linked(e, U)
    BY DEF Dics
  <2>2. Linked(COE_AddObjectToDic(e, x), U \cup {x})
    BY <2>1, COE_AddObjectToDicLinks
  <2>3. COE_AddObjectToDic(e, x) \in DicType
    BY <2>2 DEF Linked
  <2> QED  BY <2>2, <2>3 DEF Dics
<1>4. PICK r : /\ r[0] = d
               /\ \A i \in 1..n : r[i] = COE_AddObjectToDic(r[i - 1], s[i])
               /\ FoldLeft(COE_AddObjectToDic, d, s) = r[n]
  BY <1>2, <1>3, AddRuns
<1> DEFINE T == {i \in Nat : i <= n => Linked(r[i], R(i))}
<1>5. 0 \in T
  <2>1. R(0) = S
    OBVIOUS
  <2> HIDE DEF R
  <2> QED  BY <1>4, <2>1
<1>6. ASSUME NEW i \in Nat, i \in T PROVE i + 1 \in T
  <2> SUFFICES ASSUME i + 1 <= n PROVE Linked(r[i + 1], R(i + 1))
    OBVIOUS
  <2>1. i + 1 \in 1..n /\ (i + 1) - 1 = i /\ i <= n
    BY <1>1
  <2>2. r[i + 1] = COE_AddObjectToDic(r[i], s[i + 1]) /\ s[i + 1] \in Indices
    BY <1>1, <1>4, <2>1
  <2>3. R(i + 1) = R(i) \cup {s[i + 1]}
    <3>1. 1..(i + 1) = (1..i) \cup {i + 1}
      OBVIOUS
    <3> QED  BY <3>1
  <2>4. Linked(r[i], R(i))
    BY <1>6, <2>1
  <2> HIDE DEF R
  <2> QED  BY <2>2, <2>3, <2>4, COE_AddObjectToDicLinks
<1>7. Linked(r[n], R(n))
  <2>1. Nat \subseteq T
    <3> HIDE DEF T
    <3> QED  BY <1>5, <1>6, SetInduction
  <2>2. n \in T /\ n <= n
    <3>1. n \in Nat
      BY <1>1
    <3> HIDE DEF T, n
    <3> QED  BY <2>1, <3>1
  <2> HIDE DEF R, n
  <2> QED  BY <2>2
<1>8. R(n) = S \cup ToSet(s)
  BY <1>1 DEF ToSet
<1> QED  BY <1>4, <1>7, <1>8

LEMMA RemoveAllLinks ==
  ASSUME NEW d, NEW S, Linked(d, S), NEW s \in Seq(Indices)
  PROVE  Linked(FoldLeft(COE_RemoveDicEntry, d, s), S \ ToSet(s))
<1> DEFINE n == Len(s)
           R(i) == S \ {s[j] : j \in 1..i}
<1>1. n \in Nat /\ DOMAIN s = 1..n /\ \A i \in 1..n : s[i] \in Indices
  BY LenProperties, ElementOfSeq
<1>2. d \in Dics
  BY DEF Dics, Linked
<1>3. \A e \in Dics, x \in Indices : COE_RemoveDicEntry(e, x) \in Dics
  <2> SUFFICES ASSUME NEW e \in Dics, NEW x \in Indices PROVE COE_RemoveDicEntry(e, x) \in Dics
    OBVIOUS
  <2>1. PICK U \in SUBSET Indices : Linked(e, U)
    BY DEF Dics
  <2>2. Linked(COE_RemoveDicEntry(e, x), U \ {x})
    BY <2>1, COE_RemoveDicEntryLinks
  <2>3. COE_RemoveDicEntry(e, x) \in DicType
    BY <2>2 DEF Linked
  <2> QED  BY <2>2, <2>3 DEF Dics
<1>4. PICK r : /\ r[0] = d
               /\ \A i \in 1..n : r[i] = COE_RemoveDicEntry(r[i - 1], s[i])
               /\ FoldLeft(COE_RemoveDicEntry, d, s) = r[n]
  BY <1>2, <1>3, RemoveRuns
<1> DEFINE T == {i \in Nat : i <= n => Linked(r[i], R(i))}
<1>5. 0 \in T
  <2>1. R(0) = S
    OBVIOUS
  <2> HIDE DEF R
  <2> QED  BY <1>4, <2>1
<1>6. ASSUME NEW i \in Nat, i \in T PROVE i + 1 \in T
  <2> SUFFICES ASSUME i + 1 <= n PROVE Linked(r[i + 1], R(i + 1))
    OBVIOUS
  <2>1. i + 1 \in 1..n /\ (i + 1) - 1 = i /\ i <= n
    BY <1>1
  <2>2. r[i + 1] = COE_RemoveDicEntry(r[i], s[i + 1]) /\ s[i + 1] \in Indices
    BY <1>1, <1>4, <2>1
  <2>3. R(i + 1) = R(i) \ {s[i + 1]}
    <3>1. 1..(i + 1) = (1..i) \cup {i + 1}
      OBVIOUS
    <3> QED  BY <3>1
  <2>4. Linked(r[i], R(i))
    BY <1>6, <2>1
  <2> HIDE DEF R
  <2> QED  BY <2>2, <2>3, <2>4, COE_RemoveDicEntryLinks
<1>7. Linked(r[n], R(n))
  <2>1. Nat \subseteq T
    <3> HIDE DEF T
    <3> QED  BY <1>5, <1>6, SetInduction
  <2>2. n \in T /\ n <= n
    <3>1. n \in Nat
      BY <1>1
    <3> HIDE DEF T, n
    <3> QED  BY <2>1, <3>1
  <2> HIDE DEF R, n
  <2> QED  BY <2>2
<1>8. R(n) = S \ ToSet(s)
  BY <1>1 DEF ToSet
<1> QED  BY <1>4, <1>7, <1>8
-------------------------------------------------------------------------------
(* The mapping.                                                              *)

\* The slots looked at one after the other.
LEMMA AdaptRuns ==
  ASSUME NEW V, NEW d \in V, rx.n \in 0..MAX_AXES,
         \A v \in V, x \in Slots : AdaptSlot(v, x) \in V
  PROVE  \E r : /\ r[0] = d
                /\ \A i \in 1..rx.n : r[i] = AdaptSlot(r[i - 1], i - 1)
                /\ FoldLeft(AdaptSlot, d, [i \in 1..rx.n |-> i - 1]) = r[rx.n]
<1> DEFINE n == rx.n
           s == [i \in 1..rx.n |-> i - 1]
           g == [p \in V \X (1..n) |-> AdaptSlot(p[1], s[p[2]])]
           Step(f) == [t \in SUBSET (1..n) |->
                         IF t = {} THEN d ELSE AdaptSlot(f[t \ {Max(t)}], s[Max(t)])]
           It == CHOOSE f : f = Step(f)
<1>1. n \in Nat /\ DOMAIN s = 1..n /\ \A i \in 1..n : s[i] \in Slots /\ s[i] = i - 1
  BY AxesAssumption DEF Slots
<1> HIDE DEF s
<1>2. g \in [V \X (1..n) -> V]
  BY <1>1
<1>3. PICK f : IsFold(f, n, V, d, g)
  <2> HIDE DEF g, n
  <2> QED  BY <1>1, <1>2, FoldExists
<1>4. \A t \in SUBSET (1..n) :
        t # {} => g[<<f[t \ {Max(t)}], Max(t)>>] = AdaptSlot(f[t \ {Max(t)}], s[Max(t)])
  <2> SUFFICES ASSUME NEW t \in SUBSET (1..n), t # {}
               PROVE  g[<<f[t \ {Max(t)}], Max(t)>>]
                        = AdaptSlot(f[t \ {Max(t)}], s[Max(t)])
    OBVIOUS
  <2>1. Max(t) \in 1..n /\ f[t \ {Max(t)}] \in V
    BY <1>1, <1>3, MaxIn DEF IsFold
  <2> QED  BY <2>1
<1>5. f = Step(f)
  <2> HIDE DEF g
  <2> QED  BY <1>3, <1>4 DEF IsFold
<1>6. It = Step(It)
  <2> HIDE DEF Step
  <2> QED  BY <1>5
<1>7. FoldLeft(AdaptSlot, d, s) = It[1..n]
  <2> HIDE DEF n
  <2> QED  BY <1>1 DEF FoldLeft, MapThenFoldSet
<1> HIDE DEF It
<1> DEFINE r == [k \in 0..n |-> It[1..k]]
<1>8. It[{}] = d /\ \A t \in SUBSET (1..n) :
        t # {} => It[t] = AdaptSlot(It[t \ {Max(t)}], s[Max(t)])
  BY <1>6
<1>9. r[0] = d
  BY <1>1, <1>8
<1>10. \A i \in 1..n : r[i] = AdaptSlot(r[i - 1], i - 1)
  <2> SUFFICES ASSUME NEW i \in 1..n PROVE r[i] = AdaptSlot(r[i - 1], i - 1)
    OBVIOUS
  <2>1. 1..i \in SUBSET (1..n) /\ 1..i # {} /\ i - 1 \in 0..n /\ i \in 0..n
    <3> HIDE DEF n
    <3> QED  BY <1>1, Prefix
  <2>2. Max(1..i) = i /\ (1..i) \ {i} = 1..(i - 1)
    BY <1>1, MaxOfInterval
  <2>3. It[1..i] = AdaptSlot(It[1..(i - 1)], s[i])
    BY <1>8, <2>1, <2>2
  <2> QED  BY <1>1, <2>1, <2>3
<1>11. FoldLeft(AdaptSlot, d, s) = r[n]
  BY <1>1, <1>7
<1> HIDE DEF r
<1> QED  BY <1>9, <1>10, <1>11 DEF s

\* The sizes of the assigned PDOs, summed up.
LEMMA OutputSizeInNat ==
  ASSUME NEW assign, assign.n \in Nat
  PROVE  OutputSize(assign) \in Nat
<1> DEFINE n == assign.n
           z(j) == SizeOf(assign.e[j - 1])
           s == [j \in 1..n |-> j]
           g == [p \in Nat \X (1..n) |-> p[1] + z(s[p[2]])]
           Step(f) == [t \in SUBSET (1..n) |->
                         IF t = {} THEN 0 ELSE f[t \ {Max(t)}] + z(s[Max(t)])]
           It == CHOOSE f : f = Step(f)
<1>1. n \in Nat /\ DOMAIN s = 1..n /\ \A i \in 1..n : s[i] = i
  OBVIOUS
<1>2. \A j : z(j) \in Nat
  BY PdoAssumption DEF SizeOf
<1> HIDE DEF s, z
<1>3. g \in [Nat \X (1..n) -> Nat]
  BY <1>1, <1>2
<1>4. PICK f : IsFold(f, n, Nat, 0, g)
  <2> HIDE DEF g, n
  <2> QED  BY <1>1, <1>3, FoldExists
<1>5. \A t \in SUBSET (1..n) :
        t # {} => g[<<f[t \ {Max(t)}], Max(t)>>] = f[t \ {Max(t)}] + z(s[Max(t)])
  <2> SUFFICES ASSUME NEW t \in SUBSET (1..n), t # {}
               PROVE  g[<<f[t \ {Max(t)}], Max(t)>>] = f[t \ {Max(t)}] + z(s[Max(t)])
    OBVIOUS
  <2>1. Max(t) \in 1..n /\ f[t \ {Max(t)}] \in Nat
    BY <1>1, <1>4, MaxIn DEF IsFold
  <2> QED  BY <2>1
<1>6. f = Step(f)
  <2> HIDE DEF g
  <2> QED  BY <1>4, <1>5 DEF IsFold
<1>7. It = Step(It)
  <2> HIDE DEF Step
  <2> QED  BY <1>6
<1>8. OutputSize(assign) = It[1..n]
  <2> HIDE DEF n
  <2> QED  BY <1>1 DEF OutputSize, FoldLeft, MapThenFoldSet, z, s, n
<1> HIDE DEF It
<1>9. It[{}] = 0 /\ \A t \in SUBSET (1..n) :
        t # {} => It[t] = It[t \ {Max(t)}] + z(s[Max(t)])
  BY <1>7
<1> DEFINE T == {k \in Nat : k <= n => It[1..k] \in Nat}
<1>10. 0 \in T
  BY <1>9
<1>11. ASSUME NEW k \in Nat, k \in T PROVE k + 1 \in T
  <2> SUFFICES ASSUME k + 1 <= n PROVE It[1..(k + 1)] \in Nat
    OBVIOUS
  <2>1. k + 1 \in 1..n /\ (k + 1) - 1 = k /\ k <= n /\ k + 1 \in Nat \ {0}
    BY <1>1
  <2>2. 1..(k + 1) \in SUBSET (1..n) /\ 1..(k + 1) # {}
    <3> HIDE DEF n
    <3> QED  BY <1>1, <2>1, Prefix
  <2>3. Max(1..(k + 1)) = k + 1 /\ (1..(k + 1)) \ {k + 1} = 1..k
    BY <2>1, MaxOfInterval
  <2>4. It[1..(k + 1)] = It[1..k] + z(s[k + 1])
    BY <1>9, <2>2, <2>3
  <2>5. It[1..k] \in Nat
    BY <1>11, <2>1
  <2> QED  BY <1>2, <2>4, <2>5
<1>12. n \in T
  <2> HIDE DEF T, n
  <2> QED  BY <1>1, <1>10, <1>11, SetInduction
<1>13. It[1..n] \in Nat
  <2>1. n <= n
    BY <1>1
  <2> HIDE DEF n
  <2> QED  BY <1>12, <2>1
<1> QED  BY <1>8, <1>13

ObjectsOf(act) ==
  ToSet(General) \cup UNION {ToSet(AxisObjects[a]) : a \in {b \in Slots : act[b]}}

\* A list of objects, and the axes whose objects it has.
Maps == {s \in [dic : DicType, active : [Slots -> BOOLEAN]] : Linked(s.dic, ObjectsOf(s.active))}

LEMMA AxisObjectsIn ==
  ASSUME NEW j \in Slots
  PROVE  AxisObjects[j] \in Seq(Indices)
BY IndicesFinite, SeqOfIndices

\* What an axis that becomes active adds to the objects, and takes with it.
LEMMA ObjectsChange ==
  ASSUME NEW j \in Slots, NEW act \in [Slots -> BOOLEAN], NEW new \in [Slots -> BOOLEAN],
         \A a \in Slots : a # j => new[a] = act[a]
  PROVE  /\ new[j] => ObjectsOf(new) = ObjectsOf(act) \cup ToSet(AxisObjects[j])
         /\ ~new[j] => ObjectsOf(new) = ObjectsOf(act) \ ToSet(AxisObjects[j])
<1> DEFINE O(a) == ToSet(AxisObjects[a])
           G == ToSet(General)
<1>1. /\ \A a \in Slots : G \cap O(a) = {}
      /\ \A a, b \in Slots : a # b => O(a) \cap O(b) = {}
  BY DistinctAssumption
<1>2. /\ \A x : x \in ObjectsOf(act) <=> x \in G \/ \E a \in Slots : act[a] /\ x \in O(a)
      /\ \A x : x \in ObjectsOf(new) <=> x \in G \/ \E a \in Slots : new[a] /\ x \in O(a)
  BY DEF ObjectsOf
<1> HIDE DEF O, G
<1>3. ASSUME new[j] PROVE ObjectsOf(new) = ObjectsOf(act) \cup O(j)
  BY <1>2, <1>3
<1>4. ASSUME ~new[j] PROVE ObjectsOf(new) = ObjectsOf(act) \ O(j)
  <2>1. ASSUME NEW x \in ObjectsOf(new) PROVE x \in ObjectsOf(act) \ O(j)
    BY <1>1, <1>2, <1>4, <2>1
  <2>2. ASSUME NEW x \in ObjectsOf(act) \ O(j) PROVE x \in ObjectsOf(new)
    BY <1>2, <2>2
  <2> QED  BY <2>1, <2>2
<1> QED  BY <1>3, <1>4 DEF O

\* A slot has its axis active exactly when its PDO is one of that axis.
LEMMA AdaptSlotKeeps ==
  ASSUME NEW s \in Maps, NEW j \in Slots
  PROVE  /\ AdaptSlot(s, j) \in Maps
         /\ AdaptSlot(s, j).active[j] <=> AxisOf(rx.e[j]) = j
         /\ \A a \in Slots : a # j => AdaptSlot(s, j).active[a] = s.active[a]
<1> DEFINE t == AdaptSlot(s, j)
           own == AxisOf(rx.e[j]) = j
           add == FoldLeft(COE_AddObjectToDic, s.dic, AxisObjects[j])
           rem == FoldLeft(COE_RemoveDicEntry, s.dic, AxisObjects[j])
<1>1. /\ s = [dic |-> s.dic, active |-> s.active] /\ s.dic \in DicType
      /\ s.active \in [Slots -> BOOLEAN] /\ Linked(s.dic, ObjectsOf(s.active))
  BY DEF Maps
<1>2. AxisObjects[j] \in Seq(Indices)
  BY AxisObjectsIn
<1>3. CASE own /\ ~s.active[j]
  <2> DEFINE new == [s.active EXCEPT ![j] = TRUE]
  <2>1. t = [dic |-> add, active |-> new]
    <3> HIDE DEF add
    <3>1. t = [s EXCEPT !.dic = add, !.active[j] = TRUE]
      BY <1>3 DEF AdaptSlot, add
    <3> QED  BY <1>1, <3>1
  <2>2. new \in [Slots -> BOOLEAN] /\ new[j] /\ \A a \in Slots : a # j => new[a] = s.active[a]
    BY <1>1
  <2> HIDE DEF new, add, t, own
  <2>3. ObjectsOf(new) = ObjectsOf(s.active) \cup ToSet(AxisObjects[j])
    BY <1>1, <2>2, ObjectsChange
  <2>4. Linked(add, ObjectsOf(new))
    BY <1>1, <1>2, <2>3, AddAllLinks DEF add
  <2>5. add \in DicType
    BY <2>4 DEF Linked
  <2> QED  BY <1>3, <2>1, <2>2, <2>4, <2>5 DEF Maps, t, own
<1>4. CASE ~own /\ s.active[j]
  <2> DEFINE new == [s.active EXCEPT ![j] = FALSE]
  <2>1. t = [dic |-> rem, active |-> new]
    <3> HIDE DEF rem
    <3>1. t = [s EXCEPT !.dic = rem, !.active[j] = FALSE]
      BY <1>4 DEF AdaptSlot, rem
    <3> QED  BY <1>1, <3>1
  <2>2. new \in [Slots -> BOOLEAN] /\ ~new[j] /\ \A a \in Slots : a # j => new[a] = s.active[a]
    BY <1>1
  <2> HIDE DEF new, rem, t, own
  <2>3. ObjectsOf(new) = ObjectsOf(s.active) \ ToSet(AxisObjects[j])
    BY <1>1, <2>2, ObjectsChange
  <2>4. Linked(rem, ObjectsOf(new))
    BY <1>1, <1>2, <2>3, RemoveAllLinks DEF rem
  <2>5. rem \in DicType
    BY <2>4 DEF Linked
  <2> QED  BY <1>4, <2>1, <2>2, <2>4, <2>5 DEF Maps, t, own
<1>5. CASE own <=> s.active[j]
  <2>1. t = s
    <3> HIDE DEF add, rem
    <3> QED  BY <1>5 DEF AdaptSlot
  <2> QED  BY <1>5, <2>1
<1> QED  BY <1>3, <1>4, <1>5

Adapted(act, old) ==
  /\ \A j \in 0..rx.n - 1 : act[j] <=> AxisOf(rx.e[j]) = j
  /\ \A j \in Slots : j >= rx.n => act[j] = old[j]

\* A mapping leaves a list with the objects of the active axes, and has active, of the
\* slots that are counted, those with a PDO of their own axis.
LEMMA MappingAdapts ==
  ASSUME NEW s \in Maps, rx.n \in 0..MAX_AXES
  PROVE  LET t == FoldLeft(AdaptSlot, s, [i \in 1..rx.n |-> i - 1])
         IN  t \in Maps /\ Adapted(t.active, s.active)
<1> DEFINE n == rx.n
           t == FoldLeft(AdaptSlot, s, [i \in 1..rx.n |-> i - 1])
<1>1. \A v \in Maps, x \in Slots : AdaptSlot(v, x) \in Maps
  BY AdaptSlotKeeps
<1>2. PICK r : /\ r[0] = s
               /\ \A i \in 1..n : r[i] = AdaptSlot(r[i - 1], i - 1)
               /\ t = r[n]
  BY <1>1, AdaptRuns
<1> HIDE DEF t
<1>3. MAX_AXES \in Nat /\ n \in Nat /\ n <= MAX_AXES /\ Slots = 0..MAX_AXES - 1
  BY AxesAssumption DEF Slots
<1> DEFINE own(j) == AxisOf(rx.e[j]) = j
           Good(i) == /\ r[i] \in Maps
                      /\ \A j \in Slots : j < i => (r[i].active[j] <=> own(j))
                      /\ \A j \in Slots : j >= i => r[i].active[j] = s.active[j]
           T == {i \in Nat : i <= n => Good(i)}
<1>4. Good(0)
  <2>1. \A j \in Slots : ~(j < 0)
    BY <1>3
  <2> HIDE DEF own
  <2> QED  BY <1>2, <2>1
<1>5. ASSUME NEW i \in Nat, Good(i), i + 1 <= n PROVE Good(i + 1)
  <2>1. i + 1 \in 1..n /\ (i + 1) - 1 = i /\ i \in Slots
    BY <1>3, <1>5
  <2>2. r[i + 1] = AdaptSlot(r[i], i)
    BY <1>2, <2>1
  <2>3. /\ r[i + 1] \in Maps /\ (r[i + 1].active[i] <=> own(i))
        /\ \A a \in Slots : a # i => r[i + 1].active[a] = r[i].active[a]
    BY <1>5, <2>1, <2>2, AdaptSlotKeeps
  <2> HIDE DEF own
  <2>4. \A j \in Slots : (j < i + 1 <=> (j < i \/ j = i)) /\ (j >= i + 1 => j >= i /\ j # i)
    BY <1>3
  <2> QED  BY <1>5, <2>3, <2>4
<1> HIDE DEF Good
<1>6. Nat \subseteq T
  <2>1. 0 \in T
    BY <1>4
  <2>2. \A i \in Nat : i \in T => i + 1 \in T
    <3> SUFFICES ASSUME NEW i \in Nat, i <= n => Good(i), i + 1 <= n PROVE Good(i + 1)
      OBVIOUS
    <3>1. i <= n
      BY <1>3
    <3> QED  BY <1>5, <3>1
  <2> HIDE DEF T
  <2> QED  BY <2>1, <2>2, SetInduction
<1>7. Good(n)
  <2>1. n <= n /\ n \in Nat
    BY <1>3
  <2> HIDE DEF n
  <2> QED  BY <1>6, <2>1
<1>8. r[n] \in Maps /\ Adapted(r[n].active, s.active)
  <2>1. \A j \in 0..n - 1 : j \in Slots /\ j < n
    BY <1>3
  <2> QED  BY <1>7, <2>1 DEF Good, Adapted
<1> QED  BY <1>2, <1>8 DEF t
-------------------------------------------------------------------------------
(* The fragments of an object list.                                          *)

\* c is in ascending order from e on, or empty when there is no e.
Climbs(c, e) ==
  /\ c \in Seq(Indices) /\ Len(c) \in Nat /\ DOMAIN c = 1..Len(c)
  /\ \A i \in 1..Len(c) : c[i] \in Indices /\ c[i] \in Nat /\ e <= c[i]
  /\ \A i, j \in 1..Len(c) : i < j => c[i] < c[j]
  /\ e = NULL => c = <<>> /\ Len(c) = 0
  /\ e # NULL => Len(c) >= 1 /\ c[1] = e

LEMMA ChainFromClimbs ==
  ASSUME NEW d, NEW S, Linked(d, S), NEW e \in Indices \cup {NULL}
  PROVE  Climbs(ChainFrom(d, e), e)
<1> DEFINE c == ChainFrom(d, e)
<1>1. CASE e = NULL
  <2>1. c = <<>>
    BY <1>1, ChainFromNull DEF Linked
  <2>2. c \in Seq(Indices) /\ Len(c) = 0
    BY <2>1, EmptySeq
  <2>3. Len(c) \in Nat /\ DOMAIN c = 1..Len(c) /\ \A i : i \notin 1..Len(c)
    BY <2>2, LenProperties
  <2> HIDE DEF c
  <2> QED  BY <1>1, <2>1, <2>2, <2>3 DEF Climbs, c
<1>2. CASE e # NULL
  <2>1. e \in Indices /\ Walk(d, c, e)
    BY <1>2, ChainFromWalks
  <2> HIDE DEF c
  <2>2. /\ Len(c) \in Nat \ {0} /\ DOMAIN c = 1..Len(c)
        /\ \A i \in 1..Len(c) : c[i] \in Indices
        /\ \A i, j \in 1..Len(c) : i < j => c[i] < c[j]
    BY <2>1, WalkAscends
  <2>3. c \in Seq(Indices) /\ c[1] = e
    BY <2>1 DEF Walk
  <2>4. \A i \in 1..Len(c) : c[i] \in Nat /\ e <= c[i]
    <3> SUFFICES ASSUME NEW i \in 1..Len(c) PROVE c[i] \in Nat /\ e <= c[i]
      OBVIOUS
    <3>1. c[i] \in Nat /\ e \in Nat
      <4>1. c[i] \in Indices
        BY <2>2
      <4> QED  BY <2>1, <4>1, IndicesFinite
    <3>2. 1 \in 1..Len(c) /\ (i = 1 \/ 1 < i)
      BY <2>2
    <3> QED  BY <2>2, <2>3, <3>1, <3>2
  <2>5. Len(c) \in Nat /\ Len(c) >= 1
    BY <2>2
  <2> QED  BY <1>2, <2>2, <2>3, <2>4, <2>5 DEF Climbs, c
<1> QED  BY <1>1, <1>2

\* f has the first k objects of c, and b is the walk over the others.
Splits(f, c, b, e, k) ==
  /\ f.indices \in Seq(Indices) /\ f.rest \in Indices \cup {NULL} /\ b \in Seq(Indices)
  /\ c = f.indices \o b /\ Len(b) = Len(c) - k
  /\ \A i, j \in DOMAIN f.indices : i < j => f.indices[i] < f.indices[j]
  /\ \A i \in DOMAIN f.indices :
       /\ e # NULL /\ e <= f.indices[i] /\ f.indices[i] \in Nat
       /\ f.rest # NULL => f.indices[i] < f.rest
  /\ f.rest # NULL => e # NULL /\ e < f.rest

LEMMA FragmentSplits ==
  ASSUME NEW S, Linked(dic, S), NEW e \in Indices \cup {NULL}, NEW room, NEW m \in Nat \ {0},
         room \div 2 = m
  PROVE  LET f == Fragment(e, room)
             c == ChainFrom(dic, e)
         IN  Splits(f, c, ChainFrom(dic, f.rest), e, IF Len(c) <= m THEN Len(c) ELSE m)
<1> DEFINE f == Fragment(e, room)
           c == ChainFrom(dic, e)
           b == ChainFrom(dic, f.rest)
           k == IF Len(c) <= m THEN Len(c) ELSE m
<1>1. Climbs(c, e)
  BY ChainFromClimbs
<1>2. f.indices = SubSeq(c, 1, k) /\ f.rest = IF k < Len(c) THEN c[k + 1] ELSE NULL
  BY DEF Fragment
<1>3. e # NULL => Walk(dic, c, e)
  BY ChainFromWalks
<1>4. dic \in DicType
  BY DEF Linked
<1> HIDE DEF f, c
<1>5. /\ c \in Seq(Indices) /\ Len(c) \in Nat /\ DOMAIN c = 1..Len(c)
      /\ \A i \in 1..Len(c) : c[i] \in Indices /\ c[i] \in Nat /\ e <= c[i]
      /\ \A i, j \in 1..Len(c) : i < j => c[i] < c[j]
      /\ e = NULL => c = <<>> /\ Len(c) = 0
      /\ e # NULL => Len(c) >= 1 /\ c[1] = e
  BY <1>1 DEF Climbs
<1>6. k \in Nat /\ k <= Len(c) /\ (e # NULL => k >= 1)
  BY <1>5
<1> HIDE DEF k
<1>7. /\ f.indices \in Seq(Indices) /\ Len(f.indices) = k
      /\ \A i \in 1..k : f.indices[i] = c[i]
  <2>1. \A i \in 1..k : c[i] \in Indices
    BY <1>5, <1>6
  <2>2. /\ SubSeq(c, 1, k) \in Seq(Indices)
        /\ Len(SubSeq(c, 1, k)) = IF 1 <= k THEN k - 1 + 1 ELSE 0
        /\ \A i \in 1..(k - 1 + 1) : SubSeq(c, 1, k)[i] = c[1 + i - 1]
    BY <1>6, <2>1, SubSeqProperties
  <2>3. k - 1 + 1 = k /\ (~(1 <= k) => k = 0) /\ \A i \in 1..k : 1 + i - 1 = i
    BY <1>6
  <2> QED  BY <1>2, <2>2, <2>3
<1>8. DOMAIN f.indices = 1..k
  BY <1>7, LenProperties
<1>9. \A i, j \in 1..k : i < j => f.indices[i] < f.indices[j]
  BY <1>5, <1>6, <1>7
<1>10. f.rest \in Indices \cup {NULL}
  BY <1>2, <1>5, <1>6
<1>11. b \in Seq(Indices) /\ c = f.indices \o b /\ Len(b) = Len(c) - k
  <2>1. CASE k < Len(c)
    <3>1. k + 1 \in 1..Len(c) /\ f.rest = c[k + 1] /\ f.rest \in Indices
      BY <1>2, <1>5, <1>6, <2>1
    <3>2. Walk(dic, SubSeq(c, k + 1, Len(c)), f.rest)
      <4>1. e # NULL
        BY <1>5, <1>6, <2>1
      <4> QED  BY <1>3, <3>1, <4>1, WalkRest
    <3>3. Walk(dic, b, f.rest)
      BY <3>1, ChainFromWalks
    <3> HIDE DEF b
    <3>4. b = SubSeq(c, k + 1, Len(c))
      BY <3>2, <3>3, WalkUnique
    <3>5. b \in Seq(Indices)
      BY <3>3 DEF Walk
    <3>6. SubSeq(c, 1, k) \o b = SubSeq(c, 1, Len(c))
      <4>1. 1 \in 1..Len(c) + 1 /\ k \in (1 - 1)..Len(c) /\ Len(c) \in k..Len(c)
        BY <1>5, <1>6
      <4>2. c \in Seq(Indices)
        BY <1>5
      <4>3. SubSeq(c, 1, k) \o SubSeq(c, k + 1, Len(c)) = SubSeq(c, 1, Len(c))
        BY <4>1, <4>2, ConcatAdjacentSubSeq
      <4> QED  BY <3>4, <4>3
    <3>7. c = f.indices \o b
      <4>1. SubSeq(c, 1, Len(c)) = c
        BY <1>5, SubSeqFull
      <4> QED  BY <1>2, <3>6, <4>1
    <3>8. Len(c) = k + Len(b) /\ Len(b) \in Nat
      <4>1. Len(f.indices \o b) = Len(f.indices) + Len(b)
        BY <1>7, <3>5, ConcatProperties
      <4>2. Len(b) \in Nat
        BY <3>5, LenProperties
      <4> QED  BY <1>7, <3>7, <4>1, <4>2
    <3> QED  BY <1>6, <3>5, <3>7, <3>8
  <2>2. CASE ~(k < Len(c))
    <3>1. k = Len(c) /\ f.rest = NULL
      <4>1. k = Len(c)
        <5>1. Len(c) \in Nat
          BY <1>5
        <5> QED  BY <1>6, <2>2, <5>1
      <4>2. f.rest = NULL
        BY <1>2, <2>2
      <4> QED  BY <4>1, <4>2
    <3>2. b = <<>>
      BY <1>4, <3>1, ChainFromNull
    <3> HIDE DEF b
    <3>3. f.indices = c
      BY <1>2, <1>5, <3>1, SubSeqFull
    <3>4. b \in Seq(Indices) /\ Len(b) = 0 /\ c \o b = c
      BY <1>5, <3>2, EmptySeq, ConcatEmptySeq
    <3> QED  BY <1>5, <3>1, <3>3, <3>4
  <2> QED  BY <2>1, <2>2
<1>12. ASSUME NEW i \in 1..k
       PROVE  /\ e # NULL /\ e <= f.indices[i] /\ f.indices[i] \in Nat
              /\ f.rest # NULL => f.indices[i] < f.rest
  <2>1. i \in 1..Len(c) /\ f.indices[i] = c[i]
    BY <1>5, <1>6, <1>7
  <2>2. e # NULL
    BY <1>5, <2>1
  <2>3. f.rest # NULL => k + 1 \in 1..Len(c) /\ f.rest = c[k + 1] /\ i < k + 1
    BY <1>2, <1>5, <1>6
  <2> QED  BY <1>5, <2>1, <2>2, <2>3
<1>13. f.rest # NULL => e # NULL /\ e < f.rest
  <2> SUFFICES ASSUME f.rest # NULL PROVE e # NULL /\ e < f.rest
    OBVIOUS
  <2>1. k + 1 \in 1..Len(c) /\ f.rest = c[k + 1]
    BY <1>2, <1>5, <1>6
  <2>2. e # NULL
    BY <1>5, <2>1
  <2>3. 1 \in 1..Len(c) /\ 1 < k + 1 /\ c[1] = e
    BY <1>5, <1>6, <2>1, <2>2
  <2> QED  BY <1>5, <2>1, <2>2, <2>3
<1> HIDE DEF b
<1>14. Splits(f, c, b, e, k)
  BY <1>7, <1>8, <1>9, <1>10, <1>11, <1>12, <1>13 DEF Splits
<1> QED  BY <1>14 DEF f, c, b, k

\* As many fragments are announced as hold what the first leaves.
LEMMA FragmentsHold ==
  ASSUME NEW n \in Nat
  PROVE  LET m == n - (IF n <= Room \div 2 THEN n ELSE Room \div 2)
             q == FragmentsLeft(n) * (Room + 2)
         IN  FragmentsLeft(n) \in Nat /\ 2 * m <= q /\ q < 2 * m + Room + 2
<1> DEFINE h == Room \div 2
           r == Room + 2
           a == 2 * n - Room + Room + 1
           x == a \div r
<1>1. Room \in Nat /\ Room > 0 /\ h \in Nat /\ Room = 2 * h /\ r \in Nat \ {0}
  BY RoomAssumption
<1>2. CASE 2 * n > Room
  <2>1. FragmentsLeft(n) = x
    BY <1>2 DEF FragmentsLeft
  <2>2. a \in Nat
    BY <1>1
  <2>3. x \in Nat /\ r * x <= a /\ a < r * x + r
    <3> HIDE DEF a, r
    <3> QED  BY <1>1, <2>2
  <2> QED  BY <1>1, <1>2, <2>1, <2>3
<1>3. CASE ~(2 * n > Room)
  <2>1. FragmentsLeft(n) = 0 /\ n <= h
    BY <1>1, <1>3 DEF FragmentsLeft
  <2> QED  BY <1>1, <2>1
<1> QED  BY <1>2, <1>3
-------------------------------------------------------------------------------
(* The inductive invariant.                                                  *)

\* The words that are let into subindex 0.
Counts == {w \in Nat : Low(w) <= MAX_AXES}

\* 0x1C12 and 0xF030 have entries for every slot, and both only valid ones.  Subindex 0
\* of 0xF030 is a number of entries when the loop over them is past.
RxType      == rx \in [n : Counts, e : [Slots -> ValidPdos]]
ModulesType == modules \in [n : Counts, e : [Slots -> ValidModules]]
LoopInv     == late \in BOOLEAN /\ endless \in BOOLEAN /\ (~endless => modules.n <= MAX_AXES)
ListType    == list \in [left : Nat, at : Indices \cup {NULL}, got : Seq(Indices), calm : BOOLEAN]

\* The list has the objects of the active axes.
DicInv == active \in [Slots -> BOOLEAN] /\ Linked(dic, Objects)

\* What the master has got comes before what it is to get next.  As long as the
\* dictionary stays as it was, the objects from there on are the rest of the list,
\* for which as many fragments are left as hold them.
ListInv ==
  LET c == ChainFrom(dic, list.at)
      n == list.left * (Room + 2)
  IN  /\ Ascending(list.got)
      /\ list.at # NULL => \A i \in DOMAIN list.got : list.got[i] < list.at
      /\ list.calm => Chain(dic) = list.got \o c /\ 2 * Len(c) <= n /\ n < 2 * Len(c) + Room + 2

IInv ==
  /\ al \in {"PREOP", "SAFEOP", "OP"} /\ size \in Nat
  /\ RxType /\ ModulesType /\ LoopInv /\ ListType /\ DicInv /\ ListInv

LEMMA ObjectsAre == Objects = ObjectsOf(active)
BY DEF Objects, ObjectsOf

LEMMA EmptyLinks == Linked(Empty, {})
<1>1. Empty \in DicType
  BY DEF Empty, DicType
<1>2. Empty.head = NULL /\ \A x \in Indices : Empty.next[x] = NULL /\ Empty.prev[x] = NULL
  BY DEF Empty
<1> QED  BY <1>1, <1>2 DEF Linked, IsNext

LEMMA AxisZero == 0 \in Slots /\ Slots = 0..MAX_AXES - 1 /\ MAX_AXES \in Nat /\ 1 \in 0..MAX_AXES
BY AxesAssumption DEF Slots

\* A number of entries is such a word; another one has more than its lower byte.
LEMMA CountsAre ==
  /\ 0..MAX_AXES \subseteq Counts
  /\ \A w \in Counts : /\ w \in Nat /\ Low(w) \in Int /\ Low(w) <= MAX_AXES
                       /\ w <= 255 => w <= MAX_AXES
  /\ \A w \in Words : Low(w) <= MAX_AXES => w \in Counts
<1>1. MAX_AXES \in 1..16
  BY AxesAssumption
<1>2. \A w \in 0..255 : Low(w) = w
  BY DEF Low
<1>3. \A w \in Nat : Low(w) \in Int
  BY DEF Low
<1>4. \A w : w \in Counts <=> w \in Nat /\ Low(w) <= MAX_AXES
  BY Zenon DEF Counts
<1>5. ASSUME NEW w \in Words PROVE w \in Nat
  <2>1. PICK n \in 0..MAX_AXES + 1, u \in Uppers : w = n + 256 * u
    BY DEF Words
  <2>2. n \in Nat /\ u \in Nat
    BY <1>1, PdoAssumption
  <2> QED  BY <2>1, <2>2
<1>6. ASSUME NEW w \in 0..MAX_AXES PROVE w \in Counts
  <2>1. w \in 0..255 /\ w \in Nat /\ w <= MAX_AXES
    BY <1>1
  <2>2. Low(w) = w
    BY <1>2, <2>1
  <2> QED  BY <1>4, <2>1, <2>2
<1>7. ASSUME NEW w \in Counts
      PROVE  w \in Nat /\ Low(w) \in Int /\ Low(w) <= MAX_AXES /\ (w <= 255 => w <= MAX_AXES)
  <2>1. w \in Nat /\ Low(w) <= MAX_AXES
    BY <1>4
  <2>2. ASSUME w <= 255 PROVE w <= MAX_AXES
    <3>1. w \in 0..255
      BY <2>1, <2>2
    <3>2. Low(w) = w
      BY <1>2, <3>1
    <3> QED  BY <2>1, <3>2
  <2> QED  BY <1>3, <2>1, <2>2
<1> QED  BY <1>4, <1>5, <1>6, <1>7

LEMMA InitInv == Init => IInv
<1> SUFFICES ASSUME Init PROVE IInv
  OBVIOUS
<1>1. al \in {"PREOP", "SAFEOP", "OP"}
  BY DEF Init
<1>8. 1 \in Counts
  <2>1. 1 \in 0..MAX_AXES
    BY AxisZero
  <2> QED  BY <2>1, CountsAre
<1>2. RxType
  <2>1. \h1601 \in ValidPdos /\ 0 \in ValidPdos
    BY DEF ValidPdos
  <2>2. rx = [n |-> 1, e |-> [j \in Slots |-> IF j = 0 THEN \h1601 ELSE 0]]
    BY DEF Init
  <2>3. [j \in Slots |-> IF j = 0 THEN \h1601 ELSE 0] \in [Slots -> ValidPdos]
    BY <2>1
  <2> QED  BY <2>2, <2>3, <1>8 DEF RxType
<1>3. ModulesType
  <2>1. modules = [n |-> 1, e |-> [j \in Slots |-> IF j = 0 THEN "csp" ELSE "none"]]
    BY DEF Init
  <2>2. [j \in Slots |-> IF j = 0 THEN "csp" ELSE "none"] \in [Slots -> ValidModules]
    BY DEF ValidModules
  <2> QED  BY <2>1, <2>2, <1>8 DEF ModulesType
<1>7. LoopInv
  <2>1. late = FALSE /\ endless = FALSE /\ modules.n = 1
    BY DEF Init
  <2>2. 1 <= MAX_AXES
    BY AxisZero
  <2> QED  BY <2>1, <2>2 DEF LoopInv
<1>4. size \in Nat
  <2>1. rx.n \in Nat
    BY <1>2, CountsAre DEF RxType
  <2>2. size = OutputSize(rx)
    BY DEF Init
  <2> QED  BY <2>1, <2>2, OutputSizeInNat
<1>5. DicInv
  <2>1. General \in Seq(Indices) /\ AxisObjects[0] \in Seq(Indices)
    BY AxesAssumption, IndicesFinite, SeqOfIndices, AxisZero, AxisObjectsIn
  <2>2. Linked(COE_ObjDictionaryInit, {} \cup ToSet(General))
    BY <2>1, EmptyLinks, AddAllLinks DEF COE_ObjDictionaryInit
  <2>3. Linked(dic, ({} \cup ToSet(General)) \cup ToSet(AxisObjects[0]))
    BY <2>1, <2>2, AddAllLinks DEF Init
  <2>4. active \in [Slots -> BOOLEAN] /\ \A a \in Slots : active[a] <=> a = 0
    BY DEF Init
  <2>5. Objects = ({} \cup ToSet(General)) \cup ToSet(AxisObjects[0])
    BY <2>4, AxisZero DEF Objects
  <2> QED  BY <2>3, <2>4, <2>5 DEF DicInv
<1>6. ListType /\ ListInv
  <2>1. /\ list = [left |-> 0, at |-> NULL, got |-> <<>>, calm |-> FALSE]
        /\ list.left = 0 /\ list.at = NULL /\ list.got = <<>> /\ list.calm = FALSE
    BY DEF Init
  <2>2. <<>> \in Seq(Indices) /\ Ascending(<<>>)
    <3>1. <<>> \in Seq(Indices) /\ Len(<<>>) = 0
      BY EmptySeq
    <3>2. \A i : i \notin DOMAIN <<>>
      BY <3>1, LenProperties
    <3> QED  BY <3>1, <3>2 DEF Ascending
  <2> QED  BY <2>1, <2>2 DEF ListType, ListInv
<1> QED  BY <1>1, <1>2, <1>3, <1>4, <1>5, <1>6, <1>7 DEF IInv

\* A mapping keeps the list linked.  When it changes it, the fragments that are left
\* are not of the list any more.
LEMMA MappingKeeps ==
  ASSUME IInv, rx.n <= MAX_AXES, APPL_GenerateMapping
  PROVE  /\ DicInv' /\ ListType' /\ ListInv' /\ size' \in Nat
         /\ size' = OutputSize(rx) /\ Adapted(active', active)
<1> DEFINE s == [dic |-> dic, active |-> active]
           t == FoldLeft(AdaptSlot, s, [i \in 1..rx.n |-> i - 1])
<1>1. rx.n \in 0..MAX_AXES /\ rx.n \in Nat
  <2>1. rx.n \in Nat /\ MAX_AXES \in Nat
    BY AxisZero, CountsAre DEF IInv, RxType
  <2> QED  BY <2>1
<1>2. s \in Maps
  BY ObjectsAre DEF IInv, DicInv, Linked, Maps
<1>3. t \in Maps /\ Adapted(t.active, active)
  <2>1. s.active = active
    OBVIOUS
  <2> HIDE DEF s
  <2> QED  BY <1>1, <1>2, <2>1, MappingAdapts
<1>4. /\ dic' = t.dic /\ active' = t.active /\ size' = OutputSize(rx)
      /\ list' = [list EXCEPT !.calm = @ /\ t.dic = dic]
  BY DEF APPL_GenerateMapping
<1> HIDE DEF t
<1>5. DicInv'
  <2>1. /\ active' \in [Slots -> BOOLEAN] /\ Linked(dic', ObjectsOf(active'))
    BY <1>3, <1>4 DEF Maps
  <2>2. Objects' = ObjectsOf(active')
    BY DEF Objects, ObjectsOf
  <2> QED  BY <2>1, <2>2 DEF DicInv
<1>6. ListType'
  BY <1>4 DEF IInv, ListType
<1>7. /\ list'.left = list.left /\ list'.at = list.at /\ list'.got = list.got
      /\ list'.calm => list.calm /\ dic' = dic
  BY <1>4 DEF IInv, ListType
<1>8. ListInv'
  <2>1. CASE list'.calm
    <3>1. dic' = dic /\ list.calm
      BY <1>7, <2>1
    <3>2. Chain(dic)' = Chain(dic) /\ ChainFrom(dic, list.at)' = ChainFrom(dic, list.at)
      BY <1>7, <3>1 DEF Chain
    <3> QED  BY <1>7, <3>1, <3>2 DEF IInv, ListInv, Ascending
  <2>2. CASE ~list'.calm
    BY <1>7, <2>2 DEF IInv, ListInv, Ascending
  <2> QED  BY <2>1, <2>2
<1> QED  BY <1>1, <1>3, <1>4, <1>5, <1>6, <1>8, OutputSizeInNat

\* Nothing but a value of good is stored.
LEMMA WrittenIsGood ==
  ASSUME NEW good, NEW old \in [Slots -> good], NEW new, NEW k \in Int
  PROVE  Written(old, new, k, good) \in [Slots -> good]
<1> SUFFICES ASSUME NEW j \in Slots
             PROVE  (IF j < k /\ \A i \in 0..j : new[i] \in good THEN new[j] ELSE old[j]) \in good
  BY DEF Written
<1>1. j \in 0..j
  BY DEF Slots
<1> QED  BY <1>1

\* The PDOs of the modules.
LEMMA PdoOfIsValid ==
  ASSUME NEW m \in ValidModules, NEW j \in Slots
  PROVE  PdoOf(m, j) \in ValidPdos
<1>1. j \in 0..15
  BY AxesAssumption DEF Slots
<1>2. /\ \h1600 + 16 * j \in \h1600..\h17FF /\ \h1601 + 16 * j \in \h1600..\h17FF
      /\ \h1602 + 16 * j \in \h1600..\h17FF
  BY <1>1
<1>3. \/ PdoOf(m, j) = \h1600 + 16 * j \/ PdoOf(m, j) = \h1601 + 16 * j
      \/ PdoOf(m, j) = \h1602 + 16 * j \/ PdoOf(m, j) = 0
  BY DEF PdoOf
<1> QED  BY <1>2, <1>3 DEF ValidPdos

\* An assignment that is not what it was is new in PREOP, or late; then it is not larger
\* than the arrays, or the loop has no end.
LateOnly ==
  \/ al = "PREOP" \/ UNCHANGED <<rx, late, endless>>
  \/ late' /\ (endless' \/ rx'.n <= MAX_AXES)

\* Write0xF030 stores valid modules and PDOs, wherever it stops.
LEMMA ConfigureKeeps ==
  ASSUME IInv, NEW w \in Counts, NEW e, NEW k \in Int, Configure(w, e, k)
  PROVE  RxType' /\ ModulesType' /\ LoopInv' /\ LateOnly
<1> DEFINE m == [n |-> w, e |-> Written(modules.e, e, k, ValidModules)]
           bad == FirstBad(e, k, ValidModules)
<1>1. m.n = w /\ m.e \in [Slots -> ValidModules]
  BY WrittenIsGood DEF IInv, ModulesType
<1>2. CASE /\ bad = {} /\ modules' = m /\ rx' = Assigned(m)
           /\ late' = (late \/ al # "PREOP") /\ endless' = (w > 255)
  <2>1. ModulesType'
    BY <1>1, <1>2 DEF ModulesType
  <2> DEFINE f == [j \in Slots |-> IF j < m.n THEN PdoOf(m.e[j], j) ELSE rx.e[j]]
  <2>2. rx' = [n |-> w, e |-> f]
    BY <1>1, <1>2 DEF Assigned
  <2>3. f \in [Slots -> ValidPdos]
    <3>1. \A j \in Slots : m.e[j] \in ValidModules /\ rx.e[j] \in ValidPdos
      BY <1>1 DEF IInv, RxType
    <3> HIDE DEF m
    <3> QED  BY <3>1, PdoOfIsValid
  <2> HIDE DEF f
  <2>4. RxType' /\ rx'.n = w
    BY <2>2, <2>3 DEF RxType
  <2>5. w > 255 \/ w <= MAX_AXES
    <3>1. w \in Nat /\ (w <= 255 => w <= MAX_AXES)
      BY CountsAre
    <3> QED  BY <3>1
  <2>6. modules'.n = w /\ late' \in BOOLEAN /\ endless' \in BOOLEAN
    BY <1>1, <1>2 DEF IInv, LoopInv
  <2>7. LoopInv'
    BY <1>2, <2>5, <2>6 DEF LoopInv
  <2>8. LateOnly
    BY <1>2, <2>4, <2>5 DEF LateOnly
  <2> QED  BY <2>1, <2>4, <2>7, <2>8
<1>3. CASE /\ \E j \in bad : modules' = [m EXCEPT !.n = IF m.e[j] # "none" THEN j + 1 ELSE j]
           /\ UNCHANGED <<rx, late, endless>>
  <2>1. PICK j \in bad : modules' = [m EXCEPT !.n = IF m.e[j] # "none" THEN j + 1 ELSE j]
    BY <1>3
  <2>2. j \in 0..MAX_AXES /\ j + 1 \in 0..MAX_AXES
    <3>1. j \in Slots
      BY DEF FirstBad
    <3> QED  BY <3>1, AxisZero
  <2>3. modules' = [n |-> IF m.e[j] # "none" THEN j + 1 ELSE j, e |-> m.e]
    BY <2>1
  <2>4. ModulesType' /\ modules'.n \in 0..MAX_AXES
    <3> HIDE DEF m
    <3> QED  BY <1>1, <2>2, <2>3, CountsAre DEF ModulesType
  <2>5. RxType'
    <3>1. rx \in [n : Counts, e : [Slots -> ValidPdos]] /\ rx' = rx
      BY <1>3 DEF IInv, RxType
    <3> QED  BY <3>1, Zenon DEF RxType
  <2>6. modules'.n <= MAX_AXES
    BY <2>4, AxisZero
  <2>7. LoopInv'
    BY <1>3, <2>6 DEF IInv, LoopInv
  <2>8. LateOnly
    BY <1>3 DEF LateOnly
  <2> QED  BY <2>4, <2>5, <2>7, <2>8
<1> QED  BY <1>2, <1>3 DEF Configure

LEMMA FirstFragmentKeeps ==
  ASSUME IInv, FirstFragment
  PROVE  ListType' /\ ListInv'
<1> DEFINE f == Fragment(dic.head, Room)
           c == ChainFrom(dic, dic.head)
           b == ChainFrom(dic, f.rest)
           h == Room \div 2
           k == IF Len(c) <= h THEN Len(c) ELSE h
           q == FragmentsLeft(Len(c))
<1>1. Linked(dic, Objects) /\ dic.head \in Indices \cup {NULL}
  BY DEF IInv, DicInv, Linked, DicType
<1>2. h \in Nat \ {0}
  BY RoomAssumption
<1>3. Splits(f, c, b, dic.head, k)
  BY <1>1, <1>2, FragmentSplits
<1>4. Climbs(c, dic.head)
  BY <1>1, ChainFromClimbs
<1>5. /\ list' = [left |-> q, at |-> f.rest, got |-> f.indices, calm |-> TRUE]
      /\ dic' = dic
  BY DEF FirstFragment, Chain
<1> HIDE DEF f, c, h
<1>6. /\ q \in Nat /\ 2 * (Len(c) - k) <= q * (Room + 2)
      /\ q * (Room + 2) < 2 * (Len(c) - k) + Room + 2
  <2>1. Len(c) \in Nat
    BY <1>4 DEF Climbs
  <2> QED  BY <2>1, FragmentsHold DEF h
<1> HIDE DEF b, k, q
<1>7. /\ list'.left = q /\ list'.at = f.rest /\ list'.got = f.indices
      /\ Chain(dic)' = c /\ ChainFrom(dic, list.at)' = b
  BY <1>5 DEF Chain, c, b
<1>8. ListType'
  BY <1>3, <1>5, <1>6 DEF ListType, Splits
<1>9. /\ \A i, j \in DOMAIN f.indices : i < j => f.indices[i] < f.indices[j]
      /\ f.rest # NULL => \A i \in DOMAIN f.indices : f.indices[i] < f.rest
      /\ c = f.indices \o b /\ Len(b) = Len(c) - k
  BY <1>3 DEF Splits
<1>10. ListInv'
  BY <1>6, <1>7, <1>9 DEF ListInv, Ascending
<1> QED  BY <1>8, <1>10

\* One fragment less is left, for as many objects less as it has.
LEMMA OneLess ==
  ASSUME NEW left \in Nat \ {0}, NEW n \in Nat, NEW h \in Nat, Room + 2 = 2 * h, NEW k \in Nat,
         k = IF n <= h THEN n ELSE h,
         2 * n <= left * (Room + 2), left * (Room + 2) < 2 * n + Room + 2
  PROVE  /\ 2 * (n - k) <= (left - 1) * (Room + 2)
         /\ (left - 1) * (Room + 2) < 2 * (n - k) + Room + 2
<1> DEFINE r == Room + 2
           p == left * r
<1>1. Room \in Nat /\ r \in Nat \ {0} /\ p \in Nat
  BY RoomAssumption
<1>2. (left - 1) * r = p - r
  <2> HIDE DEF r
  <2> QED  BY <1>1
<1>3. CASE n <= h
  <2>1. left = 1
    <3> SUFFICES ASSUME left >= 2 PROVE FALSE
      OBVIOUS
    <3>1. left * r >= 2 * r
      <4> HIDE DEF r
      <4> QED  BY <1>1
    <3>2. p < 2 * r
      BY <1>1, <1>3
    <3> HIDE DEF r
    <3> QED  BY <1>1, <3>1, <3>2
  <2>2. p = r
    BY <1>1, <2>1
  <2> HIDE DEF p
  <2> QED  BY <1>1, <1>2, <1>3, <2>2
<1>4. CASE ~(n <= h)
  <2> QED  BY <1>1, <1>2, <1>4
<1> QED  BY <1>3, <1>4

LEMMA NextFragmentKeeps ==
  ASSUME IInv, NextFragment
  PROVE  ListType' /\ ListInv'
<1> DEFINE e == list.at
           f == Fragment(e, Room + 2)
           c == ChainFrom(dic, e)
           b == ChainFrom(dic, f.rest)
           h == (Room + 2) \div 2
           k == IF Len(c) <= h THEN Len(c) ELSE h
           g == list.got
<1>1. /\ Linked(dic, Objects) /\ e \in Indices \cup {NULL} /\ g \in Seq(Indices)
      /\ list.left \in Nat \ {0} /\ list.calm \in BOOLEAN
  BY DEF IInv, DicInv, ListType, NextFragment
<1>2. h \in Nat \ {0} /\ Room + 2 = 2 * h /\ Room \in Nat
  BY RoomAssumption
<1>3. Splits(f, c, b, e, k)
  BY <1>1, <1>2, FragmentSplits
<1>4. Climbs(c, e)
  BY <1>1, ChainFromClimbs
<1>5. /\ list' = [list EXCEPT !.left = @ - 1, !.at = f.rest, !.got = @ \o f.indices]
      /\ dic' = dic
  BY DEF NextFragment
<1>6. ListInv
  BY DEF IInv
<1> HIDE DEF f, c, h
<1>7. Len(c) \in Nat /\ k \in Nat
  BY <1>2, <1>4 DEF Climbs
<1>8. /\ f.indices \in Seq(Indices) /\ f.rest \in Indices \cup {NULL} /\ b \in Seq(Indices)
      /\ c = f.indices \o b /\ Len(b) = Len(c) - k
      /\ \A i, j \in DOMAIN f.indices : i < j => f.indices[i] < f.indices[j]
      /\ \A i \in DOMAIN f.indices :
           /\ e # NULL /\ e <= f.indices[i] /\ f.indices[i] \in Nat
           /\ f.rest # NULL => f.indices[i] < f.rest
      /\ f.rest # NULL => e # NULL /\ e < f.rest
  BY <1>3 DEF Splits
<1>9. /\ list'.left = list.left - 1 /\ list'.at = f.rest /\ list'.got = g \o f.indices
      /\ list'.calm = list.calm /\ Chain(dic)' = Chain(dic) /\ ChainFrom(dic, list.at)' = b
  BY <1>5 DEF IInv, ListType, Chain, b
<1>10. ListType'
  <2>1. g \o f.indices \in Seq(Indices)
    <3>1. g \in Seq(Indices) /\ f.indices \in Seq(Indices)
      BY <1>1, <1>8
    <3> HIDE DEF g
    <3> QED  BY <3>1, ConcatProperties
  <2>2. list = [left |-> list.left, at |-> e, got |-> g, calm |-> list.calm]
    BY DEF IInv, ListType
  <2>3. list' = [left |-> list.left - 1, at |-> f.rest, got |-> g \o f.indices,
                 calm |-> list.calm]
    BY <1>5, <2>2
  <2>4. list.left - 1 \in Nat
    BY <1>1
  <2> HIDE DEF g
  <2> QED  BY <1>1, <1>8, <2>1, <2>3, <2>4 DEF ListType
<1> HIDE DEF b, k
<1>11. /\ \A i, j \in DOMAIN g : i < j => g[i] < g[j]
       /\ e # NULL => \A i \in DOMAIN g : g[i] < e
       /\ list.calm => /\ Chain(dic) = g \o c /\ 2 * Len(c) <= list.left * (Room + 2)
                       /\ list.left * (Room + 2) < 2 * Len(c) + Room + 2
  BY <1>6 DEF ListInv, Ascending, c
<1> HIDE DEF e, g
<1> DEFINE s == g \o f.indices
           x == Len(g)
           y == Len(f.indices)
<1>12. /\ x \in Nat /\ y \in Nat /\ DOMAIN g = 1..x /\ DOMAIN f.indices = 1..y
       /\ DOMAIN s = 1..(x + y)
       /\ \A i \in 1..(x + y) : s[i] = IF i <= x THEN g[i] ELSE f.indices[i - x]
  <2>0. g \in Seq(Indices) /\ f.indices \in Seq(Indices)
    BY <1>1, <1>8 DEF g
  <2>1. s \in Seq(Indices) /\ Len(s) = x + y
        /\ \A i \in 1..(x + y) : s[i] = IF i <= x THEN g[i] ELSE f.indices[i - x]
    BY <2>0, ConcatProperties
  <2>2. x \in Nat /\ y \in Nat /\ DOMAIN g = 1..x /\ DOMAIN f.indices = 1..y
    BY <2>0, LenProperties
  <2>3. DOMAIN s = 1..(x + y)
    BY <2>1, LenProperties
  <2> QED  BY <2>1, <2>2, <2>3
<1>13. \A i \in 1..x : g[i] \in Nat
  <2>1. \A i \in 1..x : g[i] \in Indices
    BY <1>1, ElementOfSeq DEF g
  <2> QED  BY <2>1, IndicesFinite
<1>14. (e # NULL => e \in Nat) /\ (f.rest # NULL => f.rest \in Nat)
  BY <1>1, <1>8, IndicesFinite DEF e
<1> HIDE DEF s, x, y
<1>15. ASSUME NEW i \in DOMAIN s, NEW j \in DOMAIN s, i < j PROVE s[i] < s[j]
  <2>1. i \in 1..(x + y) /\ j \in 1..(x + y)
    BY <1>12
  <2>2. CASE j <= x
    <3>1. i \in 1..x /\ j \in 1..x /\ s[i] = g[i] /\ s[j] = g[j]
      BY <1>12, <1>15, <2>1, <2>2
    <3> QED  BY <1>11, <1>12, <1>15, <3>1
  <2>3. CASE i <= x /\ ~(j <= x)
    <3>1. i \in 1..x /\ j - x \in 1..y /\ s[i] = g[i] /\ s[j] = f.indices[j - x]
      BY <1>12, <1>15, <2>1, <2>3
    <3>2. e # NULL /\ e <= s[j] /\ s[j] \in Nat
      BY <1>8, <1>12, <3>1
    <3>3. s[i] < e /\ s[i] \in Nat
      BY <1>11, <1>12, <1>13, <3>1, <3>2
    <3> QED  BY <1>14, <3>2, <3>3
  <2>4. CASE ~(i <= x)
    <3>1. /\ i - x \in 1..y /\ j - x \in 1..y /\ i - x < j - x
          /\ s[i] = f.indices[i - x] /\ s[j] = f.indices[j - x]
      BY <1>12, <1>15, <2>1, <2>4
    <3> QED  BY <1>8, <1>12, <3>1
  <2> QED  BY <2>2, <2>3, <2>4
<1>16. ASSUME f.rest # NULL, NEW i \in DOMAIN s PROVE s[i] < f.rest
  <2>1. e # NULL /\ e < f.rest
    BY <1>8, <1>16
  <2>2. CASE i <= x
    <3>1. i \in 1..x /\ s[i] = g[i]
      BY <1>12, <1>16, <2>2
    <3>2. s[i] < e /\ s[i] \in Nat
      BY <1>11, <1>12, <1>13, <2>1, <3>1
    <3> QED  BY <1>14, <1>16, <2>1, <3>2
  <2>3. CASE ~(i <= x)
    <3>1. i - x \in 1..y /\ s[i] = f.indices[i - x]
      BY <1>12, <1>16, <2>3
    <3> QED  BY <1>8, <1>12, <1>16, <3>1
  <2> QED  BY <2>2, <2>3
<1>17. list.calm => Chain(dic) = s \o b
  <2> DEFINE u == f.indices
  <2>1. (g \o u) \o b = g \o (u \o b)
    <3>1. g \in Seq(Indices) /\ u \in Seq(Indices) /\ b \in Seq(Indices)
      BY <1>1, <1>8 DEF g
    <3> HIDE DEF u
    <3> QED  BY <3>1, ConcatAssociative
  <2> QED  BY <1>8, <1>11, <2>1 DEF s
<1>18. list.calm => /\ 2 * Len(b) <= (list.left - 1) * (Room + 2)
                    /\ (list.left - 1) * (Room + 2) < 2 * Len(b) + Room + 2
  <2>1. k = IF Len(c) <= h THEN Len(c) ELSE h
    BY DEF k
  <2>2. h \in Nat
    BY <1>2
  <2> QED  BY <1>1, <1>2, <1>7, <1>8, <1>11, <2>1, <2>2, OneLess
<1>19. ListInv'
  <2>1. list'.got = s
    BY <1>9 DEF s
  <2> QED  BY <1>9, <1>15, <1>16, <1>17, <1>18, <2>1 DEF ListInv, Ascending
<1> QED  BY <1>10, <1>19

\* What the steps that leave the dictionary and the object list alone need to keep.
LEMMA OthersKeep ==
  ASSUME IInv, UNCHANGED <<active, size, dic, list>>, al' \in {"PREOP", "SAFEOP", "OP"},
         RxType', ModulesType', LoopInv'
  PROVE  IInv'
<1>1. DicInv' /\ ListType'
  BY DEF IInv, DicInv, ListType, Objects
<1>2. Chain(dic)' = Chain(dic) /\ ChainFrom(dic, list.at)' = ChainFrom(dic, list.at)
  BY DEF Chain
<1>3. ListInv'
  BY <1>2 DEF IInv, ListInv, Ascending
<1> QED  BY <1>1, <1>3 DEF IInv

LEMMA DownloadsKeep ==
  ASSUME IInv, ~endless, Downloads
  PROVE  IInv' /\ UNCHANGED <<al, active, size, dic, list>> /\ LateOnly
<1>1. /\ rx \in [n : Counts, e : [Slots -> ValidPdos]] /\ RxType
      /\ modules \in [n : Counts, e : [Slots -> ValidModules]] /\ ModulesType
      /\ rx.n \in Counts /\ rx.e \in [Slots -> ValidPdos]
      /\ modules.n \in Counts /\ modules.e \in [Slots -> ValidModules]
      /\ al \in {"PREOP", "SAFEOP", "OP"} /\ MAX_AXES \in Nat
      /\ rx = [n |-> rx.n, e |-> rx.e]
  BY AxisZero DEF IInv, RxType, ModulesType
<1>2. ASSUME NEW w \in Words, Low(w) <= MAX_AXES PROVE w \in Counts /\ Low(w) \in Int
  <2>1. w \in Counts
    BY <1>2, CountsAre
  <2> QED  BY <2>1, CountsAre
<1> SUFFICES /\ RxType' /\ ModulesType' /\ LoopInv'
             /\ UNCHANGED <<al, active, size, dic, list>> /\ LateOnly
  BY <1>1, OthersKeep
<1>3. ASSUME al = "PREOP", UNCHANGED Elsewhere,
             rx' \in [n : Counts, e : [Slots -> ValidPdos]]
      PROVE  /\ RxType' /\ ModulesType' /\ LoopInv'
             /\ UNCHANGED <<al, active, size, dic, list>> /\ LateOnly
  <2>1. UNCHANGED <<al, late, modules, endless, active, size, dic, list>>
    BY <1>3 DEF Elsewhere
  <2>2. RxType' /\ ModulesType'
    BY <1>1, <1>3, <2>1 DEF RxType, ModulesType
  <2>3. LoopInv'
    BY <2>1 DEF IInv, LoopInv
  <2> QED  BY <1>3, <2>1, <2>2, <2>3 DEF LateOnly
<1>4. CASE \E w \in Words : WriteCount(w)
  <2>1. PICK w \in Words : WriteCount(w)
    BY <1>4
  <2>2. al = "PREOP" /\ Low(w) <= MAX_AXES /\ rx' = [rx EXCEPT !.n = w] /\ UNCHANGED Elsewhere
    BY <2>1 DEF WriteCount
  <2>3. rx' = [n |-> w, e |-> rx.e] /\ w \in Counts
    BY <1>1, <1>2, <2>2
  <2> QED  BY <1>1, <1>3, <2>2, <2>3
<1>5. CASE \E w \in Words, e \in [Slots -> Pdos] : WriteAll(w, e)
  <2>1. PICK w \in Words, e \in [Slots -> Pdos] : WriteAll(w, e)
    BY <1>5
  <2>2. /\ al = "PREOP" /\ Low(w) <= MAX_AXES
        /\ rx' = [n |-> w, e |-> Written(rx.e, e, Low(w), ValidPdos)]
        /\ UNCHANGED Elsewhere
    BY <2>1 DEF WriteAll
  <2>3. w \in Counts /\ Written(rx.e, e, Low(w), ValidPdos) \in [Slots -> ValidPdos]
    BY <1>1, <1>2, <2>2, WrittenIsGood
  <2> QED  BY <1>3, <2>2, <2>3
<1>6. CASE \E j \in Slots, v \in Pdos : WriteEntry(j, v)
  <2>1. PICK j \in Slots, v \in Pdos : WriteEntry(j, v)
    BY <1>6
  <2>2. al = "PREOP" /\ v \in ValidPdos /\ rx' = [rx EXCEPT !.e[j] = v] /\ UNCHANGED Elsewhere
    BY <2>1 DEF WriteEntry
  <2>3. rx' = [n |-> rx.n, e |-> [rx.e EXCEPT ![j] = v]]
    BY <1>1, <2>2
  <2>4. [rx.e EXCEPT ![j] = v] \in [Slots -> ValidPdos]
    BY <1>1, <2>2
  <2> QED  BY <1>1, <1>3, <2>2, <2>3, <2>4
<1>7. CASE \E e \in [Slots -> Pdos] : WriteEntries(e)
  <2>1. PICK e \in [Slots -> Pdos] : WriteEntries(e)
    BY <1>7
  <2> DEFINE k == MaxSubindex(rx)
             f == Written(rx.e, e, k, ValidPdos)
  <2>2. al = "PREOP" /\ rx' = [rx EXCEPT !.e = f] /\ UNCHANGED Elsewhere
    BY <2>1 DEF WriteEntries
  <2>3. f \in [Slots -> ValidPdos]
    <3>1. k \in Int
      <4>1. Low(rx.n) \in Int
        BY <1>1, CountsAre
      <4> QED  BY <1>1, <4>1 DEF MaxSubindex
    <3> HIDE DEF k
    <3> QED  BY <1>1, <3>1, WrittenIsGood
  <2> HIDE DEF f
  <2>4. rx' = [n |-> rx.n, e |-> f]
    BY <1>1, <2>2
  <2> QED  BY <1>1, <1>3, <2>2, <2>3, <2>4
<1>8. ASSUME NEW w \in Counts, NEW e, NEW k \in Int, Configure(w, e, k)
      PROVE  /\ RxType' /\ ModulesType' /\ LoopInv'
             /\ UNCHANGED <<al, active, size, dic, list>> /\ LateOnly
  <2>1. UNCHANGED <<al, active, size, dic, list>>
    BY <1>8 DEF Configure
  <2> QED  BY <1>8, <2>1, ConfigureKeeps
<1>9. CASE \E w \in Words : ConfigureCount(w)
  <2>1. PICK w \in Words : ConfigureCount(w)
    BY <1>9
  <2>2. Low(w) <= MAX_AXES /\ Configure(w, modules.e, 0)
    BY <2>1 DEF ConfigureCount
  <2> QED  BY <1>2, <1>8, <2>2
<1>10. CASE \E j \in Slots, m \in Modules : ConfigureEntry(j, m)
  <2>1. PICK j \in Slots, m \in Modules : ConfigureEntry(j, m)
    BY <1>10
  <2>2. Configure(modules.n, [modules.e EXCEPT ![j] = m], j + 1)
    BY <2>1 DEF ConfigureEntry
  <2>3. j + 1 \in Int
    BY AxisZero
  <2> QED  BY <1>1, <1>8, <2>2, <2>3
<1>11. CASE \E w \in Words, e \in [Slots -> Modules] : ConfigureAll(w, e)
  <2>1. PICK w \in Words, e \in [Slots -> Modules] : ConfigureAll(w, e)
    BY <1>11
  <2>2. Low(w) <= MAX_AXES /\ Configure(w, e, Low(w))
    BY <2>1 DEF ConfigureAll
  <2> QED  BY <1>2, <1>8, <2>2
<1>12. CASE \E e \in [Slots -> Modules] : ConfigureEntries(e)
  <2>1. PICK e \in [Slots -> Modules] : ConfigureEntries(e)
    BY <1>12
  <2>2. Configure(modules.n, e, Low(modules.n))
    BY <2>1 DEF ConfigureEntries
  <2>3. Low(modules.n) \in Int
    BY <1>1, CountsAre
  <2> QED  BY <1>1, <1>8, <2>2, <2>3
<1> QED  BY <1>4, <1>5, <1>6, <1>7, <1>9, <1>10, <1>11, <1>12 DEF Downloads

\* Up to PREOP: nothing is mapped, or everything.
LEMMA ToSafeopKeeps ==
  ASSUME IInv, ToSafeop
  PROVE  IInv'
<1>1. UNCHANGED <<rx, modules, endless>>
  BY DEF ToSafeop
<1>2. RxType' /\ ModulesType'
  BY <1>1 DEF IInv, RxType, ModulesType
<1>3. CASE UNCHANGED <<al, late, active, size, dic, list>>
  <2>1. LoopInv'
    BY <1>1, <1>3 DEF IInv, LoopInv
  <2>2. al' \in {"PREOP", "SAFEOP", "OP"}
    BY <1>3 DEF IInv
  <2> QED  BY <1>2, <1>3, <2>1, <2>2, OthersKeep
<1>4. CASE rx.n <= MAX_AXES /\ APPL_GenerateMapping /\ al' \in {"PREOP", "SAFEOP"}
  <2>1. DicInv' /\ ListType' /\ ListInv' /\ size' \in Nat
    BY <1>4, MappingKeeps
  <2>2. late' = FALSE
    BY <1>4 DEF APPL_GenerateMapping
  <2>3. LoopInv'
    BY <1>1, <2>2 DEF IInv, LoopInv
  <2> QED  BY <1>2, <1>4, <2>1, <2>3 DEF IInv
<1> QED  BY <1>3, <1>4 DEF ToSafeop

LEMMA NextInv == IInv /\ [Next]_vars => IInv'
<1> SUFFICES ASSUME IInv, [Next]_vars PROVE IInv'
  OBVIOUS
<1>1. /\ al \in {"PREOP", "SAFEOP", "OP"} /\ size \in Nat
      /\ RxType /\ ModulesType /\ LoopInv /\ ListType /\ DicInv /\ ListInv
  BY DEF IInv
<1>2. ASSUME UNCHANGED <<rx, modules, late, endless>> PROVE RxType' /\ ModulesType' /\ LoopInv'
  BY <1>1, <1>2 DEF RxType, ModulesType, LoopInv
<1>3. CASE OtherTransition
  <2>1. /\ al' \in {"PREOP", "SAFEOP", "OP"}
        /\ UNCHANGED <<rx, late, modules, endless, active, size, dic, list>>
    BY <1>3 DEF OtherTransition
  <2> QED  BY <1>2, <2>1, OthersKeep
<1>4. CASE ~endless /\ Downloads
  BY <1>4, DownloadsKeep
<1>5. CASE FirstFragment \/ NextFragment
  <2>1. UNCHANGED <<al, rx, late, modules, endless, active, size, dic>>
    BY <1>5 DEF FirstFragment, NextFragment
  <2>2. ListType' /\ ListInv'
    BY <1>5, FirstFragmentKeeps, NextFragmentKeeps
  <2>3. DicInv'
    BY <1>1, <2>1 DEF DicInv, Objects
  <2> QED  BY <1>1, <1>2, <2>1, <2>2, <2>3 DEF IInv
<1>6. CASE UNCHANGED vars
  <2>1. UNCHANGED <<al, rx, late, modules, endless, active, size, dic, list>>
    BY <1>6 DEF vars
  <2> QED  BY <1>1, <1>2, <2>1, OthersKeep
<1> QED  BY <1>3, <1>4, <1>5, <1>6, ToSafeopKeeps DEF Next
-------------------------------------------------------------------------------
(* The theorems.                                                             *)

\* Whatever the master writes, however often axes come and go, and wherever the reading
\* of a list stops, the parts of the inductive invariant hold.
THEOREM Invariance == Spec => []IInv
BY InitInv, NextInv, PTL DEF Spec

\* 0x1C12 and 0xF030 never get a value that was refused, and of the words in their
\* subindex 0 the lower byte is a number of entries (OBJ_Write, Write0xF030); the whole
\* word of 0xF030 is one as long as every loop over the modules ended.  The pointers of
\* the list are objects.
THEOREM TypeCorrect == Spec => []TypeOK
<1>1. IInv => TypeOK
  <2> SUFFICES ASSUME IInv PROVE TypeOK
    OBVIOUS
  <2>1. /\ rx.n \in Nat /\ Low(rx.n) <= MAX_AXES /\ \A j \in Slots : rx.e[j] \in ValidPdos
        /\ modules.n \in Nat /\ Low(modules.n) <= MAX_AXES
        /\ modules.e \in [Slots -> ValidModules]
    <3>1. /\ rx.n \in Counts /\ rx.e \in [Slots -> ValidPdos]
          /\ modules.n \in Counts /\ modules.e \in [Slots -> ValidModules]
      BY DEF IInv, RxType, ModulesType
    <3>2. \A w \in Counts : w \in Nat /\ Low(w) <= MAX_AXES
      BY Zenon DEF Counts
    <3> QED  BY <3>1, <3>2
  <2>2. LoopInv /\ al \in {"PREOP", "SAFEOP", "OP"} /\ size \in Nat
    BY DEF IInv
  <2>3. /\ active \in [Slots -> BOOLEAN]
        /\ dic \in [head : Indices \cup {NULL}, next : [Indices -> Indices \cup {NULL}],
                     prev : [Indices -> Indices \cup {NULL}]]
    BY DEF IInv, DicInv, Linked, DicType
  <2>4. list.left \in Nat /\ list.at \in Indices \cup {NULL} /\ list.calm \in BOOLEAN
    BY DEF IInv, ListType
  <2> QED  BY <2>1, <2>2, <2>3, <2>4 DEF LoopInv, TypeOK
<1> QED  BY <1>1, Invariance, PTL

\* The linked list has the general objects and those of the active axes, each once, by
\* index, and pPrev leads back along it (COE_AddObjectToDic, COE_RemoveDicEntry).
THEOREM DictionarySafe == Spec => []DictionaryIsOrdered
<1>1. IInv => DictionaryIsOrdered
  <2> SUFFICES ASSUME IInv PROVE DictionaryIsOrdered
    OBVIOUS
  <2> DEFINE c == Chain(dic)
             S == Objects
  <2>1. Linked(dic, S)
    BY DEF IInv, DicInv
  <2> HIDE DEF S
  <2>2. Reads(c, dic, S)
    BY <2>1, ChainReads
  <2> HIDE DEF c
  <2>3. /\ Len(c) \in Nat /\ DOMAIN c = 1..Len(c)
        /\ \A i \in 1..Len(c) : c[i] \in S
        /\ \A z \in S : \E i \in 1..Len(c) : c[i] = z
        /\ \A i, j \in 1..Len(c) : i < j => c[i] < c[j]
    BY <2>2 DEF Reads
  <2>4. S \subseteq Nat \ {0} /\ NULL = 0
        /\ \A x \in S : IsPrev(S, x, dic.prev[x])
    BY <2>1, IndicesFinite DEF Linked, NULL
  <2>5. Ascending(c) /\ ToSet(c) = S
    BY <2>3 DEF Ascending, ToSet
  <2>6. ASSUME NEW i \in 1..Len(c)
        PROVE  dic.prev[c[i]] = IF i = 1 THEN NULL ELSE c[i - 1]
    <3> DEFINE p == dic.prev[c[i]]
    <3>1. c[i] \in S /\ c[i] \in Nat /\ IsPrev(S, c[i], p)
      BY <2>3, <2>4
    <3> HIDE DEF p
    <3>2. CASE i = 1
      <4>1. \A z \in S : c[i] <= z
        <5> SUFFICES ASSUME NEW z \in S PROVE c[i] <= z
          OBVIOUS
        <5>1. PICK j \in 1..Len(c) : c[j] = z
          BY <2>3
        <5>2. j = i \/ i < j
          BY <2>3, <3>2
        <5>3. z \in Nat
          BY <2>4
        <5> QED  BY <2>3, <3>1, <5>1, <5>2, <5>3
      <4>2. ~(p \in S /\ p < c[i])
        <5> SUFFICES ASSUME p \in S, p < c[i] PROVE FALSE
          OBVIOUS
        <5>1. p \in Nat /\ c[i] <= p
          BY <2>4, <4>1
        <5> QED  BY <3>1, <5>1
      <4> QED  BY <3>1, <3>2, <4>2 DEF IsPrev, p
    <3>3. CASE i # 1
      <4> DEFINE y == c[i - 1]
      <4>1. i - 1 \in 1..Len(c) /\ i - 1 < i
        BY <2>3, <3>3
      <4>2. y \in S /\ y < c[i] /\ y \in Nat
        BY <2>3, <2>4, <4>1
      <4>3. \A z \in S : c[i] <= z \/ z <= y
        <5> SUFFICES ASSUME NEW z \in S PROVE c[i] <= z \/ z <= y
          OBVIOUS
        <5>1. PICK j \in 1..Len(c) : c[j] = z
          BY <2>3
        <5>2. j = i \/ i < j \/ j = i - 1 \/ j < i - 1
          BY <2>3, <4>1
        <5>3. z \in Nat
          BY <2>4
        <5> QED  BY <2>3, <3>1, <4>1, <4>2, <5>1, <5>2, <5>3
      <4> HIDE DEF y
      <4>4. p \in S /\ p < c[i] /\ p \in Nat
        <5>1. ~(\A z \in S : c[i] <= z)
          BY <3>1, <4>2
        <5> QED  BY <2>4, <3>1, <5>1 DEF IsPrev
      <4>5. \A z \in S : c[i] <= z \/ z <= p
        BY <2>4, <3>1, <4>4 DEF IsPrev
      <4>6. p <= y /\ y <= p
        BY <3>1, <4>2, <4>3, <4>4, <4>5
      <4>7. p = y
        BY <4>2, <4>4, <4>6
      <4> QED  BY <3>3, <4>7 DEF p, y
    <3> QED  BY <3>2, <3>3
  <2> QED  BY <2>3, <2>5, <2>6 DEF DictionaryIsOrdered, c, S
<1> QED  BY <1>1, Invariance, PTL

\* In SAFEOP and OP no more PDOs are assigned than there are axes, whatever word the master
\* wrote to subindex 0.  Unless all modules were written since the mapping, they have the
\* size the sync managers were checked against, and the PDO of a slot's own axis finds the
\* axis active (APPL_GenerateMapping, APPL_OutputMapping).
THEOREM MappingSafe == Spec => []MappingFits
<1>1. Init => MappingFits
  BY DEF Init, MappingFits
<1>2. IInv /\ MappingFits /\ [Next]_vars => MappingFits'
  <2> SUFFICES ASSUME IInv, MappingFits, [Next]_vars, al' # "PREOP", ~endless'
               PROVE  rx'.n <= MAX_AXES /\ (late' \/ Fits')
    BY DEF MappingFits
  <2>1. CASE ToSafeop
    <3>1. rx.n <= MAX_AXES /\ APPL_GenerateMapping /\ UNCHANGED rx
      BY <2>1 DEF ToSafeop
    <3>2. size' = OutputSize(rx) /\ Adapted(active', active)
      BY <3>1, MappingKeeps
    <3>3. OutputSize(rx)' = OutputSize(rx)
      BY <3>1
    <3>4. \A j \in 0..rx.n - 1 : AxisOf(rx.e[j]) = j => active'[j]
      BY <3>2 DEF Adapted
    <3> QED  BY <3>1, <3>2, <3>3, <3>4 DEF Fits
  <2>2. CASE UNCHANGED <<rx, late, endless, active, size>> /\ al # "PREOP"
    <3>1. OutputSize(rx)' = OutputSize(rx)
      BY <2>2
    <3>2. rx.n <= MAX_AXES /\ (late \/ Fits)
      BY <2>2 DEF MappingFits
    <3> QED  BY <2>2, <3>1, <3>2 DEF Fits
  <2>3. CASE OtherTransition
    BY <2>2, <2>3 DEF OtherTransition
  <2>4. CASE ~endless /\ Downloads
    <3>1. UNCHANGED <<al, active, size>> /\ LateOnly
      BY <2>4, DownloadsKeep
    <3>2. al # "PREOP"
      BY <3>1
    <3> QED  BY <2>2, <3>1, <3>2 DEF LateOnly
  <2>5. CASE FirstFragment \/ NextFragment \/ UNCHANGED vars
    <3>1. UNCHANGED <<al, rx, late, endless, active, size>>
      BY <2>5 DEF FirstFragment, NextFragment, vars
    <3> QED  BY <2>2, <3>1
  <2> QED  BY <2>1, <2>3, <2>4, <2>5 DEF Next
<1> QED  BY <1>1, <1>2, Invariance, PTL DEF Spec

\* The fragments of an object list are ascending indices, and together they are the whole
\* list, with as many fragments as were announced, if no mapping changed it in between
\* (SDOS_SdoInfoInd, OBJ_GetObjectList).
THEOREM ListsSafe == Spec => []ListsAreComplete
<1>1. IInv => ListsAreComplete
  <2> SUFFICES ASSUME IInv PROVE ListsAreComplete
    OBVIOUS
  <2>1. Ascending(list.got)
    BY DEF IInv, ListInv
  <2>2. ASSUME list.calm, list.left = 0 PROVE list.got = Chain(dic)
    <3> DEFINE c == ChainFrom(dic, list.at)
               g == list.got
    <3>1. Chain(dic) = g \o c /\ 2 * Len(c) <= list.left * (Room + 2)
      BY <2>2 DEF IInv, ListInv
    <3>2. g \in Seq(Indices) /\ list.at \in Indices \cup {NULL} /\ Linked(dic, Objects)
      BY DEF IInv, ListType, DicInv
    <3>3. Climbs(c, list.at)
      BY <3>2, ChainFromClimbs
    <3> HIDE DEF c, g
    <3>4. c \in Seq(Indices) /\ Len(c) \in Nat
      BY <3>3 DEF Climbs
    <3>5. Len(c) = 0
      BY <2>2, <3>1, <3>4, RoomAssumption
    <3>6. c = <<>>
      BY <3>4, <3>5, EmptySeq
    <3>7. g \o c = g
      BY <3>2, <3>6, ConcatEmptySeq
    <3> QED  BY <3>1, <3>7 DEF g
  <2> QED  BY <2>1, <2>2 DEF ListsAreComplete
<1> QED  BY <1>1, Invariance, PTL
===============================================================================
