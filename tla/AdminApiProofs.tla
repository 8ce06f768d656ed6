--------------------------- MODULE AdminApiProofs ---------------------------
(***************************************************************************)
(* What TLAPS proves of AdminApi, for every set of operators, paths and    *)
(* bodies, tables and limits of every size: which paths URLs lead back to, *)
(* and what a client that lists by offsets is given.                       *)
(***************************************************************************)
EXTENDS AdminApi, PathsProofs, FiniteSetTheorems, FunctionTheorems

-----------------------------------------------------------------------------
(* Ranks: how many rows a listing puts before a row *)

\* Those of the rows of paths that are newer than that of path.
Newer(rows, paths, path) == {other \in paths : rows[other].created_at > rows[path].created_at}

Timed(rows, paths) == \A path \in paths : rows[path].created_at \in Nat

Untied(rows, paths) ==
    \A p, q \in paths : p # q => rows[p].created_at # rows[q].created_at

\* Those that come after the first n.
Beyond(rows, paths, n) ==
    {path \in paths : Cardinality(Newer(rows, paths, path)) >= n}

\* Ranks are numbers.
LEMMA RankType ==
    ASSUME NEW rows, NEW paths, IsFiniteSet(paths), NEW path
    PROVE  /\ IsFiniteSet(Newer(rows, paths, path))
           /\ Cardinality(Newer(rows, paths, path)) \in Nat
<1>1. Newer(rows, paths, path) \in SUBSET paths
  BY DEF Newer
<1>2. IsFiniteSet(Newer(rows, paths, path))
  BY <1>1, FS_Subset
<1> QED BY <1>2, FS_CardinalityType

\* What is left of a set without a part of it.
LEMMA SmallerSubset ==
    ASSUME NEW T, IsFiniteSet(T), NEW U \in SUBSET T, NEW x \in T, x \notin U
    PROVE  Cardinality(U) < Cardinality(T)
<1>1. Cardinality(U) <= Cardinality(T) /\ (Cardinality(T) = Cardinality(U) => T = U)
  BY FS_Subset
<1>2. Cardinality(U) \in Nat /\ Cardinality(T) \in Nat
  BY FS_Subset, FS_CardinalityType
<1> QED BY <1>1, <1>2

\* The rank of a row is smaller than that of an older one.
LEMMA NewerRanksFirst ==
    ASSUME NEW rows, NEW paths, IsFiniteSet(paths), Timed(rows, paths),
           NEW p \in paths, NEW q \in paths, rows[p].created_at > rows[q].created_at
    PROVE  Cardinality(Newer(rows, paths, p)) < Cardinality(Newer(rows, paths, q))
<1>1. Newer(rows, paths, p) \in SUBSET Newer(rows, paths, q)
  BY DEF Newer, Timed
<1>2. p \in Newer(rows, paths, q) /\ p \notin Newer(rows, paths, p)
  BY DEF Newer, Timed
<1> QED BY <1>1, <1>2, RankType, SmallerSubset

\* No two rows share a rank.
LEMMA RankIsUnique ==
    ASSUME NEW rows, NEW paths, IsFiniteSet(paths), Timed(rows, paths), Untied(rows, paths),
           NEW p \in paths, NEW q \in paths,
           Cardinality(Newer(rows, paths, p)) = Cardinality(Newer(rows, paths, q))
    PROVE  p = q
<1> SUFFICES ASSUME p # q PROVE FALSE
  OBVIOUS
<1>1. \/ rows[p].created_at > rows[q].created_at
      \/ rows[q].created_at > rows[p].created_at
  BY DEF Timed, Untied
<1>2. /\ Cardinality(Newer(rows, paths, p)) \in Nat
      /\ Cardinality(Newer(rows, paths, q)) \in Nat
  BY RankType
<1> QED BY <1>1, <1>2, NewerRanksFirst

\* Ranks depend on the times alone.
LEMMA RanksOfTimes ==
    ASSUME NEW rows, NEW others, NEW paths,
           \A path \in paths : rows[path].created_at = others[path].created_at
    PROVE  \A n : Beyond(rows, paths, n) = Beyond(others, paths, n)
<1>1. \A path \in paths : Newer(rows, paths, path) = Newer(others, paths, path)
  BY DEF Newer
<1> QED BY <1>1 DEF Beyond

\* When a row leaves, one row at most is among the first n that was not.
LEMMA BeyondWithout ==
    ASSUME NEW rows, NEW paths, IsFiniteSet(paths), Timed(rows, paths), Untied(rows, paths),
           NEW x \in paths, NEW n \in Nat
    PROVE  /\ Beyond(rows, paths \ {x}, n) \subseteq Beyond(rows, paths, n)
           /\ \E y : Beyond(rows, paths, n) \subseteq Beyond(rows, paths \ {x}, n) \cup {x, y}
<1> DEFINE less == paths \ {x}
           Rank(p) == Cardinality(Newer(rows, paths, p))
           LessRank(p) == Cardinality(Newer(rows, less, p))
<1>1. IsFiniteSet(less)
  BY FS_RemoveElement
<1>2. ASSUME NEW p \in less
      PROVE  /\ Rank(p) \in Nat /\ LessRank(p) \in Nat
             /\ LessRank(p) <= Rank(p) /\ Rank(p) <= LessRank(p) + 1
  <2>1. Newer(rows, less, p) = Newer(rows, paths, p) \ {x}
    BY DEF Newer
  <2>2. /\ IsFiniteSet(Newer(rows, paths, p))
        /\ Rank(p) \in Nat /\ LessRank(p) \in Nat
    BY <1>1, RankType
  <2>3. LessRank(p) = IF x \in Newer(rows, paths, p) THEN Rank(p) - 1 ELSE Rank(p)
    BY <2>1, <2>2, FS_RemoveElement
  <2> QED BY <2>2, <2>3
<1>3. Beyond(rows, less, n) \subseteq Beyond(rows, paths, n)
  <2> SUFFICES ASSUME NEW p \in Beyond(rows, less, n) PROVE p \in Beyond(rows, paths, n)
    OBVIOUS
  <2>1. p \in less /\ LessRank(p) >= n
    BY DEF Beyond
  <2>2. Rank(p) >= n
    BY <1>2, <2>1
  <2> QED BY <2>1, <2>2 DEF Beyond
<1>4. \A p \in less : p \in Beyond(rows, paths, n) /\ p \notin Beyond(rows, less, n) => Rank(p) = n
  BY <1>2 DEF Beyond
<1>5. \E y : \A p \in less : Rank(p) = n => p = y
  <2>1. CASE \E y \in less : Rank(y) = n
    <3>1. PICK y \in less : Rank(y) = n
      BY <2>1
    <3>2. \A p \in less : Rank(p) = n => p = y
      BY <3>1, RankIsUnique
    <3> QED BY <3>2
  <2>2. CASE ~ \E y \in less : Rank(y) = n
    BY <2>2
  <2> QED BY <2>1, <2>2
<1>6. PICK y : \A p \in less : Rank(p) = n => p = y
  BY <1>5
<1>7. \A p \in Beyond(rows, paths, n) : p \in Beyond(rows, less, n) \cup {x, y}
  <2>1. \A p \in Beyond(rows, paths, n) : p \in less \/ p = x
    BY DEF Beyond
  <2> HIDE DEF less, Rank
  <2> QED BY <1>4, <1>6, <2>1
<1> QED BY <1>3, <1>7

\* When a row comes, one row at most is beyond the first n that was not.
LEMMA BeyondWith ==
    ASSUME NEW rows, NEW paths, IsFiniteSet(paths), NEW x, x \notin paths,
           Timed(rows, paths \cup {x}), Untied(rows, paths \cup {x}), NEW n \in Nat
    PROVE  /\ Beyond(rows, paths, n) \subseteq Beyond(rows, paths \cup {x}, n)
           /\ \E y : Beyond(rows, paths \cup {x}, n) \subseteq Beyond(rows, paths, n) \cup {y}
<1> DEFINE more == paths \cup {x}
           Rank(p) == Cardinality(Newer(rows, paths, p))
           MoreRank(p) == Cardinality(Newer(rows, more, p))
<1>1. IsFiniteSet(more)
  BY FS_AddElement
<1>2. ASSUME NEW p \in paths
      PROVE  /\ Rank(p) \in Nat /\ MoreRank(p) \in Nat
             /\ Rank(p) <= MoreRank(p) /\ MoreRank(p) <= Rank(p) + 1
             /\ ~ (rows[x].created_at > rows[p].created_at) => MoreRank(p) = Rank(p)
  <2>1. /\ IsFiniteSet(Newer(rows, paths, p)) /\ x \notin Newer(rows, paths, p)
        /\ Rank(p) \in Nat /\ MoreRank(p) \in Nat
    BY <1>1, RankType DEF Newer
  <2>2. CASE rows[x].created_at > rows[p].created_at
    <3>1. Newer(rows, more, p) = Newer(rows, paths, p) \cup {x}
      BY <2>2 DEF Newer
    <3>2. MoreRank(p) = Rank(p) + 1
      BY <2>1, <3>1, FS_AddElement
    <3> QED BY <2>1, <2>2, <3>2
  <2>3. CASE ~ (rows[x].created_at > rows[p].created_at)
    <3>1. Newer(rows, more, p) = Newer(rows, paths, p)
      BY <2>3 DEF Newer
    <3> QED BY <2>1, <2>3, <3>1
  <2> QED BY <2>2, <2>3
<1>3. Beyond(rows, paths, n) \subseteq Beyond(rows, more, n)
  <2> SUFFICES ASSUME NEW p \in Beyond(rows, paths, n) PROVE p \in Beyond(rows, more, n)
    OBVIOUS
  <2>1. p \in paths /\ Rank(p) >= n
    BY DEF Beyond
  <2>2. MoreRank(p) >= n
    <3>1. Rank(p) \in Nat /\ MoreRank(p) \in Nat /\ Rank(p) <= MoreRank(p)
      BY <1>2, <2>1
    <3> HIDE DEF Rank, MoreRank
    <3> QED BY <2>1, <3>1
  <2> QED BY <2>1, <2>2 DEF Beyond
<1>4. MoreRank(x) \in Nat /\ x \in more /\ Timed(rows, more) /\ Untied(rows, more)
  BY <1>1, RankType
<1>5. CASE MoreRank(x) >= n
  <2>1. ASSUME NEW p \in paths, p \in Beyond(rows, more, n) PROVE p \in Beyond(rows, paths, n)
    <3>1. MoreRank(p) >= n
      BY <2>1 DEF Beyond
    <3>2. CASE rows[x].created_at > rows[p].created_at
      <4>1. MoreRank(x) < MoreRank(p)
        BY <1>1, <1>4, <3>2, NewerRanksFirst
      <4>2. Rank(p) \in Nat /\ MoreRank(p) \in Nat /\ MoreRank(p) <= Rank(p) + 1
        BY <1>2
      <4>3. Rank(p) >= n
        <5> HIDE DEF Rank, MoreRank
        <5> QED BY <1>4, <1>5, <4>1, <4>2
      <4> QED BY <4>3 DEF Beyond
    <3>3. CASE ~ (rows[x].created_at > rows[p].created_at)
      BY <1>2, <3>1, <3>3 DEF Beyond
    <3> QED BY <3>2, <3>3
  <2>2. Beyond(rows, more, n) \subseteq Beyond(rows, paths, n) \cup {x}
    <3>1. Beyond(rows, more, n) \subseteq more
      BY DEF Beyond
    <3> QED BY <2>1, <3>1
  <2> QED BY <1>3, <2>2
<1>6. CASE ~ (MoreRank(x) >= n)
  <2>1. x \notin Beyond(rows, more, n)
    BY <1>6 DEF Beyond
  <2>2. ASSUME NEW p \in paths, p \in Beyond(rows, more, n), p \notin Beyond(rows, paths, n)
        PROVE  MoreRank(p) = n
    <3>1. MoreRank(p) >= n /\ ~ (Rank(p) >= n)
      BY <2>2 DEF Beyond
    <3>2. Rank(p) \in Nat /\ MoreRank(p) \in Nat /\ MoreRank(p) <= Rank(p) + 1
      BY <1>2
    <3> HIDE DEF Rank, MoreRank
    <3> QED BY <3>1, <3>2
  <2>3. \E y : \A p \in more : MoreRank(p) = n => p = y
    <3>1. CASE \E y \in more : MoreRank(y) = n
      <4>1. PICK y \in more : MoreRank(y) = n
        BY <3>1
      <4>2. \A p \in more : MoreRank(p) = n => p = y
        BY <1>1, <1>4, <4>1, RankIsUnique
      <4> QED BY <4>2
    <3>2. CASE ~ \E y \in more : MoreRank(y) = n
      BY <3>2
    <3> QED BY <3>1, <3>2
  <2>4. PICK y : \A p \in more : MoreRank(p) = n => p = y
    BY <2>3
  <2>5. \A p \in Beyond(rows, more, n) : p \in Beyond(rows, paths, n) \cup {y}
    <3>1. \A p \in Beyond(rows, more, n) : p \in paths /\ p \in more
      BY <2>1 DEF Beyond
    <3> HIDE DEF more, MoreRank
    <3> QED BY <2>2, <2>4, <3>1
  <2> QED BY <1>3, <2>5
<1> QED BY <1>5, <1>6
-----------------------------------------------------------------------------
(* Orders and pages *)

\* The listings ORDER BY allows.
Sorted(rows, order) ==
    \A i, j \in DOMAIN order : i < j => rows[order[i]].created_at >= rows[order[j]].created_at

\* The rows at places a to b.
Part(order, a, b) == {order[i] : i \in a..b}

\* An order has every row, once.
LEMMA OrderIsPermutation ==
    ASSUME NEW paths, IsFiniteSet(paths), NEW order \in SetToSeqs(paths)
    PROVE  /\ order \in Seq(paths) /\ Len(order) = Cardinality(paths) /\ Len(order) \in Nat
           /\ \A i, j \in 1..Len(order) : order[i] = order[j] => i = j
           /\ \A path \in paths : \E i \in 1..Len(order) : order[i] = path
<1> DEFINE n == Cardinality(paths)
<1>1. n \in Nat
  BY FS_CardinalityType
<1>2. order \in [1..n -> paths] /\ \A i, j \in 1..n : order[i] = order[j] => i = j
  BY DEF SetToSeqs
<1> HIDE DEF n
<1>3. order \in Seq(paths) /\ Len(order) = n
  BY <1>1, <1>2
<1>4. order \in Injection(1..n, paths)
  BY <1>2, Fun_IsInj
<1>5. IsFiniteSet(1..n) /\ Cardinality(1..n) = n
  BY <1>1, FS_Interval
<1>6. order \in Surjection(1..n, paths)
  BY <1>4, <1>5, FS_Injection DEF n
<1>7. \A path \in paths : \E i \in 1..n : order[i] = path
  BY <1>6 DEF Surjection
<1> QED BY <1>1, <1>2, <1>3, <1>7 DEF n

\* A part of an order has as many rows as places.
LEMMA PartOfOrder ==
    ASSUME NEW S, NEW order \in Seq(S), NEW a \in Nat \ {0}, NEW b \in Nat,
           b <= Len(order), a <= b + 1,
           \A i, j \in 1..Len(order) : order[i] = order[j] => i = j
    PROVE  IsFiniteSet(Part(order, a, b)) /\ Cardinality(Part(order, a, b)) = b - a + 1
<1> DEFINE T == Part(order, a, b)
           f == [i \in a..b |-> order[i]]
<1>1. IsFiniteSet(a..b) /\ Cardinality(a..b) = b - a + 1
  <2>1. IsFiniteSet(a..b) /\ Cardinality(a..b) = IF a > b THEN 0 ELSE b - a + 1
    BY FS_Interval
  <2>2. a > b => b - a + 1 = 0
    OBVIOUS
  <2> QED BY <2>1, <2>2
<1>2. a..b \subseteq 1..Len(order)
  OBVIOUS
<1>3. f \in [a..b -> T] /\ \A i, j \in a..b : f[i] = f[j] => i = j
  BY <1>2 DEF Part
<1>4. \A t \in T : \E i \in a..b : f[i] = t
  BY DEF Part
<1> HIDE DEF f, T
<1>5. f \in Bijection(a..b, T)
  BY <1>3, <1>4, Fun_IsBij
<1>6. ExistsBijection(a..b, T)
  BY <1>5, Fun_ExistsBij
<1> QED BY <1>1, <1>6, FS_Bijection DEF T

\* The rank of a row is its place in the order, counted from nothing.
LEMMA RankIsPlace ==
    ASSUME NEW rows, NEW paths, IsFiniteSet(paths), Timed(rows, paths), Untied(rows, paths),
           NEW order \in SetToSeqs(paths), Sorted(rows, order), NEW i \in 1..Len(order)
    PROVE  Cardinality(Newer(rows, paths, order[i])) = i - 1
<1>1. /\ order \in Seq(paths) /\ Len(order) \in Nat
      /\ \A k, j \in 1..Len(order) : order[k] = order[j] => k = j
      /\ \A path \in paths : \E k \in 1..Len(order) : order[k] = path
      /\ i \in 1..Len(order)
  BY OrderIsPermutation
<1> DEFINE Time(k) == rows[order[k]].created_at
<1>2. \A k \in 1..Len(order) : order[k] \in paths /\ Time(k) \in Nat
  <2>1. \A k \in 1..Len(order) : order[k] \in paths
    BY <1>1
  <2> QED BY <2>1 DEF Timed
<1>3. \A k, j \in 1..Len(order) : k < j => Time(k) > Time(j)
  <2> SUFFICES ASSUME NEW k \in 1..Len(order), NEW j \in 1..Len(order), k < j
               PROVE  Time(k) > Time(j)
    OBVIOUS
  <2>1. DOMAIN order = 1..Len(order)
    BY <1>1
  <2>2. Time(k) >= Time(j)
    BY <2>1 DEF Sorted
  <2>3. order[k] # order[j]
    BY <1>1
  <2>4. Time(k) # Time(j)
    BY <1>2, <2>3 DEF Untied
  <2> QED BY <1>2, <2>2, <2>4
<1>4. \A k \in 1..Len(order) : Time(k) > Time(i) <=> k < i
  <2> SUFFICES ASSUME NEW k \in 1..Len(order) PROVE Time(k) > Time(i) <=> k < i
    OBVIOUS
  <2>1. Time(k) \in Nat /\ Time(i) \in Nat
    BY <1>1, <1>2
  <2>2. k < i => Time(k) > Time(i)
    BY <1>1, <1>3
  <2>3. i < k => Time(i) > Time(k)
    BY <1>1, <1>3
  <2>4. i \in Int /\ k \in Int /\ (k = i => Time(k) = Time(i))
    BY <1>1
  <2> HIDE DEF Time
  <2> QED BY <2>1, <2>2, <2>3, <2>4
<1>5. Newer(rows, paths, order[i]) = Part(order, 1, i - 1)
  <2>1. ASSUME NEW p \in Newer(rows, paths, order[i])
        PROVE  \E k \in 1..(i - 1) : p = order[k]
    <3>1. p \in paths /\ rows[p].created_at > rows[order[i]].created_at
      BY DEF Newer
    <3>2. PICK k \in 1..Len(order) : order[k] = p
      BY <1>1, <3>1
    <3>3. k < i
      BY <1>4, <3>1, <3>2
    <3>4. k \in 1..(i - 1)
      BY <1>1, <3>3
    <3> QED BY <3>2, <3>4
  <2>2. ASSUME NEW k \in 1..(i - 1) PROVE order[k] \in Newer(rows, paths, order[i])
    <3>1. k \in 1..Len(order) /\ k < i
      BY <1>1
    <3>2. order[k] \in paths /\ Time(k) > Time(i)
      BY <1>4, <1>2, <3>1
    <3> QED BY <3>2 DEF Newer
  <2> QED BY <2>1, <2>2 DEF Part
<1>6. i - 1 \in Nat /\ i - 1 <= Len(order) /\ 1 <= (i - 1) + 1 /\ (i - 1) - 1 + 1 = i - 1
  BY <1>1
<1> DEFINE b == i - 1
<1>7. b \in Nat /\ b <= Len(order) /\ 1 <= b + 1 /\ b - 1 + 1 = b /\ 1 \in Nat \ {0}
  BY <1>6
<1> HIDE DEF b
<1>8. Cardinality(Part(order, 1, b)) = b - 1 + 1
  BY <1>1, <1>7, PartOfOrder
<1> QED BY <1>5, <1>7, <1>8 DEF b

\* What comes after the first n is the rest of the order.
LEMMA BeyondIsRest ==
    ASSUME NEW rows, NEW paths, IsFiniteSet(paths), Timed(rows, paths), Untied(rows, paths),
           NEW order \in SetToSeqs(paths), Sorted(rows, order), NEW n \in Nat
    PROVE  Beyond(rows, paths, n) = Part(order, n + 1, Len(order))
<1>1. /\ order \in Seq(paths) /\ Len(order) \in Nat
      /\ \A path \in paths : \E k \in 1..Len(order) : order[k] = path
  BY OrderIsPermutation
<1>2. ASSUME NEW p \in Beyond(rows, paths, n)
      PROVE  \E i \in (n + 1)..Len(order) : p = order[i]
  <2>1. p \in paths /\ Cardinality(Newer(rows, paths, p)) >= n
    BY DEF Beyond
  <2>2. PICK k \in 1..Len(order) : order[k] = p
    BY <1>1, <2>1
  <2>3. k - 1 >= n
    BY <2>1, <2>2, RankIsPlace
  <2>4. k \in (n + 1)..Len(order)
    BY <1>1, <2>3
  <2> QED BY <2>2, <2>4
<1>3. ASSUME NEW i \in (n + 1)..Len(order) PROVE order[i] \in Beyond(rows, paths, n)
  <2>1. i \in 1..Len(order) /\ i - 1 >= n
    BY <1>1
  <2>2. Cardinality(Newer(rows, paths, order[i])) = i - 1
    BY <2>1, RankIsPlace
  <2> QED BY <1>1, <2>1, <2>2 DEF Beyond
<1> QED BY <1>2, <1>3 DEF Part
-----------------------------------------------------------------------------
(* Types *)

Chars == STRING \cup {Slash}

\* What CreateLink lets through.
Stored(path) == path \in Seq(Chars) /\ Normal(path) /\ ValidPath(path)

Scans == [pc : {"idle", "scanning", "done"}, limit : Limits \cup {None},
          filter : Filters \cup {None}, seen : Seq([path : Seq(Chars), created_at : Nat])]

\* ApiTypeOK in two parts, with what the code needs to keep them: the table and
\* the INSERTs under way, and what the client that lists has.
TableInv ==
    /\ clock \in Nat /\ writes \in 0..MaxWrites
    /\ IsFiniteSet(DOMAIN table) /\ table = [path \in DOMAIN table |-> table[path]]
    /\ \A path \in DOMAIN table : Stored(path) /\ table[path] \in Rows
    /\ op = [o \in Operators |-> op[o]]
    /\ \A o \in Operators : op[o] # None => Stored(op[o].path) /\ op[o].row \in Rows

ScanTyped ==
    /\ scan \in Scans
    /\ \A i \in DOMAIN scan.seen : scan.seen[i].created_at \in 0..clock
    /\ scan.pc = "scanning" => watch.stayed \subseteq DOMAIN table

ApiInv == TableInv /\ ScanTyped

\* It holds at first.
LEMMA ApiInvInit == Init => ApiInv
<1> SUFFICES ASSUME Init PROVE ApiInv
  OBVIOUS
<1> USE DEF Init
<1> DEFINE Times == {0} \cup {table[path].created_at : path \in DOMAIN table}
<1>1. /\ IsFiniteSet(DOMAIN table)
      /\ table \in [DOMAIN table -> [body : Bodies, created_at : Nat]]
      /\ \A path \in DOMAIN table : path \in Seq(STRING) /\ Normal(path) /\ ValidPath(path)
  BY TablesAssumption
<1>2. \A path \in DOMAIN table : table[path] \in [body : Bodies, created_at : Nat]
  BY <1>1
<1>3. clock \in Nat /\ \A path \in DOMAIN table : table[path].created_at <= clock
  <2>1. Times \in SUBSET Nat /\ Times # {}
    BY <1>2
  <2>2. IsFiniteSet({table[path].created_at : path \in DOMAIN table})
    <3> DEFINE T == {table[path].created_at : path \in DOMAIN table}
               f == [path \in DOMAIN table |-> table[path].created_at]
    <3>1. f \in Surjection(DOMAIN table, T)
      BY DEF Surjection
    <3> HIDE DEF f, T
    <3> QED BY <1>1, <3>1, FS_Surjection DEF T
  <2>3. IsFiniteSet(Times)
    BY <2>2, FS_Singleton, FS_Union
  <2>4. Max(Times) \in Times /\ \A k \in Times : k <= Max(Times)
    <3> HIDE DEF Times
    <3> QED BY <2>1, <2>3, MaxOfFinite
  <2>5. clock = Max(Times)
    OBVIOUS
  <2>6. \A path \in DOMAIN table : table[path].created_at \in Times
    OBVIOUS
  <2> HIDE DEF Times
  <2> QED BY <2>1, <2>4, <2>5, <2>6
<1>4. \A path \in DOMAIN table : table[path] \in Rows
  BY <1>2, <1>3 DEF Rows
<1>5. \A path \in DOMAIN table : Stored(path)
  <2> SUFFICES ASSUME NEW path \in DOMAIN table PROVE Stored(path)
    OBVIOUS
  <2>1. path \in Seq(STRING) /\ STRING \subseteq Chars
    BY <1>1 DEF Chars
  <2>2. path \in Seq(Chars)
    BY <2>1, SeqMonotonic
  <2> QED BY <1>1, <2>2 DEF Stored
<1>6. scan \in Scans /\ scan.pc = "idle" /\ scan.seen = <<>>
  BY DEF NoScan, Scans
<1>7. op = [o \in Operators |-> None] /\ op = [o \in Operators |-> op[o]]
  OBVIOUS
<1>8. writes \in 0..MaxWrites
  BY ApiAssumption
<1> QED BY <1>1, <1>3, <1>4, <1>5, <1>6, <1>7, <1>8 DEF ApiInv, TableInv, ScanTyped

\* A path that a request names is stored as Normalize returns it.
LEMMA RawPathsStored ==
    ASSUME NEW raw \in RawPaths, ValidPath(Normalize(raw))
    PROVE  Stored(Normalize(raw))
<1>1. raw \in Seq(STRING) /\ STRING \subseteq Chars /\ Slash \in Chars
  BY ApiAssumption DEF Chars
<1>2. raw \in Seq(Chars)
  BY <1>1, SeqMonotonic
<1> QED BY <1>1, <1>2, NormalizeReturnsNormal DEF Stored

\* A write touches one row, and never the time of one that stays.
OneRow ==
    /\ \E x : \A path : path # x =>
          /\ path \in DOMAIN table <=> path \in DOMAIN table'
          /\ path \in DOMAIN table => table'[path] = table[path]
    /\ \A path \in DOMAIN table \cap DOMAIN table' :
          table'[path].created_at = table[path].created_at

\* Time only goes on, so what had a time it could have keeps it.
LEMMA RowsGrow ==
    ASSUME clock \in Nat, clock' \in Nat, clock <= clock'
    PROVE  Rows \subseteq Rows'
  BY DEF Rows

\* What a write keeps of the table and does to it.
LEMMA WriteEffect ==
    ASSUME TableInv, WriteStep
    PROVE  TableInv' /\ OneRow /\ clock <= clock'
<1>1. ASSUME NEW o \in Operators, Insert(o)
      PROVE  TableInv' /\ OneRow /\ clock <= clock'
  <2>1. clock' = clock /\ writes' = writes /\ op[o] # None /\ op' = [op EXCEPT ![o] = None]
    BY <1>1 DEF Insert
  <2>2. Rows' = Rows /\ clock <= clock'
    BY <2>1 DEF Rows, TableInv
  <2>3. /\ op' = [other \in Operators |-> op'[other]]
        /\ \A other \in Operators : op'[other] # None => op'[other] = op[other]
    BY <2>1 DEF TableInv
  <2>4. CASE op[o].path \notin DOMAIN table /\ table' = With(op[o].path, op[o].row)
    <3> DEFINE path == op[o].path
               row == op[o].row
    <3>1. Stored(path) /\ row \in Rows /\ path \notin DOMAIN table
      BY <2>1, <2>4 DEF TableInv
    <3>2. table' = [other \in DOMAIN table \cup {path} |->
                       IF other = path THEN row ELSE table[other]]
      BY <2>4 DEF With
    <3> HIDE DEF path, row
    <3>3. /\ DOMAIN table' = DOMAIN table \cup {path} /\ table'[path] = row
          /\ \A other \in DOMAIN table : table'[other] = table[other]
          /\ table' = [other \in DOMAIN table' |-> table'[other]]
      BY <3>1, <3>2
    <3>4. IsFiniteSet(DOMAIN table')
      BY <3>3, FS_AddElement DEF TableInv
    <3>5. \A other \in DOMAIN table' : Stored(other) /\ table'[other] \in Rows
      BY <3>1, <3>3 DEF TableInv
    <3>6. TableInv'
      BY <2>1, <2>2, <2>3, <3>3, <3>4, <3>5 DEF TableInv
    <3>7. \A other : other # path =>
             /\ other \in DOMAIN table <=> other \in DOMAIN table'
             /\ other \in DOMAIN table => table'[other] = table[other]
      BY <3>3
    <3>8. OneRow
      BY <3>3, <3>7 DEF OneRow
    <3> QED BY <2>2, <3>6, <3>8
  <2>5. CASE UNCHANGED table
    <3>1. TableInv'
      BY <2>1, <2>2, <2>3, <2>5 DEF TableInv
    <3> QED BY <2>2, <2>5, <3>1 DEF OneRow
  <2> QED BY <1>1, <2>4, <2>5 DEF Insert
<1>2. ASSUME NEW o \in Operators, NEW raw \in RawPaths, CreateLink(o, raw)
      PROVE  TableInv' /\ OneRow /\ clock <= clock'
  <2>1. PICK body \in Bodies :
           /\ ValidPath(Normalize(raw)) /\ clock' \in {clock, clock + 1}
           /\ op' = [op EXCEPT ![o] = [path |-> Normalize(raw),
                                       row |-> [body |-> body, created_at |-> clock']]]
    BY <1>2 DEF CreateLink
  <2>2. UNCHANGED table /\ writes' \in 0..MaxWrites
    BY <1>2, ApiAssumption DEF CreateLink, Write, TableInv
  <2>3. clock' \in Nat /\ clock <= clock'
    BY <2>1 DEF TableInv
  <2>4. Rows \subseteq Rows'
    BY <2>3, RowsGrow DEF TableInv
  <2>5. Stored(Normalize(raw))
    BY <2>1, RawPathsStored
  <2>6. [body |-> body, created_at |-> clock'] \in Rows'
    BY <2>3 DEF Rows
  <2>7. /\ op' = [other \in Operators |-> op'[other]]
        /\ \A other \in Operators \ {o} : op'[other] = op[other]
        /\ op'[o].path = Normalize(raw)
        /\ op'[o].row = [body |-> body, created_at |-> clock']
    BY <2>1 DEF TableInv
  <2>8. \A other \in Operators : op'[other] # None => Stored(op'[other].path) /\ op'[other].row \in Rows'
    BY <2>4, <2>5, <2>6, <2>7 DEF TableInv
  <2>9. TableInv'
    BY <2>2, <2>3, <2>4, <2>7, <2>8 DEF TableInv
  <2> QED BY <2>2, <2>3, <2>9 DEF OneRow
<1>3. ASSUME NEW rest \in Rests, UpdateLink(rest)
      PROVE  TableInv' /\ OneRow /\ clock <= clock'
  <2> DEFINE path == AdminPath(rest)
  <2>1. PICK body \in Bodies : Statement(path, [table EXCEPT ![path].body = body])
    BY <1>3 DEF UpdateLink
  <2> HIDE DEF path
  <2>2. /\ path \in DOMAIN table /\ table' = [table EXCEPT ![path].body = body]
        /\ clock' = clock /\ op' = op
    BY <2>1 DEF Statement
  <2>3. writes' \in 0..MaxWrites
    BY <1>3, ApiAssumption DEF UpdateLink, Write, TableInv
  <2>4. Rows' = Rows /\ clock <= clock'
    BY <2>2 DEF Rows, TableInv
  <2>5. table[path] \in [body : Bodies, created_at : 0..clock]
    BY <2>2 DEF TableInv, Rows
  <2>6. /\ DOMAIN table' = DOMAIN table /\ table' = [other \in DOMAIN table' |-> table'[other]]
        /\ \A other \in DOMAIN table : other # path => table'[other] = table[other]
        /\ table'[path] = [table[path] EXCEPT !.body = body]
    BY <2>2 DEF TableInv
  <2>7. table'[path] \in Rows /\ table'[path].created_at = table[path].created_at
    BY <2>5, <2>6 DEF Rows
  <2>8. \A other \in DOMAIN table' : Stored(other) /\ table'[other] \in Rows
    BY <2>6, <2>7 DEF TableInv
  <2>9. TableInv'
    BY <2>2, <2>3, <2>4, <2>6, <2>8 DEF TableInv
  <2>10. \A other : other # path =>
            /\ other \in DOMAIN table <=> other \in DOMAIN table'
            /\ other \in DOMAIN table => table'[other] = table[other]
    BY <2>6
  <2>11. OneRow
    BY <2>6, <2>7, <2>10 DEF OneRow
  <2> QED BY <2>4, <2>9, <2>11
<1>4. ASSUME NEW rest \in Rests, DeleteLink(rest)
      PROVE  TableInv' /\ OneRow /\ clock <= clock'
  <2> DEFINE path == AdminPath(rest)
  <2>1. Statement(path, [other \in DOMAIN table \ {path} |-> table[other]])
    BY <1>4 DEF DeleteLink
  <2> HIDE DEF path
  <2>2. /\ table' = [other \in DOMAIN table \ {path} |-> table[other]]
        /\ clock' = clock /\ op' = op
    BY <2>1 DEF Statement
  <2>3. writes' \in 0..MaxWrites
    BY <1>4, ApiAssumption DEF DeleteLink, Write, TableInv
  <2>4. Rows' = Rows /\ clock <= clock'
    BY <2>2 DEF Rows, TableInv
  <2>5. /\ DOMAIN table' = DOMAIN table \ {path}
        /\ table' = [other \in DOMAIN table' |-> table'[other]]
        /\ \A other \in DOMAIN table' : table'[other] = table[other]
    BY <2>2
  <2>6. IsFiniteSet(DOMAIN table')
    BY <2>5, FS_RemoveElement DEF TableInv
  <2>7. \A other \in DOMAIN table' : Stored(other) /\ table'[other] \in Rows
    BY <2>5 DEF TableInv
  <2>8. TableInv'
    BY <2>2, <2>3, <2>4, <2>5, <2>6, <2>7 DEF TableInv
  <2>9. \A other : other # path =>
           /\ other \in DOMAIN table <=> other \in DOMAIN table'
           /\ other \in DOMAIN table => table'[other] = table[other]
    BY <2>5
  <2>10. OneRow
    BY <2>5, <2>9 DEF OneRow
  <2> QED BY <2>4, <2>8, <2>10
<1> QED BY <1>1, <1>2, <1>3, <1>4 DEF WriteStep
-----------------------------------------------------------------------------
(* What the client that lists is given *)

Matched == Matching(scan.filter)

Given == {scan.seen[i].path : i \in DOMAIN scan.seen}

\* The rows that the pages to come would list if nothing happened.
Coming == Beyond(table, Matched, Len(scan.seen))

Decreasing ==
    \A i, j \in DOMAIN scan.seen : i < j => scan.seen[i].created_at > scan.seen[j].created_at

\* The books that a listing under way keeps: a link that stayed, was not given and
\* will not come is one that a departure moved before the offset, and an item
\* given twice, or about to be, one that an arrival moved behind it.
ScanCounted ==
    scan.pc = "scanning" /\ ~watch.tied =>
       /\ watch.arrivals \in Nat /\ watch.departures \in Nat
       /\ watch.stayed \subseteq Matched /\ Untied(table, Matched)
       /\ Cardinality(watch.stayed \ (Given \cup Coming)) <= watch.departures
       /\ Repeats + Cardinality(Given \cap Coming) <= watch.arrivals
       /\ watch.arrivals = 0 =>
             /\ Decreasing
             /\ \A path \in Coming, i \in DOMAIN scan.seen :
                   table[path].created_at < scan.seen[i].created_at

ScanInv ==
    /\ scan.pc = "idle" => scan.seen = <<>>
    /\ ScanCounted
    /\ scan.pc = "done" => ScanExplained

\* The rows of a table are finitely many, and have times.
LEMMA RowsAreTimed ==
    ASSUME NEW rows, IsFiniteSet(DOMAIN rows),
           \A path \in DOMAIN rows : rows[path].created_at \in Nat,
           NEW paths \in SUBSET DOMAIN rows
    PROVE  IsFiniteSet(paths) /\ Timed(rows, paths)
  BY FS_Subset DEF Timed

\* What the client has is finite.
LEMMA GivenType ==
    ASSUME scan \in Scans
    PROVE  /\ Len(scan.seen) \in Nat /\ DOMAIN scan.seen = 1..Len(scan.seen)
           /\ IsFiniteSet(Given) /\ Cardinality(Given) \in Nat
           /\ Repeats = Len(scan.seen) - Cardinality(Given)
<1>1. /\ scan.seen \in Seq([path : Seq(Chars), created_at : Nat])
      /\ Len(scan.seen) \in Nat /\ DOMAIN scan.seen = 1..Len(scan.seen)
  BY DEF Scans
<1>2. IsFiniteSet(DOMAIN scan.seen)
  BY <1>1, FS_Interval
<1>3. IsFiniteSet(Given)
  <2> DEFINE f == [i \in DOMAIN scan.seen |-> scan.seen[i].path]
  <2>1. f \in Surjection(DOMAIN scan.seen, Given)
    BY DEF Surjection, Given
  <2> HIDE DEF f
  <2> QED BY <1>2, <2>1, FS_Surjection
<1>4. Repeats = Len(scan.seen) - Cardinality(Given)
  BY DEF Repeats, Given
<1> QED BY <1>1, <1>3, <1>4, FS_CardinalityType

\* Counts of a set with one element more at most.
LEMMA OneMore ==
    ASSUME NEW T, IsFiniteSet(T), NEW y, NEW U, U \subseteq T \cup {y}
    PROVE  /\ IsFiniteSet(U) /\ Cardinality(U) \in Nat /\ Cardinality(T) \in Nat
           /\ Cardinality(U) <= Cardinality(T) + 1
           /\ U \subseteq T => Cardinality(U) <= Cardinality(T)
<1>1. /\ IsFiniteSet(T \cup {y})
      /\ Cardinality(T \cup {y}) = IF y \in T THEN Cardinality(T) ELSE Cardinality(T) + 1
  BY FS_AddElement
<1>2. IsFiniteSet(U) /\ Cardinality(U) <= Cardinality(T \cup {y})
  BY <1>1, FS_Subset
<1>3. Cardinality(U) \in Nat /\ Cardinality(T) \in Nat
  BY <1>2, FS_CardinalityType
<1>4. U \subseteq T => Cardinality(U) <= Cardinality(T)
  BY FS_Subset
<1>5. Cardinality(T \cup {y}) <= Cardinality(T) + 1
  BY <1>1, <1>3
<1>6. Cardinality(T \cup {y}) \in Nat
  BY <1>1, FS_CardinalityType
<1> QED BY <1>2, <1>3, <1>4, <1>5, <1>6

\* A write keeps the books: it moves one row at most over the offset, and Watch
\* counts it.
LEMMA WriteKeepsBooks ==
    ASSUME ApiInv, ApiInv', ScanCounted, WriteStep, Watch
    PROVE  ScanCounted'
<1> SUFFICES ASSUME scan'.pc = "scanning", ~watch'.tied
             PROVE  ScanCounted'
  BY DEF ScanCounted
<1> DEFINE filter == scan.filter
           before == Matched
           after == Matched'
           n == Len(scan.seen)
           now == Beyond(table, before, n)
           next == Beyond(table', after, n)
<1>1. scan' = scan /\ scan.pc = "scanning"
  BY DEF Watch
<1>2. /\ Given' = Given /\ Repeats' = Repeats /\ Decreasing' = Decreasing
      /\ before = {path \in DOMAIN table : Matches(table[path], filter)}
      /\ after = {path \in DOMAIN table' : Matches(table'[path], filter)}
  BY <1>1 DEF Given, Repeats, Decreasing, Matched, Matching
<1>3. Coming = now /\ Coming' = next
  BY <1>1 DEF Coming
<1>4. /\ watch'.stayed = watch.stayed \cap after
      /\ watch'.arrivals = watch.arrivals + Cardinality(after \ before)
      /\ watch'.departures = watch.departures + Cardinality(before \ after)
      /\ ~watch.tied /\ ~Tied(Matched)'
  <2>1. watch' = [stayed |-> watch.stayed \cap Matched',
                  arrivals |-> watch.arrivals + Cardinality(Matched' \ Matched),
                  departures |-> watch.departures + Cardinality(Matched \ Matched'),
                  tied |-> watch.tied \/ Tied(Matched)']
    BY <1>1 DEF Watch, Matched
  <2>2. watch'.tied = (watch.tied \/ Tied(Matched)')
    BY <2>1, Zenon
  <2>3. ~watch.tied /\ ~Tied(Matched)'
    BY <2>2, Zenon
  <2>4. /\ watch'.stayed = watch.stayed \cap Matched'
        /\ watch'.arrivals = watch.arrivals + Cardinality(Matched' \ Matched)
        /\ watch'.departures = watch.departures + Cardinality(Matched \ Matched')
    BY <2>1, Zenon
  <2> QED BY <2>3, <2>4
<1>5. /\ watch.arrivals \in Nat /\ watch.departures \in Nat
      /\ watch.stayed \subseteq before /\ Untied(table, before)
      /\ Cardinality(watch.stayed \ (Given \cup now)) <= watch.departures
      /\ Repeats + Cardinality(Given \cap now) <= watch.arrivals
      /\ watch.arrivals = 0 =>
            /\ Decreasing
            /\ \A path \in now, i \in DOMAIN scan.seen :
                  table[path].created_at < scan.seen[i].created_at
  BY <1>1, <1>3, <1>4 DEF ScanCounted
<1>6. /\ before \subseteq DOMAIN table /\ IsFiniteSet(before) /\ Timed(table, before)
      /\ after \subseteq DOMAIN table' /\ IsFiniteSet(after) /\ Timed(table', after)
  <2>1. /\ IsFiniteSet(DOMAIN table) /\ \A path \in DOMAIN table : table[path].created_at \in Nat
        /\ IsFiniteSet(DOMAIN table') /\ \A path \in DOMAIN table' : table'[path].created_at \in Nat
    BY DEF ApiInv, TableInv, Rows
  <2>2. before \in SUBSET DOMAIN table /\ after \in SUBSET DOMAIN table'
    BY <1>2
  <2> HIDE DEF before, after
  <2> QED BY <2>1, <2>2, RowsAreTimed
<1>7. Untied(table', after)
  BY <1>4 DEF Tied, Untied
<1>8. n \in Nat /\ IsFiniteSet(Given) /\ Repeats \in Int
  BY GivenType DEF ApiInv, ScanTyped
<1>9. PICK x : \A path : path # x =>
                 /\ path \in DOMAIN table <=> path \in DOMAIN table'
                 /\ path \in DOMAIN table => table'[path] = table[path]
  BY WriteEffect DEF OneRow, ApiInv
<1>10. \A path : path # x => (path \in before <=> path \in after)
  <2> SUFFICES ASSUME NEW path, path # x PROVE path \in before <=> path \in after
    OBVIOUS
  <2> HIDE DEF before, after, filter
  <2>1. CASE path \in DOMAIN table
    BY <1>2, <1>9, <2>1
  <2>2. CASE path \notin DOMAIN table
    BY <1>2, <1>9, <2>2
  <2> QED BY <2>1, <2>2
<1>11. \A path \in before \cap after : table'[path].created_at = table[path].created_at
  BY <1>6, WriteEffect DEF OneRow, ApiInv
<1>12. /\ IsFiniteSet(watch.stayed \ (Given \cup now)) /\ IsFiniteSet(Given \cap now)
       /\ now \subseteq before /\ next \subseteq after
  <2>1. watch.stayed \ (Given \cup now) \in SUBSET before /\ Given \cap now \in SUBSET Given
    BY <1>5
  <2> QED BY <1>6, <1>8, <2>1, FS_Subset DEF Beyond
<1> HIDE DEF before, after, now, next, n, filter
<1>13. CASE after = before
  <2>1. next = now
    <3>1. Beyond(table, before, n) = Beyond(table', before, n)
      BY <1>11, <1>13, RanksOfTimes
    <3> QED BY <1>13, <3>1 DEF now, next
  <2>2. Cardinality(after \ before) = 0 /\ Cardinality(before \ after) = 0
    <3>1. after \ before = {} /\ before \ after = {}
      BY <1>13
    <3> QED BY <3>1, FS_EmptySet
  <2>3. /\ watch'.stayed = watch.stayed /\ watch'.arrivals = watch.arrivals
        /\ watch'.departures = watch.departures
    BY <1>4, <1>5, <1>13, <2>2
  <2>4. \A path \in now : table'[path].created_at = table[path].created_at
    BY <1>11, <1>12, <1>13
  <2> QED BY <1>1, <1>2, <1>3, <1>5, <1>7, <1>13, <2>1, <2>3, <2>4 DEF ScanCounted, after
<1>14. CASE x \notin before /\ after = before \cup {x}
  <2>1. Beyond(table, before, n) = Beyond(table', before, n)
    BY <1>11, <1>14, RanksOfTimes
  <2>2. /\ now \subseteq next /\ \E y : next \subseteq now \cup {y}
    <3>1. /\ Beyond(table', before, n) \subseteq Beyond(table', before \cup {x}, n)
          /\ \E y : Beyond(table', before \cup {x}, n) \subseteq Beyond(table', before, n) \cup {y}
      BY <1>6, <1>7, <1>8, <1>14, BeyondWith
    <3> QED BY <1>14, <2>1, <3>1 DEF now, next
  <2>3. PICK y : next \subseteq now \cup {y}
    BY <2>2
  <2>4. Cardinality(after \ before) = 1 /\ Cardinality(before \ after) = 0
    <3>1. after \ before = {x} /\ before \ after = {}
      BY <1>14
    <3> QED BY <3>1, FS_EmptySet, FS_Singleton
  <2>5. /\ watch'.stayed = watch.stayed /\ watch'.arrivals = watch.arrivals + 1
        /\ watch'.departures = watch.departures
    BY <1>4, <1>5, <1>14, <2>4
  <2>6. Cardinality(watch.stayed \ (Given \cup next)) <= watch.departures
    <3>1. watch.stayed \ (Given \cup next) \subseteq watch.stayed \ (Given \cup now)
      BY <2>2
    <3>2. /\ Cardinality(watch.stayed \ (Given \cup next)) \in Nat
          /\ Cardinality(watch.stayed \ (Given \cup now)) \in Nat
          /\ Cardinality(watch.stayed \ (Given \cup next))
                <= Cardinality(watch.stayed \ (Given \cup now))
      BY <1>12, <3>1, OneMore
    <3> QED BY <1>5, <3>2
  <2>7. Repeats + Cardinality(Given \cap next) <= watch.arrivals + 1
    <3>1. Given \cap next \subseteq (Given \cap now) \cup {y}
      BY <2>3
    <3>2. /\ Cardinality(Given \cap next) \in Nat /\ Cardinality(Given \cap now) \in Nat
          /\ Cardinality(Given \cap next) <= Cardinality(Given \cap now) + 1
      BY <1>12, <3>1, OneMore
    <3> QED BY <1>5, <1>8, <3>2
  <2>8. watch'.arrivals \in Nat /\ watch'.arrivals # 0
    BY <1>5, <2>5
  <2>9. watch.stayed \subseteq after
    BY <1>5, <1>14
  <2> QED BY <1>1, <1>2, <1>3, <1>5, <1>7, <2>5, <2>6, <2>7, <2>8, <2>9 DEF ScanCounted, after
<1>15. CASE x \in before /\ after = before \ {x}
  <2>1. Beyond(table', after, n) = Beyond(table, after, n)
    <3>1. \A path \in after : table'[path].created_at = table[path].created_at
      BY <1>11, <1>15
    <3> QED BY <3>1, RanksOfTimes
  <2>2. next \subseteq now /\ \E y : now \subseteq next \cup {x, y}
    <3>1. /\ Beyond(table, before \ {x}, n) \subseteq Beyond(table, before, n)
          /\ \E y : Beyond(table, before, n) \subseteq Beyond(table, before \ {x}, n) \cup {x, y}
      BY <1>5, <1>6, <1>8, <1>15, BeyondWithout
    <3> QED BY <1>15, <2>1, <3>1 DEF now, next
  <2>3. PICK y : now \subseteq next \cup {x, y}
    BY <2>2
  <2>4. Cardinality(after \ before) = 0 /\ Cardinality(before \ after) = 1
    <3>1. after \ before = {} /\ before \ after = {x}
      BY <1>15
    <3> QED BY <3>1, FS_EmptySet, FS_Singleton
  <2>5. /\ watch'.stayed = watch.stayed \ {x} /\ watch'.arrivals = watch.arrivals
        /\ watch'.departures = watch.departures + 1
    BY <1>4, <1>5, <1>15, <2>4
  <2>6. Cardinality((watch.stayed \ {x}) \ (Given \cup next)) <= watch.departures + 1
    <3>1. (watch.stayed \ {x}) \ (Given \cup next) \subseteq (watch.stayed \ (Given \cup now)) \cup {y}
      BY <2>3
    <3>2. /\ Cardinality((watch.stayed \ {x}) \ (Given \cup next)) \in Nat
          /\ Cardinality(watch.stayed \ (Given \cup now)) \in Nat
          /\ Cardinality((watch.stayed \ {x}) \ (Given \cup next))
                <= Cardinality(watch.stayed \ (Given \cup now)) + 1
      BY <1>12, <3>1, OneMore
    <3> QED BY <1>5, <3>2
  <2>7. Repeats + Cardinality(Given \cap next) <= watch.arrivals
    <3>1. Given \cap next \subseteq Given \cap now
      BY <2>2
    <3>2. /\ Cardinality(Given \cap next) \in Nat /\ Cardinality(Given \cap now) \in Nat
          /\ Cardinality(Given \cap next) <= Cardinality(Given \cap now)
      BY <1>12, <3>1, OneMore
    <3> QED BY <1>5, <1>8, <3>2
  <2>8. /\ watch'.departures \in Nat /\ watch'.stayed \subseteq after
        /\ \A path \in next : path \in now /\ table'[path].created_at = table[path].created_at
    BY <1>5, <1>11, <1>12, <1>15, <2>2, <2>5
  <2> QED BY <1>1, <1>2, <1>3, <1>5, <1>7, <2>5, <2>6, <2>7, <2>8 DEF ScanCounted, after
<1> QED
  <2>1. CASE x \in before
    BY <1>10, <1>13, <1>15, <2>1
  <2>2. CASE x \notin before
    BY <1>10, <1>13, <1>14, <2>2
  <2> QED BY <2>1, <2>2
\* This page holds what comes after the first n, and is empty only past the end.
Follows(page, order, n) ==
    /\ Len(page) \in Nat
    /\ Len(page) > 0 => n + Len(page) <= Len(order)
    /\ \A i \in 1..Len(page) : page[i] = order[n + i]
    /\ page = <<>> => Len(order) <= n

\* A page is the part of its order from the offset on, as long as the limit allows.
LEMMA PageIsPart ==
    ASSUME NEW S, NEW order \in Seq(S), NEW limit \in Limits \cup {None}, NEW n \in Nat,
           NEW offset, EffectiveOffset(offset) = n
    PROVE  /\ Page(order, limit, offset) \in Seq(S)
           /\ Follows(Page(order, limit, offset), order, n)
<1> DEFINE page == Page(order, limit, offset)
           size == EffectiveLimit(limit)
           last == IF n + size > Len(order) THEN Len(order) ELSE n + size
<1>1. Len(order) \in Nat /\ \A i \in 1..Len(order) : order[i] \in S
  OBVIOUS
<1>2. size \in Nat /\ size >= 1
  <2>1. limit = None \/ limit \in Int
    BY ApiAssumption
  <2> QED BY <2>1, ApiAssumption DEF EffectiveLimit
<1>3. page = SubSeq(order, n + 1, last)
  BY DEF Page
<1> HIDE DEF size
<1>4. last \in Nat /\ last <= Len(order) /\ (last < n + 1 => Len(order) <= n)
  BY <1>1, <1>2
<1> HIDE DEF last, page
<1>5. \A i \in (n + 1)..last : order[i] \in S
  BY <1>1, <1>4
<1>6. /\ page \in Seq(S) /\ Len(page) = IF n + 1 <= last THEN last - (n + 1) + 1 ELSE 0
      /\ \A i \in 1..(last - (n + 1) + 1) : page[i] = order[n + 1 + i - 1]
  <2>1. n + 1 \in Int /\ last \in Int
    BY <1>4
  <2> QED BY <1>3, <1>5, <2>1, SubSeqProperties
<1>7. ASSUME n + 1 <= last PROVE page \in Seq(S) /\ Follows(page, order, n)
  <2>1. Len(page) = last - n /\ Len(page) > 0 /\ last - (n + 1) + 1 = last - n
    BY <1>4, <1>6, <1>7
  <2>2. \A i \in 1..Len(page) : page[i] = order[n + i]
    <3> SUFFICES ASSUME NEW i \in 1..Len(page) PROVE page[i] = order[n + i]
      OBVIOUS
    <3>1. n + 1 + i - 1 = n + i /\ i \in 1..(last - (n + 1) + 1)
      BY <1>4, <2>1
    <3> QED BY <1>6, <3>1
  <2>3. n + Len(page) <= Len(order) /\ Len(page) \in Nat
    <3> DEFINE l == Len(page)
    <3>1. l = last - n
      BY <2>1
    <3> HIDE DEF l
    <3> QED BY <1>1, <1>4, <1>7, <3>1 DEF l
  <2>4. page # <<>>
    BY <2>1
  <2> QED BY <1>6, <2>2, <2>3, <2>4 DEF Follows
<1>8. ASSUME ~ (n + 1 <= last) PROVE page \in Seq(S) /\ Follows(page, order, n)
  <2>1. Len(page) = 0 /\ Len(order) <= n
    BY <1>4, <1>6, <1>8
  <2>2. page \in Seq(S) /\ \A i \in 1..Len(page) : page[i] = order[n + i]
    BY <1>6, <2>1
  <2> QED BY <2>1, <2>2 DEF Follows
<1> QED BY <1>7, <1>8 DEF page

\* What the client has after a page.
LEMMA SeenAfterPage ==
    ASSUME ApiInv, NextPage
    PROVE  \E order \in Orders(scan.filter), k \in Nat :
              /\ order \in Seq(Matched) /\ Len(order) \in Nat
              /\ k > 0 => Len(scan.seen) + k <= Len(order)
              /\ scan' \in Scans /\ scan'.filter = scan.filter
              /\ scan'.pc = IF k = 0 THEN "done" ELSE "scanning"
              /\ k = 0 => Len(order) <= Len(scan.seen)
              /\ Len(scan'.seen) = Len(scan.seen) + k
              /\ \A i \in 1..Len(scan.seen) : scan'.seen[i] = scan.seen[i]
              /\ \A i \in 1..k : scan'.seen[Len(scan.seen) + i] = Item(order[Len(scan.seen) + i])
<1> DEFINE n == Len(scan.seen)
           Items == [path : Seq(Chars), created_at : Nat]
<1>1. PICK order \in Orders(scan.filter),
           offset \in IF scan.seen = <<>> THEN {None, -1} ELSE {n} :
              LET page == Page(order, scan.limit, offset) IN
              scan' = [scan EXCEPT
                         !.pc = IF page = <<>> THEN "done" ELSE "scanning",
                         !.seen = scan.seen \o [i \in DOMAIN page |-> Item(page[i])]]
  BY DEF NextPage
<1> DEFINE limit == scan.limit
           page == Page(order, limit, offset)
           k == Len(page)
           items == [i \in DOMAIN page |-> Item(page[i])]
<1>2. scan \in Scans /\ scan.seen \in Seq(Items) /\ n \in Nat /\ scan.limit \in Limits \cup {None}
  BY DEF ApiInv, ScanTyped, Scans
<1>3. IsFiniteSet(Matched) /\ order \in SetToSeqs(Matched)
  <2>1. Matched \in SUBSET DOMAIN table
    BY DEF Matched, Matching
  <2> QED BY <2>1, FS_Subset DEF ApiInv, TableInv, Orders, Matched
<1>4. order \in Seq(Matched) /\ Len(order) \in Nat
  BY <1>3, OrderIsPermutation
<1>5. EffectiveOffset(offset) = n
  <2>1. offset = n \/ (n = 0 /\ offset \in {None, -1})
    BY <1>2
  <2>2. n \in Nat
    BY <1>2
  <2> HIDE DEF n
  <2> QED BY <2>1, <2>2, ApiAssumption DEF EffectiveOffset
<1>6. /\ page \in Seq(Matched) /\ k \in Nat
      /\ k > 0 => n + k <= Len(order)
      /\ \A i \in 1..k : page[i] = order[n + i]
      /\ page = <<>> => Len(order) <= n
  <2>1. limit \in Limits \cup {None}
    BY <1>2
  <2>2. n \in Nat
    BY <1>2
  <2>3. page \in Seq(Matched) /\ Follows(page, order, n)
    <3> HIDE DEF limit, n
    <3> QED BY <1>4, <1>5, <2>1, <2>2, PageIsPart
  <2> HIDE DEF limit, n, page
  <2> QED BY <2>3 DEF Follows
<1>7. \A path \in Matched : Item(path) \in Items
  BY DEF Matched, Matching, ApiInv, TableInv, Stored, Rows, Item
<1> HIDE DEF page, n, Items, limit
<1>8. /\ items \in Seq(Items) /\ Len(items) = k
      /\ \A i \in 1..k : items[i] = Item(order[n + i])
  <2>1. DOMAIN page = 1..k /\ \A i \in 1..k : Item(page[i]) \in Items
    BY <1>6, <1>7
  <2> QED BY <1>6, <2>1
<1> HIDE DEF items
<1>9. scan' = [scan EXCEPT !.pc = IF page = <<>> THEN "done" ELSE "scanning",
                           !.seen = scan.seen \o items]
  BY <1>1 DEF page, items, limit
<1>10. page = <<>> <=> k = 0
  BY <1>6
<1>11. /\ scan.seen \o items \in Seq(Items) /\ Len(scan.seen \o items) = n + k
       /\ \A i \in 1..n : (scan.seen \o items)[i] = scan.seen[i]
       /\ \A i \in 1..k : (scan.seen \o items)[n + i] = items[i]
  <2> DEFINE s == scan.seen
             whole == s \o items
  <2>1. s \in Seq(Items) /\ n = Len(s)
    BY <1>2 DEF n
  <2> HIDE DEF s
  <2>2. /\ whole \in Seq(Items) /\ Len(whole) = n + k
        /\ \A i \in 1..(n + k) : whole[i] = IF i <= n THEN s[i] ELSE items[i - n]
    <3> HIDE DEF k
    <3> QED BY <1>8, <2>1, ConcatProperties
  <2> HIDE DEF whole, k
  <2>3. n \in Nat /\ k \in Nat
    BY <1>2, <1>6
  <2>4. \A i \in 1..n : whole[i] = s[i]
    BY <2>2, <2>3
  <2>5. ASSUME NEW i \in 1..k PROVE whole[n + i] = items[i]
    <3> DEFINE j == n + i
    <3>1. j \in 1..(n + k) /\ ~ (j <= n) /\ j - n = i
      BY <2>3
    <3>2. whole[j] = IF j <= n THEN s[j] ELSE items[j - n]
      <4> HIDE DEF j
      <4> QED BY <2>2, <3>1
    <3> QED BY <3>1, <3>2
  <2> QED BY <2>2, <2>4, <2>5 DEF whole, s
<1> DEFINE seen == scan.seen \o items
<1> HIDE DEF seen, k
<1>12. /\ scan' \in Scans /\ scan'.filter = scan.filter /\ scan'.seen = seen
       /\ scan'.pc = IF k = 0 THEN "done" ELSE "scanning"
  BY <1>2, <1>9, <1>10, <1>11 DEF Scans, Items, seen
<1>13. /\ Len(scan'.seen) = n + k
       /\ \A i \in 1..n : scan'.seen[i] = scan.seen[i]
       /\ \A i \in 1..k : scan'.seen[n + i] = Item(order[n + i])
  BY <1>8, <1>11, <1>12 DEF seen
<1> QED BY <1>4, <1>6, <1>10, <1>12, <1>13 DEF n

\* A page keeps the books as well, what comes next becoming what is given, and at
\* the end, when nothing more will come, they say what ScanExplained says.
LEMMA PageKeepsBooks ==
    ASSUME ApiInv, ScanCounted, NextPage
    PROVE  ScanCounted' /\ (scan'.pc = "done" => ScanExplained')
<1> DEFINE n == Len(scan.seen)
<1>1. PICK order \in Orders(scan.filter), k \in Nat :
              /\ order \in Seq(Matched) /\ Len(order) \in Nat
              /\ k > 0 => n + k <= Len(order)
              /\ scan' \in Scans /\ scan'.filter = scan.filter
              /\ scan'.pc = IF k = 0 THEN "done" ELSE "scanning"
              /\ k = 0 => Len(order) <= n
              /\ Len(scan'.seen) = n + k
              /\ \A i \in 1..n : scan'.seen[i] = scan.seen[i]
              /\ \A i \in 1..k : scan'.seen[n + i] = Item(order[n + i])
  BY SeenAfterPage
<1>2. scan.pc = "scanning" /\ UNCHANGED <<table, watch>>
  BY DEF NextPage, apiVars
<1>3. CASE watch.tied
  BY <1>2, <1>3 DEF ScanCounted, ScanExplained
<1>4. CASE ~ watch.tied
  <2>1. /\ watch.arrivals \in Nat /\ watch.departures \in Nat
        /\ watch.stayed \subseteq Matched /\ Untied(table, Matched)
        /\ Cardinality(watch.stayed \ (Given \cup Coming)) <= watch.departures
        /\ Repeats + Cardinality(Given \cap Coming) <= watch.arrivals
        /\ watch.arrivals = 0 =>
              /\ Decreasing
              /\ \A path \in Coming, i \in DOMAIN scan.seen :
                    table[path].created_at < scan.seen[i].created_at
    BY <1>2, <1>4 DEF ScanCounted
  <2>2. Matched' = Matched
    BY <1>1, <1>2 DEF Matched, Matching, Matches
  <2>3. IsFiniteSet(Matched) /\ Timed(table, Matched)
    <3>1. \A path \in DOMAIN table : table[path].created_at \in Nat
      BY DEF ApiInv, TableInv, Rows
    <3>2. Matched \in SUBSET DOMAIN table
      BY DEF Matched, Matching
    <3> QED BY <3>1, <3>2, RowsAreTimed DEF ApiInv, TableInv
  <2>4. order \in SetToSeqs(Matched) /\ Sorted(table, order)
    BY DEF Orders, Matched, Sorted
  <2>5. /\ order \in Seq(Matched) /\ DOMAIN order = 1..Len(order)
        /\ \A i, j \in 1..Len(order) : order[i] = order[j] => i = j
        /\ \A i \in 1..Len(order) : order[i] \in Matched
    BY <1>1, <2>3, <2>4, OrderIsPermutation
  <2>6. \A i, j \in 1..Len(order) : i < j =>
           table[order[j]].created_at < table[order[i]].created_at
    <3> SUFFICES ASSUME NEW i \in 1..Len(order), NEW j \in 1..Len(order), i < j
                 PROVE  table[order[j]].created_at < table[order[i]].created_at
      OBVIOUS
    <3>1. table[order[i]].created_at >= table[order[j]].created_at
      BY <2>4, <2>5 DEF Sorted
    <3>2. order[i] # order[j]
      BY <1>1, <2>5
    <3>3. table[order[i]].created_at # table[order[j]].created_at
      BY <2>1, <2>5, <3>2 DEF Untied
    <3>4. table[order[i]].created_at \in Nat /\ table[order[j]].created_at \in Nat
      BY <2>3, <2>5 DEF Timed
    <3> QED BY <3>1, <3>3, <3>4
  <2>7. n \in Nat /\ DOMAIN scan.seen = 1..n /\ IsFiniteSet(Given)
        /\ Repeats = n - Cardinality(Given)
    BY GivenType DEF ApiInv, ScanTyped
  <2>8. Coming = Part(order, n + 1, Len(order))
    BY <2>1, <2>3, <2>4, <2>7, BeyondIsRest DEF Coming
  <2>9. DOMAIN scan'.seen = 1..(n + k)
    BY <1>1 DEF Scans
  <2>10. CASE k = 0
    <3>1. Coming = {}
      BY <1>1, <2>7, <2>8, <2>10 DEF Part
    <3>2. scan'.seen = scan.seen /\ scan'.pc = "done"
      <4> DEFINE Items == [path : Seq(Chars), created_at : Nat]
      <4>1. scan.seen \in Seq(Items) /\ scan'.seen \in Seq(Items)
        BY <1>1 DEF ApiInv, ScanTyped, Scans
      <4>2. /\ Len(scan'.seen) = Len(scan.seen)
            /\ \A i \in 1..Len(scan.seen) : scan'.seen[i] = scan.seen[i]
        BY <1>1, <2>7, <2>10
      <4> HIDE DEF Items
      <4> QED BY <1>1, <2>10, <4>1, <4>2
    <3>3. Skipped' = watch.stayed \ (Given \cup Coming)
      BY <1>2, <3>1, <3>2 DEF Skipped, Seen, Given
    <3>4. Repeats' = Repeats
      BY <3>2 DEF Repeats
    <3>5. Repeats <= watch.arrivals
      BY <2>1, <3>1, <2>7, FS_EmptySet, FS_CardinalityType
    <3>6. watch.arrivals = 0 => Decreasing
      BY <2>1
    <3>7. ScanExplained'
      BY <1>2, <2>1, <3>2, <3>3, <3>4, <3>5, <3>6 DEF ScanExplained, Decreasing
    <3> QED BY <3>2, <3>7 DEF ScanCounted
  <2>11. CASE k > 0
    <3> DEFINE page == Part(order, n + 1, n + k)
               rest == Part(order, n + k + 1, Len(order))
    <3>1. n + k <= Len(order) /\ scan'.pc = "scanning"
      BY <1>1, <2>11
    <3>2. Coming' = rest
      <4>1. Coming' = Beyond(table, Matched, n + k)
        BY <1>1, <1>2, <2>2 DEF Coming
      <4>2. n + k \in Nat
        BY <2>7
      <4> QED BY <2>1, <2>3, <2>4, <4>1, <4>2, BeyondIsRest
    <3>3. Coming = page \cup rest /\ page \cap rest = {}
      <4>1. (n + 1)..Len(order) = ((n + 1)..(n + k)) \cup ((n + k + 1)..Len(order))
        BY <1>1, <2>7, <3>1
      <4>2. \A i \in (n + 1)..(n + k), j \in (n + k + 1)..Len(order) :
               i \in 1..Len(order) /\ j \in 1..Len(order) /\ i # j
        BY <1>1, <2>7, <3>1
      <4>3. page \cap rest = {}
        BY <2>5, <4>2 DEF Part
      <4> QED BY <2>8, <4>1, <4>3 DEF Part
    <3>4. IsFiniteSet(page) /\ Cardinality(page) = k
      <4>1. n + 1 \in Nat \ {0} /\ n + k \in Nat /\ n + 1 <= n + k + 1 /\ n + k - (n + 1) + 1 = k
        BY <2>7
      <4>2. Cardinality(page) = n + k - (n + 1) + 1 /\ IsFiniteSet(page)
        BY <2>5, <3>1, <4>1, PartOfOrder
      <4> QED BY <4>1, <4>2
    <3>5. Given' = Given \cup page
      <4>1. 1..(n + k) = (1..n) \cup ((n + 1)..(n + k))
        BY <2>7
      <4>2. Given' = {scan'.seen[i].path : i \in 1..n}
                        \cup {scan'.seen[i].path : i \in (n + 1)..(n + k)}
        BY <2>9, <4>1 DEF Given
      <4>3. {scan'.seen[i].path : i \in 1..n} = Given
        BY <1>1, <2>7 DEF Given
      <4>4. \A i \in (n + 1)..(n + k) : scan'.seen[i].path = order[i]
        <5> SUFFICES ASSUME NEW i \in (n + 1)..(n + k) PROVE scan'.seen[i].path = order[i]
          OBVIOUS
        <5> DEFINE j == i - n
        <5>1. j \in 1..k /\ n + j = i
          BY <2>7
        <5> HIDE DEF j
        <5>2. scan'.seen[n + j] = Item(order[n + j])
          BY <1>1, <5>1
        <5> QED BY <5>1, <5>2 DEF Item
      <4> QED BY <4>2, <4>3, <4>4 DEF Part
    <3> HIDE DEF page, rest
    <3>6. watch.stayed \ (Given' \cup Coming') = watch.stayed \ (Given \cup Coming)
      BY <3>2, <3>3, <3>5
    <3>7. Repeats' + Cardinality(Given' \cap Coming') = Repeats + Cardinality(Given \cap Coming)
      <4>1. /\ IsFiniteSet(Given') /\ IsFiniteSet(Given \cap page)
            /\ Cardinality(Given') = Cardinality(Given) + k - Cardinality(Given \cap page)
        BY <2>7, <3>4, <3>5, FS_Union, FS_Intersection
      <4>2. Given' \cap Coming' = Given \cap rest
        BY <3>2, <3>3, <3>5
      <4>3. IsFiniteSet(Given \cap rest)
        BY <2>7, FS_Intersection, FS_Subset
      <4>4. Cardinality(Given \cap Coming)
               = Cardinality(Given \cap page) + Cardinality(Given \cap rest)
        <5>1. /\ Given \cap Coming = (Given \cap page) \cup (Given \cap rest)
              /\ (Given \cap page) \cap (Given \cap rest) = {}
          BY <3>3
        <5>2. Cardinality(Given \cap Coming)
                 = Cardinality(Given \cap page) + Cardinality(Given \cap rest) - Cardinality({})
          BY <4>1, <4>3, <5>1, FS_Union
        <5> QED BY <4>1, <4>3, <5>2, FS_EmptySet, FS_CardinalityType
      <4>5. Repeats' = n + k - Cardinality(Given')
        <5>1. Repeats' = Len(scan'.seen) - Cardinality(Given')
          BY DEF Repeats, Given
        <5>2. Len(scan'.seen) = n + k /\ Cardinality(Given') \in Nat
          BY <1>1, <4>1, FS_CardinalityType
        <5> QED BY <2>7, <5>1, <5>2
      <4> DEFINE g == Cardinality(Given)
                 p == Cardinality(Given \cap page)
                 r == Cardinality(Given \cap rest)
      <4>6. g \in Nat /\ p \in Nat /\ r \in Nat
        BY <2>7, <4>1, <4>3, FS_CardinalityType
      <4>7. /\ Repeats' = n + k - (g + k - p) /\ Cardinality(Given' \cap Coming') = r
            /\ Repeats = n - g /\ Cardinality(Given \cap Coming) = p + r
        BY <2>7, <4>1, <4>2, <4>4, <4>5
      <4> HIDE DEF g, p, r
      <4>8. n + k - (g + k - p) + r = n - g + (p + r)
        <5> HIDE DEF n
        <5> QED BY <2>7, <4>6
      <4> QED BY <4>7, <4>8, Zenon
    <3>8. \A i \in 1..(n + k) :
             \/ i \in 1..n /\ scan'.seen[i] = scan.seen[i]
             \/ /\ i \in (n + 1)..(n + k) /\ i \in 1..Len(order)
                /\ scan'.seen[i].created_at = table[order[i]].created_at
      <4> SUFFICES ASSUME NEW i \in 1..(n + k), i \notin 1..n
                   PROVE  /\ i \in (n + 1)..(n + k) /\ i \in 1..Len(order)
                          /\ scan'.seen[i].created_at = table[order[i]].created_at
        BY <1>1
      <4> DEFINE j == i - n
      <4>1. j \in 1..k /\ n + j = i
        BY <2>7
      <4> HIDE DEF j
      <4>2. scan'.seen[n + j] = Item(order[n + j])
        BY <1>1, <4>1
      <4>3. i \in (n + 1)..(n + k) /\ i \in 1..Len(order)
        BY <1>1, <2>7, <3>1
      <4> QED BY <4>1, <4>2, <4>3 DEF Item
    <3>9. \A i \in (n + 1)..Len(order) : order[i] \in Coming /\ i \in 1..Len(order)
      BY <1>1, <2>7, <2>8 DEF Part
    <3>10. ASSUME watch.arrivals = 0
           PROVE  /\ Decreasing'
                  /\ \A path \in Coming', i \in DOMAIN scan'.seen :
                        table'[path].created_at < scan'.seen[i].created_at
      <4>1. \A j \in (n + 1)..Len(order), i \in 1..(n + k) : i < j =>
               table[order[j]].created_at < scan'.seen[i].created_at
        <5> SUFFICES ASSUME NEW j \in (n + 1)..Len(order), NEW i \in 1..(n + k), i < j
                     PROVE  table[order[j]].created_at < scan'.seen[i].created_at
          OBVIOUS
        <5>1. CASE i \in 1..n /\ scan'.seen[i] = scan.seen[i]
          BY <2>1, <2>7, <3>9, <3>10, <5>1
        <5>2. CASE i \in 1..Len(order) /\ scan'.seen[i].created_at = table[order[i]].created_at
          BY <2>6, <3>9, <5>2
        <5> QED BY <3>8, <5>1, <5>2
      <4>2. Decreasing'
        <5> SUFFICES ASSUME NEW i \in 1..(n + k), NEW j \in 1..(n + k), i < j
                     PROVE  scan'.seen[i].created_at > scan'.seen[j].created_at
          BY <2>9 DEF Decreasing
        <5>1. CASE j \in 1..n /\ scan'.seen[j] = scan.seen[j]
          <6>1. i \in 1..n
            BY <2>7, <5>1
          <6>2. scan'.seen[i] = scan.seen[i]
            BY <1>1, <6>1
          <6> QED BY <2>1, <2>7, <3>10, <5>1, <6>1, <6>2 DEF Decreasing
        <5>2. CASE /\ j \in (n + 1)..(n + k) /\ j \in 1..Len(order)
                   /\ scan'.seen[j].created_at = table[order[j]].created_at
          <6>1. j \in (n + 1)..Len(order)
            BY <1>1, <2>7, <5>2
          <6>2. table[order[j]].created_at < scan'.seen[i].created_at
            BY <4>1, <6>1
          <6>3. table[order[j]].created_at \in Nat /\ scan'.seen[i].created_at \in Nat
            <7> DEFINE Items == [path : Seq(Chars), created_at : Nat]
            <7>1. scan'.seen[i] \in Items
              <8>1. scan'.seen \in Seq(Items)
                BY <1>1 DEF Scans
              <8> HIDE DEF Items
              <8> QED BY <2>9, <8>1
            <7> QED BY <2>3, <2>5, <5>2, <7>1 DEF Timed
          <6> QED BY <5>2, <6>2, <6>3
        <5> QED BY <3>8, <5>1, <5>2
      <4>3. ASSUME NEW path \in rest, NEW i \in 1..(n + k)
            PROVE  table[path].created_at < scan'.seen[i].created_at
        <5>1. PICK j \in (n + k + 1)..Len(order) : path = order[j]
          BY DEF rest, Part
        <5>2. j \in (n + 1)..Len(order) /\ i < j
          BY <1>1, <2>7
        <5> QED BY <4>1, <5>1, <5>2
      <4> QED BY <1>2, <2>9, <3>2, <4>2, <4>3
    <3>11. ScanCounted'
      BY <1>2, <2>1, <2>2, <3>6, <3>7, <3>10 DEF ScanCounted
    <3> QED BY <3>1, <3>11
  <2> QED BY <1>1, <2>10, <2>11
<1> QED BY <1>3, <1>4

-----------------------------------------------------------------------------
(* The invariants *)

\* Every step keeps ApiInv.
LEMMA ApiInvStep == ApiInv /\ [Next]_vars => ApiInv'
<1> SUFFICES ASSUME ApiInv, [Next]_vars PROVE ApiInv'
  OBVIOUS
<1> DEFINE Items == [path : Seq(Chars), created_at : Nat]
<1>1. ASSUME WriteStep, Watch PROVE ApiInv'
  <2>1. TableInv' /\ clock <= clock' /\ clock \in Nat /\ clock' \in Nat
    BY <1>1, WriteEffect DEF ApiInv, TableInv
  <2>2. scan' = scan /\ scan \in Scans
    BY <1>1 DEF Watch, ApiInv, ScanTyped
  <2>3. \A i \in DOMAIN scan.seen : scan.seen[i].created_at \in 0..clock'
    <3>1. 0..clock \subseteq 0..clock'
      BY <2>1
    <3> QED BY <3>1 DEF ApiInv, ScanTyped
  <2>4. ASSUME scan.pc = "scanning" PROVE watch'.stayed \subseteq DOMAIN table'
    <3>1. watch'.stayed \subseteq Matching(scan.filter)'
      BY <1>1, <2>4 DEF Watch
    <3> QED BY <3>1 DEF Matching
  <2> QED BY <2>1, <2>2, <2>3, <2>4 DEF ApiInv, ScanTyped
<1>2. ASSUME StartScan PROVE ApiInv'
  <2>1. PICK limit \in Limits, filter \in Filters :
           /\ scan' = [scan EXCEPT !.pc = "scanning", !.limit = limit, !.filter = filter]
           /\ watch' = [NoWatch EXCEPT !.stayed = Matching(filter),
                                       !.tied = Tied(Matching(filter))]
    BY <1>2 DEF StartScan
  <2>2. scan' \in Scans /\ scan'.seen = scan.seen
    BY <2>1 DEF ApiInv, ScanTyped, Scans
  <2>3. watch'.stayed \subseteq DOMAIN table
    BY <2>1 DEF NoWatch, Matching
  <2>4. UNCHANGED apiVars
    BY <1>2 DEF StartScan
  <2> QED BY <2>2, <2>3, <2>4 DEF ApiInv, ScanTyped, TableInv, Rows, apiVars
<1>3. ASSUME NextPage PROVE ApiInv'
  <2> DEFINE n == Len(scan.seen)
  <2>1. PICK order \in Orders(scan.filter), k \in Nat :
           /\ order \in Seq(Matched) /\ Len(order) \in Nat
           /\ k > 0 => n + k <= Len(order)
           /\ scan' \in Scans
           /\ Len(scan'.seen) = n + k
           /\ \A i \in 1..n : scan'.seen[i] = scan.seen[i]
           /\ \A i \in 1..k : scan'.seen[n + i] = Item(order[n + i])
    BY <1>3, SeenAfterPage
  <2>2. UNCHANGED <<apiVars, watch>> /\ scan.pc = "scanning"
    BY <1>3 DEF NextPage
  <2>3. n \in Nat /\ DOMAIN scan.seen = 1..n
    BY GivenType DEF ApiInv, ScanTyped
  <2>4. DOMAIN scan'.seen = 1..(n + k)
    BY <2>1 DEF Scans
  <2>5. ASSUME NEW i \in 1..(n + k) PROVE scan'.seen[i].created_at \in 0..clock
    <3>1. CASE i \in 1..n
      BY <2>1, <2>3, <3>1 DEF ApiInv, ScanTyped
    <3>2. CASE i \notin 1..n
      <4> DEFINE j == i - n
      <4>1. j \in 1..k /\ n + j = i
        BY <2>3, <3>2
      <4> HIDE DEF j
      <4>2. scan'.seen[n + j] = Item(order[n + j])
        BY <2>1, <4>1
      <4>3. order[i] \in DOMAIN table
        <5>1. i \in 1..Len(order)
          BY <2>1, <2>3, <3>2
        <5>2. order[i] \in Matched
          BY <2>1, <5>1
        <5> QED BY <5>2 DEF Matched, Matching
      <4>4. table[order[i]].created_at \in 0..clock
        BY <4>3 DEF ApiInv, TableInv, Rows
      <4> QED BY <4>1, <4>2, <4>4 DEF Item
    <3> QED BY <3>1, <3>2
  <2> QED BY <2>1, <2>2, <2>4, <2>5 DEF ApiInv, ScanTyped, TableInv, Rows, apiVars
<1>4. ASSUME EndScan PROVE ApiInv'
  <2>1. scan' = NoScan /\ UNCHANGED apiVars
    BY <1>4 DEF EndScan
  <2>2. scan' \in Scans /\ scan'.seen = <<>> /\ scan'.pc = "idle"
    BY <2>1 DEF NoScan, Scans
  <2> QED BY <2>1, <2>2 DEF ApiInv, ScanTyped, TableInv, Rows, apiVars
<1>5. ASSUME UNCHANGED vars PROVE ApiInv'
  BY <1>5 DEF vars, apiVars, ApiInv, TableInv, ScanTyped, Rows
<1> QED BY <1>1, <1>2, <1>3, <1>4, <1>5 DEF Next

\* A listing begins with an empty ledger.
LEMMA StartKeepsBooks ==
    ASSUME ApiInv, ScanInv, StartScan
    PROVE  ScanCounted'
<1>1. PICK limit \in Limits, filter \in Filters :
         /\ scan' = [scan EXCEPT !.pc = "scanning", !.limit = limit, !.filter = filter]
         /\ watch' = [NoWatch EXCEPT !.stayed = Matching(filter),
                                     !.tied = Tied(Matching(filter))]
  BY DEF StartScan
<1>2. UNCHANGED table /\ scan.pc = "idle" /\ scan.seen = <<>>
  BY DEF StartScan, apiVars, ScanInv
<1>3. scan'.seen = <<>> /\ scan'.filter = filter
  BY <1>1, <1>2 DEF ApiInv, ScanTyped, Scans
<1>4. /\ watch'.stayed = Matching(filter) /\ watch'.tied = Tied(Matching(filter))
      /\ watch'.arrivals = 0 /\ watch'.departures = 0
  BY <1>1 DEF NoWatch
<1>5. Matched' = Matching(filter)
  BY <1>2, <1>3 DEF Matched, Matching, Matches
<1>6. Given' = {} /\ DOMAIN scan'.seen = {}
  BY <1>3 DEF Given
<1>7. Coming' = Matching(filter)
  <2>1. Matching(filter) \in SUBSET DOMAIN table
    BY DEF Matching
  <2>2. IsFiniteSet(Matching(filter))
    BY <2>1, FS_Subset DEF ApiInv, TableInv
  <2>3. \A path : Cardinality(Newer(table, Matching(filter), path)) \in Nat
    BY <2>2, RankType
  <2>4. Beyond(table, Matching(filter), 0) = Matching(filter)
    BY <2>3 DEF Beyond
  <2>5. Coming' = Beyond(table, Matching(filter), 0)
    BY <1>2, <1>3, <1>5 DEF Coming
  <2> QED BY <2>4, <2>5
<1>8. Repeats' = 0
  <2>1. Repeats' = Len(scan'.seen) - Cardinality(Given')
    BY DEF Repeats, Given
  <2> QED BY <1>3, <1>6, <2>1, FS_EmptySet
<1>9. Cardinality(watch'.stayed \ (Given' \cup Coming')) = 0 /\ Cardinality(Given' \cap Coming') = 0
  <2>1. watch'.stayed \ (Given' \cup Coming') = {} /\ Given' \cap Coming' = {}
    BY <1>4, <1>6, <1>7
  <2> QED BY <2>1, FS_EmptySet
<1>10. ~ watch'.tied => Untied(table, Matching(filter))
  BY <1>4 DEF Tied, Untied
<1> QED BY <1>2, <1>4, <1>5, <1>6, <1>8, <1>9, <1>10 DEF ScanCounted, Decreasing

\* Every step keeps ScanInv.
LEMMA ScanInvStep == ApiInv /\ ScanInv /\ [Next]_vars => ScanInv'
<1> SUFFICES ASSUME ApiInv, ScanInv, [Next]_vars PROVE ScanInv'
  OBVIOUS
<1>1. ApiInv'
  BY ApiInvStep
<1>2. ASSUME WriteStep, Watch PROVE ScanInv'
  <2>1. scan' = scan
    BY <1>2 DEF Watch
  <2>2. ScanCounted'
    BY <1>1, <1>2, WriteKeepsBooks DEF ScanInv
  <2>3. ASSUME scan.pc = "done" PROVE ScanExplained'
    <3>1. watch' = watch
      BY <1>2, <2>3 DEF Watch
    <3> QED BY <2>1, <2>3, <3>1 DEF ScanInv, ScanExplained, Skipped, Seen, Repeats
  <2> QED BY <2>1, <2>2, <2>3 DEF ScanInv
<1>3. ASSUME StartScan PROVE ScanInv'
  <2>1. scan'.pc = "scanning"
    BY <1>3 DEF StartScan, ApiInv, ScanTyped, Scans
  <2> QED BY <1>3, <2>1, StartKeepsBooks DEF ScanInv
<1>4. ASSUME NextPage PROVE ScanInv'
  <2>1. ScanCounted' /\ (scan'.pc = "done" => ScanExplained')
    BY <1>4, PageKeepsBooks DEF ScanInv
  <2>2. scan'.pc # "idle"
    BY <1>4, SeenAfterPage
  <2> QED BY <2>1, <2>2 DEF ScanInv
<1>5. ASSUME EndScan PROVE ScanInv'
  <2>1. scan'.pc = "idle" /\ scan'.seen = <<>>
    BY <1>5 DEF EndScan, NoScan
  <2> QED BY <2>1 DEF ScanInv, ScanCounted
<1>6. ASSUME UNCHANGED vars PROVE ScanInv'
  BY <1>6 DEF vars, apiVars, ScanInv, ScanCounted, ScanExplained, Skipped, Seen, Repeats,
              Given, Coming, Matched, Matching, Matches, Decreasing
<1> QED BY <1>2, <1>3, <1>4, <1>5, <1>6 DEF Next

\* No listing is under way at first.
LEMMA ScanInvInit == Init => ScanInv
  BY DEF Init, NoScan, ScanInv, ScanCounted

\* The books of a listing under way say what ScanExplained says.
LEMMA BooksExplain == ApiInv /\ ScanInv => ScanExplained
<1> SUFFICES ASSUME ApiInv, ScanInv, scan.pc = "scanning", ~ watch.tied PROVE ScanExplained
  BY DEF ApiInv, ScanTyped, Scans, ScanInv, ScanExplained
<1>1. /\ watch.arrivals \in Nat /\ watch.departures \in Nat
      /\ Repeats + Cardinality(Given \cap Coming) <= watch.arrivals
      /\ watch.arrivals = 0 => Decreasing
  BY DEF ScanInv, ScanCounted
<1>2. Repeats \in Int /\ Cardinality(Given \cap Coming) \in Nat
  <2>1. /\ Len(scan.seen) \in Nat /\ IsFiniteSet(Given) /\ Cardinality(Given) \in Nat
        /\ Repeats = Len(scan.seen) - Cardinality(Given)
    BY GivenType DEF ApiInv, ScanTyped
  <2>2. IsFiniteSet(Given \cap Coming)
    BY <2>1, FS_Intersection
  <2> QED BY <2>1, <2>2, FS_CardinalityType
<1>3. Repeats <= watch.arrivals
  BY <1>1, <1>2
<1> QED BY <1>1, <1>3 DEF ScanExplained, Decreasing

-----------------------------------------------------------------------------
(* Listings that nothing disturbs *)

\* What a client has been given was among the links it asked for; those are still
\* the same as long as none came.
ScanSound ==
    /\ scan.pc = "idle" => scan.seen = <<>>
    /\ scan.pc # "idle" =>
          /\ IsFiniteSet(watch.stayed)
          /\ watch.arrivals = 0 /\ watch.departures = 0 => Given \subseteq watch.stayed
    /\ scan.pc = "scanning" =>
          /\ watch.arrivals \in Nat /\ watch.departures \in Nat
          /\ watch.stayed \subseteq Matched
          /\ watch.arrivals = 0 => Matched \subseteq watch.stayed

\* The rows that a client asked for are finitely many.
LEMMA MatchedFinite == ApiInv => IsFiniteSet(Matched)
<1>1. Matched \subseteq DOMAIN table
  BY DEF Matched, Matching
<1> QED BY <1>1, FS_Subset DEF ApiInv, TableInv

\* Every step keeps ScanSound.
LEMMA ScanSoundStep == ApiInv /\ ScanSound /\ [Next]_vars => ScanSound'
<1> SUFFICES ASSUME ApiInv, ScanSound, [Next]_vars PROVE ScanSound'
  OBVIOUS
<1>1. ApiInv'
  BY ApiInvStep
<1>2. ASSUME WriteStep, Watch, scan.pc = "scanning" PROVE ScanSound'
  <2> DEFINE before == Matched
             after == Matched'
  <2>1. scan' = scan /\ Given' = Given
    BY <1>2 DEF Watch, Given
  <2>2. IsFiniteSet(before) /\ IsFiniteSet(after)
    <3>1. after \subseteq DOMAIN table' /\ IsFiniteSet(DOMAIN table')
      BY <1>1 DEF ApiInv, TableInv, Matched, Matching
    <3> HIDE DEF before, after
    <3>2. IsFiniteSet(after)
      BY <3>1, FS_Subset
    <3>3. IsFiniteSet(before)
      BY MatchedFinite DEF before
    <3> QED BY <3>2, <3>3
  <2>3. /\ watch'.stayed = watch.stayed \cap after
        /\ watch'.arrivals = watch.arrivals + Cardinality(after \ before)
        /\ watch'.departures = watch.departures + Cardinality(before \ after)
    BY <1>2 DEF Watch, Matched
  <2>4. /\ watch.arrivals \in Nat /\ watch.departures \in Nat
        /\ watch.stayed \subseteq before /\ IsFiniteSet(watch.stayed)
        /\ watch.arrivals = 0 => before \subseteq watch.stayed
        /\ watch.arrivals = 0 /\ watch.departures = 0 => Given \subseteq watch.stayed
    BY <1>2 DEF ScanSound
  <2> HIDE DEF before, after
  <2>5. /\ Cardinality(after \ before) \in Nat /\ Cardinality(before \ after) \in Nat
        /\ Cardinality(after \ before) = 0 => after \subseteq before
        /\ Cardinality(before \ after) = 0 => before \subseteq after
    <3>1. IsFiniteSet(after \ before) /\ IsFiniteSet(before \ after)
      BY <2>2, FS_Difference
    <3>2. /\ Cardinality(after \ before) = 0 => after \ before = {}
          /\ Cardinality(before \ after) = 0 => before \ after = {}
      BY <3>1, FS_EmptySet
    <3> QED BY <3>1, <3>2, FS_CardinalityType
  <2>6. /\ watch'.arrivals \in Nat /\ watch'.departures \in Nat
        /\ watch'.arrivals = 0 => watch.arrivals = 0 /\ Cardinality(after \ before) = 0
        /\ watch'.departures = 0 => watch.departures = 0 /\ Cardinality(before \ after) = 0
    BY <2>3, <2>4, <2>5
  <2>7. /\ watch'.stayed \subseteq after
        /\ watch'.arrivals = 0 => after \subseteq watch'.stayed
        /\ watch'.arrivals = 0 /\ watch'.departures = 0 => Given \subseteq watch'.stayed
    BY <2>3, <2>4, <2>5, <2>6
  <2>8. IsFiniteSet(watch'.stayed)
    BY <2>2, <2>7, FS_Subset
  <2> QED BY <2>1, <2>6, <2>7, <2>8 DEF ScanSound, after
<1>3. ASSUME WriteStep, Watch, scan.pc # "scanning" PROVE ScanSound'
  <2>1. scan' = scan /\ watch' = watch
    BY <1>3 DEF Watch
  <2> QED BY <1>3, <2>1 DEF ScanSound, Given
<1>4. ASSUME StartScan PROVE ScanSound'
  <2>1. PICK limit \in Limits, filter \in Filters :
           /\ scan' = [scan EXCEPT !.pc = "scanning", !.limit = limit, !.filter = filter]
           /\ watch' = [NoWatch EXCEPT !.stayed = Matching(filter),
                                       !.tied = Tied(Matching(filter))]
    BY <1>4 DEF StartScan
  <2>2. table' = table /\ scan'.filter = filter /\ scan'.pc = "scanning"
    BY <1>4, <2>1 DEF StartScan, apiVars, ApiInv, ScanTyped, Scans
  <2>3. Matched' = Matching(filter)
    BY <2>2 DEF Matched, Matching, Matches
  <2>4. watch'.stayed = Matched' /\ watch'.arrivals = 0 /\ watch'.departures = 0
    BY <2>1, <2>3 DEF NoWatch
  <2>5. IsFiniteSet(Matched')
    <3>1. Matched' \subseteq DOMAIN table' /\ IsFiniteSet(DOMAIN table')
      BY <1>1 DEF ApiInv, TableInv, Matched, Matching
    <3> QED BY <3>1, FS_Subset
  <2>6. Given' = {}
    <3>1. scan.seen = <<>>
      BY <1>4 DEF StartScan, ScanSound, ApiInv, ScanTyped
    <3>2. scan'.seen = <<>>
      BY <2>1, <3>1 DEF ApiInv, ScanTyped, Scans
    <3> QED BY <3>2 DEF Given
  <2> QED BY <2>2, <2>4, <2>5, <2>6 DEF ScanSound
<1>5. ASSUME NextPage PROVE ScanSound'
  <2> DEFINE n == Len(scan.seen)
  <2>1. PICK order \in Orders(scan.filter), k \in Nat :
           /\ order \in Seq(Matched) /\ Len(order) \in Nat
           /\ k > 0 => n + k <= Len(order)
           /\ scan' \in Scans /\ scan'.filter = scan.filter
           /\ Len(scan'.seen) = n + k
           /\ \A i \in 1..n : scan'.seen[i] = scan.seen[i]
           /\ \A i \in 1..k : scan'.seen[n + i] = Item(order[n + i])
    BY <1>5, SeenAfterPage
  <2>2. UNCHANGED <<table, watch>> /\ scan.pc = "scanning"
    BY <1>5 DEF NextPage, apiVars
  <2>3. Matched' = Matched
    BY <2>1, <2>2 DEF Matched, Matching, Matches
  <2>4. n \in Nat /\ DOMAIN scan.seen = 1..n
    BY GivenType DEF ApiInv, ScanTyped
  <2>5. DOMAIN scan'.seen = 1..(n + k)
    BY <2>1 DEF Scans
  <2>6. ASSUME NEW i \in 1..(n + k) PROVE scan'.seen[i].path \in Given \cup Matched
    <3>1. CASE i \in 1..n
      BY <2>1, <2>4, <3>1 DEF Given
    <3>2. CASE i \notin 1..n
      <4> DEFINE j == i - n
      <4>1. j \in 1..k /\ n + j = i
        BY <2>4, <3>2
      <4> HIDE DEF j
      <4>2. scan'.seen[n + j] = Item(order[n + j])
        BY <2>1, <4>1
      <4>3. i \in 1..Len(order)
        BY <2>1, <2>4, <3>2
      <4>4. order[i] \in Matched
        BY <2>1, <4>3
      <4> QED BY <4>1, <4>2, <4>4 DEF Item
    <3> QED BY <3>1, <3>2
  <2>7. Given' \subseteq Given \cup Matched
    BY <2>5, <2>6 DEF Given
  <2>8. watch.arrivals = 0 /\ watch.departures = 0 => Given' \subseteq watch.stayed
    BY <2>2, <2>7 DEF ScanSound
  <2>9. scan'.pc # "idle"
    BY <1>5, SeenAfterPage
  <2> QED BY <2>2, <2>3, <2>8, <2>9 DEF ScanSound
<1>6. ASSUME EndScan PROVE ScanSound'
  <2>1. scan'.pc = "idle" /\ scan'.seen = <<>>
    BY <1>6 DEF EndScan, NoScan
  <2> QED BY <2>1 DEF ScanSound
<1>7. ASSUME UNCHANGED vars PROVE ScanSound'
  BY <1>7 DEF vars, apiVars, ScanSound, Given, Matched, Matching, Matches
<1> QED BY <1>2, <1>3, <1>4, <1>5, <1>6, <1>7 DEF Next

\* What an undisturbed listing is at its end: nothing skipped, repeated or strange.
LEMMA SoundIsExact == ApiInv /\ ScanSound /\ ScanExplained => ListingExact
<1> SUFFICES ASSUME ApiInv, ScanSound, ScanExplained, scan.pc = "done", ~watch.tied,
                    watch.arrivals = 0, watch.departures = 0
             PROVE  Given = watch.stayed /\ Len(scan.seen) = Cardinality(watch.stayed)
  BY DEF ListingExact, Given
<1>1. /\ Len(scan.seen) \in Nat /\ DOMAIN scan.seen = 1..Len(scan.seen)
      /\ IsFiniteSet(Given) /\ Cardinality(Given) \in Nat
      /\ Repeats = Len(scan.seen) - Cardinality(Given)
  BY GivenType DEF ApiInv, ScanTyped
<1>2. Cardinality(Skipped) <= 0 /\ Repeats <= 0
  BY DEF ScanExplained
<1>3. IsFiniteSet(watch.stayed) /\ Given \subseteq watch.stayed
  BY DEF ScanSound
<1>4. Skipped = {}
  <2>1. IsFiniteSet(Skipped)
    BY <1>3, FS_Subset DEF Skipped
  <2>2. Cardinality(Skipped) \in Nat
    BY <2>1, FS_CardinalityType
  <2>3. Cardinality(Skipped) = 0
    BY <1>2, <2>2
  <2> QED BY <2>1, <2>3, FS_EmptySet
<1>5. Given = watch.stayed
  <2>1. watch.stayed \subseteq Given
    BY <1>4 DEF Skipped, Seen, Given
  <2> QED BY <1>3, <2>1
<1>6. Cardinality(Given) <= Len(scan.seen)
  <2> DEFINE f == [i \in DOMAIN scan.seen |-> scan.seen[i].path]
             l == Len(scan.seen)
  <2>1. f \in Surjection(DOMAIN scan.seen, Given)
    BY DEF Surjection, Given
  <2>2. IsFiniteSet(DOMAIN scan.seen) /\ Cardinality(DOMAIN scan.seen) = l
    <3>1. l \in Nat /\ DOMAIN scan.seen = 1..l
      BY <1>1
    <3> HIDE DEF l
    <3>2. /\ IsFiniteSet(1..l)
          /\ Cardinality(1..l) = IF 1 > l THEN 0 ELSE l - 1 + 1
      BY <3>1, FS_Interval
    <3> QED BY <3>1, <3>2
  <2> HIDE DEF f
  <2> QED BY <2>1, <2>2, FS_Surjection
<1> QED BY <1>1, <1>2, <1>5, <1>6

-----------------------------------------------------------------------------
(* Paths and the URLs made of them *)

\* What follows the first element of a path, with more behind it.
LEMMA TailOfConcat ==
    ASSUME NEW S, NEW path \in Seq(S), Len(path) > 0, NEW rest \in Seq(S)
    PROVE  Tail(path \o rest) = Tail(path) \o rest
<1> DEFINE t == Tail(path)
           left == Tail(path \o rest)
           right == t \o rest
<1>1. /\ t \in Seq(S) /\ Len(t) = Len(path) - 1
      /\ \A i \in 1..Len(t) : t[i] = path[i + 1]
  <2>1. path # <<>>
    OBVIOUS
  <2> QED BY <2>1, HeadTailProperties
<1> HIDE DEF t
<1>2. /\ right \in Seq(S) /\ Len(right) = Len(path) - 1 + Len(rest)
      /\ \A i \in 1..(Len(path) - 1 + Len(rest)) :
            right[i] = IF i <= Len(path) - 1 THEN t[i] ELSE rest[i - (Len(path) - 1)]
  BY <1>1, ConcatProperties
<1>3. /\ left \in Seq(S) /\ Len(left) = Len(path) + Len(rest) - 1
      /\ \A i \in 1..(Len(path) + Len(rest) - 1) : left[i] = (path \o rest)[i + 1]
  <2>1. path \o rest \in Seq(S) /\ Len(path \o rest) = Len(path) + Len(rest) /\ path \o rest # <<>>
    OBVIOUS
  <2> QED BY <2>1, HeadTailProperties
<1>4. Len(path) \in Nat /\ Len(rest) \in Nat
  OBVIOUS
<1> HIDE DEF left, right
<1>5. ASSUME NEW i \in 1..(Len(path) - 1 + Len(rest)) PROVE left[i] = right[i]
  <2> DEFINE j == i + 1
  <2>1. j \in 1..(Len(path) + Len(rest))
    BY <1>4
  <2>2. (path \o rest)[j] = IF j <= Len(path) THEN path[j] ELSE rest[j - Len(path)]
    <3> HIDE DEF j
    <3> QED BY <2>1, ConcatProperties
  <2>3. left[i] = (path \o rest)[j]
    BY <1>3, <1>4
  <2>4. CASE i <= Len(path) - 1
    <3>1. j <= Len(path) /\ i \in 1..Len(t)
      BY <1>1, <1>4, <2>4
    <3>2. right[i] = t[i] /\ t[i] = path[j]
      BY <1>1, <1>2, <2>4, <3>1
    <3> QED BY <2>2, <2>3, <3>1, <3>2
  <2>5. CASE ~ (i <= Len(path) - 1)
    <3>1. ~ (j <= Len(path)) /\ j - Len(path) = i - (Len(path) - 1)
      BY <1>4, <2>5
    <3>2. right[i] = rest[i - (Len(path) - 1)]
      BY <1>2, <2>5
    <3> QED BY <2>2, <2>3, <3>1, <3>2
  <2> QED BY <2>4, <2>5
<1>6. Len(path) - 1 + Len(rest) = Len(path) + Len(rest) - 1
  BY <1>4
<1>7. left = right
  <2>1. Len(left) = Len(right) /\ \A i \in 1..Len(left) : left[i] = right[i]
    <3>1. Len(left) = Len(path) - 1 + Len(rest) /\ Len(right) = Len(path) - 1 + Len(rest)
      BY <1>2, <1>3, <1>6
    <3> QED BY <1>5, <3>1
  <2>2. left \in Seq(S) /\ right \in Seq(S)
    BY <1>2, <1>3
  <2> QED BY <2>1, <2>2
<1> QED BY <1>7 DEF left, right, t

\* A stored path begins with a slash that a URL keeps, and goes on.
LEMMA StoredPath ==
    ASSUME NEW path, Stored(path)
    PROVE  /\ path \in Seq(Chars) /\ path # <<>> /\ path # Root /\ Len(path) > 1
           /\ Tail(path) \in Seq(Chars) /\ Len(Tail(path)) = Len(path) - 1 /\ Len(Tail(path)) > 0
           /\ Root \o Tail(path) = path
           /\ Canonical(path) <=> /\ Tail(path)[1] \notin {Slash, Blank}
                                  /\ Tail(path)[Len(Tail(path))] \notin {Slash, Blank}
<1> DEFINE t == Tail(path)
<1>1. /\ path \in Seq(Chars) /\ Len(path) \in Nat /\ Len(path) > 0 /\ path[1] = Slash
      /\ Len(path) > 1 => path[Len(path)] # Slash
      /\ path # Root /\ path # <<>>
  BY DEF Stored, Normal, ValidPath, Last
<1>2. Len(path) > 1
  <2>1. Len(path) = 1 => path = Root
    BY <1>1 DEF Root
  <2>2. Len(path) # 1
    BY <1>1, <2>1
  <2> DEFINE l == Len(path)
  <2>3. l \in Nat /\ l > 0 /\ l # 1
    BY <1>1, <2>2
  <2> HIDE DEF l
  <2>4. l > 1
    BY <2>3
  <2> QED BY <2>4 DEF l
<1>3. /\ t \in Seq(Chars) /\ Len(t) = Len(path) - 1
      /\ \A i \in 1..Len(t) : t[i] = path[i + 1]
  BY <1>1, HeadTailProperties
<1>4. Root \o t = path
  <2>1. path = <<Head(path)>> \o Tail(path)
    BY <1>1
  <2> QED BY <1>1, <2>1 DEF Root
<1>5. t[1] = path[2] /\ t[Len(t)] = path[Len(path)]
  <2>1. /\ 1 \in 1..Len(t) /\ 1 + 1 = 2
        /\ Len(t) \in 1..Len(t) /\ Len(t) + 1 = Len(path)
    BY <1>1, <1>2, <1>3
  <2> HIDE DEF t
  <2> QED BY <1>3, <2>1
<1>6. Canonical(path) <=> t[1] \notin {Slash, Blank} /\ t[Len(t)] \notin {Slash, Blank}
  BY <1>1, <1>2, <1>5 DEF Canonical, Last
<1> QED BY <1>1, <1>2, <1>3, <1>4, <1>6

\* The paths that the URLs made of a stored path lead to.
LEMMA UrlsOfPath ==
    ASSUME NEW path, Stored(path)
    PROVE  /\ Canonical(path) <=> AdminPath(path) = path
           /\ Canonical(path) /\ ~Reserved(path) <=> Visited(path) = path
           /\ \A url \in {path \o Root, path \o Root \o Root} :
                 Canonical(path) => AdminPath(url) = path /\ Visited(url) \in {path, <<>>}
<1> DEFINE t == Tail(path)
<1>1. /\ path \in Seq(Chars) /\ path # <<>> /\ path # Root /\ Len(path) > 1
      /\ t \in Seq(Chars) /\ Len(t) = Len(path) - 1 /\ Len(t) > 0
      /\ Root \o t = path
      /\ Canonical(path) <=> t[1] \notin {Slash, Blank} /\ t[Len(t)] \notin {Slash, Blank}
  BY StoredPath
<1>2. Slash \in Chars /\ Root \in Seq(Chars) /\ Root \o Root \in Seq(Chars)
  BY DEF Chars, Root
<1> HIDE DEF t
<1>3. ASSUME Canonical(path), NEW rest \in Seq(Chars), \A i \in 1..Len(rest) : rest[i] = Slash
      PROVE  AdminPath(path \o rest) = path
  <2>1. Tail(path \o rest) = t \o rest
    BY <1>1, TailOfConcat DEF t
  <2>2. Normalize(t \o rest) = Root \o t
    BY <1>1, <1>2, <1>3, NormalizeWords
  <2> QED BY <1>1, <2>1, <2>2 DEF AdminPath, Capture
<1>4. Canonical(path) => AdminPath(path) = path
  <2> SUFFICES ASSUME Canonical(path) PROVE AdminPath(path) = path
    OBVIOUS
  <2> DEFINE none == <<>>
  <2>1. none \in Seq(Chars) /\ (\A i \in 1..Len(none) : none[i] = Slash) /\ path \o none = path
    BY <1>1
  <2> HIDE DEF none
  <2>2. AdminPath(path \o none) = path
    BY <1>3, <2>1
  <2> QED BY <2>1, <2>2
<1>5. AdminPath(path) = path => Canonical(path)
  <2>1. AdminPath(path) = Normalize(t)
    BY DEF AdminPath, Capture, t
  <2>2. Len(path) = Len(t) + 1
    BY <1>1
  <2>3. Normalize(t) = path => t[1] \notin {Slash, Blank} /\ t[Len(t)] \notin {Slash, Blank}
    BY <1>1, <1>2, <2>2, NormalizeReturnsNormal
  <2> QED BY <1>1, <2>1, <2>3
<1>6. Canonical(path) /\ ~Reserved(path) <=> Visited(path) = path
  BY <1>1, <1>4, <1>5 DEF Visited, AdminPath
<1>7. ASSUME Canonical(path), NEW rest \in {Root, Root \o Root}
      PROVE  AdminPath(path \o rest) = path /\ Visited(path \o rest) \in {path, <<>>}
  <2>1. /\ rest \in Seq(Chars) /\ Len(rest) > 0
        /\ \A i \in 1..Len(rest) : rest[i] = Slash
    <3>1. Len(Root) = 1 /\ Root[1] = Slash
      BY DEF Root
    <3>2. CASE rest = Root
      <4>1. Len(rest) = 1 /\ rest[1] = Slash /\ rest \in Seq(Chars)
        BY <1>2, <3>1, <3>2
      <4>2. \A i \in 1..Len(rest) : i = 1
        BY <4>1
      <4> QED BY <4>1, <4>2
    <3>3. CASE rest = Root \o Root
      <4>1. Len(rest) = 2 /\ rest[1] = Slash /\ rest[2] = Slash
        BY <3>3 DEF Root
      <4> QED BY <1>2, <3>3, <4>1
    <3> QED BY <1>7, <3>2, <3>3
  <2>2. AdminPath(path \o rest) = path
    BY <1>3, <1>7, <2>1
  <2>3. path \o rest # Root
    <3>1. Len(path \o rest) = Len(path) + Len(rest) /\ Len(path) \in Nat /\ Len(rest) \in Nat
      BY <1>1, <2>1
    <3>2. Len(Root) = 1
      BY DEF Root
    <3> QED BY <1>1, <3>1, <3>2
  <2> QED BY <2>2, <2>3 DEF Visited, AdminPath
<1>8. path \o Root \o Root = path \o (Root \o Root)
  BY <1>1, <1>2, ConcatAssociative
<1> QED BY <1>4, <1>5, <1>6, <1>7, <1>8

-----------------------------------------------------------------------------
(* The theorems *)

\* ApiInv is inductive.
LEMMA ApiInvCorrect == Spec => []ApiInv
<1>1. Init => ApiInv
  BY ApiInvInit
<1>2. ApiInv /\ [Next]_vars => ApiInv'
  BY ApiInvStep
<1> QED BY <1>1, <1>2, PTL DEF Spec

\* ScanInv is inductive relative to it.
LEMMA ScanInvCorrect == Spec => []ScanInv
<1>1. Init => ScanInv
  BY ScanInvInit
<1>2. ApiInv /\ ScanInv /\ [Next]_vars => ScanInv'
  BY ScanInvStep
<1> QED BY <1>1, <1>2, ApiInvCorrect, PTL DEF Spec

\* admin.rs:49-74, 90-175: what the table, the INSERTs under way and the listing
\* client hold is what their types say, whatever operators do.
THEOREM ApiTypeCorrect == Spec => []ApiTypeOK
<1>1. ApiInv => ApiTypeOK
  BY DEF ApiInv, TableInv, ScanTyped, Stored, Scans, ApiTypeOK
<1> QED BY <1>1, ApiInvCorrect, PTL

\* link.rs:51-80, api/mod.rs:64-84, admin.rs:243-251: visitors and operators find
\* the links whose paths are canonical at those paths, and no others, for paths
\* of every length.
THEOREM VisitedUnlessReservedCorrect == Spec => []VisitedUnlessReserved
<1>1. ApiInv => VisitedUnlessReserved
  <2> SUFFICES ASSUME ApiInv, NEW path \in DOMAIN table
               PROVE  /\ Canonical(path) <=> AdminPath(path) = path
                      /\ Canonical(path) /\ ~Reserved(path) <=> Visited(path) = path
                      /\ \A url \in {path \o Root, path \o Root \o Root} :
                            Canonical(path) =>
                               AdminPath(url) = path /\ Visited(url) \in {path, <<>>}
    BY DEF VisitedUnlessReserved
  <2>1. Stored(path)
    BY DEF ApiInv, TableInv
  <2> QED BY <2>1, UrlsOfPath
<1> QED BY <1>1, ApiInvCorrect, PTL

\* admin.rs:208-239: a client that pages through the links by offsets misses at
\* most as many that were there all the time as left meanwhile, is given at most
\* as many twice as came, and newest first if none came: for tables and limits
\* of every size, and any number of writes in between.
THEOREM ScanExplainedCorrect == Spec => []ScanExplained
<1>1. ApiInv /\ ScanInv => ScanExplained
  BY BooksExplain
<1> QED BY <1>1, ApiInvCorrect, ScanInvCorrect, PTL

\* admin.rs:208-239: what a client is given when no link it asked for came or left is
\* exactly those links, each once, for tables and limits of every size.
THEOREM ListingExactCorrect == Spec => []ListingExact
<1>1. Init => ScanSound
  BY DEF Init, NoScan, ScanSound
<1>2. ApiInv /\ ScanSound /\ [Next]_vars => ScanSound'
  BY ScanSoundStep
<1>3. ApiInv /\ ScanSound /\ ScanExplained => ListingExact
  BY SoundIsExact
<1> QED BY <1>1, <1>2, <1>3, ApiInvCorrect, ScanExplainedCorrect, PTL DEF Spec

\* admin.rs:94-206: a statement touches one row, and no write gives a link that
\* stays another time of creation: its place in every listing is settled at once.
THEOREM OneRowCorrect == Spec => [][OneRow]_vars
<1>1. ApiInv /\ [Next]_vars => [OneRow]_vars
  <2> SUFFICES ASSUME ApiInv, Next PROVE OneRow
    OBVIOUS
  <2>1. CASE WriteStep
    BY <2>1, WriteEffect DEF ApiInv
  <2>2. CASE UNCHANGED table
    BY <2>2 DEF OneRow
  <2> QED BY <2>1, <2>2 DEF Next, StartScan, NextPage, EndScan, apiVars
<1> QED BY <1>1, ApiInvCorrect, PTL DEF Spec

=============================================================================
