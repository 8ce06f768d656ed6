---------------------------- MODULE PathsProofs ----------------------------
(***************************************************************************)
(* What TLAPS proves of Paths, for paths of every length over every        *)
(* alphabet: which paths Normalize returns, and which of them the URLs     *)
(* made of them lead back to.                                              *)
(***************************************************************************)
EXTENDS Paths, Integers, TLAPS, SequenceTheorems, FiniteSetTheorems, WellFoundedInduction

-----------------------------------------------------------------------------
(* Numbers *)

\* A set of numbers that is not empty has a smallest one.
LEMMA SmallestOf ==
    ASSUME NEW T \in SUBSET Nat, T # {}
    PROVE  \E x \in T : \A y \in T : y >= x
<1> DEFINE Less == OpToRel(<, Nat)
<1>1. PICK x \in T : \A y \in T : ~ (<<y, x>> \in Less)
  <2> HIDE DEF Less
  <2>1. IsWellFoundedOn(Less, Nat)
    BY NatLessThanWellFounded DEF Less
  <2> QED BY <2>1, WFMin
<1>2. \A y \in T : y >= x
  <2> SUFFICES ASSUME NEW y \in T, y < x PROVE FALSE
    OBVIOUS
  <2>1. <<y, x>> \in Less
    BY DEF OpToRel
  <2> QED BY <1>1, <2>1
<1> QED BY <1>2

\* Induction, for sets of numbers.
LEMMA SetInduction ==
    ASSUME NEW T, 0 \in T, \A n \in Nat : n \in T => n + 1 \in T
    PROVE  \A n \in Nat : n \in T
<1> DEFINE Bad == {n \in Nat : n \notin T}
<1> SUFFICES ASSUME Bad # {} PROVE FALSE
  OBVIOUS
<1>1. PICK x \in Bad : \A y \in Bad : y >= x
  BY SmallestOf
<1>2. x - 1 \in Nat /\ x - 1 \notin Bad
  BY <1>1
<1> QED BY <1>2

\* A set of numbers up to n has a largest one, and Max is it.
LEMMA MaxIsLargest ==
    ASSUME NEW n \in Nat, NEW K \in SUBSET (0..n), K # {}
    PROVE  Max(K) \in K /\ \A k \in K : k <= Max(K)
<1> DEFINE T == {n - k : k \in K}
<1>1. T \in SUBSET Nat /\ T # {}
  <2>1. \A k \in K : n - k \in Nat
    OBVIOUS
  <2> QED BY <2>1
<1>2. PICK x \in T : \A y \in T : y >= x
  <2> HIDE DEF T
  <2> QED BY <1>1, SmallestOf
<1>3. PICK k \in K : x = n - k
  BY <1>2
<1>4. \A other \in K : other <= k
  BY <1>2, <1>3
<1> QED BY <1>4 DEF Max

\* A finite set of numbers has a bound, so that Max is its largest again.
LEMMA MaxOfFinite ==
    ASSUME NEW K \in SUBSET Nat, IsFiniteSet(K), K # {}
    PROVE  Max(K) \in K /\ \A k \in K : k <= Max(K)
<1> DEFINE Bounded(n) == \A f \in [1..n -> Nat] : \E m \in Nat : \A i \in 1..n : f[i] <= m
           T == {n \in Nat : Bounded(n)}
<1>1. 0 \in T
  <2>1. \A f \in [1..0 -> Nat] : \A i \in 1..0 : f[i] <= 0
    OBVIOUS
  <2> QED BY <2>1
<1>2. ASSUME NEW n \in Nat, n \in T PROVE n + 1 \in T
  <2>0. n + 1 \in Nat
    OBVIOUS
  <2> SUFFICES ASSUME NEW f \in [1..(n + 1) -> Nat]
               PROVE  \E m \in Nat : \A i \in 1..(n + 1) : f[i] <= m
    BY <2>0
  <2> DEFINE g == [i \in 1..n |-> f[i]]
  <2>1. g \in [1..n -> Nat]
    OBVIOUS
  <2>2. PICK m \in Nat : \A i \in 1..n : g[i] <= m
    BY <1>2, <2>1
  <2>3. \A i \in 1..n : f[i] <= m
    BY <2>2
  <2>4. f[n + 1] \in Nat /\ m + f[n + 1] \in Nat /\ \A i \in 1..n : f[i] \in Nat
    OBVIOUS
  <2>5. \A i \in 1..(n + 1) : i \in 1..n \/ i = n + 1
    OBVIOUS
  <2>6. \A i \in 1..(n + 1) : f[i] <= m + f[n + 1]
    BY <2>3, <2>4, <2>5
  <2> QED BY <2>4, <2>6
<1> HIDE DEF T
<1>3. \A n \in Nat : n \in T
  BY <1>1, <1>2, SetInduction
<1>4. PICK n \in Nat : ExistsSurjection(1..n, K)
  BY FS_NatSurjection
<1>5. PICK f \in [1..n -> K] : \A k \in K : \E i \in 1..n : f[i] = k
  BY <1>4 DEF ExistsSurjection, Surjection
<1>6. f \in [1..n -> Nat]
  BY <1>5
<1>7. PICK m \in Nat : \A i \in 1..n : f[i] <= m
  BY <1>3, <1>6 DEF T
<1>8. K \in SUBSET (0..m)
  BY <1>5, <1>7
<1> QED BY <1>8, MaxIsLargest

-----------------------------------------------------------------------------
(* Trimming *)

\* TrimEnd keeps the beginning of s up to its last character that is not in cs.
LEMMA TrimEndProperties ==
    ASSUME NEW S, NEW s \in Seq(S), NEW cs
    PROVE  LET t == TrimEnd(s, cs) IN
           /\ t \in Seq(S) /\ Len(t) <= Len(s)
           /\ \A i \in 1..Len(t) : t[i] = s[i]
           /\ Len(t) > 0 => s[Len(t)] \notin cs
           /\ \A i \in (Len(t) + 1)..Len(s) : s[i] \in cs
<1> DEFINE K == {0} \cup {i \in DOMAIN s : s[i] \notin cs}
           last == Max(K)
           t == TrimEnd(s, cs)
<1>1. Len(s) \in Nat /\ DOMAIN s = 1..Len(s) /\ \A i \in 1..Len(s) : s[i] \in S
  OBVIOUS
<1>2. K \in SUBSET (0..Len(s)) /\ K # {}
  BY <1>1
<1>3. last \in K /\ \A k \in K : k <= last
  <2> HIDE DEF K
  <2> QED BY <1>1, <1>2, MaxIsLargest
<1>4. last \in 0..Len(s)
  <2> HIDE DEF last
  <2> QED BY <1>2, <1>3
<1>5. t = SubSeq(s, 1, last)
  BY DEF TrimEnd
<1>6. t \in Seq(S) /\ Len(t) = last /\ \A i \in 1..last : t[i] = s[i]
  <2> HIDE DEF t, last
  <2>1. \A i \in 1..last : s[i] \in S
    BY <1>1, <1>4
  <2> QED BY <1>4, <1>5, <2>1, SubSeqProperties
<1>7. last > 0 => s[last] \notin cs
  <2> HIDE DEF last
  <2> QED BY <1>3
<1>8. \A i \in (last + 1)..Len(s) : s[i] \in cs
  <2> HIDE DEF last
  <2> QED BY <1>1, <1>3, <1>4
<1> HIDE DEF last, t
<1> QED BY <1>4, <1>6, <1>7, <1>8 DEF t

\* It keeps all of a sequence that ends in another character.
LEMMA TrimEndNothing ==
    ASSUME NEW S, NEW s \in Seq(S), NEW cs, Len(s) > 0, s[Len(s)] \notin cs
    PROVE  TrimEnd(s, cs) = s
<1> DEFINE t == TrimEnd(s, cs)
<1>1. /\ t \in Seq(S) /\ Len(t) <= Len(s)
      /\ \A i \in 1..Len(t) : t[i] = s[i]
      /\ \A i \in (Len(t) + 1)..Len(s) : s[i] \in cs
  BY TrimEndProperties
<1> HIDE DEF t
<1>2. Len(t) = Len(s)
  BY <1>1
<1> QED BY <1>1, <1>2, SeqEqual DEF t

\* TrimStart keeps the rest of s from its first character that is not in cs.
LEMMA TrimStartProperties ==
    ASSUME NEW S, NEW s \in Seq(S), NEW cs
    PROVE  LET t == TrimStart(s, cs) IN
           /\ t \in Seq(S) /\ Len(t) <= Len(s)
           /\ \A i \in 1..Len(t) : t[i] = s[Len(s) - Len(t) + i]
           /\ Len(t) > 0 => t[1] \notin cs
           /\ \A i \in 1..(Len(s) - Len(t)) : s[i] \in cs
<1> DEFINE r == Reverse(s)
           u == TrimEnd(r, cs)
           t == TrimStart(s, cs)
<1>1. /\ r \in Seq(S) /\ Len(r) = Len(s)
      /\ \A i \in 1..Len(s) : r[i] = s[Len(s) - i + 1]
  BY DEF Reverse
<1>2. /\ u \in Seq(S) /\ Len(u) <= Len(s)
      /\ \A i \in 1..Len(u) : u[i] = r[i]
      /\ Len(u) > 0 => r[Len(u)] \notin cs
      /\ \A i \in (Len(u) + 1)..Len(s) : r[i] \in cs
  <2> HIDE DEF r
  <2> QED BY <1>1, TrimEndProperties
<1>3. t = Reverse(u)
  BY DEF TrimStart
<1> HIDE DEF r, u, t
<1>4. /\ t \in Seq(S) /\ Len(t) = Len(u)
      /\ \A i \in 1..Len(u) : t[i] = u[Len(u) - i + 1]
  BY <1>2, <1>3 DEF Reverse
<1>5. \A i \in 1..Len(t) : t[i] = s[Len(s) - Len(t) + i]
  <2> SUFFICES ASSUME NEW i \in 1..Len(t) PROVE t[i] = s[Len(s) - Len(t) + i]
    OBVIOUS
  <2> DEFINE j == Len(u) - i + 1
  <2>1. j \in 1..Len(u) /\ j \in 1..Len(s) /\ Len(s) - j + 1 = Len(s) - Len(t) + i
    BY <1>2, <1>4
  <2>2. t[i] = u[j]
    BY <1>4
  <2> HIDE DEF j
  <2>3. u[j] = r[j] /\ r[j] = s[Len(s) - j + 1]
    BY <1>1, <1>2, <2>1
  <2> QED BY <2>1, <2>2, <2>3
<1>6. Len(t) > 0 => t[1] \notin cs
  <2> SUFFICES ASSUME Len(t) > 0 PROVE t[1] \notin cs
    OBVIOUS
  <2>1. t[1] = u[Len(u)]
    BY <1>2, <1>4
  <2> QED BY <1>2, <1>4, <2>1
<1>7. \A i \in 1..(Len(s) - Len(t)) : s[i] \in cs
  <2> SUFFICES ASSUME NEW i \in 1..(Len(s) - Len(t)) PROVE s[i] \in cs
    OBVIOUS
  <2> DEFINE j == Len(s) - i + 1
  <2>1. j \in (Len(u) + 1)..Len(s) /\ j \in 1..Len(s) /\ Len(s) - j + 1 = i
    BY <1>2, <1>4
  <2> HIDE DEF j
  <2>2. r[j] = s[i]
    BY <1>1, <2>1
  <2> QED BY <1>2, <2>1, <2>2
<1> QED BY <1>2, <1>4, <1>5, <1>6, <1>7 DEF t

\* It keeps all of a sequence that begins with another character.
LEMMA TrimStartNothing ==
    ASSUME NEW S, NEW s \in Seq(S), NEW cs, Len(s) > 0, s[1] \notin cs
    PROVE  TrimStart(s, cs) = s
<1> DEFINE t == TrimStart(s, cs)
<1>1. /\ t \in Seq(S) /\ Len(t) <= Len(s)
      /\ \A i \in 1..Len(t) : t[i] = s[Len(s) - Len(t) + i]
      /\ \A i \in 1..(Len(s) - Len(t)) : s[i] \in cs
  BY TrimStartProperties
<1> HIDE DEF t
<1>2. Len(t) = Len(s)
  BY <1>1
<1> QED BY <1>1, <1>2, SeqEqual DEF t

\* What follows the last character that stays is all that goes.
LEMMA TrimEndStrips ==
    ASSUME NEW S, NEW s \in Seq(S), NEW cs, Len(s) > 0, s[Len(s)] \notin cs,
           NEW rest \in Seq(S), \A i \in 1..Len(rest) : rest[i] \in cs
    PROVE  TrimEnd(s \o rest, cs) = s
<1> DEFINE whole == s \o rest
           t == TrimEnd(whole, cs)
<1>1. /\ whole \in Seq(S) /\ Len(whole) = Len(s) + Len(rest)
      /\ \A i \in 1..Len(s) : whole[i] = s[i]
      /\ \A i \in 1..Len(rest) : whole[Len(s) + i] = rest[i]
  OBVIOUS
<1>2. /\ t \in Seq(S) /\ Len(t) <= Len(whole)
      /\ \A i \in 1..Len(t) : t[i] = whole[i]
      /\ Len(t) > 0 => whole[Len(t)] \notin cs
      /\ \A i \in (Len(t) + 1)..Len(whole) : whole[i] \in cs
  <2> HIDE DEF whole
  <2> QED BY <1>1, TrimEndProperties
<1> HIDE DEF whole, t
<1>3. Len(t) >= Len(s)
  <2> SUFFICES ASSUME Len(t) < Len(s) PROVE FALSE
    BY <1>2
  <2>1. Len(s) \in (Len(t) + 1)..Len(whole) /\ Len(s) \in 1..Len(s)
    BY <1>1, <1>2
  <2> QED BY <1>1, <1>2, <2>1
<1>4. Len(t) <= Len(s)
  <2> SUFFICES ASSUME Len(t) > Len(s) PROVE FALSE
    BY <1>1, <1>2
  <2> DEFINE i == Len(t) - Len(s)
  <2>1. i \in 1..Len(rest) /\ Len(t) = Len(s) + i
    BY <1>1, <1>2
  <2> HIDE DEF i
  <2>2. whole[Len(t)] = rest[i]
    BY <1>1, <2>1
  <2> QED BY <1>2, <2>1, <2>2
<1>5. \A i \in 1..Len(s) : t[i] = s[i]
  BY <1>1, <1>2, <1>3
<1> QED BY <1>2, <1>3, <1>4, <1>5, SeqEqual DEF t, whole

-----------------------------------------------------------------------------
(* Normalize *)

Trimmed(raw) == TrimStart(TrimEnd(raw, {Blank}), {Blank})

Rooted(t) == IF t # <<>> /\ Head(t) = Slash THEN t ELSE Root \o t

\* Normalize in two halves.
LEMMA NormalizeHalves ==
    ASSUME NEW raw
    PROVE  LET stripped == TrimEnd(Rooted(Trimmed(raw)), {Slash}) IN
           Normalize(raw) = IF stripped = <<>> THEN Root ELSE stripped
  BY DEF Normalize, Rooted, Trimmed

\* The first half: no blank around what is left, which is all if none was there.
LEMMA TrimmedProperties ==
    ASSUME NEW S, NEW raw \in Seq(S)
    PROVE  LET t == Trimmed(raw) IN
           /\ t \in Seq(S) /\ Len(t) <= Len(raw)
           /\ Len(t) > 0 => t[1] # Blank /\ t[Len(t)] # Blank
           /\ Len(t) = Len(raw) => t = raw
           /\ Len(raw) > 0 /\ raw[1] # Blank /\ raw[Len(raw)] # Blank => t = raw
<1> DEFINE u == TrimEnd(raw, {Blank})
           t == Trimmed(raw)
<1>1. /\ u \in Seq(S) /\ Len(u) <= Len(raw)
      /\ \A i \in 1..Len(u) : u[i] = raw[i]
      /\ Len(u) > 0 => raw[Len(u)] \notin {Blank}
  BY TrimEndProperties
<1>2. t = TrimStart(u, {Blank})
  BY DEF Trimmed
<1>3. Len(raw) > 0 /\ raw[Len(raw)] # Blank => u = raw
  BY TrimEndNothing
<1> HIDE DEF u, t
<1>4. /\ t \in Seq(S) /\ Len(t) <= Len(u)
      /\ \A i \in 1..Len(t) : t[i] = u[Len(u) - Len(t) + i]
      /\ Len(t) > 0 => t[1] \notin {Blank}
  BY <1>1, <1>2, TrimStartProperties
<1>5. Len(t) > 0 => t[Len(t)] # Blank
  <2> SUFFICES ASSUME Len(t) > 0 PROVE t[Len(t)] # Blank
    OBVIOUS
  <2>1. Len(u) \in Nat /\ Len(t) \in Nat /\ Len(u) - Len(t) + Len(t) = Len(u)
    BY <1>1, <1>4
  <2>2. t[Len(t)] = u[Len(u)] /\ u[Len(u)] = raw[Len(u)]
    BY <1>1, <1>4, <2>1
  <2> QED BY <1>1, <1>4, <2>1, <2>2
<1>6. ASSUME Len(t) = Len(raw) PROVE t = raw
  <2>1. Len(u) = Len(raw) /\ Len(t) = Len(u) /\ Len(u) \in Nat
    BY <1>1, <1>4, <1>6
  <2>2. \A i \in 1..Len(t) : t[i] = raw[i]
    BY <1>1, <1>4, <2>1
  <2> QED BY <1>4, <1>6, <2>2, SeqEqual
<1>7. ASSUME Len(raw) > 0, raw[1] # Blank, raw[Len(raw)] # Blank PROVE t = raw
  <2>1. u = raw
    BY <1>3, <1>7
  <2> QED BY <1>2, <1>7, <2>1, TrimStartNothing
<1>8. Len(t) <= Len(raw)
  BY <1>1, <1>4
<1> QED BY <1>4, <1>5, <1>6, <1>7, <1>8 DEF t

\* The slash in front.
LEMMA RootedProperties ==
    ASSUME NEW S, Slash \in S, NEW t \in Seq(S)
    PROVE  LET r == Rooted(t) IN
           /\ r \in Seq(S) /\ Len(r) > 0 /\ r[1] = Slash /\ Len(r) <= Len(t) + 1
           /\ Len(t) > 0 => r[Len(r)] = t[Len(t)]
           /\ Len(t) > 0 /\ t[1] = Slash => r = t
           /\ Len(t) > 0 /\ t[1] # Slash => r = Root \o t
<1> DEFINE whole == Root \o t
<1>1. Root \in Seq(S) /\ Len(Root) = 1 /\ Root[1] = Slash
  BY DEF Root
<1>2. /\ whole \in Seq(S) /\ Len(whole) = Len(t) + 1 /\ whole[1] = Slash
      /\ \A i \in 1..Len(t) : whole[i + 1] = t[i]
  <2> HIDE DEF whole
  <2>1. /\ whole \in Seq(S) /\ Len(whole) = Len(Root) + Len(t)
        /\ \A i \in 1..(Len(Root) + Len(t)) :
              whole[i] = IF i <= Len(Root) THEN Root[i] ELSE t[i - Len(Root)]
    BY <1>1, ConcatProperties DEF whole
  <2>2. \A i \in 1..Len(t) : whole[i + 1] = t[i]
    <3> SUFFICES ASSUME NEW i \in 1..Len(t) PROVE whole[i + 1] = t[i]
      OBVIOUS
    <3>1. i + 1 \in 1..(Len(Root) + Len(t)) /\ ~ (i + 1 <= Len(Root)) /\ i + 1 - Len(Root) = i
      BY <1>1
    <3> QED BY <2>1, <3>1
  <2>3. whole[1] = Slash
    BY <1>1, <2>1
  <2> QED BY <1>1, <2>1, <2>2, <2>3
<1>3. Len(t) > 0 => t # <<>> /\ Head(t) = t[1]
  OBVIOUS
<1>4. Len(t) = 0 => t = <<>>
  OBVIOUS
<1> HIDE DEF whole
<1>5. Rooted(t) = IF t # <<>> /\ Head(t) = Slash THEN t ELSE whole
  BY DEF Rooted, whole
<1>6. CASE Len(t) > 0 /\ t[1] = Slash
  <2>1. Rooted(t) = t
    BY <1>3, <1>5, <1>6
  <2> QED BY <1>6, <2>1
<1>7. CASE ~ (Len(t) > 0 /\ t[1] = Slash)
  <2>1. Rooted(t) = whole
    BY <1>3, <1>4, <1>5, <1>7
  <2>2. Len(t) > 0 => whole[Len(whole)] = t[Len(t)]
    BY <1>2
  <2> QED BY <1>2, <1>7, <2>1, <2>2 DEF whole
<1> QED BY <1>6, <1>7

\* What is stored or looked up is normal, and no longer than what was given but
\* for the slash in front; that one is more only if nothing was cut off.
THEOREM NormalizeReturnsNormal ==
    ASSUME NEW S, Slash \in S, NEW raw \in Seq(S)
    PROVE  LET path == Normalize(raw) IN
           /\ path \in Seq(S) /\ Normal(path) /\ Len(path) <= Len(raw) + 1
           /\ Len(path) = Len(raw) + 1 /\ Len(raw) > 0 =>
                 raw[1] \notin {Slash, Blank} /\ raw[Len(raw)] \notin {Slash, Blank}
<1> DEFINE t == Trimmed(raw)
           r == Rooted(t)
           stripped == TrimEnd(r, {Slash})
           path == Normalize(raw)
<1>1. path = IF stripped = <<>> THEN Root ELSE stripped
  BY NormalizeHalves
<1>2. /\ t \in Seq(S) /\ Len(t) <= Len(raw)
      /\ Len(t) > 0 => t[1] # Blank /\ t[Len(t)] # Blank
      /\ Len(t) = Len(raw) => t = raw
  BY TrimmedProperties
<1> HIDE DEF t
<1>3. /\ r \in Seq(S) /\ Len(r) > 0 /\ r[1] = Slash /\ Len(r) <= Len(t) + 1
      /\ Len(t) > 0 => r[Len(r)] = t[Len(t)]
      /\ Len(t) > 0 /\ t[1] = Slash => r = t
  BY <1>2, RootedProperties
<1> HIDE DEF r
<1>4. /\ stripped \in Seq(S) /\ Len(stripped) <= Len(r)
      /\ \A i \in 1..Len(stripped) : stripped[i] = r[i]
      /\ Len(stripped) > 0 => r[Len(stripped)] \notin {Slash}
  BY <1>3, TrimEndProperties
<1> HIDE DEF stripped, path
<1>5. Root \in Seq(S) /\ Len(Root) = 1 /\ Normal(Root)
  BY DEF Root, Normal, Last
<1>6. CASE stripped = <<>>
  <2>1. path = Root
    BY <1>1, <1>6
  <2>2. Len(raw) \in Nat /\ Len(path) = 1
    BY <1>5, <2>1
  <2>3. path \in Seq(S) /\ Normal(path)
    BY <1>5, <2>1
  <2> QED BY <2>2, <2>3 DEF path
<1>7. CASE stripped # <<>>
  <2>1. path = stripped /\ Len(path) > 0 /\ Len(path) <= Len(raw) + 1
    BY <1>1, <1>2, <1>3, <1>4, <1>7
  <2>2. Head(path) = Slash
    BY <1>3, <1>4, <2>1
  <2>3. Last(path) # Slash
    BY <1>4, <2>1 DEF Last
  <2>4. ASSUME Len(path) = Len(raw) + 1, Len(raw) > 0
        PROVE  raw[1] \notin {Slash, Blank} /\ raw[Len(raw)] \notin {Slash, Blank}
    <3>1. Len(r) = Len(t) + 1 /\ Len(t) = Len(raw) /\ Len(stripped) = Len(r)
      BY <1>2, <1>3, <1>4, <2>1, <2>4
    <3>2. t = raw /\ Len(t) > 0
      BY <1>2, <3>1, <2>4
    <3>3. raw[1] # Slash
      BY <1>3, <3>1, <3>2
    <3>4. raw[Len(raw)] # Slash
      BY <1>3, <1>4, <3>1, <3>2
    <3> QED BY <1>2, <3>2, <3>3, <3>4
  <2>5. path \in Seq(S) /\ Normal(path)
    BY <1>4, <2>1, <2>2, <2>3 DEF Normal
  <2> QED BY <2>1, <2>4, <2>5 DEF path
<1> QED BY <1>6, <1>7

\* A path that begins and ends in a word only gets its slash, and slashes after
\* it do not matter.
THEOREM NormalizeWords ==
    ASSUME NEW S, Slash \in S, NEW raw \in Seq(S), Len(raw) > 0,
           raw[1] \notin {Slash, Blank}, raw[Len(raw)] \notin {Slash, Blank},
           NEW rest \in Seq(S), \A i \in 1..Len(rest) : rest[i] = Slash
    PROVE  Normalize(raw \o rest) = Root \o raw
<1> DEFINE whole == raw \o rest
           path == Root \o raw
<1>1. /\ whole \in Seq(S) /\ Len(whole) = Len(raw) + Len(rest)
      /\ whole[1] = raw[1]
      /\ Len(rest) = 0 => whole[Len(whole)] = raw[Len(raw)]
      /\ Len(rest) > 0 => whole[Len(whole)] = rest[Len(rest)]
  OBVIOUS
<1> HIDE DEF whole
<1>2. whole[Len(whole)] # Blank /\ Len(whole) > 0 /\ whole[1] \notin {Slash, Blank}
  <2>1. Slash # Blank
    BY DEF Slash, Blank
  <2>2. CASE Len(rest) = 0
    BY <1>1, <2>2
  <2>3. CASE Len(rest) > 0
    BY <1>1, <2>1, <2>3
  <2> QED BY <2>2, <2>3, <1>1
<1>3. Trimmed(whole) = whole
  BY <1>1, <1>2, TrimmedProperties
<1>4. Rooted(whole) = Root \o whole
  BY <1>1, <1>2, RootedProperties
<1>5. Root \o whole = path \o rest
  <2>1. Root \in Seq(S)
    BY DEF Root
  <2>2. (Root \o raw) \o rest = Root \o (raw \o rest)
    <3> DEFINE s == Root
    <3>1. s \in Seq(S) /\ raw \in Seq(S) /\ rest \in Seq(S)
      BY <2>1
    <3> HIDE DEF s
    <3>2. (s \o raw) \o rest = s \o (raw \o rest)
      BY <3>1, ConcatAssociative
    <3> QED BY <3>2 DEF s
  <2> QED BY <2>2 DEF whole
<1>6. Rooted(raw) = path
  BY RootedProperties
<1> HIDE DEF path
<1>7. path \in Seq(S) /\ Len(path) > 0 /\ path[Len(path)] # Slash
  BY <1>6, RootedProperties
<1>8. TrimEnd(path \o rest, {Slash}) = path
  BY <1>7, TrimEndStrips
<1>9. path # <<>>
  BY <1>7
<1> QED BY <1>3, <1>4, <1>5, <1>8, <1>9, NormalizeHalves DEF whole, path

\* A path that was normalized before stays as it is, unless a slash that went from
\* its end has left a blank there: then it is another path.
THEOREM NormalizeKeeps ==
    ASSUME NEW S, Slash \in S, NEW path \in Seq(S), Normal(path)
    PROVE  Normalize(path) = path <=> path[Len(path)] # Blank
<1> DEFINE r == Rooted(path)
<1>1. /\ Len(path) \in Nat /\ Len(path) > 0 /\ path[1] = Slash
      /\ Len(path) > 1 => path[Len(path)] # Slash
  BY DEF Normal, Last
<1>2. Slash # Blank
  BY DEF Slash, Blank
<1>3. ASSUME path[Len(path)] # Blank PROVE Normalize(path) = path
  <2>1. Trimmed(path) = path
    BY <1>1, <1>2, <1>3, TrimmedProperties
  <2>2. r = path
    BY <1>1, RootedProperties
  <2>3. Normalize(path) = IF TrimEnd(path, {Slash}) = <<>> THEN Root ELSE TrimEnd(path, {Slash})
    BY <2>1, <2>2, NormalizeHalves
  <2>4. CASE Len(path) = 1
    <3>1. path = Root
      BY <1>1, <2>4 DEF Root
    <3>2. TrimEnd(path, {Slash}) = <<>>
      <4> DEFINE t == TrimEnd(path, {Slash})
      <4>1. t \in Seq(S) /\ Len(t) <= 1 /\ (Len(t) > 0 => path[Len(t)] \notin {Slash})
        BY <2>4, TrimEndProperties
      <4> HIDE DEF t
      <4>2. Len(t) \in Nat /\ path[1] \in {Slash}
        BY <1>1, <4>1
      <4>3. Len(t) # 1
        BY <4>1, <4>2
      <4>4. Len(t) = 0
        BY <4>1, <4>2, <4>3
      <4> QED BY <4>1, <4>4 DEF t
    <3> QED BY <2>3, <3>1, <3>2
  <2>5. CASE Len(path) # 1
    <3>1. path[Len(path)] \notin {Slash} /\ path # <<>>
      <4> DEFINE l == Len(path)
      <4>1. l \in Nat /\ l > 0 /\ l # 1 /\ path # <<>>
        BY <1>1, <2>5
      <4> HIDE DEF l
      <4>2. l > 1
        BY <4>1
      <4> QED BY <1>1, <4>1, <4>2 DEF l
    <3>2. TrimEnd(path, {Slash}) = path
      BY <1>1, <3>1, TrimEndNothing
    <3> QED BY <2>3, <3>1, <3>2
  <2> QED BY <2>4, <2>5
<1>4. ASSUME path[Len(path)] = Blank, Normalize(path) = path PROVE FALSE
  <2> DEFINE t == Trimmed(path)
             whole == Rooted(t)
             stripped == TrimEnd(whole, {Slash})
  <2>1. path = IF stripped = <<>> THEN Root ELSE stripped
    BY <1>4, NormalizeHalves
  <2>2. /\ t \in Seq(S) /\ Len(t) <= Len(path)
        /\ Len(t) > 0 => t[Len(t)] # Blank
    BY TrimmedProperties
  <2> HIDE DEF t
  <2>3. /\ whole \in Seq(S) /\ Len(whole) <= Len(t) + 1 /\ Len(whole) > 0 /\ whole[1] = Slash
        /\ Len(t) > 0 => whole[Len(whole)] = t[Len(t)]
        /\ Len(t) > 0 /\ t[1] = Slash => whole = t
    BY <2>2, RootedProperties
  <2> HIDE DEF whole
  <2>4. /\ stripped \in Seq(S) /\ Len(stripped) <= Len(whole)
        /\ \A i \in 1..Len(stripped) : stripped[i] = whole[i]
    BY <2>3, TrimEndProperties
  <2> HIDE DEF stripped
  <2>5. Len(path) # 1
    BY <1>1, <1>2, <1>4
  <2>6. path = stripped
    <3>1. Len(Root) = 1
      BY DEF Root
    <3> QED BY <2>1, <2>5, <3>1
  <2>7. Len(t) \in Nat /\ Len(t) > 0
    <3> DEFINE l == Len(path)
               m == Len(whole)
               k == Len(t)
    <3>1. l \in Nat /\ l > 0 /\ l # 1 /\ l <= m /\ m <= k + 1 /\ m \in Nat /\ k \in Nat
      BY <1>1, <2>2, <2>3, <2>4, <2>5, <2>6
    <3> HIDE DEF l, m, k
    <3>2. k > 0
      BY <3>1
    <3> QED BY <3>1, <3>2 DEF k
  <2>8. path # t
    BY <1>4, <2>2, <2>7
  <2>9. path[Len(path)] = whole[Len(path)]
    BY <1>1, <2>4, <2>6
  <2>10. Len(path) = Len(whole)
    <3>1. Len(t) # Len(path)
      BY <2>2, <2>8, TrimmedProperties DEF t
    <3> DEFINE l == Len(path)
               m == Len(whole)
               k == Len(t)
    <3>2. l \in Nat /\ l <= m /\ m <= k + 1 /\ m \in Nat /\ k \in Nat /\ k <= l /\ k # l
      BY <1>1, <2>2, <2>3, <2>4, <2>6, <3>1
    <3> HIDE DEF l, m, k
    <3>3. l = m
      BY <3>2
    <3> QED BY <3>3 DEF l, m
  <2> QED BY <1>4, <2>2, <2>3, <2>7, <2>9, <2>10
<1> QED BY <1>3, <1>4

=============================================================================
