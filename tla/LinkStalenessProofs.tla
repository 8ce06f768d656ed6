------------------------- MODULE LinkStalenessProofs -------------------------
(* What TLAPS proves of LinkStaleness: Redis contradicts the table for at most *)
(* one TTL after the last disturbance, for every instance of the constants.    *)
EXTENDS LinkStaleness, LinkCacheProofs

\* The history variable restricts no step of LinkCache.
LEMMA TimedStepIsStep == [TimedNext]_timedVars => [Next]_vars
BY DEF TimedNext, timedVars, vars, Next

\* Horizon is the longer of the TTLs.
LEMMA HorizonType == Horizon \in Nat /\ LinkTtl <= Horizon /\ MissTtl <= Horizon
BY TtlPositive DEF Horizon

\* The count stays in its range, is reset by a disturbance, and otherwise grows
\* by no more than the time that passed.
LEMMA CountQuietType ==
    ASSUME quiet \in [Paths -> 0..Horizon], NEW elapsed \in Nat, CountQuiet(elapsed)
    PROVE  /\ quiet' \in [Paths -> 0..Horizon]
           /\ \A p \in Paths : quiet'[p] <= quiet[p] + elapsed
           /\ \A p \in Paths : Disturbed(p) => quiet'[p] = 0
BY HorizonType DEF CountQuiet

\* Types of the timed specification.
THEOREM TimedTypeCorrect == TimedSpec => []TimedTypeOK
<1>1. TimedInit => TimedTypeOK
  <2>1. Init => TypeOK
    BY TtlPositive, NoLinkType, BoundsAssumption
       DEF Init, TypeOK, VisitorStates, AdminStates, Finished
  <2> QED BY <2>1, HorizonType DEF TimedInit, TimedTypeOK
<1>2. TimedTypeOK /\ [TimedNext]_timedVars => TimedTypeOK'
  <2> SUFFICES ASSUME TimedTypeOK, [TimedNext]_timedVars PROVE TimedTypeOK'
    OBVIOUS
  <2>1. TypeOK'
    BY TimedStepIsStep, TypeStep DEF TimedTypeOK
  <2>2. quiet' \in [Paths -> 0..Horizon]
    BY CountQuietType DEF TimedTypeOK, TimedNext, timedVars
  <2> QED BY <2>1, <2>2 DEF TimedTypeOK
<1> QED BY <1>1, <1>2, PTL DEF TimedSpec

-----------------------------------------------------------------------------
(* Every step but Tick: a wrong key was wrong before, with the same time left *)

\* A step in which no time passes.
Instant ==
    \/ \E p \in Paths : RedisForgets(p)
    \/ \E v \in Visitors : VisitorStep(v)
    \/ \E a \in Admins : AdminStep(a)

\* An instant step makes no key of an undisturbed path wrong, and gives none
\* that is wrong more time.
LEMMA InstantKeepsKeys ==
    ASSUME TypeOK, Instant, NEW p \in Paths, ~Disturbed(p)
    PROVE  /\ StaleLink(p)' => StaleLink(p) /\ linkKey'[p] = linkKey[p]
           /\ StaleMiss(p)' => StaleMiss(p) /\ missKey'[p] = missKey[p]
<1>0. db'[p] = db[p] /\ \A v \in Visitors : FillAgrees(v, p)
  BY DEF Disturbed, OvertakenFill, Overtaken, FillAgrees
<1> USE DEF StaleLink, StaleMiss
<1>1. CASE UNCHANGED <<clock, linkKey, missKey>>
  BY <1>0, <1>1
<1>2. ASSUME NEW q \in Paths, RedisForgets(q)
      PROVE  /\ StaleLink(p)' => StaleLink(p) /\ linkKey'[p] = linkKey[p]
             /\ StaleMiss(p)' => StaleMiss(p) /\ missKey'[p] = missKey[p]
  BY <1>0, <1>2 DEF RedisForgets, TypeOK, NoEntry
<1>3. ASSUME NEW v \in Visitors, PutLink(v)
      PROVE  /\ StaleLink(p)' => StaleLink(p) /\ linkKey'[p] = linkKey[p]
             /\ StaleMiss(p)' => StaleMiss(p) /\ missKey'[p] = missKey[p]
  BY <1>0, <1>3 DEF PutLink, FillAgrees, TypeOK
<1>4. ASSUME NEW v \in Visitors, PutMiss(v)
      PROVE  /\ StaleLink(p)' => StaleLink(p) /\ linkKey'[p] = linkKey[p]
             /\ StaleMiss(p)' => StaleMiss(p) /\ missKey'[p] = missKey[p]
  BY <1>0, <1>4 DEF PutMiss, FillAgrees, TypeOK
<1>5. ASSUME NEW a \in Admins, Invalidate(a)
      PROVE  /\ StaleLink(p)' => StaleLink(p) /\ linkKey'[p] = linkKey[p]
             /\ StaleMiss(p)' => StaleMiss(p) /\ missKey'[p] = missKey[p]
  BY <1>0, <1>5 DEF Invalidate, TypeOK, NoEntry
<1> QED BY <1>1, <1>2, <1>3, <1>4, <1>5
           DEF Instant, VisitorStep, Resolve, Visit, GetLink, IsKnownMiss, Select,
               VisitorGone, AdminStep, CreateLink, UpdateLink, DeleteLink, Commit, AdminGone

\* A second takes a second from every key and makes none wrong.
LEMMA TickAgesKeys ==
    ASSUME TypeOK, Tick, NEW p \in Paths
    PROVE  /\ StaleLink(p)' => StaleLink(p) /\ linkKey'[p].ttl = linkKey[p].ttl - 1
           /\ StaleMiss(p)' => StaleMiss(p) /\ missKey'[p] = missKey[p] - 1
<1>1. db'[p] = db[p] /\ clock <= clock' /\ clock \in 0..MaxTime /\ clock' \in 0..MaxTime
  BY BoundsAssumption DEF Tick, TypeOK
<1>2. IsResolvable(db[p], clock') => IsResolvable(db[p], clock)
  BY <1>1, UnresolvableStays DEF TypeOK
<1>3. linkKey'[p].ttl > 0 =>
         /\ linkKey[p].ttl > 0 /\ linkKey'[p].row = linkKey[p].row
         /\ linkKey'[p].ttl = linkKey[p].ttl - 1
  BY DEF Tick, TypeOK, Entries, NoEntry
<1>4. missKey'[p] > 0 => missKey[p] > 0 /\ missKey'[p] = missKey[p] - 1
  BY DEF Tick, TypeOK
<1> QED BY <1>1, <1>2, <1>3, <1>4 DEF StaleLink, StaleMiss

-----------------------------------------------------------------------------
(* The bound *)

\* The age of a wrong key and the time it has left stay within its TTL.
LEMMA StaleKeysAgeStep ==
    TimedTypeOK /\ StaleKeysAge /\ [TimedNext]_timedVars => StaleKeysAge'
<1> SUFFICES ASSUME TimedTypeOK, StaleKeysAge, [TimedNext]_timedVars, NEW p \in Paths
             PROVE  /\ StaleLink(p)' => linkKey'[p].ttl + quiet'[p] <= LinkTtl
                    /\ StaleMiss(p)' => missKey'[p] + quiet'[p] <= MissTtl
  BY DEF StaleKeysAge
<1>0. TypeOK /\ quiet \in [Paths -> 0..Horizon] /\ TypeOK'
  BY TimedStepIsStep, TypeStep DEF TimedTypeOK
<1>1. /\ linkKey[p].ttl \in 0..LinkTtl /\ linkKey'[p].ttl \in 0..LinkTtl
      /\ missKey[p] \in 0..MissTtl /\ missKey'[p] \in 0..MissTtl
  BY <1>0 DEF TypeOK, Entries
<1>2. /\ StaleLink(p) => linkKey[p].ttl + quiet[p] <= LinkTtl
      /\ StaleMiss(p) => missKey[p] + quiet[p] <= MissTtl
  BY DEF StaleKeysAge
<1>3. CASE UNCHANGED timedVars
  BY <1>2, <1>3 DEF timedVars, vars, StaleLink, StaleMiss
<1>4. ASSUME NEW elapsed \in Nat, CountQuiet(elapsed), Disturbed(p)
      PROVE  /\ StaleLink(p)' => linkKey'[p].ttl + quiet'[p] <= LinkTtl
             /\ StaleMiss(p)' => missKey'[p] + quiet'[p] <= MissTtl
  <2>1. quiet'[p] = 0
    BY <1>0, <1>4, CountQuietType
  <2> QED BY <1>1, <2>1, TtlPositive
<1>5. CASE Tick /\ CountQuiet(1) /\ ~Disturbed(p)
  <2>1. quiet'[p] <= quiet[p] + 1 /\ quiet[p] \in Nat /\ quiet'[p] \in Nat
    BY <1>0, <1>5, CountQuietType, HorizonType
  <2> QED BY <1>0, <1>1, <1>2, <1>5, <2>1, TickAgesKeys, TtlPositive
<1>6. CASE Instant /\ CountQuiet(0) /\ ~Disturbed(p)
  <2>1. quiet'[p] <= quiet[p] /\ quiet[p] \in Nat /\ quiet'[p] \in Nat
    BY <1>0, <1>6, CountQuietType, HorizonType
  <2> QED BY <1>0, <1>1, <1>2, <1>6, <2>1, InstantKeepsKeys, TtlPositive
<1> QED BY <1>3, <1>4, <1>5, <1>6 DEF TimedNext, Instant

\* However many DELs are lost and fills overtaken, a wrong key never outlives its
\* TTL counted from the last disturbance of its path.
THEOREM StaleKeysAgeCorrect == TimedSpec => []StaleKeysAge
<1>1. TimedInit => StaleKeysAge
  <2> SUFFICES ASSUME TimedInit, NEW p \in Paths PROVE ~StaleLink(p) /\ ~StaleMiss(p)
    BY DEF StaleKeysAge
  <2>1. linkKey[p].ttl = 0 /\ missKey[p] = 0
    BY DEF TimedInit, Init, NoEntry
  <2> QED BY <2>1 DEF StaleLink, StaleMiss
<1> QED BY <1>1, StaleKeysAgeStep, TimedTypeCorrect, PTL DEF TimedSpec

\* One TTL after its last disturbance a path is coherent.
THEOREM StalenessBoundedCorrect == TimedSpec => []StalenessBounded
<1>1. TimedTypeOK /\ StaleKeysAge => StalenessBounded
  <2> SUFFICES ASSUME TimedTypeOK, StaleKeysAge, NEW p \in Paths
               PROVE  /\ quiet[p] >= LinkTtl => ~StaleLink(p)
                      /\ quiet[p] >= MissTtl => ~StaleMiss(p)
    BY DEF StalenessBounded
  <2>1. linkKey[p].ttl \in Nat /\ missKey[p] \in Nat /\ quiet[p] \in Nat
    BY TtlPositive, HorizonType DEF TimedTypeOK, TypeOK, Entries
  <2>2. StaleLink(p) => linkKey[p].ttl > 0 /\ linkKey[p].ttl + quiet[p] <= LinkTtl
    BY DEF StaleKeysAge, StaleLink
  <2>3. StaleMiss(p) => missKey[p] > 0 /\ missKey[p] + quiet[p] <= MissTtl
    BY DEF StaleKeysAge, StaleMiss
  <2> QED BY <2>1, <2>2, <2>3, TtlPositive
<1> QED BY <1>1, TimedTypeCorrect, StaleKeysAgeCorrect, PTL

=============================================================================
