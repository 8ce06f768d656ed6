--------------------------- MODULE LinkCacheProofs ---------------------------
(* What TLAPS proves of LinkCache, for every instance of its constants. *)
EXTENDS LinkCache, TLAPS

\* The TTLs Redis is given are positive whole numbers.
LEMMA TtlPositive == LinkTtl \in Nat \ {0} /\ MissTtl \in Nat \ {0}
BY TtlAssumption DEF LinkTtl, MissTtl, TtlSecs

\* The absent row is a row, and an absent key an entry.
LEMMA NoLinkType == NoLink \in Rows /\ NoEntry \in Entries
BY TtlPositive, BoundsAssumption DEF NoLink, Rows, NoEntry, Entries, Never

\* NoLink never resolves.
LEMMA NoLinkUnresolvable == \A now : ~IsResolvable(NoLink, now)
BY DEF NoLink, IsResolvable

\* A link that does not resolve at some time does not resolve later.
LEMMA UnresolvableStays ==
    ASSUME NEW link \in Rows, NEW s \in 0..MaxTime, NEW t \in 0..MaxTime, s <= t,
           IsResolvable(link, t)
    PROVE  IsResolvable(link, s)
BY BoundsAssumption DEF IsResolvable, IsExpired, Rows, Never

-----------------------------------------------------------------------------
(* Types *)

\* Every reachable state is well typed: keys carry at most their TTL and never
\* none of it, and no request began in the future.
LEMMA TypeStep == TypeOK /\ [Next]_vars => TypeOK'
<1> SUFFICES ASSUME TypeOK, [Next]_vars PROVE TypeOK'
  OBVIOUS
<1> USE TtlPositive, NoLinkType, BoundsAssumption
<1>1. CASE Tick
  <2>1. linkKey' \in [Paths -> Entries]
    <3>1. ASSUME NEW p \in Paths, linkKey[p].ttl > 1
          PROVE  [linkKey[p] EXCEPT !.ttl = @ - 1] \in Entries
      BY <3>1 DEF TypeOK, Entries
    <3> QED BY <1>1, <3>1 DEF Tick
  <2>2. \A p \in Paths : linkKey'[p] = NoEntry \/ linkKey'[p].ttl > 0
    <3>1. ASSUME NEW p \in Paths, linkKey[p].ttl > 1
          PROVE  [linkKey[p] EXCEPT !.ttl = @ - 1].ttl > 0
      BY <3>1 DEF TypeOK, Entries
    <3> QED BY <1>1, <3>1 DEF Tick
  <2>3. missKey' \in [Paths -> 0..MissTtl]
    BY <1>1 DEF Tick, TypeOK
  <2>4. clock' \in 0..MaxTime /\ \A v \in Visitors : visitor'[v].start <= clock'
    BY <1>1 DEF Tick, TypeOK, VisitorStates
  <2> QED BY <1>1, <2>1, <2>2, <2>3, <2>4 DEF Tick, TypeOK
<1>2. ASSUME NEW p \in Paths, RedisForgets(p) PROVE TypeOK'
  BY <1>2 DEF RedisForgets, TypeOK
<1>3. ASSUME NEW v \in Visitors, NEW p \in Paths, Visit(v, p) PROVE TypeOK'
  BY <1>3 DEF Visit, TypeOK, VisitorStates, Calls
<1>4. ASSUME NEW v \in Visitors, Resolve(v) PROVE TypeOK'
  <2>1. CASE GetLink(v)
    <3>1. visitor' \in [Visitors -> VisitorStates]
      <4>1. visitor[v].path \in Paths /\ linkKey[visitor[v].path].row \in Rows
        BY DEF TypeOK, VisitorStates, Entries
      <4>2. CASE Return(v, "found", linkKey[visitor[v].path].row)
        BY <4>1, <4>2 DEF Return, TypeOK, VisitorStates, Finished
      <4>3. CASE Goto(v, "is_known_miss")
        BY <4>3 DEF Goto, TypeOK, VisitorStates, Calls
      <4> QED BY <2>1, <4>2, <4>3 DEF GetLink
    <3>2. \A w \in Visitors : visitor'[w].start <= clock'
      BY <2>1 DEF GetLink, Return, Goto, TypeOK, VisitorStates
    <3>3. faults' \in 0..MaxFaults
      BY <2>1 DEF GetLink, Fault, TypeOK
    <3> QED BY <2>1, <3>1, <3>2, <3>3 DEF GetLink, TypeOK
  <2>2. CASE IsKnownMiss(v)
    BY <2>2 DEF IsKnownMiss, Return, Goto, Fault, TypeOK, VisitorStates, Calls, Finished
  <2>3. CASE Select(v)
    BY <2>3 DEF Select, Return, Fault, TypeOK, VisitorStates, Calls, Finished
  <2>4. CASE PutLink(v)
    <3>1. visitor[v].path \in Paths /\ [row |-> visitor[v].row, ttl |-> LinkTtl] \in Entries
      BY DEF TypeOK, VisitorStates, Entries
    <3>2. /\ linkKey' \in [Paths -> Entries]
          /\ \A p \in Paths : linkKey'[p] = NoEntry \/ linkKey'[p].ttl > 0
      BY <2>4, <3>1 DEF PutLink, TypeOK
    <3>3. faults' \in 0..MaxFaults
      BY <2>4 DEF PutLink, Fault, TypeOK
    <3> QED BY <2>4, <3>2, <3>3 DEF PutLink, Return, TypeOK, VisitorStates, Finished
  <2>5. CASE PutMiss(v)
    BY <2>5 DEF PutMiss, Return, Fault, TypeOK, VisitorStates, Finished
  <2> QED BY <1>4, <2>1, <2>2, <2>3, <2>4, <2>5 DEF Resolve
<1>5. ASSUME NEW v \in Visitors, VisitorGone(v) PROVE TypeOK'
  BY <1>5 DEF VisitorGone, Return, Fault, TypeOK, VisitorStates, Finished
<1>6. ASSUME NEW a \in Admins, NEW p \in Paths, NEW row \in Rows, Commit(a, p, row)
      PROVE  TypeOK'
  BY <1>6 DEF Commit, TypeOK, AdminStates
<1>7. ASSUME NEW a \in Admins, AdminStep(a) PROVE TypeOK'
  <2>1. ASSUME NEW p \in Paths, NEW body \in Bodies,
               CreateLink(a, p, body) \/ UpdateLink(a, p, body)
        PROVE  TypeOK'
    <3>1. Commit(a, p, NextVersion(body))
      BY <2>1 DEF CreateLink, UpdateLink
    <3>2. NextVersion(body) \in Rows
      BY <3>1, BodiesAssumption DEF NextVersion, Commit, Rows, TypeOK, Never
    <3> QED BY <3>1, <3>2, <1>6
  <2>2. ASSUME NEW p \in Paths, DeleteLink(a, p) PROVE TypeOK'
    BY <2>2, <1>6 DEF DeleteLink
  <2>3. CASE Invalidate(a)
    <3>1. linkKey' \in [Paths -> Entries] /\ missKey' \in [Paths -> 0..MissTtl]
      BY <2>3 DEF Invalidate, TypeOK
    <3>2. \A p \in Paths : linkKey'[p] = NoEntry \/ linkKey'[p].ttl > 0
      BY <2>3 DEF Invalidate, TypeOK
    <3>3. admin' \in [Admins -> AdminStates]
      BY <2>3 DEF Invalidate, TypeOK, AdminStates
    <3> QED BY <2>3, <3>1, <3>2, <3>3 DEF Invalidate, Fault, TypeOK
  <2>4. CASE AdminGone(a)
    BY <2>4 DEF AdminGone, Fault, TypeOK, AdminStates
  <2> QED BY <1>7, <2>1, <2>2, <2>3, <2>4 DEF AdminStep
<1>8. CASE UNCHANGED vars
  BY <1>8 DEF vars, TypeOK
<1> QED BY <1>1, <1>2, <1>3, <1>4, <1>5, <1>7, <1>8 DEF Next, VisitorStep

\* The types hold in every reachable state.
THEOREM TypeCorrect == Spec => []TypeOK
<1>1. Init => TypeOK
  BY TtlPositive, NoLinkType, BoundsAssumption
     DEF Init, TypeOK, VisitorStates, AdminStates, Finished
<1> QED BY <1>1, TypeStep, PTL DEF Spec

-----------------------------------------------------------------------------
(* A clean path stays clean until it is written *)

\* What a clean path means for one request: the fill it is about to make agrees
\* with the table.
FillAgrees(v, p) ==
    visitor[v].path = p =>
       /\ visitor[v].pc = "put_link" => visitor[v].row = db[p]
       /\ visitor[v].pc = "put_miss" => ~IsResolvable(db[p], clock)

\* Clean, spelt out key by key and request by request.
LEMMA CleanIff ==
    ASSUME NEW p
    PROVE  Clean(p) <=> ~StaleLink(p) /\ ~StaleMiss(p) /\ \A v \in Visitors : FillAgrees(v, p)
BY DEF Clean, Coherent, OvertakenFill, Overtaken, FillAgrees

\* The same of the next state.
LEMMA CleanIffNext ==
    ASSUME NEW p
    PROVE  Clean(p)' <=> ~StaleLink(p)' /\ ~StaleMiss(p)' /\ \A v \in Visitors : FillAgrees(v, p)'
BY DEF Clean, Coherent, OvertakenFill, Overtaken, FillAgrees

\* Nothing but a write to the row of p makes p unclean.
LEMMA CleanStep ==
    ASSUME TypeOK, [Next]_vars, NEW p \in Paths, Clean(p), db'[p] = db[p]
    PROVE  Clean(p)'
<1> SUFFICES /\ ~StaleLink(p)'
             /\ ~StaleMiss(p)'
             /\ \A w \in Visitors : FillAgrees(w, p)'
  BY CleanIffNext
<1>0. ~StaleLink(p) /\ ~StaleMiss(p) /\ \A w \in Visitors : FillAgrees(w, p)
  BY CleanIff
<1> USE DEF StaleLink, StaleMiss
<1>1. CASE Tick
  <2>1. clock <= clock' /\ clock' \in 0..MaxTime
    BY <1>1, BoundsAssumption DEF Tick, TypeOK
  <2>2. IsResolvable(db[p], clock') => IsResolvable(db[p], clock)
    BY <2>1, UnresolvableStays DEF TypeOK
  <2>3. linkKey'[p].ttl > 0 => linkKey[p].ttl > 0 /\ linkKey'[p].row = linkKey[p].row
    BY <1>1 DEF Tick, TypeOK, Entries, NoEntry
  <2>4. missKey'[p] > 0 => missKey[p] > 0
    BY <1>1 DEF Tick, TypeOK
  <2> QED BY <1>0, <1>1, <2>2, <2>3, <2>4 DEF Tick, FillAgrees
<1>2. ASSUME NEW q \in Paths, RedisForgets(q)
      PROVE  ~StaleLink(p)' /\ ~StaleMiss(p)' /\ \A w \in Visitors : FillAgrees(w, p)'
  BY <1>0, <1>2 DEF RedisForgets, TypeOK, NoEntry, FillAgrees
<1>3. ASSUME NEW v \in Visitors, VisitorStep(v)
      PROVE  ~StaleLink(p)' /\ ~StaleMiss(p)' /\ \A w \in Visitors : FillAgrees(w, p)'
  <2>0. ASSUME visitor'[v].pc \notin {"put_link", "put_miss"},
               \A w \in Visitors \ {v} : visitor'[w] = visitor[w],
               UNCHANGED <<clock, db>>
        PROVE  \A w \in Visitors : FillAgrees(w, p)'
    BY <1>0, <2>0 DEF FillAgrees
  <2>1. ASSUME NEW q \in Paths, Visit(v, q)
        PROVE  ~StaleLink(p)' /\ ~StaleMiss(p)' /\ \A w \in Visitors : FillAgrees(w, p)'
    BY <1>0, <2>0, <2>1 DEF Visit, TypeOK
  <2>2. CASE GetLink(v) \/ IsKnownMiss(v) \/ VisitorGone(v)
    BY <1>0, <2>0, <2>2 DEF GetLink, IsKnownMiss, VisitorGone, Goto, Return, TypeOK, VisitorStates
  <2>3. CASE Select(v)
    <3>1. visitor[v].start <= clock /\ visitor[v].start \in 0..MaxTime /\ clock \in 0..MaxTime
      BY DEF TypeOK, VisitorStates
    <3>2. IsResolvable(db[p], clock) => IsResolvable(db[p], visitor[v].start)
      BY <3>1, UnresolvableStays DEF TypeOK
    <3>3. FillAgrees(v, p)'
      BY <2>3, <3>2 DEF Select, Return, FillAgrees, TypeOK, VisitorStates
    <3>4. \A w \in Visitors \ {v} : FillAgrees(w, p)'
      BY <1>0, <2>3 DEF Select, Return, FillAgrees, TypeOK
    <3> QED BY <1>0, <2>3, <3>3, <3>4 DEF Select
  <2>4. CASE PutLink(v)
    <3>1. \A w \in Visitors : FillAgrees(w, p)'
      BY <2>0, <2>4 DEF PutLink, Return, TypeOK
    <3>2. ~StaleLink(p)'
      BY <1>0, <2>4 DEF PutLink, FillAgrees, TypeOK
    <3> QED BY <1>0, <2>4, <3>1, <3>2 DEF PutLink
  <2>5. CASE PutMiss(v)
    <3>1. \A w \in Visitors : FillAgrees(w, p)'
      BY <2>0, <2>5 DEF PutMiss, Return, TypeOK
    <3>2. ~StaleMiss(p)'
      BY <1>0, <2>5 DEF PutMiss, FillAgrees, TypeOK
    <3> QED BY <1>0, <2>5, <3>1, <3>2 DEF PutMiss
  <2> QED BY <1>3, <2>1, <2>2, <2>3, <2>4, <2>5 DEF VisitorStep, Resolve
<1>4. ASSUME NEW a \in Admins, AdminStep(a)
      PROVE  ~StaleLink(p)' /\ ~StaleMiss(p)' /\ \A w \in Visitors : FillAgrees(w, p)'
  <2>1. ASSUME NEW q \in Paths, NEW row, Commit(a, q, row)
        PROVE  ~StaleLink(p)' /\ ~StaleMiss(p)' /\ \A w \in Visitors : FillAgrees(w, p)'
    BY <1>0, <2>1 DEF Commit, FillAgrees
  <2>2. CASE Invalidate(a)
    BY <1>0, <2>2 DEF Invalidate, FillAgrees, TypeOK, NoEntry
  <2>3. CASE AdminGone(a)
    BY <1>0, <2>3 DEF AdminGone, FillAgrees
  <2> QED BY <1>4, <2>1, <2>2, <2>3 DEF AdminStep, CreateLink, UpdateLink, DeleteLink
<1>5. CASE UNCHANGED vars
  BY <1>0, <1>5 DEF vars, FillAgrees
<1> QED BY <1>1, <1>2, <1>3, <1>4, <1>5 DEF Next

\* Whatever fails and however resolve interleaves, Redis and the fills in flight
\* contradict the table only after a write.
THEOREM CleanUntilWrittenCorrect == Spec => CleanUntilWritten
<1>1. TypeOK /\ [Next]_vars => [\A p \in Paths : Clean(p) /\ db'[p] = db[p] => Clean(p)']_vars
  BY CleanStep
<1> QED BY <1>1, TypeCorrect, PTL DEF Spec, CleanUntilWritten

-----------------------------------------------------------------------------
(* A DEL repairs a path, and a clean path is answered from its row *)

\* A DEL that reaches Redis while no fill of the path was overtaken leaves the
\* path clean, whatever was wrong with its keys before.
THEOREM InvalidateRepairsCorrect == Spec => InvalidateRepairs
<1>1. ASSUME TypeOK, NEW a \in Admins, Invalidate(a), faults' = faults,
             NEW p \in Paths, admin[a].path = p, ~OvertakenFill(p)
      PROVE  Clean(p)'
  <2>2. linkKey'[p] = NoEntry /\ missKey'[p] = 0
    BY <1>1 DEF Invalidate, Fault, TypeOK
  <2>3. ~StaleLink(p)' /\ ~StaleMiss(p)'
    BY <2>2 DEF StaleLink, StaleMiss, NoEntry
  <2>4. \A v \in Visitors : FillAgrees(v, p)'
    BY <1>1 DEF Invalidate, OvertakenFill, Overtaken, FillAgrees
  <2> QED BY <2>3, <2>4, CleanIffNext
<1>2. TypeOK /\ [Next]_vars =>
         [\A a \in Admins, p \in Paths :
             /\ admin[a].path = p /\ Invalidate(a) /\ faults' = faults
             /\ ~OvertakenFill(p)
             => Clean(p)']_vars
  BY <1>1
<1> QED BY <1>2, TypeCorrect, PTL DEF Spec, InvalidateRepairs

\* A step of one request leaves the others as they are.
LEMMA OthersUntouched ==
    ASSUME TypeOK, NEW w \in Visitors, VisitorStep(w), NEW v \in Visitors, v # w
    PROVE  visitor'[v] = visitor[v]
<1>1. ASSUME NEW q, Visit(w, q) PROVE visitor'[v] = visitor[v]
  BY <1>1 DEF Visit, TypeOK
<1>2. CASE GetLink(w) \/ IsKnownMiss(w)
  BY <1>2 DEF GetLink, IsKnownMiss, Goto, Return, TypeOK
<1>3. CASE Select(w)
  BY <1>3 DEF Select, Return, TypeOK
<1>4. CASE PutLink(w) \/ PutMiss(w) \/ VisitorGone(w)
  BY <1>4 DEF PutLink, PutMiss, VisitorGone, Return, TypeOK
<1> QED BY <1>1, <1>2, <1>3, <1>4 DEF VisitorStep, Resolve

\* What a request of a clean path may be answered.
ExactAnswer(v, p) ==
    /\ visitor'[v].pc = "found" =>
          visitor'[v].row = db[p] /\ IsResolvable(db[p], visitor[v].start)
    /\ visitor'[v].pc = "not_found" => ~IsResolvable(db[p], clock)

\* Every fill in flight carries a row that resolved when its request began.
FillsResolvable ==
    \A v \in Visitors :
       visitor[v].pc = "put_link" => IsResolvable(visitor[v].row, visitor[v].start)

\* FillsResolvable is kept by every step.
LEMMA FillsResolvableStep == TypeOK /\ FillsResolvable /\ [Next]_vars => FillsResolvable'
<1> SUFFICES ASSUME TypeOK, FillsResolvable, [Next]_vars PROVE FillsResolvable'
  OBVIOUS
<1>1. ASSUME NEW v \in Visitors, VisitorStep(v) PROVE FillsResolvable'
  BY <1>1 DEF VisitorStep, Resolve, Visit, GetLink, IsKnownMiss, Select, PutLink, PutMiss,
              VisitorGone, Goto, Return, FillsResolvable, TypeOK, VisitorStates
<1>2. CASE UNCHANGED visitor
  BY <1>2 DEF FillsResolvable
<1> QED BY <1>1, <1>2 DEF Next, Tick, RedisForgets, AdminStep, CreateLink, UpdateLink,
                          DeleteLink, Commit, Invalidate, AdminGone, vars

\* As long as a path is clean its requests are answered as the table alone
\* would answer them.
THEOREM CleanAnswersExactCorrect == Spec => CleanAnswersExact
<1>1. ASSUME TypeOK, FillsResolvable, [Next]_vars, NEW v \in Visitors,
             visitor[v].pc \in Calls, NEW p, p = visitor[v].path, Clean(p)
      PROVE  ExactAnswer(v, p)
  <2>0. /\ p \in Paths
        /\ ~StaleLink(p) /\ ~StaleMiss(p) /\ FillAgrees(v, p)
    BY <1>1, CleanIff DEF TypeOK, VisitorStates
  <2>1. CASE GetLink(v)
    BY <2>0, <2>1, <1>1 DEF GetLink, Return, Goto, ExactAnswer, StaleLink, TypeOK, VisitorStates
  <2>2. CASE IsKnownMiss(v)
    BY <2>0, <2>2, <1>1 DEF IsKnownMiss, Return, Goto, ExactAnswer, StaleMiss, TypeOK, VisitorStates
  <2>3. CASE Select(v)
    BY <2>0, <2>3, <1>1 DEF Select, Return, ExactAnswer, TypeOK, VisitorStates
  <2>4. CASE PutLink(v)
    BY <2>0, <2>4, <1>1 DEF PutLink, Return, ExactAnswer, FillAgrees, FillsResolvable, TypeOK, VisitorStates
  <2>5. CASE PutMiss(v)
    BY <2>0, <2>5, <1>1 DEF PutMiss, Return, ExactAnswer, FillAgrees, TypeOK, VisitorStates
  <2>6. ASSUME NEW q \in Paths, Visit(v, q) PROVE ExactAnswer(v, p)
    BY <2>6, <1>1 DEF Visit, Calls, Finished
  <2>7. CASE VisitorGone(v)
    BY <1>1, <2>7 DEF VisitorGone, Return, ExactAnswer, TypeOK, VisitorStates
  <2>8. CASE visitor'[v] = visitor[v]
    BY <2>8, <1>1 DEF ExactAnswer, Calls
  <2>9. ASSUME NEW w \in Visitors, w # v, VisitorStep(w) PROVE visitor'[v] = visitor[v]
    BY <1>1, <2>9, OthersUntouched
  <2>10. CASE UNCHANGED visitor
    BY <2>8, <2>10
  <2>11. CASE VisitorStep(v)
    BY <2>11, <2>1, <2>2, <2>3, <2>4, <2>5, <2>6, <2>7 DEF VisitorStep, Resolve
  <2> QED BY <1>1, <2>8, <2>9, <2>10, <2>11
             DEF Next, Tick, RedisForgets, AdminStep, CreateLink, UpdateLink, DeleteLink,
                 Commit, Invalidate, AdminGone, vars
<1>2. Init => FillsResolvable
  BY DEF Init, FillsResolvable
<1>3. TypeOK /\ FillsResolvable /\ [Next]_vars =>
         [\A v \in Visitors :
             LET p == visitor[v].path IN
             visitor[v].pc \in Calls /\ Clean(p) =>
                /\ visitor'[v].pc = "found" =>
                      visitor'[v].row = db[p] /\ IsResolvable(db[p], visitor[v].start)
                /\ visitor'[v].pc = "not_found" => ~IsResolvable(db[p], clock)]_vars
  BY <1>1 DEF ExactAnswer
<1> QED BY <1>2, <1>3, FillsResolvableStep, TypeCorrect, PTL DEF Spec, CleanAnswersExact

=============================================================================
