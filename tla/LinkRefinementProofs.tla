------------------------ MODULE LinkRefinementProofs ------------------------
(* What TLAPS proves of LinkRefinement, for every instance of the constants. *)
EXTENDS LinkRefinement, LinkCacheProofs

\* What the register of LinkRegister remembers of p, and what it is asked.
Known(p) == {row \in Rows : Held(p, row)}
request == [v \in Visitors |-> Question(v)]

\* Nothing new is remembered of any path, but perhaps what a path p gains.
Remembers(p, gained) ==
    \A q \in Paths :
       /\ db'[q] \in Known(q)'
       /\ Known(q)' \subseteq IF q = p THEN Known(q) \cup gained ELSE Known(q)

Forgets == \A q \in Paths : db'[q] \in Known(q)' /\ Known(q)' \subseteq Known(q)

SameKnown == \A q \in Paths : Known(q)' = Known(q)

-----------------------------------------------------------------------------
(* The actions of the register, as the steps of LinkCache meet them *)

\* A step that moves the clock on, or nothing, and adds nothing to what is known.
LEMMA Passes ==
    ASSUME clock' \in clock..MaxTime, Forgets, UNCHANGED <<db, request>>
    PROVE  Register!Next
<1>1. Register!Remember(Register!Nothing)
  BY DEF Register!Remember, Register!Nothing, Forgets, Known
<1>2. Register!Pass
  BY <1>1 DEF Register!Pass, request
<1> QED BY <1>2 DEF Register!Next

\* A step that writes a row and makes no other version known.
LEMMA Writes ==
    ASSUME NEW p \in Paths, NEW row \in Rows,
           db' = [db EXCEPT ![p] = row], Remembers(p, {row}), UNCHANGED <<clock, request>>
    PROVE  Register!Next
<1>1. Register!Remember(LAMBDA q : IF q = p THEN {row} ELSE {})
  BY DEF Register!Remember, Remembers, Known
<1>2. Register!Write(p, row)
  BY <1>1 DEF Register!Write, request
<1> QED BY <1>2 DEF Register!Next

\* A step after which NoLink may be known of a path whose row does not resolve.
LEMMA FindsUnresolvable ==
    ASSUME NEW p \in Paths, ~IsResolvable(db[p], clock), Remembers(p, {NoLink}),
           UNCHANGED <<clock, db, request>>
    PROVE  Register!Next
<1>1. Register!Remember(LAMBDA q : IF q = p THEN {NoLink} ELSE {})
  BY DEF Register!Remember, Remembers, Known
<1>2. Register!FindUnresolvable(p)
  BY <1>1 DEF Register!FindUnresolvable, request
<1> QED BY <1>2 DEF Register!Next

\* A step that begins a request.
LEMMA Asks ==
    ASSUME NEW v \in Visitors, NEW p \in Paths, visitor[v].pc \in Finished,
           visitor'[v] = [pc |-> "get_link", path |-> p, start |-> clock, row |-> NoLink],
           \A w \in Visitors \ {v} : visitor'[w] = visitor[w],
           SameKnown, UNCHANGED <<clock, db>>
    PROVE  Register!Next
<1>1. request[v].pc # "asking"
  BY DEF request, Question, Finished, Calls
<1>2. request' = [request EXCEPT ![v] =
                    [pc |-> "asking", path |-> p, start |-> clock, row |-> NoLink]]
  <2>1. Question(v)' = [pc |-> "asking", path |-> p, start |-> clock, row |-> NoLink]
    BY DEF Question, Calls
  <2>2. \A w \in Visitors \ {v} : Question(w)' = Question(w)
    BY DEF Question
  <2> QED BY <2>1, <2>2 DEF request
<1>3. Register!Ask(v, p)
  BY <1>1, <1>2 DEF Register!Ask, request, SameKnown, Known
<1> QED BY <1>3 DEF Register!Next

\* A request of LinkCache is over, with the outcome and the link of Return.
Returns(v, outcome, link) ==
    /\ visitor[v].pc \in Calls
    /\ Return(v, outcome, link)
    /\ Forgets
    /\ UNCHANGED <<clock, db>>

\* A request that is over is closed in the register.
LEMMA Closes ==
    ASSUME TypeOK, NEW v \in Visitors, NEW outcome \in Finished, NEW link \in Rows,
           Returns(v, outcome, link)
    PROVE  Register!Close(v, outcome, link)
<1>1. request[v].pc = "asking" /\ request[v].path = visitor[v].path
  BY DEF request, Question, Returns, TypeOK, VisitorStates
<1>2. request' = [request EXCEPT ![v] =
                    [pc |-> outcome, path |-> request[v].path, start |-> 0, row |-> link]]
  <2>1. visitor'[v] = [pc |-> outcome, path |-> visitor[v].path, start |-> 0, row |-> link]
    BY DEF Returns, Return, TypeOK
  <2>2. \A w \in Visitors \ {v} : visitor'[w] = visitor[w]
    BY DEF Returns, Return, TypeOK
  <2>3. Question(v)' = visitor'[v]
    BY <2>1 DEF Question, Finished, Calls
  <2>4. \A w \in Visitors \ {v} : Question(w)' = Question(w)
    BY <2>2 DEF Question
  <2> QED BY <1>1, <2>1, <2>3, <2>4 DEF request
<1>3. Register!Remember(Register!Nothing)
  BY DEF Register!Remember, Register!Nothing, Returns, Forgets, Known
<1> QED BY <1>1, <1>2, <1>3 DEF Register!Close, request, Returns

\* One that ends with a known link that resolved when it began is served.
LEMMA Serves ==
    ASSUME TypeOK, NEW v \in Visitors, NEW link \in Known(visitor[v].path),
           IsResolvable(link, visitor[v].start), Returns(v, "found", link)
    PROVE  Register!Next
<1>1. link \in Rows /\ Register!Close(v, "found", link)
  BY Closes DEF Known, Finished
<1>2. /\ request[v].path = visitor[v].path /\ request[v].start = visitor[v].start
      /\ visitor[v].path \in Paths
  BY DEF request, Question, Returns, TypeOK, VisitorStates
<1>3. Register!Serve(v, link)
  BY <1>1, <1>2 DEF Register!Serve, request, Known
<1> QED BY <1>1, <1>3 DEF Register!Next

\* One that ends with not_found while NoLink is known is refused.
LEMMA Refuses ==
    ASSUME TypeOK, NEW v \in Visitors, NoLink \in Known(visitor[v].path),
           Returns(v, "not_found", NoLink)
    PROVE  Register!Next
<1>1. Register!Close(v, "not_found", NoLink)
  BY Closes, NoLinkType DEF Finished
<1>2. request[v].path = visitor[v].path /\ visitor[v].path \in Paths
  BY DEF request, Question, Returns, TypeOK, VisitorStates
<1>3. Register!Refuse(v)
  BY <1>1, <1>2, NoLinkUnresolvable DEF Register!Refuse, request, Known
<1> QED BY <1>3 DEF Register!Next

\* One that ends with an error, or unanswered, fails.
LEMMA Fails ==
    ASSUME TypeOK, NEW v \in Visitors, NEW outcome \in {"server_error", "idle"},
           Returns(v, outcome, NoLink)
    PROVE  Register!Next
<1>1. Register!Close(v, outcome, NoLink)
  BY Closes, NoLinkType DEF Finished
<1> QED BY <1>1 DEF Register!Next, Register!Fail

-----------------------------------------------------------------------------
(* What the steps of LinkCache do to what is known *)

\* What a fill in flight of v carries for p.
Carries(v, p, row) ==
    /\ visitor[v].path = p
    /\ \/ visitor[v].pc = "put_link" /\ row = visitor[v].row
       \/ visitor[v].pc = "put_miss" /\ row = NoLink

\* Held, before and after a step, request by request.
LEMMA HeldIff ==
    ASSUME NEW p, NEW row
    PROVE  /\ Held(p, row) <=>
                 \/ row = db[p]
                 \/ linkKey[p].ttl > 0 /\ row = linkKey[p].row
                 \/ missKey[p] > 0 /\ row = NoLink
                 \/ \E v \in Visitors : Carries(v, p, row)
           /\ Held(p, row)' <=>
                 \/ row = db'[p]
                 \/ linkKey'[p].ttl > 0 /\ row = linkKey'[p].row
                 \/ missKey'[p] > 0 /\ row = NoLink
                 \/ \E v \in Visitors : Carries(v, p, row)'
BY DEF Held, Carries

\* A request that is over, or has not yet read its row, carries nothing.
LEMMA CarriesNothing ==
    ASSUME NEW v, NEW p, NEW row
    PROVE  /\ visitor[v].pc \notin {"put_link", "put_miss"} => ~Carries(v, p, row)
           /\ visitor'[v].pc \notin {"put_link", "put_miss"} => ~Carries(v, p, row)'
BY DEF Carries

\* The row of the table is always known.
LEMMA CurrentKnown ==
    ASSUME TypeOK, TypeOK', NEW p \in Paths
    PROVE  db[p] \in Known(p) /\ db'[p] \in Known(p)'
BY DEF Known, Held, TypeOK

\* A step that stores nothing and begins or ends the fill of no request.
LEMMA ForgetsIf ==
    ASSUME TypeOK, TypeOK', UNCHANGED db,
           \A q \in Paths, row \in Rows : Held(q, row)' => Held(q, row)
    PROVE  Forgets
BY CurrentKnown DEF Forgets, Known

-----------------------------------------------------------------------------
(* Every step of LinkCache is one of the register, or none *)

Same == UNCHANGED <<clock, db, request>> /\ SameKnown

\* Time moves on and forgets the keys that run out.
LEMMA TickStep == ASSUME TypeOK, TypeOK', Tick PROVE Register!Next
<1>1. clock' \in clock..MaxTime
  BY BoundsAssumption DEF Tick, TypeOK
<1>2. \A q \in Paths, row \in Rows : Held(q, row)' => Held(q, row)
  BY DEF Tick, Held, NoEntry, TypeOK, Entries
<1>3. UNCHANGED <<db, request>>
  BY DEF Tick, request, Question
<1> QED BY <1>1, <1>2, <1>3, ForgetsIf, Passes

\* A key that is lost is forgotten.
LEMMA RedisForgetsStep ==
    ASSUME TypeOK, TypeOK', NEW p \in Paths, RedisForgets(p) PROVE Register!Next
<1>1. clock' \in clock..MaxTime
  BY BoundsAssumption DEF RedisForgets, TypeOK
<1>2. \A q \in Paths, row \in Rows : Held(q, row)' => Held(q, row)
  BY DEF RedisForgets, Held, NoEntry, TypeOK, Entries
<1>3. UNCHANGED <<db, request>>
  BY DEF RedisForgets, request, Question
<1> QED BY <1>1, <1>2, <1>3, ForgetsIf, Passes

\* A step the register does not see.
LEMMA Stutters ==
    ASSUME Same
    PROVE  UNCHANGED <<clock, db, [p \in Paths |-> {row \in Rows : Held(p, row)}], request>>
BY DEF Same, SameKnown, Known

\* An asking request goes on asking: its question is the same.
LEMMA StillAsks ==
    ASSUME TypeOK, NEW v \in Visitors, visitor[v].pc \in Calls, visitor'[v].pc \in Calls,
           visitor'[v].path = visitor[v].path, visitor'[v].start = visitor[v].start,
           \A w \in Visitors \ {v} : visitor'[w] = visitor[w]
    PROVE  UNCHANGED request
<1>1. Question(v)' = Question(v)
  BY DEF Question
<1>2. \A w \in Visitors \ {v} : Question(w)' = Question(w)
  BY DEF Question
<1> QED BY <1>1, <1>2 DEF request

\* What is known changes only by what the fill of one request carries.
LEMMA OnlyFill ==
    ASSUME UNCHANGED <<db, linkKey, missKey>>, NEW v \in Visitors,
           \A w \in Visitors \ {v} : visitor'[w] = visitor[w],
           NEW q, NEW row
    PROVE  /\ Held(q, row)' => Held(q, row) \/ Carries(v, q, row)'
           /\ Held(q, row) => Held(q, row)' \/ Carries(v, q, row)
<1>1. \A w \in Visitors \ {v} : Carries(w, q, row)' <=> Carries(w, q, row)
  BY DEF Carries
<1> QED BY <1>1, HeldIff

\* A request that begins changes nothing that is known.
LEMMA VisitStep ==
    ASSUME TypeOK, TypeOK', NEW v \in Visitors, NEW p \in Paths, Visit(v, p) PROVE Register!Next
<1>1. /\ visitor[v].pc \in Finished
      /\ visitor'[v] = [pc |-> "get_link", path |-> p, start |-> clock, row |-> NoLink]
      /\ \A w \in Visitors \ {v} : visitor'[w] = visitor[w]
      /\ UNCHANGED <<clock, db, linkKey, missKey>>
  BY DEF Visit, TypeOK
<1>2. visitor[v].pc \notin {"put_link", "put_miss"} /\ visitor'[v].pc \notin {"put_link", "put_miss"}
  BY <1>1 DEF Finished
<1>3. SameKnown
  BY <1>1, <1>2, OnlyFill, CarriesNothing DEF SameKnown, Known
<1> QED BY <1>1, <1>3, Asks

\* A request that is dropped forgets what it carried.
LEMMA VisitorGoneStep ==
    ASSUME TypeOK, TypeOK', NEW v \in Visitors, VisitorGone(v) PROVE Register!Next
<1>1. Return(v, "idle", NoLink) /\ visitor[v].pc \in Calls
      /\ UNCHANGED <<clock, db, linkKey, missKey>>
  BY DEF VisitorGone
<1>2. visitor'[v].pc = "idle" /\ \A w \in Visitors \ {v} : visitor'[w] = visitor[w]
  BY <1>1 DEF Return, TypeOK
<1>3. Forgets
  BY <1>1, <1>2, OnlyFill, CarriesNothing, ForgetsIf
<1> QED BY <1>1, <1>3, Fails DEF Returns

\* A request goes to its next call without having read its row.
LEMMA GoesOn ==
    ASSUME TypeOK, NEW v \in Visitors, NEW pc \in {"is_known_miss", "select"},
           visitor[v].pc \in Calls \ {"put_link", "put_miss"}, Goto(v, pc),
           UNCHANGED <<clock, db, linkKey, missKey>>
    PROVE  Same
<1>1. /\ visitor'[v].pc = pc
      /\ visitor'[v].path = visitor[v].path /\ visitor'[v].start = visitor[v].start
      /\ \A w \in Visitors \ {v} : visitor'[w] = visitor[w]
  BY DEF Goto, TypeOK, VisitorStates
<1>2. SameKnown
  BY <1>1, OnlyFill, CarriesNothing DEF SameKnown, Known
<1>3. UNCHANGED request
  BY <1>1, StillAsks DEF Calls
<1> QED BY <1>2, <1>3 DEF Same

\* A request that is no fill returns.
LEMMA ReturnsEarly ==
    ASSUME TypeOK, TypeOK', NEW v \in Visitors, NEW outcome \in Finished, NEW link \in Rows,
           visitor[v].pc \in Calls, Return(v, outcome, link),
           UNCHANGED <<clock, db, linkKey, missKey>>
    PROVE  Returns(v, outcome, link)
<1>1. visitor'[v].pc = outcome /\ \A w \in Visitors \ {v} : visitor'[w] = visitor[w]
  BY DEF Return, TypeOK
<1>2. Forgets
  BY <1>1, OnlyFill, CarriesNothing, ForgetsIf DEF Finished
<1> QED BY <1>2 DEF Returns

\* A hit serves the row of the key, which is known; a miss is not seen.
LEMMA GetLinkStep ==
    ASSUME TypeOK, TypeOK', NEW v \in Visitors, GetLink(v) PROVE Register!Next \/ Same
<1> DEFINE p == visitor[v].path
<1>1. /\ visitor[v].pc = "get_link" /\ p \in Paths /\ linkKey[p].row \in Rows
      /\ UNCHANGED <<clock, db, linkKey, missKey>>
  BY DEF GetLink, TypeOK, VisitorStates, Entries
<1>2. CASE /\ linkKey[p].ttl > 0 /\ IsResolvable(linkKey[p].row, visitor[v].start)
           /\ Return(v, "found", linkKey[p].row)
  <2>1. Returns(v, "found", linkKey[p].row)
    BY <1>1, <1>2, ReturnsEarly DEF Finished, Calls
  <2>2. linkKey[p].row \in Known(p)
    BY <1>1, <1>2 DEF Known, Held
  <2> QED BY <1>2, <2>1, <2>2, Serves
<1>3. CASE Goto(v, "is_known_miss")
  BY <1>1, <1>3, GoesOn DEF Calls
<1> QED BY <1>2, <1>3 DEF GetLink

\* A marker refuses, and NoLink is known by it; without one nothing is seen.
LEMMA IsKnownMissStep ==
    ASSUME TypeOK, TypeOK', NEW v \in Visitors, IsKnownMiss(v) PROVE Register!Next \/ Same
<1> DEFINE p == visitor[v].path
<1>1. /\ visitor[v].pc = "is_known_miss" /\ p \in Paths
      /\ UNCHANGED <<clock, db, linkKey, missKey>>
  BY DEF IsKnownMiss, TypeOK, VisitorStates
<1>2. CASE missKey[p] > 0 /\ Return(v, "not_found", NoLink)
  <2>1. Returns(v, "not_found", NoLink)
    BY <1>1, <1>2, ReturnsEarly, NoLinkType DEF Finished, Calls
  <2>2. NoLink \in Known(p)
    BY <1>2, NoLinkType DEF Known, Held
  <2> QED BY <2>1, <2>2, Refuses
<1>3. CASE Goto(v, "select")
  BY <1>1, <1>3, GoesOn DEF Calls
<1> QED BY <1>2, <1>3 DEF IsKnownMiss

\* The row that is read is the current one; that it does not resolve is a finding.
LEMMA SelectStep ==
    ASSUME TypeOK, TypeOK', NEW v \in Visitors, Select(v) PROVE Register!Next \/ Same
<1> DEFINE p == visitor[v].path
           next == IF IsResolvable(db[p], visitor[v].start) THEN "put_link" ELSE "put_miss"
<1>1. /\ visitor[v].pc = "select" /\ p \in Paths /\ db[p] \in Rows
      /\ visitor[v].start \in 0..MaxTime /\ clock \in 0..MaxTime /\ visitor[v].start <= clock
      /\ UNCHANGED <<clock, db, linkKey, missKey>>
  BY DEF Select, TypeOK, VisitorStates
<1>2. CASE Return(v, "server_error", NoLink)
  <2>1. Returns(v, "server_error", NoLink)
    BY <1>1, <1>2, ReturnsEarly, NoLinkType DEF Finished, Calls
  <2> QED BY <2>1, Fails
<1>3. CASE visitor' = [visitor EXCEPT ![v].pc = next, ![v].row = db[p]]
  <2>1. /\ visitor'[v].pc = next /\ visitor'[v].row = db[p]
        /\ visitor'[v].path = p /\ visitor'[v].start = visitor[v].start
        /\ \A w \in Visitors \ {v} : visitor'[w] = visitor[w]
    BY <1>3 DEF TypeOK, VisitorStates
  <2>2. UNCHANGED request
    BY <1>1, <2>1, StillAsks DEF Calls
  <2>3. \A q, row : Held(q, row) => Held(q, row)'
    BY <1>1, <2>1, OnlyFill, CarriesNothing
  <2>4. CASE IsResolvable(db[p], visitor[v].start)
    <3>1. \A q, row : Carries(v, q, row)' => Held(q, row)
      BY <2>1, <2>4 DEF Carries, Held
    <3>2. \A q, row : Held(q, row)' => Held(q, row)
      BY <1>1, <2>1, <3>1, OnlyFill
    <3> QED BY <1>1, <2>2, <2>3, <3>2 DEF Same, SameKnown, Known
  <2>5. CASE ~IsResolvable(db[p], visitor[v].start)
    <3>1. \A q, row : Carries(v, q, row)' => q = p /\ row = NoLink
      BY <2>1, <2>5 DEF Carries
    <3>2. \A q, row : Held(q, row)' => Held(q, row) \/ (q = p /\ row = NoLink)
      BY <1>1, <2>1, <3>1, OnlyFill
    <3>3. Remembers(p, {NoLink})
      BY <3>2, CurrentKnown DEF Remembers, Known
    <3>4. ~IsResolvable(db[p], clock)
      BY <1>1, <2>5, UnresolvableStays
    <3> QED BY <1>1, <2>2, <3>3, <3>4, FindsUnresolvable
  <2> QED BY <2>4, <2>5
<1> QED BY <1>2, <1>3 DEF Select

\* A fill stores what it carries, and returns it.
LEMMA PutLinkStep ==
    ASSUME TypeOK, TypeOK', FillsResolvable, NEW v \in Visitors, PutLink(v) PROVE Register!Next
<1> DEFINE p == visitor[v].path
           link == visitor[v].row
<1>1. /\ visitor[v].pc = "put_link" /\ p \in Paths /\ link \in Rows
      /\ Return(v, "found", link) /\ IsResolvable(link, visitor[v].start)
      /\ UNCHANGED <<clock, db, missKey>>
  BY DEF PutLink, FillsResolvable, TypeOK, VisitorStates
<1>2. visitor'[v].pc = "found" /\ \A w \in Visitors \ {v} : visitor'[w] = visitor[w]
  BY <1>1 DEF Return, TypeOK
<1>3. Held(p, link)
  BY <1>1 DEF Held
<1>4. \A q \in Paths : linkKey'[q] = linkKey[q] \/ (q = p /\ linkKey'[q].row = link)
  BY <1>1 DEF PutLink, TypeOK
<1>5. \A w \in Visitors : \A q, row : Carries(w, q, row)' => Carries(w, q, row)
  BY <1>2 DEF Carries
<1>6. \A q \in Paths, row \in Rows : Held(q, row)' => Held(q, row)
  BY <1>1, <1>3, <1>4, <1>5, HeldIff
<1>7. Returns(v, "found", link)
  BY <1>1, <1>6, ForgetsIf DEF Returns, Calls
<1> QED BY <1>1, <1>3, <1>7, Serves DEF Known

\* Likewise for the marker.
LEMMA PutMissStep ==
    ASSUME TypeOK, TypeOK', NEW v \in Visitors, PutMiss(v) PROVE Register!Next
<1> DEFINE p == visitor[v].path
<1>1. /\ visitor[v].pc = "put_miss" /\ p \in Paths /\ Return(v, "not_found", NoLink)
      /\ UNCHANGED <<clock, db, linkKey>>
  BY DEF PutMiss, TypeOK, VisitorStates
<1>2. visitor'[v].pc = "not_found" /\ \A w \in Visitors \ {v} : visitor'[w] = visitor[w]
  BY <1>1 DEF Return, TypeOK
<1>3. Held(p, NoLink)
  BY <1>1 DEF Held
<1>4. \A q \in Paths : missKey'[q] = missKey[q] \/ q = p
  BY <1>1 DEF PutMiss, TypeOK
<1>5. \A w \in Visitors : \A q, row : Carries(w, q, row)' => Carries(w, q, row)
  BY <1>2 DEF Carries
<1>6. \A q \in Paths, row \in Rows : Held(q, row)' => Held(q, row)
  BY <1>1, <1>3, <1>4, <1>5, HeldIff
<1>7. Returns(v, "not_found", NoLink)
  BY <1>1, <1>6, ForgetsIf DEF Returns, Calls
<1> QED BY <1>3, <1>7, Refuses, NoLinkType DEF Known

\* A commit is a write, and makes its row known.
LEMMA CommitStep ==
    ASSUME TypeOK, TypeOK', NEW a \in Admins, NEW p \in Paths, NEW row \in Rows, Commit(a, p, row)
    PROVE  Register!Next
<1>1. db' = [db EXCEPT ![p] = row] /\ UNCHANGED <<clock, linkKey, missKey, visitor>>
  BY DEF Commit
<1>2. UNCHANGED request
  BY <1>1 DEF request, Question
<1>3. \A q \in Paths, r \in Rows : Held(q, r)' => Held(q, r) \/ (q = p /\ r = row)
  BY <1>1 DEF Held, TypeOK
<1>4. Remembers(p, {row})
  BY <1>3, CurrentKnown DEF Remembers, Known
<1> QED BY <1>1, <1>2, <1>4, Writes

\* A DEL, or its loss, only forgets.
LEMMA InvalidateStep ==
    ASSUME TypeOK, TypeOK', NEW a \in Admins, Invalidate(a) \/ AdminGone(a)
    PROVE  Register!Next
<1>1. /\ UNCHANGED <<clock, db, visitor>>
      /\ \A q \in Paths :
            /\ linkKey'[q] = linkKey[q] \/ linkKey'[q].ttl = 0
            /\ missKey'[q] = missKey[q] \/ missKey'[q] = 0
  BY DEF Invalidate, AdminGone, NoEntry, TypeOK
<1>2. \A q \in Paths, row \in Rows : Held(q, row)' => Held(q, row)
  BY <1>1 DEF Held
<1>3. clock' \in clock..MaxTime /\ UNCHANGED request
  BY <1>1, BoundsAssumption DEF request, Question, TypeOK
<1> QED BY <1>1, <1>2, <1>3, ForgetsIf, Passes

\* Every step of an admin is one of the register.
LEMMA AdminSteps ==
    ASSUME TypeOK, TypeOK', NEW a \in Admins, AdminStep(a) PROVE Register!Next
<1>1. ASSUME NEW p \in Paths, NEW body \in Bodies, CreateLink(a, p, body) \/ UpdateLink(a, p, body)
      PROVE  Register!Next
  <2>1. Commit(a, p, NextVersion(body))
    BY <1>1 DEF CreateLink, UpdateLink
  <2>2. NextVersion(body) \in Rows
    BY <2>1, BodiesAssumption, BoundsAssumption DEF NextVersion, Commit, Rows, TypeOK
  <2> QED BY <2>1, <2>2, CommitStep
<1>2. ASSUME NEW p \in Paths, DeleteLink(a, p) PROVE Register!Next
  BY <1>2, CommitStep, NoLinkType DEF DeleteLink
<1> QED BY <1>1, <1>2, InvalidateStep DEF AdminStep

-----------------------------------------------------------------------------
(* The refinement *)

\* Initial states map to initial states.
LEMMA RegisterInit == Init => Register!Init
<1> SUFFICES ASSUME Init PROVE Register!Init
  OBVIOUS
<1>1. PICK p \in Paths :
         visitor = [v \in Visitors |-> [pc |-> "idle", path |-> p, start |-> 0, row |-> NoLink]]
  BY DEF Init
<1>2. request = visitor
  BY <1>1 DEF request, Question, Calls
<1>3. \A q \in Paths : Known(q) = {NoLink}
  BY <1>1, NoLinkType DEF Init, Known, Held, NoEntry
<1>4. [q \in Paths |-> Known(q)] = [q \in Paths |-> {NoLink}]
  BY <1>3
<1> QED BY <1>1, <1>2, <1>4 DEF Register!Init, Init, request, Known

\* Every step maps to a step or a stutter.
LEMMA RegisterNext ==
    TypeOK /\ TypeOK' /\ FillsResolvable /\ [Next]_vars =>
       [Register!Next]_<<clock, db, [p \in Paths |-> {row \in Rows : Held(p, row)}],
                         [v \in Visitors |-> Question(v)]>>
<1> SUFFICES ASSUME TypeOK, TypeOK', FillsResolvable, [Next]_vars
             PROVE  Register!Next \/ Same
  BY Stutters DEF request
<1>1. ASSUME NEW v \in Visitors, VisitorStep(v) PROVE Register!Next \/ Same
  BY <1>1, VisitStep, GetLinkStep, IsKnownMissStep, SelectStep, PutLinkStep, PutMissStep,
     VisitorGoneStep DEF VisitorStep, Resolve
<1>2. CASE UNCHANGED vars
  BY <1>2 DEF vars, Same, SameKnown, Known, Held, request, Question
<1> QED BY <1>1, <1>2, TickStep, RedisForgetsStep, AdminSteps DEF Next

\* LinkCache with all its interleavings and failures is a register with a memory:
\* an answer is based on the current row or on one that Redis or a fill holds,
\* judged when its request began, and what both have dropped never comes back.
THEOREM ImplementsRegisterCorrect == Spec => ImplementsRegister
<1>1. Init => FillsResolvable
  BY DEF Init, FillsResolvable
<1> QED BY <1>1, TypeCorrect, FillsResolvableStep, RegisterInit, RegisterNext, PTL
        DEF Spec, ImplementsRegister, Register!Spec

=============================================================================
