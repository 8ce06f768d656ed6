--------------------------- MODULE ClickLogProofs ---------------------------
(* What TLAPS proves of ClickLog, for any number of requests, links, *)
(* connections and faults.                                           *)
EXTENDS ClickLog, FiniteSetTheorems, TLAPS

-----------------------------------------------------------------------------
(* Types *)

\* A request that an outcome is written into stays a request, and so does a task.
LEMMA AbortTypes ==
    ASSUME ClickTypeOK, NEW r \in Requests,
           NEW pc \in {"server_error", "dropped", "redis", "acquire", "select"}, Abort(r, pc)
    PROVE  /\ request' \in [Requests -> RequestStates]
           /\ task' \in [Requests -> {"none", "acquire", "insert", "ended"}]
<1>1. request[r] \in RequestStates
  BY DEF ClickTypeOK
<1>2. [request[r] EXCEPT !.pc = pc] \in RequestStates
  BY <1>1 DEF RequestStates, InFlight, Answered
<1> QED BY <1>2 DEF Abort, ClickTypeOK

\* An answer with a link, or with none, stays within the types.
LEMMA AnswerTypes ==
    ASSUME ClickTypeOK, NEW r \in Requests, NEW link_id \in Links \cup {NoLink},
           Answer(r, link_id)
    PROVE  /\ request' \in [Requests -> RequestStates]
           /\ task' \in [Requests -> {"none", "acquire", "insert", "ended"}]
<1>1. request[r] \in RequestStates
  BY DEF ClickTypeOK
<1>2. request'[r] \in RequestStates
  BY <1>1 DEF Answer, ClickTypeOK, RequestStates, InFlight, Answered
<1>3. \A q \in Requests : q # r => request'[q] = request[q]
  BY DEF Answer, ClickTypeOK
<1>4. request' = [q \in Requests |-> request'[q]]
  BY DEF Answer, ClickTypeOK
<1>5. request' \in [Requests -> RequestStates]
  BY <1>2, <1>3, <1>4 DEF ClickTypeOK
<1> QED BY <1>5 DEF Answer, ClickTypeOK

\* The failures of a step are counted, and counted up to the bound.
LEMMA FaultTypes ==
    ASSUME ClickTypeOK, Fault \/ UNCHANGED faults
    PROVE  faults' \in 0..MaxFaults
BY ClickLogAssumption DEF ClickTypeOK, Fault

\* A click that a task may insert is a row.
LEMMA ClickIsRow ==
    ASSUME ClickTypeOK, NEW r \in Requests
    PROVE  Click(r) \in Rows
BY DEF ClickTypeOK, Click, Rows, RequestStates

\* A request goes on, or ends, within its type.
LEMMA ServeTypes ==
    ASSUME ClickTypeOK, NEW r \in Requests, Arrive(r) \/ Serve(r) \/ Drop(r)
    PROVE  ClickTypeOK'
<1>1. CASE Arrive(r)
  <2>1. Abort(r, "redis")
    BY <1>1 DEF Arrive, Abort
  <2> QED BY <1>1, <2>1, AbortTypes DEF Arrive, ClickTypeOK
<1>2. CASE AskRedis(r)
  <2>1. CASE \E link_id \in (cached \cap {request[r].path}) \cup {NoLink} : Answer(r, link_id)
    <3>1. PICK link_id \in (cached \cap {request[r].path}) \cup {NoLink} : Answer(r, link_id)
      BY <2>1
    <3>2. link_id \in Links \cup {NoLink}
      BY DEF ClickTypeOK
    <3> QED BY <1>2, <3>1, <3>2, AnswerTypes DEF AskRedis, ClickTypeOK
  <2>2. CASE request' = [request EXCEPT ![r].pc = "acquire"] /\ UNCHANGED task
    BY <1>2, <2>2, AbortTypes DEF AskRedis, Abort, ClickTypeOK
  <2> QED BY <1>2, <2>1, <2>2 DEF AskRedis
<1>3. CASE Acquire(r)
  BY <1>3, AbortTypes, FaultTypes DEF Acquire, AcquireFails, ClickTypeOK
<1>4. CASE Select(r)
  <2>1. CASE \E link_id \in (links \cap {request[r].path}) \cup {NoLink} :
               /\ Answer(r, link_id)
               /\ cached' = cached \cup ({link_id} \ {NoLink})
               /\ UNCHANGED faults
    <3>1. PICK link_id \in (links \cap {request[r].path}) \cup {NoLink} :
               /\ Answer(r, link_id)
               /\ cached' = cached \cup ({link_id} \ {NoLink})
               /\ UNCHANGED faults
      BY <2>1
    <3>2. link_id \in Links \cup {NoLink}
      BY DEF ClickTypeOK
    <3> QED BY <1>4, <3>1, <3>2, AnswerTypes DEF Select, ClickTypeOK
  <2>2. CASE Fault /\ Abort(r, "server_error") /\ UNCHANGED cached
    BY <1>4, <2>2, AbortTypes, FaultTypes DEF Select, ClickTypeOK
  <2> QED BY <1>4, <2>1, <2>2 DEF Select
<1>5. CASE Drop(r)
  BY <1>5, AbortTypes, FaultTypes DEF Drop, ClickTypeOK
<1> QED BY <1>1, <1>2, <1>3, <1>4, <1>5 DEF Serve

\* So does a click task.
LEMMA RecordTypes ==
    ASSUME ClickTypeOK, NEW r \in Requests, Record(r)
    PROVE  ClickTypeOK'
<1>1. CASE TaskAcquire(r)
  <2>1. faults' \in 0..MaxFaults
    BY <1>1, FaultTypes DEF TaskAcquire, AcquireFails
  <2> QED BY <1>1, <2>1 DEF TaskAcquire, ClickTypeOK
<1>2. CASE Insert(r)
  <2>1. faults' \in 0..MaxFaults
    BY <1>2, FaultTypes DEF Insert
  <2>2. clicks' \subseteq Rows
    BY <1>2, ClickIsRow DEF Insert, ClickTypeOK
  <2> QED BY <1>2, <2>1, <2>2 DEF Insert, ClickTypeOK
<1> QED BY <1>1, <1>2 DEF Record

\* And a deletion, and what Redis does.
LEMMA DeletionTypes ==
    ASSUME ClickTypeOK, NEW l \in Links, AskDelete(l) \/ HandleDelete(l) \/ RedisForgets(l)
    PROVE  ClickTypeOK'
<1>1. CASE AskDelete(l)
  BY <1>1 DEF AskDelete, DeletionStates, ClickTypeOK
<1>2. CASE DeleteAcquire(l)
  <2>1. faults' \in 0..MaxFaults
    BY <1>2, FaultTypes DEF DeleteAcquire, AcquireFails
  <2> QED BY <1>2, <2>1 DEF DeleteAcquire, DeletionStates, ClickTypeOK
<1>3. CASE Delete(l)
  <2>1. faults' \in 0..MaxFaults
    BY <1>3, FaultTypes DEF Delete
  <2>2. links' \subseteq Links /\ cached' \subseteq Links
    BY <1>3 DEF Delete, Deleted, ClickTypeOK
  <2>3. deletion' \in [Links -> DeletionStates]
    BY <1>3 DEF Delete, DeletionStates, ClickTypeOK
  <2> QED BY <1>3, <2>1, <2>2, <2>3 DEF Delete, ClickTypeOK
<1>4. CASE RedisForgets(l)
  BY <1>4 DEF RedisForgets, ClickTypeOK
<1> QED BY <1>1, <1>2, <1>3, <1>4 DEF HandleDelete

\* So does a probe.
LEMMA ProbeTypes ==
    ASSUME ClickTypeOK, AskProbe \/ HandleProbe
    PROVE  ClickTypeOK'
<1>1. faults' \in 0..MaxFaults
  BY FaultTypes DEF AskProbe, HandleProbe, ProbeAcquire, ProbeSelect, AcquireFails
<1> QED BY <1>1 DEF AskProbe, HandleProbe, ProbeAcquire, ProbeSelect, ClickTypeOK

\* The end of the process, in order or not.
LEMMA HaltTypes ==
    ASSUME ClickTypeOK, NEW how \in {"stopped", "crashed"}, Halt(how)
    PROVE  /\ server' = how /\ links' = links /\ cached' = cached
           /\ clicks' \subseteq Rows
           /\ task' \in [Requests -> {"none", "acquire", "insert", "ended"}]
BY ClickIsRow DEF Halt, ClickTypeOK

\* The end of the process keeps the types: what it aborts had an outcome anyway.
LEMMA ProcessTypes ==
    ASSUME ClickTypeOK, Signal \/ Stop \/ Crash
    PROVE  ClickTypeOK'
<1>1. CASE Signal
  BY <1>1 DEF Signal, ClickTypeOK
<1>2. CASE Stop
  BY <1>2, HaltTypes DEF Stop, ClickTypeOK
<1>3. CASE Crash
  <2>1. faults' \in 0..MaxFaults
    BY <1>3, FaultTypes DEF Crash
  <2>2. \A r \in Requests : [request[r] EXCEPT !.pc = "dropped"] \in RequestStates
    BY DEF ClickTypeOK, RequestStates
  <2>3. request' \in [Requests -> RequestStates]
    BY <1>3, <2>2 DEF Crash, ClickTypeOK
  <2>4. deletion' \in [Links -> DeletionStates]
    BY <1>3 DEF Crash, DeletionStates, ClickTypeOK
  <2> QED BY <1>3, <2>1, <2>3, <2>4, HaltTypes DEF Crash, ClickTypeOK
<1> QED BY <1>1, <1>2, <1>3

\* Every step keeps the types.
LEMMA ClickTypeStep == ClickTypeOK /\ [Next]_vars => ClickTypeOK'
<1> SUFFICES ASSUME ClickTypeOK, [Next]_vars PROVE ClickTypeOK'
  OBVIOUS
<1>1. CASE \E r \in Requests : Arrive(r) \/ Serve(r) \/ Drop(r) \/ Record(r)
  BY <1>1, ServeTypes, RecordTypes
<1>2. CASE \E l \in Links : AskDelete(l) \/ HandleDelete(l) \/ RedisForgets(l)
  BY <1>2, DeletionTypes
<1>3. CASE AskProbe \/ HandleProbe
  BY <1>3, ProbeTypes
<1>4. CASE Signal \/ Stop \/ Crash
  BY <1>4, ProcessTypes
<1>5. CASE UNCHANGED vars
  BY <1>5 DEF vars, ClickTypeOK
<1> QED BY <1>1, <1>2, <1>3, <1>4, <1>5 DEF Next

\* Every reachable state is well typed.
THEOREM ClickTypeCorrect == Spec => []ClickTypeOK
<1>1. Init => ClickTypeOK
  <2> SUFFICES ASSUME Init PROVE ClickTypeOK
    OBVIOUS
  <2>1. request \in [Requests -> RequestStates]
    BY DEF Init, RequestStates
  <2>2. faults \in 0..MaxFaults
    BY ClickLogAssumption DEF Init
  <2> QED BY <2>1, <2>2 DEF Init, ClickTypeOK, DeletionStates
<1> QED BY <1>1, ClickTypeStep, PTL DEF Spec

-----------------------------------------------------------------------------
(* The log *)

\* What makes ClicksFaithful inductive: a click task belongs to a request that
\* has been answered, which no step takes back.
TasksOfAnswers == \A r \in Requests : task[r] # "none" => request[r].pc \in Answered

ClickInv == ClickTypeOK /\ TasksOfAnswers /\ ClicksFaithful /\ ClicksReferToLinks

\* A request in flight has neither task nor click.
LEMMA InFlightUnlogged ==
    ASSUME ClickInv, NEW r \in Requests, request[r].pc \in InFlight \cup {"new"}
    PROVE  task[r] = "none" /\ \A click \in clicks : click.request # r
BY DEF ClickInv, TasksOfAnswers, ClicksFaithful, InFlight, Answered

\* A step that changes only one request in flight, and its task if it answers,
\* leaves the log as true as it was.
LEMMA RequestStepLogged ==
    ASSUME ClickInv, NEW r \in Requests, request[r].pc \in InFlight \cup {"new"},
           UNCHANGED <<links, clicks>>,
           \A q \in Requests \ {r} : request'[q] = request[q] /\ task'[q] = task[q],
           task'[r] = "none" \/ request'[r].pc \in Answered
    PROVE  TasksOfAnswers' /\ ClicksFaithful' /\ ClicksReferToLinks'
<1>1. TasksOfAnswers'
  BY DEF ClickInv, TasksOfAnswers
<1>2. ClicksFaithful'
  <2> SUFFICES ASSUME NEW click \in clicks
               PROVE  /\ request'[click.request].pc \in Answered
                      /\ click.link_id = request'[click.request].link_id
                      /\ task'[click.request] = "ended"
    BY DEF ClicksFaithful
  <2>1. click.request \in Requests \ {r}
    BY InFlightUnlogged DEF ClickInv, ClickTypeOK, Rows
  <2> QED BY <2>1 DEF ClickInv, ClicksFaithful
<1>3. ClicksReferToLinks'
  BY DEF ClickInv, ClicksReferToLinks
<1> QED BY <1>1, <1>2, <1>3

\* A request that goes on or ends keeps the log as it says.
LEMMA ServeLogged ==
    ASSUME ClickInv, NEW r \in Requests, Arrive(r) \/ Serve(r) \/ Drop(r)
    PROVE  TasksOfAnswers' /\ ClicksFaithful' /\ ClicksReferToLinks'
<1>1. request[r].pc \in InFlight \cup {"new"} /\ UNCHANGED <<links, clicks>>
  BY DEF Arrive, Serve, AskRedis, Acquire, Select, Drop, InFlight
<1>2. task[r] = "none"
  BY <1>1, InFlightUnlogged
<1>3. ASSUME NEW pc, Abort(r, pc) \/ (request' = [request EXCEPT ![r].pc = pc] /\ UNCHANGED task)
      PROVE  /\ \A q \in Requests \ {r} : request'[q] = request[q] /\ task'[q] = task[q]
             /\ task'[r] = "none"
  BY <1>2, <1>3 DEF Abort, ClickInv, ClickTypeOK
<1>4. ASSUME NEW link_id, Answer(r, link_id)
      PROVE  /\ \A q \in Requests \ {r} : request'[q] = request[q] /\ task'[q] = task[q]
             /\ request'[r].pc \in Answered
  <2>1. request[r] \in RequestStates /\ request \in [Requests -> RequestStates]
    BY DEF ClickInv, ClickTypeOK
  <2>2. request'[r].pc \in {"found", "not_found"}
    BY <1>4, <2>1 DEF Answer, RequestStates
  <2> QED BY <1>4, <2>1, <2>2 DEF Answer, ClickInv, ClickTypeOK, Answered
<1>5. (\E pc : Abort(r, pc) \/ (request' = [request EXCEPT ![r].pc = pc] /\ UNCHANGED task))
        \/ \E link_id : Answer(r, link_id)
  BY DEF Arrive, Serve, AskRedis, Acquire, Select, Drop
<1> QED BY <1>1, <1>3, <1>4, <1>5, RequestStepLogged

\* A row that is added is the click of a request that was answered and whose task
\* ends with it, and names a link there is, or none.
LEMMA InsertLogged ==
    ASSUME ClickInv, UNCHANGED links,
           NEW sent \in SUBSET {r \in Requests : task[r] = "insert" /\ Insertable(r)},
           clicks' = clicks \cup {Click(r) : r \in sent},
           \A r \in Requests : /\ request[r].pc \in Answered => request'[r] = request[r]
                               /\ task[r] = "ended" \/ r \in sent => task'[r] = "ended"
                               /\ task[r] = "none" => task'[r] = "none"
    PROVE  TasksOfAnswers' /\ ClicksFaithful' /\ ClicksReferToLinks'
<1>1. TasksOfAnswers'
  BY DEF ClickInv, TasksOfAnswers
<1>2. ASSUME NEW click \in clicks'
      PROVE  /\ click.request \in Requests
             /\ request[click.request].pc \in Answered
             /\ click.link_id = request[click.request].link_id
             /\ task'[click.request] = "ended"
             /\ click.link_id \in links \cup {NoLink}
  <2>1. CASE click \in clicks
    BY <2>1 DEF ClickInv, ClickTypeOK, Rows, ClicksFaithful, ClicksReferToLinks
  <2>2. CASE \E r \in sent : click = Click(r)
    <3>1. PICK r \in sent : click = Click(r)
      BY <2>2
    <3> QED BY <3>1 DEF Click, ClickInv, TasksOfAnswers, Insertable
  <2> QED BY <1>2, <2>1, <2>2
<1>3. ClicksFaithful'
  BY <1>2 DEF ClicksFaithful
<1>4. ClicksReferToLinks'
  BY <1>2 DEF ClicksReferToLinks
<1> QED BY <1>1, <1>3, <1>4

\* A click task keeps it: what it inserts is the answer of its request.
LEMMA RecordLogged ==
    ASSUME ClickInv, NEW r \in Requests, Record(r)
    PROVE  TasksOfAnswers' /\ ClicksFaithful' /\ ClicksReferToLinks'
<1>1. task[r] \in {"acquire", "insert"} /\ UNCHANGED <<links, request>>
  BY DEF Record, TaskAcquire, Insert
<1>2. \A q \in Requests \ {r} : task'[q] = task[q]
  BY DEF Record, TaskAcquire, Insert, ClickInv, ClickTypeOK
<1>3. CASE clicks' = clicks
  <2>1. {} \in SUBSET {q \in Requests : task[q] = "insert" /\ Insertable(q)}
    OBVIOUS
  <2>2. clicks' = clicks \cup {Click(q) : q \in {}}
    BY <1>3
  <2>3. \A q \in Requests : /\ task[q] = "ended" \/ q \in {} => task'[q] = "ended"
                            /\ task[q] = "none" => task'[q] = "none"
    BY <1>1, <1>2
  <2> QED BY <1>1, <2>1, <2>2, <2>3, InsertLogged
<1>4. CASE task[r] = "insert" /\ Insertable(r) /\ clicks' = clicks \cup {Click(r)}
  <2>1. task'[r] = "ended"
    BY <1>4 DEF Record, TaskAcquire, Insert, ClickInv, ClickTypeOK
  <2>2. {r} \in SUBSET {q \in Requests : task[q] = "insert" /\ Insertable(q)}
    BY <1>4
  <2>3. clicks' = clicks \cup {Click(q) : q \in {r}}
    BY <1>4
  <2> QED BY <1>1, <1>2, <2>1, <2>2, <2>3, InsertLogged
<1> QED BY <1>3, <1>4 DEF Record, TaskAcquire, Insert

\* The end of the process keeps it, also if an INSERT in flight still commits.
LEMMA ProcessLogged ==
    ASSUME ClickInv, Stop \/ Crash
    PROVE  TasksOfAnswers' /\ ClicksFaithful' /\ ClicksReferToLinks'
<1>1. PICK how : Halt(how)
  BY DEF Stop, Crash
<1>2. PICK sent \in SUBSET {r \in Requests : task[r] = "insert" /\ Insertable(r)} :
         clicks' = clicks \cup {Click(r) : r \in sent}
  BY <1>1 DEF Halt
<1>3. \A r \in Requests : task'[r] = IF task[r] = "none" THEN "none" ELSE "ended"
  BY <1>1 DEF Halt
<1>4. \A r \in Requests : request[r].pc \in Answered => request'[r] = request[r]
  BY DEF Stop, Crash, InFlight, Answered
<1>5. \A r \in sent : task[r] # "none"
  BY <1>2
<1> QED BY <1>1, <1>2, <1>3, <1>4, <1>5, InsertLogged DEF Halt

\* A deletion takes no link that a click names, and leaves the requests alone.
LEMMA DeletionLogged ==
    ASSUME ClickInv, UNCHANGED <<clicks, request, task>>,
           UNCHANGED links \/ \E l \in Links : links' = links \ {l} /\ ~Referenced(l)
    PROVE  TasksOfAnswers' /\ ClicksFaithful' /\ ClicksReferToLinks'
BY DEF ClickInv, TasksOfAnswers, ClicksFaithful, ClicksReferToLinks, Referenced

\* Every step keeps ClickInv.
LEMMA ClickInvStep == ClickInv /\ [Next]_vars => ClickInv'
<1> SUFFICES ASSUME ClickInv, [Next]_vars PROVE ClickInv'
  OBVIOUS
<1>0. ClickTypeOK'
  BY ClickTypeStep DEF ClickInv
<1>1. CASE \E r \in Requests : Arrive(r) \/ Serve(r) \/ Drop(r) \/ Record(r)
  BY <1>0, <1>1, ServeLogged, RecordLogged DEF ClickInv
<1>2. CASE \E l \in Links : AskDelete(l) \/ HandleDelete(l) \/ RedisForgets(l)
  <2>1. UNCHANGED <<clicks, request, task>>
    BY <1>2 DEF AskDelete, HandleDelete, DeleteAcquire, Delete, RedisForgets
  <2>2. UNCHANGED links \/ \E l \in Links : links' = links \ {l} /\ ~Referenced(l)
    BY <1>2 DEF AskDelete, HandleDelete, DeleteAcquire, Delete, Deleted, RedisForgets
  <2> QED BY <1>0, <2>1, <2>2, DeletionLogged DEF ClickInv
<1>3. CASE Stop \/ Crash
  BY <1>0, <1>3, ProcessLogged DEF ClickInv
<1>4. CASE AskProbe \/ HandleProbe \/ Signal \/ UNCHANGED vars
  <2>1. UNCHANGED <<links, clicks, request, task>>
    BY <1>4 DEF AskProbe, HandleProbe, ProbeAcquire, ProbeSelect, Signal, vars
  <2> QED BY <1>0, <2>1, DeletionLogged DEF ClickInv
<1> QED BY <1>1, <1>2, <1>3, <1>4 DEF Next

\* The invariant holds in every reachable state.
LEMMA ClickInvCorrect == Spec => []ClickInv
<1>1. Init => TasksOfAnswers /\ ClicksFaithful /\ ClicksReferToLinks
  BY DEF Init, TasksOfAnswers, ClicksFaithful, ClicksReferToLinks
<1>2. Init /\ ClickTypeOK => ClickInv
  BY <1>1 DEF ClickInv
<1> QED BY <1>2, ClickInvStep, ClickTypeCorrect, PTL DEF Spec

\* Every row of the log is the click of a request that was answered, with the
\* link it was answered with.
THEOREM ClicksFaithfulCorrect == Spec => []ClicksFaithful
<1>1. ClickInv => ClicksFaithful
  BY DEF ClickInv
<1> QED BY <1>1, ClickInvCorrect, PTL

\* No row of the log names a link that is gone.
THEOREM ClicksReferToLinksCorrect == Spec => []ClicksReferToLinks
<1>1. ClickInv => ClicksReferToLinks
  BY DEF ClickInv
<1> QED BY <1>1, ClickInvCorrect, PTL

-----------------------------------------------------------------------------
(* What is lost, and what is refused *)

\* A click task ends without its row only for one of the four reasons.
THEOREM LossExplainedCorrect == Spec => LossExplained
<1> DEFINE Explained(r) ==
       \/ faults' > faults
       \/ task[r] = "acquire" /\ ~Free
       \/ task[r] = "insert" /\ ~Insertable(r)
       \/ server' = "stopped"
<1>1. ASSUME ClickTypeOK, [Next]_vars, NEW r \in Requests,
             task[r] \in {"acquire", "insert"}, task'[r] = "ended", Click(r) \notin clicks'
      PROVE  Explained(r)
  <2>0. Fault => faults' > faults
    BY <1>1 DEF Fault, ClickTypeOK
  <2>1. CASE Record(r)
    <3>1. CASE TaskAcquire(r)
      BY <1>1, <2>0, <3>1 DEF TaskAcquire, AcquireFails, ClickTypeOK
    <3>2. CASE Insert(r)
      BY <1>1, <2>0, <3>2 DEF Insert
    <3> QED BY <2>1, <3>1, <3>2 DEF Record
  <2>2. ASSUME NEW q \in Requests, q # r, Record(q) PROVE FALSE
    BY <1>1, <2>2 DEF Record, TaskAcquire, Insert, ClickTypeOK
  <2>3. ASSUME NEW q \in Requests, Arrive(q) \/ Serve(q) \/ Drop(q) PROVE FALSE
    BY <1>1, <2>3 DEF Arrive, Serve, AskRedis, Acquire, Select, Drop, Abort, Answer, ClickTypeOK
  <2>4. CASE Stop
    BY <2>4 DEF Stop, Halt
  <2>5. CASE Crash
    BY <2>0, <2>5 DEF Crash
  <2>6. CASE UNCHANGED task
    BY <1>1, <2>6
  <2>7. \/ \E q \in Requests : Arrive(q) \/ Serve(q) \/ Drop(q) \/ Record(q)
        \/ Stop \/ Crash \/ UNCHANGED task
    BY <1>1 DEF Next, vars, AskDelete, HandleDelete, DeleteAcquire, Delete, RedisForgets,
                AskProbe, HandleProbe, ProbeAcquire, ProbeSelect, Signal
  <2> QED BY <2>1, <2>2, <2>3, <2>4, <2>5, <2>6, <2>7
<1>2. ClickTypeOK /\ [Next]_vars =>
         [\A r \in Requests :
             task[r] \in {"acquire", "insert"} /\ task'[r] = "ended" /\ Click(r) \notin clicks' =>
                Explained(r)]_vars
  BY <1>1
<1> QED BY <1>2, ClickTypeCorrect, PTL DEF Spec, LossExplained

-----------------------------------------------------------------------------
(* Who is turned away *)

\* Whoever is under way is one of finitely many.
LEMMA UsersFinite ==
    ASSUME IsFiniteSet(Requests), IsFiniteSet(Links)
    PROVE  IsFiniteSet(Users)
<1> DEFINE R == {r \in Requests : request[r].pc \in InFlight \/ task[r] \in {"acquire", "insert"}}
           L == {l \in Links : deletion[l] \in {"acquire", "delete"}}
           P == {probe} \cap {"acquire", "select"}
<1>1. IsFiniteSet(R) /\ IsFiniteSet(L) /\ IsFiniteSet(P)
  <2>1. R \in SUBSET Requests /\ L \in SUBSET Links /\ P \in SUBSET {probe}
    OBVIOUS
  <2> HIDE DEF R, L, P
  <2> QED BY <2>1, FS_Subset, FS_Singleton
<1>2. IsFiniteSet({"request"} \X R) /\ IsFiniteSet({"deletion"} \X L) /\ IsFiniteSet({"probe"} \X P)
  <2> HIDE DEF R, L, P
  <2> QED BY <1>1, FS_Product, FS_Singleton
<1>3. Users = ({"request"} \X R) \cup ({"deletion"} \X L) \cup ({"probe"} \X P)
  BY DEF Users
<1> HIDE DEF R, L, P
<1>4. IsFiniteSet(({"request"} \X R) \cup ({"deletion"} \X L))
  BY <1>2, FS_Union
<1> QED BY <1>2, <1>3, <1>4, FS_Union

\* A user without a connection, who does not get one, finds as many others under
\* way as there are connections: every holder is one, and no two are the same,
\* since the task of a request holds one only after the request has ended.
LEMMA FullIsCrowded ==
    ASSUME ClickInv, IsFiniteSet(Requests), IsFiniteSet(Links), ~Free, NEW user,
           \/ \E r \in Requests : user = <<"request", r>> /\ request[r].pc = "acquire"
           \/ \E l \in Links : user = <<"deletion", l>> /\ deletion[l] = "acquire"
           \/ user = <<"probe", "acquire">> /\ probe = "acquire"
    PROVE  Crowded(user)
<1> DEFINE Others == Users \ {user}
           f == [h \in Holders |-> IF h[1] = "task" THEN <<"request", h[2]>> ELSE h]
<1>1. \A r \in Requests : task[r] # "none" => request[r].pc \notin InFlight
  BY DEF ClickInv, TasksOfAnswers, Answered, InFlight
<1>2. ASSUME NEW h \in Holders
      PROVE  /\ f[h] \in Others
             /\ \/ h[1] = "request" /\ h = <<"request", h[2]>> /\ f[h] = h
                   /\ h[2] \in Requests /\ request[h[2]].pc = "select"
                \/ h[1] = "task" /\ h = <<"task", h[2]>> /\ f[h] = <<"request", h[2]>>
                   /\ h[2] \in Requests /\ task[h[2]] = "insert"
                \/ h[1] \in {"deletion", "probe"} /\ f[h] = h
  <2>1. CASE \E r \in Requests : h = <<"request", r>> /\ request[r].pc = "select"
    BY <2>1 DEF Users, InFlight
  <2>2. CASE \E r \in Requests : h = <<"task", r>> /\ task[r] = "insert"
    <3>1. PICK r \in Requests : h = <<"task", r>> /\ task[r] = "insert"
      BY <2>2
    <3>2. f[h] = <<"request", r>>
      BY <3>1
    <3>3. <<"request", r>> \in Users
      BY <3>1 DEF Users
    <3>4. <<"request", r>> # user
      BY <3>1, <1>1 DEF InFlight
    <3> QED BY <3>1, <3>2, <3>3, <3>4
  <2>3. CASE \E l \in Links : h = <<"deletion", l>> /\ deletion[l] = "delete"
    BY <2>3 DEF Users
  <2>4. CASE h = <<"probe", "select">> /\ probe = "select"
    BY <2>4 DEF Users
  <2> QED BY <1>2, <2>1, <2>2, <2>3, <2>4 DEF Holders
<1> HIDE DEF Others
<1>3. \A g, h \in Holders : f[g] = f[h] => g = h
  <2> SUFFICES ASSUME NEW g \in Holders, NEW h \in Holders, f[g] = f[h] PROVE g = h
    OBVIOUS
  <2> HIDE DEF f
  <2> QED BY <1>1, <1>2 DEF InFlight
<1>4. f \in Injection(Holders, Others)
  BY <1>2, <1>3 DEF Injection, IsInjective
<1>5. IsFiniteSet(Others)
  BY UsersFinite, FS_RemoveElement DEF Others
<1>6. IsFiniteSet(Holders) /\ Cardinality(Holders) <= Cardinality(Others)
  <2> HIDE DEF f
  <2> QED BY <1>4, <1>5, FS_Injection
<1>7. Cardinality(Holders) \in Nat /\ Cardinality(Others) \in Nat
  BY <1>5, <1>6, FS_CardinalityType
<1> QED BY <1>6, <1>7, ClickLogAssumption DEF Free, Crowded, Others

\* A request, a deletion or a probe that nothing fails is turned away only while
\* as many others are under way as the pool has connections.
THEOREM OneConnectionEachCorrect ==
    ASSUME IsFiniteSet(Requests), IsFiniteSet(Links)
    PROVE  Spec => OneConnectionEach
<1> DEFINE TurnedAway ==
       /\ \A r \in Requests :
             request[r].pc = "acquire" /\ request'[r].pc = "server_error" =>
                Crowded(<<"request", r>>)
       /\ \A l \in Links :
             deletion[l] = "acquire" /\ deletion'[l] = "server_error" =>
                Crowded(<<"deletion", l>>)
       /\ probe = "acquire" /\ probe' = "unavailable" => Crowded(<<"probe", "acquire">>)
<1>1. ASSUME ClickInv, [Next]_vars, faults' = faults
      PROVE  TurnedAway
  <2>1. ~Fault /\ ~Crash
    BY <1>1 DEF Fault, Crash, ClickInv, ClickTypeOK
  <2>2. ASSUME NEW r \in Requests, request[r].pc = "acquire", request'[r].pc = "server_error"
        PROVE  Crowded(<<"request", r>>)
    <3>1. Acquire(r) /\ AcquireFails
      <4>1. request' # request
        BY <2>2
      <4>2. \E q \in Requests : AskRedis(q) \/ Acquire(q) \/ Select(q) \/ Arrive(q)
        BY <1>1, <2>1, <4>1 DEF Next, vars, Serve, Drop, Record, TaskAcquire, Insert, AskDelete,
              HandleDelete, DeleteAcquire, Delete, RedisForgets, AskProbe, HandleProbe,
              ProbeAcquire, ProbeSelect, Signal, Stop
      <4>3. ASSUME NEW q \in Requests, q # r, AskRedis(q) \/ Acquire(q) \/ Select(q) \/ Arrive(q)
            PROVE  FALSE
        BY <1>1, <2>2, <4>3 DEF AskRedis, Acquire, Select, Arrive, Abort, Answer, ClickInv,
              ClickTypeOK
      <4>4. Acquire(r)
        BY <2>2, <4>2, <4>3 DEF AskRedis, Select, Arrive
      <4>5. request[r] \in RequestStates /\ request \in [Requests -> RequestStates]
        BY <1>1 DEF ClickInv, ClickTypeOK
      <4>6. ~Abort(r, "select")
        BY <2>2, <4>5 DEF Abort, RequestStates
      <4> QED BY <4>4, <4>6 DEF Acquire
    <3> QED BY <1>1, <2>1, <2>2, <3>1, FullIsCrowded DEF AcquireFails
  <2>3. ASSUME NEW l \in Links, deletion[l] = "acquire", deletion'[l] = "server_error"
        PROVE  Crowded(<<"deletion", l>>)
    <3>1. DeleteAcquire(l) /\ AcquireFails
      <4>1. deletion' # deletion
        BY <2>3
      <4>2. \E k \in Links : AskDelete(k) \/ DeleteAcquire(k) \/ Delete(k)
        BY <1>1, <2>1, <4>1 DEF Next, vars, Arrive, Serve, AskRedis, Acquire, Select, Drop,
              Record, TaskAcquire, Insert, HandleDelete, RedisForgets, AskProbe, HandleProbe,
              ProbeAcquire, ProbeSelect, Signal, Stop
      <4>3. ASSUME NEW k \in Links, k # l, AskDelete(k) \/ DeleteAcquire(k) \/ Delete(k)
            PROVE  FALSE
        BY <1>1, <2>3, <4>3 DEF AskDelete, DeleteAcquire, Delete, ClickInv, ClickTypeOK
      <4>4. DeleteAcquire(l)
        BY <2>3, <4>2, <4>3 DEF AskDelete, Delete
      <4> QED BY <1>1, <2>3, <4>4 DEF DeleteAcquire, ClickInv, ClickTypeOK
    <3> QED BY <1>1, <2>1, <2>3, <3>1, FullIsCrowded DEF AcquireFails
  <2>4. ASSUME probe = "acquire", probe' = "unavailable"
        PROVE  Crowded(<<"probe", "acquire">>)
    <3>1. AcquireFails
      BY <1>1, <2>1, <2>4 DEF Next, vars, Arrive, Serve, AskRedis, Acquire, Select, Drop,
            Record, TaskAcquire, Insert, AskDelete, HandleDelete, DeleteAcquire, Delete,
            RedisForgets, AskProbe, HandleProbe, ProbeAcquire, ProbeSelect, Signal, Stop
    <3> QED BY <1>1, <2>1, <2>4, <3>1, FullIsCrowded DEF AcquireFails
  <2> QED BY <2>2, <2>3, <2>4
<1>2. ClickInv /\ [Next]_vars => [faults' = faults => TurnedAway]_vars
  BY <1>1
<1> QED BY <1>2, ClickInvCorrect, PTL DEF Spec, OneConnectionEach

-----------------------------------------------------------------------------
(* Which deletions the database refuses *)

\* admin.rs:195-204, 0002_create_link_clicks.sql:6: what is left of DeletesSucceed.
\* A deletion that nothing goes wrong with is refused only for a link that an
\* answer has led a visitor to: a link nobody has found can always be deleted.
THEOREM RefusedOnlyIfVisited ==
    Spec => [][\A l \in Links :
                  Delete(l) /\ faults' = faults /\ deletion'[l] \notin {"ok", "not_found"} =>
                     \E r \in Requests : request[r].pc \in Answered /\ request[r].link_id = l]_vars
<1> DEFINE Visited(l) == \E r \in Requests : request[r].pc \in Answered /\ request[r].link_id = l
<1>1. ASSUME ClickInv, NEW l \in Links,
             Delete(l), faults' = faults, deletion'[l] \notin {"ok", "not_found"}
      PROVE  Visited(l)
  <2>1. Referenced(l)
    <3>1. ~ Fault
      BY <1>1 DEF Fault, ClickInv, ClickTypeOK
    <3>2. deletion \in [Links -> DeletionStates]
      BY <1>1 DEF ClickInv, ClickTypeOK
    <3> QED BY <1>1, <3>1, <3>2 DEF Delete
  <2>2. PICK click \in clicks : click.link_id = l
    BY <2>1 DEF Referenced
  <2>3. click.request \in Requests
    BY <1>1, <2>2 DEF ClickInv, ClickTypeOK, Rows
  <2>4. /\ request[click.request].pc \in Answered
        /\ request[click.request].link_id = l
    BY <1>1, <2>2 DEF ClickInv, ClicksFaithful
  <2> QED BY <2>3, <2>4
<1>2. ClickInv /\ [Next]_vars =>
         [\A l \in Links :
             Delete(l) /\ faults' = faults /\ deletion'[l] \notin {"ok", "not_found"} =>
                Visited(l)]_vars
  BY <1>1
<1> QED BY <1>2, ClickInvCorrect, PTL DEF Spec

=============================================================================
