---------------------------- MODULE LinkStaleness ----------------------------
(***************************************************************************)
(* How long Redis may contradict the links table.                          *)
(*                                                                         *)
(* LinkCache with a history variable: quiet[p] is the time since anything  *)
(* last happened that can make the keys of p wrong, a commit to its row or *)
(* a fill on its way that a commit has overtaken.  It never influences a   *)
(* step and it stops counting at Horizon, the longer of the two TTLs.      *)
(***************************************************************************)
EXTENDS LinkCache

VARIABLE quiet

Horizon == IF LinkTtl > MissTtl THEN LinkTtl ELSE MissTtl

TimedTypeOK == TypeOK /\ quiet \in [Paths -> 0..Horizon]

Disturbed(p) == db'[p] # db[p] \/ OvertakenFill(p) \/ OvertakenFill(p)'

\* A second passes, or not, in this step.
CountQuiet(elapsed) ==
    quiet' = [p \in Paths |->
                 IF Disturbed(p) THEN 0
                 ELSE IF quiet[p] + elapsed > Horizon THEN Horizon
                 ELSE quiet[p] + elapsed]

TimedInit == Init /\ quiet = [p \in Paths |-> Horizon]

TimedNext ==
    \/ Tick /\ CountQuiet(1)
    \/ (\E p \in Paths : RedisForgets(p)) /\ CountQuiet(0)
    \/ (\E v \in Visitors : VisitorStep(v)) /\ CountQuiet(0)
    \/ (\E a \in Admins : AdminStep(a)) /\ CountQuiet(0)

timedVars == <<vars, quiet>>

TimedSpec == TimedInit /\ [][TimedNext]_timedVars

TimedFairSpec == TimedSpec /\ Fairness

-----------------------------------------------------------------------------
(* Properties *)

\* The age of a wrong key and the time it has left never exceed its TTL.  This
\* is the inductive reason for StalenessBounded.
StaleKeysAge ==
    \A p \in Paths :
       /\ StaleLink(p) => linkKey[p].ttl + quiet[p] <= LinkTtl
       /\ StaleMiss(p) => missKey[p] + quiet[p] <= MissTtl

\* cache.rs:79-116, README.md:330-337: even when every DEL is lost and every
\* fill races a write, one TTL after the path was last disturbed its keys agree
\* with the table: neither reads nor markers prolong the life of a wrong key.
StalenessBounded ==
    \A p \in Paths :
       /\ quiet[p] >= LinkTtl => ~StaleLink(p)
       /\ quiet[p] >= MissTtl => ~StaleMiss(p)

\* README.md:333-334 "Inactive/expired links are cached as a miss, so disabling a
\* link takes effect within NEGATIVE_CACHE_TTL_SECS": that long after the last
\* disturbance, and with every write answered, a disabled link is no longer
\* served from Redis.
DisablingTakesEffect ==
    \A p \in Paths :
       /\ quiet[p] >= MissTtl
       /\ ~db[p].is_active
       /\ \A a \in Admins : admin[a].pc = "idle"
       => ~(linkKey[p].ttl > 0 /\ IsResolvable(linkKey[p].row, clock))

=============================================================================
