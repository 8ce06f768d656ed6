--------------------------- MODULE IamTokenProofs ---------------------------
(* What TLAPS proves of IamToken, for every interval, lifetime and token TTL *)
(* that startup accepts.                                                     *)
EXTENDS IamToken, TLAPS

\* The time that k intervals take is a number, and one more adds an interval.
LEMMA Intervals ==
    ASSUME NEW k \in Nat
    PROVE  /\ k * RefreshInterval \in Nat
           /\ (k + 1) * RefreshInterval = k * RefreshInterval + RefreshInterval
BY IamConfigAssumption

\* A connection ages with its token, or is past its lifetime and stays as it is.
LEMMA OlderFields ==
    ASSUME NEW k \in Connections
    PROVE  /\ Older(k) \in Connections
           /\ Older(k).open = k.open
           /\ Older(k).token - Older(k).age = k.token - k.age
<1> USE IamConfigAssumption
<1>1. k.open \in BOOLEAN /\ k.age \in 0..MaxLifetime + 1 /\ k.token \in Nat
  BY DEF Connections
<1>2. CASE k.open /\ k.age <= MaxLifetime
  <2>1. Older(k) = [open |-> k.open, age |-> k.age + 1, token |-> k.token + 1]
    BY <1>2 DEF Older, Connections
  <2>2. k.age + 1 \in 0..MaxLifetime + 1 /\ k.token + 1 \in Nat
    BY <1>1, <1>2
  <2>3. Older(k) \in Connections
    BY <1>1, <2>1, <2>2 DEF Connections
  <2>4. Older(k).open = k.open /\ Older(k).age = k.age + 1 /\ Older(k).token = k.token + 1
    BY <2>1
  <2> QED BY <1>1, <2>3, <2>4
<1>3. CASE ~(k.open /\ k.age <= MaxLifetime)
  BY <1>1, <1>3 DEF Older
<1> QED BY <1>2, <1>3

\* Every reachable state is well typed.
THEOREM IamTypeCorrect == Spec => []IamTypeOK
<1> USE IamConfigAssumption, IamEnvironmentAssumption
<1>1. Init => IamTypeOK
  BY DEF Init, IamTypeOK, Connections, Closed
<1>2. IamTypeOK /\ [Next]_vars => IamTypeOK'
  <2> SUFFICES ASSUME IamTypeOK, [Next]_vars PROVE IamTypeOK'
    OBVIOUS
  <2>1. CASE Tick
    BY <2>1, OlderFields DEF Tick, IamTypeOK
  <2>2. CASE Refresher
    BY <2>2 DEF Refresher, StartRefresher, IntervalTick, RefreshOk, RefreshFailed, IamTypeOK
  <2>3. ASSUME NEW c \in Conns, Open(c) \/ Close(c) PROVE IamTypeOK'
    <3>1. Closed \in Connections /\ [open |-> TRUE, age |-> 0, token |-> tokenAge] \in Connections
      BY DEF Closed, Connections, IamTypeOK
    <3> QED BY <2>3, <3>1 DEF Open, Close, IamTypeOK
  <2>4. CASE UNCHANGED vars
    BY <2>4 DEF vars, IamTypeOK
  <2> QED BY <2>1, <2>2, <2>3, <2>4 DEF Next
<1> QED BY <1>1, <1>2, PTL DEF Spec

-----------------------------------------------------------------------------
(* The age of the token *)

\* Between two ticks of the interval the token is as old as the intervals that
\* went by since it was minted, the time since the last tick, and the slack of
\* the startup, whose token is older than the interval.
AgeInv ==
    /\ phase = "connecting" => tokenAge <= since /\ since <= MaxConnect
    /\ phase = "waiting" =>
          /\ since <= RefreshInterval
          /\ tokenAge <= fails * RefreshInterval + MaxConnect + since
    /\ phase = "minting" =>
          /\ since <= MaxMint
          /\ tokenAge <= (fails + 1) * RefreshInterval + MaxConnect + since

\* Every step keeps AgeInv.
LEMMA AgeInvStep == IamTypeOK /\ AgeInv /\ [Next]_vars => AgeInv'
<1> SUFFICES ASSUME IamTypeOK, AgeInv, [Next]_vars PROVE AgeInv'
  OBVIOUS
<1> USE IamConfigAssumption, IamEnvironmentAssumption
<1>0. /\ fails \in Nat /\ tokenAge \in Nat /\ since \in Nat
      /\ fails * RefreshInterval \in Nat
      /\ (fails + 1) * RefreshInterval = fails * RefreshInterval + RefreshInterval
  BY Intervals DEF IamTypeOK
<1>1. CASE Tick
  BY <1>0, <1>1 DEF Tick, Due, AgeInv, IamTypeOK
<1>2. CASE StartRefresher
  BY <1>0, <1>2 DEF StartRefresher, AgeInv
<1>3. CASE IntervalTick
  BY <1>0, <1>3 DEF IntervalTick, AgeInv
<1>4. CASE RefreshOk
  BY <1>0, <1>4 DEF RefreshOk, AgeInv
<1>5. CASE RefreshFailed
  BY <1>0, <1>5 DEF RefreshFailed, AgeInv
<1>6. CASE UNCHANGED <<tokenAge, phase, since, fails>>
  BY <1>6 DEF AgeInv
<1> QED BY <1>1, <1>2, <1>3, <1>4, <1>5, <1>6 DEF Next, Refresher, Open, Close, vars

\* AgeInv holds in every reachable state.
LEMMA AgeInvCorrect == Spec => []AgeInv
<1>1. Init => AgeInv
  BY IamEnvironmentAssumption DEF Init, AgeInv
<1> QED BY <1>1, AgeInvStep, IamTypeCorrect, PTL DEF Spec

\* The token is never older than the failed refreshes, one more interval and
\* the slowest calls explain.
THEOREM TokenAgeBoundedCorrect == Spec => []TokenAgeBounded
<1>1. IamTypeOK /\ AgeInv => TokenAgeBounded
  <2> SUFFICES ASSUME IamTypeOK, AgeInv PROVE TokenAgeBounded
    OBVIOUS
  <2>1. /\ fails \in Nat /\ tokenAge \in Nat /\ since \in Nat
        /\ fails * RefreshInterval \in Nat
        /\ (fails + 1) * RefreshInterval = fails * RefreshInterval + RefreshInterval
    BY Intervals DEF IamTypeOK
  <2> QED BY <2>1, IamConfigAssumption, IamEnvironmentAssumption
             DEF AgeInv, TokenAgeBounded, IamTypeOK
<1> QED BY <1>1, IamTypeCorrect, AgeInvCorrect, PTL

\* While no refresh fails and the interval leaves room for the slowest calls, a
\* new connection always logs in with a valid token.
THEOREM NewConnectionsAuthenticateCorrect == Spec => []NewConnectionsAuthenticate
<1>1. IamTypeOK /\ TokenAgeBounded => NewConnectionsAuthenticate
  BY IamConfigAssumption, IamEnvironmentAssumption
     DEF TokenAgeBounded, NewConnectionsAuthenticate, IamTypeOK
<1> QED BY <1>1, IamTypeCorrect, TokenAgeBoundedCorrect, PTL

-----------------------------------------------------------------------------
(* The token of a connection *)

\* A connection's token is older than the connection by less than TokenTtl.
LoginInv == \A c \in Conns : conn[c].open => conn[c].token < TokenTtl + conn[c].age

\* A connection that is handed out logged in less than TokenTtl + MaxLifetime
\* after its token was minted.
THEOREM UsableTokenBoundedCorrect == Spec => []UsableTokenBounded
<1> USE IamConfigAssumption
<1>1. Init => LoginInv
  BY DEF Init, LoginInv, Closed
<1>2. IamTypeOK /\ LoginInv /\ [Next]_vars => LoginInv'
  <2> SUFFICES ASSUME IamTypeOK, LoginInv, [Next]_vars, NEW c \in Conns
               PROVE  conn'[c].open => conn'[c].token < TokenTtl + conn'[c].age
    BY DEF LoginInv
  <2>0. conn[c] \in Connections /\ (conn[c].open => conn[c].token < TokenTtl + conn[c].age)
    BY DEF IamTypeOK, LoginInv
  <2>1. CASE Tick
    <3>1. conn'[c] = Older(conn[c])
      BY <2>1 DEF Tick
    <3>2. /\ conn[c].age \in Nat /\ conn[c].token \in Nat
          /\ conn'[c].age \in Nat /\ conn'[c].token \in Nat
      BY <2>0, <3>1, OlderFields DEF Connections
    <3> QED BY <2>0, <3>1, <3>2, OlderFields
  <2>2. ASSUME NEW d \in Conns, Open(d) \/ Close(d)
        PROVE  conn'[c].open => conn'[c].token < TokenTtl + conn'[c].age
    BY <2>0, <2>2 DEF Open, Close, Closed, IamTypeOK
  <2>3. CASE UNCHANGED conn
    BY <2>0, <2>3
  <2> QED BY <2>1, <2>2, <2>3
             DEF Next, Refresher, StartRefresher, IntervalTick, RefreshOk, RefreshFailed, vars
<1>3. IamTypeOK /\ LoginInv => UsableTokenBounded
  BY DEF IamTypeOK, Connections, LoginInv, Usable, UsableTokenBounded
<1> QED BY <1>1, <1>2, <1>3, IamTypeCorrect, PTL DEF Spec

-----------------------------------------------------------------------------
(* What makes connections rotate in time *)

\* The oldest the token of the pool becomes.
OldestToken == (MaxFails + 1) * RefreshInterval + MaxConnect + MaxMint

\* A connection's token is older than the connection by no more than that.
RotationInv ==
    \A c \in Conns : conn[c].open => conn[c].token <= OldestToken + conn[c].age

\* The bound on the age of the token, without the failures so far.
LEMMA OldestTokenBounds ==
    ASSUME IamTypeOK, TokenAgeBounded
    PROVE  OldestToken \in Nat /\ tokenAge <= OldestToken
<1> USE IamConfigAssumption, IamEnvironmentAssumption
<1>1. /\ fails \in Nat /\ fails <= MaxFails /\ tokenAge \in Nat
      /\ MaxFails \in Nat /\ RefreshInterval \in Nat /\ MaxConnect \in Nat /\ MaxMint \in Nat
  BY DEF IamTypeOK
<1>2. \A k \in Nat, m \in Nat : k * m \in Nat
  OBVIOUS
<1>3. PICK d \in Nat : MaxFails + 1 = fails + 1 + d
  <2>1. MaxFails - fails \in Nat /\ MaxFails + 1 = fails + 1 + (MaxFails - fails)
    BY <1>1
  <2> QED BY <2>1
<1>4. (MaxFails + 1) * RefreshInterval = (fails + 1) * RefreshInterval + d * RefreshInterval
  BY <1>1, <1>3
<1>5. /\ (fails + 1) * RefreshInterval \in Nat /\ d * RefreshInterval \in Nat
      /\ (MaxFails + 1) * RefreshInterval \in Nat
  BY <1>1, <1>2
<1> QED BY <1>1, <1>4, <1>5 DEF TokenAgeBounded, OldestToken

\* db.rs:79-81 "connections rotate while their auth token is still valid - is
\* enforced in config validation": this is the validation that would enforce it.
\* If a lifetime fits into what the oldest token of the pool has left, then no
\* connection is handed out whose own token has run out.
THEOREM ConnectionsRotateWithMargin ==
    ASSUME OldestToken + MaxLifetime < TokenTtl
    PROVE  Spec => []ConnectionsRotateWhileTokenValid
<1> USE IamConfigAssumption
<1>1. Init => RotationInv
  BY DEF Init, RotationInv, Closed
<1>2. IamTypeOK /\ TokenAgeBounded /\ RotationInv /\ [Next]_vars => RotationInv'
  <2> SUFFICES ASSUME IamTypeOK, TokenAgeBounded, RotationInv, [Next]_vars, NEW c \in Conns
               PROVE  conn'[c].open => conn'[c].token <= OldestToken + conn'[c].age
    BY DEF RotationInv
  <2>0. /\ conn[c] \in Connections
        /\ conn[c].open => conn[c].token <= OldestToken + conn[c].age
        /\ OldestToken \in Nat /\ tokenAge <= OldestToken /\ tokenAge \in Nat
    BY OldestTokenBounds DEF IamTypeOK, RotationInv
  <2>1. CASE Tick
    <3>1. conn'[c] = Older(conn[c])
      BY <2>1 DEF Tick
    <3>2. /\ conn[c].age \in Nat /\ conn[c].token \in Nat
          /\ conn'[c].age \in Nat /\ conn'[c].token \in Nat
      BY <2>0, <3>1, OlderFields DEF Connections
    <3> QED BY <2>0, <3>1, <3>2, OlderFields
  <2>2. ASSUME NEW d \in Conns, Open(d) \/ Close(d)
        PROVE  conn'[c].open => conn'[c].token <= OldestToken + conn'[c].age
    BY <2>0, <2>2 DEF Open, Close, Closed, IamTypeOK
  <2>3. CASE UNCHANGED conn
    BY <2>0, <2>3
  <2> QED BY <2>1, <2>2, <2>3
             DEF Next, Refresher, StartRefresher, IntervalTick, RefreshOk, RefreshFailed, vars
<1>3. IamTypeOK /\ TokenAgeBounded /\ RotationInv => ConnectionsRotateWhileTokenValid
  <2> SUFFICES ASSUME IamTypeOK, TokenAgeBounded, RotationInv, NEW c \in Conns, Usable(c)
               PROVE  conn[c].token < TokenTtl
    BY DEF ConnectionsRotateWhileTokenValid
  <2>1. /\ conn[c] \in Connections /\ conn[c].open /\ conn[c].age <= MaxLifetime
        /\ conn[c].token <= OldestToken + conn[c].age /\ OldestToken \in Nat
    BY OldestTokenBounds DEF IamTypeOK, RotationInv, Usable
  <2>2. conn[c].age \in Nat /\ conn[c].token \in Nat
    BY <2>1 DEF Connections
  <2> QED BY <2>1, <2>2
<1> QED BY <1>1, <1>2, <1>3, IamTypeCorrect, TokenAgeBoundedCorrect, PTL DEF Spec

=============================================================================
