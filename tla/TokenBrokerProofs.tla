------------------------- MODULE TokenBrokerProofs -------------------------
(***************************************************************************)
(* The broker keeps its types, refreshes alone, and presents a spent token *)
(* only after a stale read or when the replacement was lost: for any       *)
(* number of callers and of credentials the provider issues.               *)
(***************************************************************************)
EXTENDS TokenBroker, TLAPS

(* Types, and the refresh that is shared. They are shown together: that a   *)
(* lost token is one of the provider's depends on who may be refreshing.    *)

Issued == 1..minted
Credentials == Issued \cup {NoCredential}

\* What the provider and the file have is issued.
ProviderInv ==
    /\ minted \in 0..MaxGrants
    /\ live \subseteq Issued /\ spent \subseteq Issued /\ aged \subseteq Issued
    /\ file \in Credentials

LoginInv ==
    /\ loginAt \in {"off", "polling", "granted", "writing"}
    /\ loginGot \in Credentials
    /\ loginAt \in {"granted", "writing"} => loginGot \in Issued

TaskTypes ==
    /\ process \in {"down", "starting", "serving"}
    /\ at \in [Tasks -> Places]
    /\ held \in [Tasks -> Credentials]
    /\ awaits \in [Tasks -> Tasks \cup {Nobody}]
    /\ inFlight \in Tasks \cup {Nobody}
    /\ refreshing \in [Tasks -> {"no", "asked", "granted", "writing", "done", "failed"}]
    /\ got \in [Tasks -> Credentials]
    /\ lost \subseteq Issued

\* A task that refreshes waits for it, with an issued token; a process that is
\* down has no task.
Refreshers ==
    /\ \A t \in Tasks : refreshing[t] # "no" => at[t] = "waiting" /\ held[t] \in Issued
    /\ process = "down" => \A t \in Tasks : at[t] \in Ended

TaskInv == TaskTypes /\ Refreshers /\ RefreshesAlone

BaseInv == ProviderInv /\ LoginInv /\ TaskInv

\* What was issued stays issued.
LEMMA MoreIssued ==
    ASSUME ProviderInv, minted' \in 0..MaxGrants, minted' >= minted
    PROVE  Issued \subseteq Issued' /\ Credentials \subseteq Credentials'
BY BrokerAssumption DEF BrokerAssumption, ProviderInv, Issued, Credentials

\* The process can end at any statement: no task and no refresh is left.
LEMMA AfterExit ==
    ASSUME BaseInv, minted' \in 0..MaxGrants, minted' >= minted,
           NEW gone \in SUBSET Issued, Exit(gone)
    PROVE  TaskInv'
<1> USE DEF BaseInv, TaskInv
<1>1. Issued \subseteq Issued' /\ Credentials \subseteq Credentials'
  BY MoreIssued
<1>2. /\ process' = "down" /\ inFlight' = Nobody
      /\ at' \in [Tasks -> Ended]
      /\ held' = [t \in Tasks |-> NoCredential]
      /\ awaits' = [t \in Tasks |-> Nobody]
      /\ refreshing' = [t \in Tasks |-> "no"]
      /\ got' = [t \in Tasks |-> NoCredential]
  BY DEF Exit, Ended
<1>3. lost' \subseteq Issued'
  BY <1>1 DEF Exit, TaskTypes, Refreshers
<1>4. NoCredential \in Credentials'
  BY DEF Credentials
<1>5. TaskTypes'
  BY <1>2, <1>3, <1>4 DEF TaskTypes, Places
<1>6. \A t \in Tasks : at'[t] \in Ended /\ at'[t] # "waiting" /\ refreshing'[t] = "no"
  BY <1>2 DEF Ended
<1>7. QED
  BY <1>5, <1>6 DEF Refreshers, RefreshesAlone

\* Tasks that stay as they are keep their types while grants are issued.
LEMMA TasksStay ==
    ASSUME BaseInv, minted' \in 0..MaxGrants, minted' >= minted,
           UNCHANGED <<process, tasks>>
    PROVE  TaskInv'
<1>1. Issued \subseteq Issued' /\ Credentials \subseteq Credentials'
  BY MoreIssued DEF BaseInv
<1>2. TaskTypes'
  BY <1>1 DEF BaseInv, TaskInv, TaskTypes, tasks
<1>3. QED
  BY <1>1, <1>2 DEF BaseInv, TaskInv, Refreshers, RefreshesAlone, tasks

\* Initially nothing has been issued ...
LEMMA InitBase == BrokerInit => BaseInv
BY BrokerAssumption
   DEF BrokerAssumption, BrokerInit, BaseInv, ProviderInv, LoginInv, TaskInv,
       TaskTypes, Refreshers, RefreshesAlone, Issued, Credentials, Places, Ended

\* ... an exchange issues one more ...
LEMMA ExchangeIssues ==
    ASSUME BaseInv, NEW t \in Tasks, Exchange(t)
    PROVE  /\ ProviderInv' /\ LoginInv'
           /\ minted' \in 0..MaxGrants /\ minted' = minted + 1
           /\ held[t] \in Issued
<1>1. /\ minted \in 0..MaxGrants /\ MaxGrants \in Nat /\ minted < MaxGrants
      /\ minted' = minted + 1 /\ held[t] \in Issued
  BY BrokerAssumption DEF BrokerAssumption, Exchange, BaseInv, ProviderInv
<1>2. /\ minted' \in 0..MaxGrants /\ minted' >= minted /\ minted + 1 \in Issued'
  BY <1>1 DEF Issued
<1>3. Issued \subseteq Issued' /\ Credentials \subseteq Credentials'
  BY <1>2, MoreIssued DEF BaseInv
<1>4. ProviderInv'
  BY <1>1, <1>2, <1>3 DEF Exchange, BaseInv, ProviderInv
<1>5. LoginInv'
  BY <1>3 DEF Exchange, BaseInv, LoginInv, login
<1>6. QED
  BY <1>1, <1>2, <1>4, <1>5

\* ... and every step of a task keeps what is known of it.
LEMMA TaskKeepsBase ==
    ASSUME BaseInv, NEW t \in Tasks, TaskStep(t)
    PROVE  BaseInv'
<1>a. minted \in 0..MaxGrants /\ minted >= minted /\ MaxGrants \in Nat
  BY BrokerAssumption DEF BrokerAssumption, BaseInv, ProviderInv
<1>b. ASSUME UNCHANGED <<provider, file, login>> PROVE ProviderInv' /\ LoginInv'
  BY <1>b DEF BaseInv, ProviderInv, LoginInv, provider, login, Issued, Credentials
<1>c. ASSUME UNCHANGED provider PROVE Issued' = Issued /\ Credentials' = Credentials
  BY <1>c DEF provider, Issued, Credentials
<1>1. CASE LoadState(t)
  <2>1. TaskInv'
    BY <1>1, <1>c DEF LoadState, BaseInv, ProviderInv, TaskInv, TaskTypes, Refreshers,
                RefreshesAlone, Places, Ended
  <2>2. QED
    BY <1>1, <1>b, <2>1 DEF LoadState, BaseInv
<1>2. CASE NotSignedIn(t)
  <2>1. minted' = minted
    BY <1>2 DEF NotSignedIn, provider
  <2>2. TaskInv'
    BY <1>2, <1>a, <2>1, AfterExit DEF NotSignedIn
  <2>3. QED
    BY <1>2, <1>b, <2>2 DEF NotSignedIn, BaseInv
<1>3. CASE StillFresh(t)
  <2>1. TaskInv'
    BY <1>3, <1>c, BrokerAssumption
       DEF BrokerAssumption, StillFresh, With, Listening, BaseInv, TaskInv, TaskTypes, Refreshers,
           RefreshesAlone, Places, Ended, Credentials
  <2>2. QED
    BY <1>3, <1>b, <2>1 DEF StillFresh, BaseInv
<1>4. CASE AwaitRefresh(t)
  <2>1. held[t] \in Issued
    BY <1>4 DEF AwaitRefresh, BaseInv, ProviderInv
  <2>2. TaskTypes'
    BY <1>4, <1>c DEF AwaitRefresh, BaseInv, TaskInv, TaskTypes, Places, Credentials
  <2>3. Refreshers' /\ RefreshesAlone'
    BY <1>4, <1>c, <2>1, BrokerAssumption
       DEF BrokerAssumption, AwaitRefresh, BaseInv, TaskInv, TaskTypes,
           Refreshers, RefreshesAlone, Ended
  <2>4. QED
    BY <1>4, <1>b, <2>2, <2>3 DEF AwaitRefresh, BaseInv, TaskInv
<1>5. CASE RefreshGranted(t)
  <2>1. /\ ProviderInv' /\ LoginInv' /\ minted' \in 0..MaxGrants /\ minted' = minted + 1
        /\ held[t] \in Issued
    BY <1>5, ExchangeIssues DEF RefreshGranted
  <2>2. Issued \subseteq Issued' /\ Credentials \subseteq Credentials'
    BY <1>a, <2>1, MoreIssued DEF BaseInv
  <2>3. minted + 1 \in Credentials'
    BY <1>a, <2>1 DEF Issued, Credentials
  <2>4. TaskTypes'
    BY <1>5, <2>1, <2>2, <2>3 DEF RefreshGranted, BaseInv, TaskInv, TaskTypes
  <2>5. Refreshers' /\ RefreshesAlone'
    BY <1>5, <2>2 DEF RefreshGranted, Exchange, BaseInv, TaskInv, TaskTypes,
                      Refreshers, RefreshesAlone
  <2>6. QED
    BY <2>1, <2>4, <2>5 DEF BaseInv, TaskInv
<1>6. CASE RefreshGarbled(t)
  <2>1. /\ ProviderInv' /\ LoginInv' /\ minted' \in 0..MaxGrants /\ minted' = minted + 1
        /\ held[t] \in Issued
    BY <1>6, ExchangeIssues DEF RefreshGarbled
  <2>2. TaskInv'
    BY <1>6, <1>a, <2>1, AfterExit DEF RefreshGarbled
  <2>3. QED
    BY <2>1, <2>2 DEF BaseInv
<1>7. CASE RefreshFails(t)
  <2>1. TaskInv'
    BY <1>7, <1>c DEF RefreshFails, BaseInv, TaskInv, TaskTypes, Refreshers, RefreshesAlone
  <2>2. QED
    BY <1>7, <1>b, <2>1 DEF RefreshFails, BaseInv
<1>8. CASE Truncate(t)
  <2>1. TaskInv'
    BY <1>8, <1>c DEF Truncate, BaseInv, TaskInv, TaskTypes, Refreshers, RefreshesAlone
  <2>2. ProviderInv' /\ LoginInv'
    BY <1>8, <1>c DEF Truncate, BaseInv, ProviderInv, LoginInv, provider, login, Credentials
  <2>3. QED
    BY <2>1, <2>2 DEF BaseInv
<1>9. CASE Write(t)
  <2>1. TaskInv'
    BY <1>9, <1>c DEF Write, BaseInv, TaskInv, TaskTypes, Refreshers, RefreshesAlone
  <2>2. ProviderInv' /\ LoginInv'
    BY <1>9, <1>c DEF Write, BaseInv, ProviderInv, LoginInv, TaskInv, TaskTypes, provider, login
  <2>3. QED
    BY <2>1, <2>2 DEF BaseInv
<1>10. CASE Settle(t)
  <2>1. UNCHANGED <<provider, file, login>> /\ minted' = minted
    BY <1>10 DEF Settle, provider
  <2>2. ASSUME Exit({}) PROVE TaskInv'
    BY <1>a, <2>1, <2>2, AfterExit
  <2>3. ASSUME ~Exit({}) PROVE TaskInv'
    <3> DEFINE woken == {u \in Tasks : awaits[u] = t}
               next(u) == IF u \notin woken THEN at[u]
                          ELSE IF refreshing[t] = "done" THEN With(u) ELSE "refused"
    <3>1. /\ refreshing[t] \in {"done", "failed"}
          /\ inFlight' = Nobody
          /\ at' = [u \in Tasks |-> next(u)]
          /\ process' = IF Boot \in woken THEN "serving" ELSE process
          /\ awaits' = [u \in Tasks |-> IF u \in woken THEN Nobody ELSE awaits[u]]
          /\ refreshing' = [refreshing EXCEPT ![t] = "no"]
          /\ held' = [held EXCEPT ![t] = NoCredential]
          /\ got' = [got EXCEPT ![t] = NoCredential]
          /\ lost' = lost
      BY <1>10, <2>3 DEF Settle
    <3>2. \A u \in Tasks : at[u] = "waiting" => u \in woken
      BY <3>1 DEF BaseInv, TaskInv, RefreshesAlone
    <3>3. \A u \in Tasks : next(u) \in Places /\ next(u) # "waiting"
      BY <3>2 DEF BaseInv, TaskInv, TaskTypes, With, Places, Ended
    <3>4. \A u \in Tasks : refreshing'[u] = "no"
      BY <3>1, BrokerAssumption DEF BrokerAssumption, BaseInv, TaskInv, TaskTypes, RefreshesAlone
    <3> HIDE DEF next
    <3>5. TaskTypes'
      BY <2>1, <3>1, <3>3, <1>c DEF BaseInv, TaskInv, TaskTypes, Credentials
    <3>6. process # "down"
      BY <3>1 DEF BaseInv, TaskInv, Refreshers, Ended
    <3>7. QED
      BY <3>1, <3>3, <3>4, <3>5, <3>6 DEF TaskInv, Refreshers, RefreshesAlone
  <2>4. QED
    BY <1>b, <2>1, <2>2, <2>3 DEF BaseInv
<1>11. QED
  BY <1>1, <1>2, <1>3, <1>4, <1>5, <1>6, <1>7, <1>8, <1>9, <1>10 DEF TaskStep

\* So does every other step: tasks that begin or go on, the login, the provider.
LEMMA NextBase == BaseInv /\ [BrokerNext]_brokerVars => BaseInv'
<1> SUFFICES ASSUME BaseInv, [BrokerNext]_brokerVars PROVE BaseInv'
  OBVIOUS
<1>a. minted \in 0..MaxGrants /\ minted >= minted /\ MaxGrants \in Nat
  BY BrokerAssumption DEF BrokerAssumption, BaseInv, ProviderInv
<1>b. ASSUME UNCHANGED <<provider, file, login>> PROVE ProviderInv' /\ LoginInv'
  BY <1>b DEF BaseInv, ProviderInv, LoginInv, provider, login, Issued, Credentials
<1>c. ASSUME UNCHANGED provider PROVE Issued' = Issued /\ Credentials' = Credentials
  BY <1>c DEF provider, Issued, Credentials
<1>d. ASSUME UNCHANGED <<minted, process, tasks>> PROVE TaskInv'
  BY <1>a, <1>d, TasksStay
<1>1. CASE Stopped
  <2>1. UNCHANGED <<provider, file, login>> /\ minted' = minted /\ Exit({})
    BY <1>1 DEF Stopped, provider
  <2>2. QED
    BY <1>a, <1>b, <2>1, AfterExit DEF BaseInv
<1>2. CASE Serve
  <2>1. TaskInv'
    BY <1>2, <1>c DEF Serve, BaseInv, TaskInv, TaskTypes, Refreshers, RefreshesAlone,
                      Tasks, Places, Ended
  <2>2. QED
    BY <1>2, <1>b, <2>1 DEF Serve, BaseInv
<1>3. ASSUME NEW c \in Callers, Call(c) PROVE BaseInv'
  <2>1. TaskInv'
    BY <1>3, <1>c DEF Call, BaseInv, TaskInv, TaskTypes, Refreshers, RefreshesAlone,
                      Tasks, Places, Ended
  <2>2. QED
    BY <1>3, <1>b, <2>1 DEF Call, BaseInv
<1>4. ASSUME NEW c \in Callers, Forward(c) \/ StreamEnds(c) PROVE BaseInv'
  <2>1. TaskInv'
    BY <1>4, <1>c DEF Forward, StreamEnds, BaseInv, TaskInv, TaskTypes, Refreshers,
                      RefreshesAlone, Tasks, Places, Ended
  <2>2. QED
    BY <1>4, <1>b, <2>1 DEF Forward, StreamEnds, BaseInv
<1>5. ASSUME NEW c \in Callers, StreamBreaks(c) PROVE BaseInv'
  <2>1. UNCHANGED <<provider, file, login>> /\ minted' = minted /\ Exit({})
    BY <1>5 DEF StreamBreaks, provider
  <2>2. QED
    BY <1>a, <1>b, <2>1, AfterExit DEF BaseInv
<1>6. ASSUME NEW t \in Tasks, TaskStep(t) PROVE BaseInv'
  BY <1>6, TaskKeepsBase
<1>7. CASE LoginPoll
  <2>1. CASE minted' = minted
    <3>1. UNCHANGED <<process, tasks, provider, file, loginGot>> /\ loginAt' = "off"
      BY <1>7, <2>1, <1>a DEF LoginPoll, provider
    <3>2. ProviderInv' /\ LoginInv'
      BY <1>c, <3>1 DEF BaseInv, ProviderInv, LoginInv, provider
    <3>3. QED
      BY <1>d, <2>1, <3>1, <3>2 DEF BaseInv
  <2>2. CASE minted' # minted
    <3>1. /\ minted < MaxGrants /\ minted' = minted + 1
          /\ live' = live \cup {minted + 1}
          /\ loginAt' = "granted" /\ loginGot' = minted + 1
          /\ UNCHANGED <<spent, aged, file, process, tasks>>
      BY <1>7, <2>2 DEF LoginPoll
    <3>2. /\ minted' \in 0..MaxGrants /\ minted' >= minted
          /\ minted + 1 \in Issued' /\ minted + 1 \in Credentials'
      BY <1>a, <3>1 DEF Issued, Credentials
    <3>3. Issued \subseteq Issued' /\ Credentials \subseteq Credentials'
      BY <3>2, MoreIssued DEF BaseInv
    <3>4. ProviderInv' /\ LoginInv'
      BY <3>1, <3>2, <3>3 DEF BaseInv, ProviderInv, LoginInv
    <3>5. QED
      BY <3>1, <3>2, <3>4, TasksStay DEF BaseInv
  <2>3. QED
    BY <2>1, <2>2
<1>8. CASE LoginStart \/ LoginTruncate \/ LoginWrite \/ LoginStopped
  <2>1. UNCHANGED <<process, tasks, provider>>
    BY <1>8 DEF LoginStart, LoginTruncate, LoginWrite, LoginStopped
  <2>2. ProviderInv'
    BY <1>8, <1>c, <2>1 DEF LoginStart, LoginTruncate, LoginWrite, LoginStopped,
                            BaseInv, ProviderInv, LoginInv, provider, Credentials
  <2>3. LoginInv'
    BY <1>8, <1>c, <2>1 DEF LoginStart, LoginTruncate, LoginWrite, LoginStopped,
                            BaseInv, LoginInv, Credentials
  <2>4. QED
    BY <1>d, <2>1, <2>2, <2>3 DEF BaseInv, provider
<1>9. CASE Age \/ Revoke
  <2>1. UNCHANGED <<minted, process, tasks, login, file, spent>>
    BY <1>9 DEF Age, Revoke
  <2>2. ProviderInv'
    BY <1>9, <2>1 DEF Age, Revoke, BaseInv, ProviderInv, Issued, Credentials
  <2>3. LoginInv'
    BY <2>1 DEF BaseInv, LoginInv, login, Issued, Credentials
  <2>4. QED
    BY <1>d, <2>1, <2>2, <2>3 DEF BaseInv
<1>10. CASE UNCHANGED brokerVars
  BY <1>10, <1>b, <1>d DEF brokerVars, BaseInv, provider
<1>11. QED
  BY <1>1, <1>2, <1>3, <1>4, <1>5, <1>6, <1>7, <1>8, <1>9, <1>10
     DEF BrokerNext, CallStep

\* What has been issued is at most what may be.
LEMMA BaseTyped == BaseInv => BrokerTypeOK /\ RefreshesAlone
<1> SUFFICES ASSUME BaseInv PROVE BrokerTypeOK /\ RefreshesAlone
  OBVIOUS
<1>1. Issued \subseteq Grants
  BY BrokerAssumption DEF BrokerAssumption, BaseInv, ProviderInv, Issued, Grants
<1>2. Credentials \subseteq Grants \cup {NoCredential}
  BY <1>1 DEF Credentials
<1>3. QED
  BY <1>1, <1>2 DEF BaseInv, ProviderInv, LoginInv, TaskInv, TaskTypes, BrokerTypeOK

LEMMA AlwaysBase == BrokerSpec => []BaseInv
<1>1. BrokerInit => BaseInv
  BY InitBase
<1>2. BaseInv /\ [BrokerNext]_brokerVars => BaseInv'
  BY NextBase
<1>3. QED
  BY <1>1, <1>2, PTL DEF BrokerSpec

\* Type correctness: the broker, its file, the login and the provider have
\* their types, for any number of callers and grants.
THEOREM TypeCorrect == BrokerSpec => []BrokerTypeOK
<1>1. BaseInv => BrokerTypeOK
  BY BaseTyped
<1>2. QED
  BY <1>1, AlwaysBase, PTL

\* Refreshes are shared and run one at a time, whatever number of callers ask
\* while one is under way, and wherever the process was last stopped.
THEOREM OneRefreshAtATime == BrokerSpec => []RefreshesAlone
<1>1. BaseInv => RefreshesAlone
  BY BaseTyped
<1>2. QED
  BY <1>1, AlwaysBase, PTL

-----------------------------------------------------------------------------
(* Rotation. *)

\* A spent token stays in the file only while its replacement is on its way
\* there, or if the replacement was lost.
SpentInFile ==
    file \in spent =>
        \/ file \in lost
        \/ \E t \in Tasks : refreshing[t] = "granted" /\ held[t] = file

\* A replacement on its way to the file has not been spent ...
ReplacementUnspent ==
    \A t \in Tasks : refreshing[t] \in {"granted", "writing"} => got[t] \notin spent

\* ... and the login's is known to nobody else until it is there.
LoginUnspent ==
    loginAt \in {"granted", "writing"} =>
        /\ loginGot \notin spent
        /\ loginGot # file
        /\ \A t \in Tasks : loginGot # held[t] /\ loginGot # got[t]

RotationInv == SpentInFile /\ ReplacementUnspent /\ LoginUnspent

\* Initially no token is spent ...
LEMMA InitRotation == BrokerInit => RotationInv
BY DEF BrokerInit, RotationInv, SpentInFile, ReplacementUnspent, LoginUnspent

\* ... a process that ends loses the replacements it had ...
LEMMA ExitRotation ==
    ASSUME BaseInv, RotationInv, NEW gone, Exit(gone), UNCHANGED <<file, login>>,
           \/ spent' = spent
           \/ \E t \in Tasks : /\ spent' = spent \cup {held[t]} /\ held[t] \in gone
    PROVE  RotationInv'
<1>1. /\ \A t \in Tasks : /\ refreshing'[t] = "no" /\ held'[t] = NoCredential
                          /\ got'[t] = NoCredential
      /\ lost \subseteq lost' /\ gone \subseteq lost'
      /\ \A t \in Tasks : refreshing[t] = "granted" => held[t] \in lost'
  BY DEF Exit
<1>2. SpentInFile'
  BY <1>1 DEF RotationInv, SpentInFile
<1>3. ReplacementUnspent'
  BY <1>1 DEF ReplacementUnspent
<1>4. LoginUnspent'
  BY <1>1, BrokerAssumption
     DEF BrokerAssumption, BaseInv, LoginInv, Issued, RotationInv, LoginUnspent, login
<1>5. QED
  BY <1>2, <1>3, <1>4 DEF RotationInv

\* ... and a new token is not a spent one.
LEMMA NextIsNew ==
    ASSUME BaseInv
    PROVE  /\ minted + 1 \notin spent /\ minted + 1 # file
           /\ \A t \in Tasks : minted + 1 # held[t] /\ minted + 1 # got[t]
           /\ minted + 1 # loginGot
BY BrokerAssumption
   DEF BrokerAssumption, BaseInv, ProviderInv, LoginInv, TaskInv, TaskTypes,
       Issued, Credentials

\* Every step keeps the rotation in order.
LEMMA NextRotation ==
    BaseInv /\ RotationInv /\ [BrokerNext]_brokerVars => RotationInv'
<1> SUFFICES ASSUME BaseInv, RotationInv, [BrokerNext]_brokerVars
             PROVE  RotationInv'
  OBVIOUS
<1> USE DEF RotationInv, SpentInFile, ReplacementUnspent, LoginUnspent
<1>a. /\ held \in [Tasks -> Credentials] /\ got \in [Tasks -> Credentials]
      /\ DOMAIN refreshing = Tasks
      /\ spent \subseteq Issued /\ NoCredential \notin Issued
      /\ loginAt \in {"granted", "writing"} => loginGot \in Issued
  BY BrokerAssumption DEF BrokerAssumption, BaseInv, ProviderInv, LoginInv,
                          TaskInv, TaskTypes, Issued
<1>b. \A t, u \in Tasks : refreshing[t] # "no" /\ refreshing[u] # "no" => t = u
  BY DEF BaseInv, TaskInv, RefreshesAlone
<1>c. \A t \in Tasks : at[t] # "waiting" => refreshing[t] = "no"
  BY DEF BaseInv, TaskInv, Refreshers
<1>1. CASE UNCHANGED <<spent, file, lost, held, refreshing, got, login>>
  BY <1>1 DEF login
<1>2. CASE Stopped
  BY <1>2, ExitRotation DEF Stopped, provider
<1>3. CASE Serve \/ (\E c \in Callers : Call(c) \/ Forward(c) \/ StreamEnds(c))
  BY <1>1, <1>3 DEF Serve, Call, Forward, StreamEnds, provider
<1>4. ASSUME NEW c \in Callers, StreamBreaks(c) PROVE RotationInv'
  BY <1>4, ExitRotation DEF StreamBreaks, provider
<1>5. ASSUME NEW t \in Tasks, LoadState(t) PROVE RotationInv'
  BY <1>5, <1>a, <1>c DEF LoadState, provider, login
<1>6. ASSUME NEW t \in Tasks, NotSignedIn(t) PROVE RotationInv'
  BY <1>6, ExitRotation DEF NotSignedIn, provider
<1>7. ASSUME NEW t \in Tasks, StillFresh(t) PROVE RotationInv'
  BY <1>7, <1>a, <1>c DEF StillFresh, provider, login
<1>8. ASSUME NEW t \in Tasks, AwaitRefresh(t) PROVE RotationInv'
  BY <1>8, <1>a, <1>c DEF AwaitRefresh, provider, login
<1>9. ASSUME NEW t \in Tasks, RefreshGranted(t) PROVE RotationInv'
  <2>1. /\ refreshing[t] = "asked" /\ held[t] \in live /\ UNCHANGED <<file, login, held>>
        /\ spent' = spent \cup {held[t]} /\ minted' = minted + 1
    BY <1>9 DEF RefreshGranted, Exchange
  <2>2. \A u \in Tasks \ {t} : refreshing[u] = "no"
    BY <1>b, <2>1
  <2>3. CASE /\ refreshing' = [refreshing EXCEPT ![t] = "granted"]
             /\ got' = [got EXCEPT ![t] = minted + 1] /\ lost' = lost
    BY <1>a, <2>1, <2>2, <2>3, NextIsNew DEF login
  <2>4. CASE /\ refreshing' = [refreshing EXCEPT ![t] = "failed"]
             /\ lost' = lost \cup {held[t]} /\ got' = got
    BY <1>a, <2>1, <2>2, <2>4 DEF login
  <2>5. QED
    BY <1>9, <2>3, <2>4 DEF RefreshGranted
<1>10. ASSUME NEW t \in Tasks, RefreshGarbled(t) PROVE RotationInv'
  <2>1. /\ Exit({held[t]}) /\ spent' = spent \cup {held[t]} /\ UNCHANGED <<file, login>>
    BY <1>10 DEF RefreshGarbled, Exchange
  <2>2. QED
    BY <2>1, ExitRotation
<1>11. ASSUME NEW t \in Tasks, RefreshFails(t) PROVE RotationInv'
  BY <1>11, <1>a DEF RefreshFails, provider, login
<1>12. ASSUME NEW t \in Tasks, Truncate(t) PROVE RotationInv'
  BY <1>12, <1>a DEF Truncate, provider, login
<1>13. ASSUME NEW t \in Tasks, Write(t) PROVE RotationInv'
  BY <1>13, <1>a, <1>b DEF Write, provider, login
<1>14. ASSUME NEW t \in Tasks, Settle(t) PROVE RotationInv'
  <2>1. CASE Exit({})
    BY <1>14, <2>1, ExitRotation DEF Settle, provider
  <2>2. CASE ~Exit({})
    <3>1. /\ refreshing[t] \in {"done", "failed"}
          /\ refreshing' = [refreshing EXCEPT ![t] = "no"]
          /\ held' = [held EXCEPT ![t] = NoCredential]
          /\ got' = [got EXCEPT ![t] = NoCredential]
          /\ UNCHANGED <<lost, spent, file, login>>
      BY <1>14, <2>2 DEF Settle, provider
    <3>2. QED
      BY <1>a, <1>b, <3>1 DEF login
  <2>3. QED
    BY <2>1, <2>2
<1>15. CASE LoginPoll
  BY <1>15, NextIsNew DEF LoginPoll, tasks
<1>16. CASE LoginTruncate
  BY <1>16, <1>a DEF LoginTruncate, provider, tasks
<1>17. CASE LoginWrite
  BY <1>17 DEF LoginWrite, provider, tasks
<1>18. CASE LoginStart \/ LoginStopped
  BY <1>18 DEF LoginStart, LoginStopped, provider, tasks
<1>19. CASE Age \/ Revoke
  BY <1>1, <1>19 DEF Age, Revoke, tasks
<1>20. CASE UNCHANGED brokerVars
  BY <1>1, <1>20 DEF brokerVars, provider, tasks
<1>21. QED
  BY <1>2, <1>3, <1>4, <1>5, <1>6, <1>7, <1>8, <1>9, <1>10, <1>11, <1>12, <1>13,
     <1>14, <1>15, <1>16, <1>17, <1>18, <1>19, <1>20
     DEF BrokerNext, TaskStep, CallStep

\* What a step that begins a refresh may present.
PresentsUnspent ==
    \A t \in Tasks :
        refreshing[t] = "no" /\ refreshing'[t] = "asked" /\ held[t] \in spent
        => held[t] # file \/ held[t] \in lost

\* A refresh begins only where none is under way, so that no replacement is on
\* its way to the file.
LEMMA BeginsUnspent ==
    BaseInv /\ RotationInv /\ [BrokerNext]_brokerVars => PresentsUnspent
<1> SUFFICES ASSUME BaseInv, RotationInv, [BrokerNext]_brokerVars, NEW t \in Tasks,
                    refreshing[t] = "no", refreshing'[t] = "asked",
                    held[t] \in spent, held[t] = file
             PROVE  held[t] \in lost
  BY DEF PresentsUnspent
<1>a. DOMAIN refreshing = Tasks
  BY DEF BaseInv, TaskInv, TaskTypes
<1>1. ASSUME inFlight = Nobody PROVE held[t] \in lost
  <2>1. \A u \in Tasks : refreshing[u] = "no"
    BY <1>1, BrokerAssumption DEF BrokerAssumption, BaseInv, TaskInv, RefreshesAlone
  <2>2. QED
    BY <2>1 DEF RotationInv, SpentInFile
<1>2. ASSUME NEW u \in Tasks, TaskStep(u) PROVE held[t] \in lost
  <2>1. CASE AwaitRefresh(u)
    BY <1>a, <1>1, <2>1 DEF AwaitRefresh
  <2>2. CASE ~AwaitRefresh(u)
    BY <1>a, <1>2, <2>2
       DEF TaskStep, LoadState, NotSignedIn, StillFresh, RefreshGranted, RefreshGarbled,
           RefreshFails, Truncate, Write, Settle, Exit
  <2>3. QED
    BY <2>1, <2>2
<1>3. ASSUME ~ \E u \in Tasks : TaskStep(u) PROVE FALSE
  BY <1>3 DEF BrokerNext, Stopped, Serve, Call, CallStep, Forward, StreamEnds, StreamBreaks,
              Exit, LoginStart, LoginPoll, LoginTruncate, LoginWrite, LoginStopped, Age,
              Revoke, tasks, brokerVars
<1>4. QED
  BY <1>2, <1>3

\* A refresh presents a spent token only after a stale read, or because the
\* replacement never reached the disk: with any number of callers, logins, lost
\* answers and ends of the process.
THEOREM ReuseOnlyWhenStale == BrokerSpec => ReuseNeedsStaleRead
<1>1. BrokerInit => RotationInv
  BY InitRotation
<1>2. BaseInv /\ RotationInv /\ [BrokerNext]_brokerVars => RotationInv'
  BY NextRotation
<1>3. BaseInv /\ RotationInv /\ [BrokerNext]_brokerVars => [PresentsUnspent]_brokerVars
  BY BeginsUnspent
<1>4. QED
  BY <1>1, <1>2, <1>3, AlwaysBase, PTL
     DEF BrokerSpec, ReuseNeedsStaleRead, PresentsUnspent

=============================================================================
