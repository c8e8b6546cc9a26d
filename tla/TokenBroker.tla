---------------------------- MODULE TokenBroker ----------------------------
(***************************************************************************)
(* The token broker of a developer machine: a process that forwards calls  *)
(* to the gateway with a bearer token it refreshes on its own, and the     *)
(* login command that writes the credential file it reads.                 *)
(*                                                                         *)
(* A credential is a refresh token with the access token issued beside it; *)
(* both are named by the number of the grant. The identity provider is     *)
(* external: it rotates refresh tokens, may refuse or revoke one, and its  *)
(* answer may be lost on the way.                                          *)
(***************************************************************************)
EXTENDS Naturals

CONSTANTS Callers,       \* local tools, each with one call at a time
          Boot,          \* the check the broker makes before it listens
          MaxGrants,     \* bound on the credentials the provider issues
          NoCredential,  \* a file that is missing, or cut short
          Nobody

Grants == 1..MaxGrants
Tasks == Callers \cup {Boot}

ASSUME BrokerAssumption ==
    /\ MaxGrants \in Nat
    /\ NoCredential \notin Nat
    /\ Boot \notin Callers
    /\ Nobody \notin Tasks

VARIABLES
    \* the identity provider
    minted,      \* grants issued so far
    live,        \* refresh tokens it still accepts
    spent,       \* refresh tokens that have been exchanged
    aged,        \* grants whose access token is close to its expiry, or past it
    \* the disk
    file,        \* the credential loadState would return
    \* the broker process
    process,
    at,          \* where currentToken, or the forwarding after it, has got to
    held,        \* the state a task has read
    awaits,      \* the task whose refresh it awaits
    inFlight,    \* the task whose refresh is shared
    refreshing,  \* how far the refresh a task began is
    got,         \* what the provider answered to it
    lost,        \* tokens exchanged for one that never reached the disk
    \* the login command
    loginAt,
    loginGot

provider == <<minted, live, spent, aged>>
tasks == <<at, held, awaits, inFlight, refreshing, got, lost>>
login == <<loginAt, loginGot>>
brokerVars == <<provider, file, process, tasks, login>>

Ended == {"idle", "answered", "refused", "unreachable", "dropped"}
Places == Ended \cup {"reading", "read", "waiting", "sending", "streaming"}

BrokerInit ==
    /\ minted = 0 /\ live = {} /\ spent = {} /\ aged = {}
    /\ file = NoCredential
    /\ process = "down"
    /\ at = [t \in Tasks |-> "idle"]
    /\ held = [t \in Tasks |-> NoCredential]
    /\ awaits = [t \in Tasks |-> Nobody]
    /\ inFlight = Nobody
    /\ refreshing = [t \in Tasks |-> "no"]
    /\ got = [t \in Tasks |-> NoCredential]
    /\ lost = {}
    /\ loginAt = "off" /\ loginGot = NoCredential

\* The process ends: by die, by an error nobody catches, or from outside. A
\* credential it was about to store goes with it.
Exit(gone) ==
    /\ process' = "down"
    /\ at' = [t \in Tasks |-> IF at[t] \in Ended THEN at[t] ELSE "dropped"]
    /\ held' = [t \in Tasks |-> NoCredential]
    /\ awaits' = [t \in Tasks |-> Nobody]
    /\ inFlight' = Nobody
    /\ refreshing' = [t \in Tasks |-> "no"]
    /\ got' = [t \in Tasks |-> NoCredential]
    /\ lost' = lost \cup gone \cup {held[t] : t \in {u \in Tasks :
                                             refreshing[u] \in {"granted", "writing"}}}

Stopped ==
    /\ process # "down"
    /\ Exit({})
    /\ UNCHANGED <<provider, file, login>>

\* serve: the process checks its credential before it listens.
Serve ==
    /\ process = "down"
    /\ process' = "starting"
    /\ at' = [at EXCEPT ![Boot] = "reading"]
    /\ UNCHANGED <<provider, file, held, awaits, inFlight, refreshing, got, lost, login>>

\* A caller's request has arrived in full.
Call(c) ==
    /\ process = "serving"
    /\ at[c] \in Ended
    /\ at' = [at EXCEPT ![c] = "reading"]
    /\ UNCHANGED <<provider, file, process, held, awaits, inFlight, refreshing, got, lost, login>>

\* loadState. What it read is looked at later, when the task runs again.
LoadState(t) ==
    /\ at[t] = "reading"
    /\ held' = [held EXCEPT ![t] = file]
    /\ at' = [at EXCEPT ![t] = "read"]
    /\ UNCHANGED <<provider, file, process, awaits, inFlight, refreshing, got, lost, login>>

\* Where a task goes with the access token, or without one.
With(t) == IF t = Boot THEN "idle" ELSE "sending"
Listening(t) == IF t = Boot THEN "serving" ELSE process

NotSignedIn(t) ==
    /\ at[t] = "read"
    /\ held[t] = NoCredential
    /\ Exit({})
    /\ UNCHANGED <<provider, file, login>>

StillFresh(t) ==
    /\ at[t] = "read"
    /\ held[t] # NoCredential
    /\ held[t] \notin aged
    /\ at' = [at EXCEPT ![t] = With(t)]
    /\ process' = Listening(t)
    /\ held' = [held EXCEPT ![t] = NoCredential]
    /\ UNCHANGED <<provider, file, awaits, inFlight, refreshing, got, lost, login>>

\* Mutant of AwaitRefresh: every task begins its own.
AwaitRefresh_Each(t) ==
    /\ at[t] = "read"
    /\ held[t] \in aged
    /\ at' = [at EXCEPT ![t] = "waiting"]
    /\ awaits' = [awaits EXCEPT ![t] = t]
    /\ inFlight' = t
    /\ refreshing' = [refreshing EXCEPT ![t] = "asked"]
    /\ UNCHANGED <<provider, file, process, held, got, lost, login>>

\* Shares the refresh in flight, or begins one with the token it has read.
AwaitRefresh(t) ==
    /\ at[t] = "read"
    /\ held[t] \in aged
    /\ at' = [at EXCEPT ![t] = "waiting"]
    /\ \/ /\ inFlight # Nobody
          /\ awaits' = [awaits EXCEPT ![t] = inFlight]
          /\ held' = [held EXCEPT ![t] = NoCredential]
          /\ UNCHANGED <<inFlight, refreshing>>
       \/ /\ inFlight = Nobody
          /\ awaits' = [awaits EXCEPT ![t] = t]
          /\ inFlight' = t
          /\ refreshing' = [refreshing EXCEPT ![t] = "asked"]
          /\ UNCHANGED held
    /\ UNCHANGED <<provider, file, process, got, lost, login>>

\* The provider exchanges the token of a refresh.
Exchange(t) ==
    /\ refreshing[t] = "asked"
    /\ held[t] \in live
    /\ minted < MaxGrants
    /\ minted' = minted + 1
    /\ live' = (live \ {held[t]}) \cup {minted + 1}
    /\ spent' = spent \cup {held[t]}
    /\ UNCHANGED <<aged, file, login>>

\* Its answer arrives, or the connection breaks first.
RefreshGranted(t) ==
    /\ Exchange(t)
    /\ \/ /\ refreshing' = [refreshing EXCEPT ![t] = "granted"]
          /\ got' = [got EXCEPT ![t] = minted + 1]
          /\ UNCHANGED lost
       \/ /\ refreshing' = [refreshing EXCEPT ![t] = "failed"]
          /\ lost' = lost \cup {held[t]}
          /\ UNCHANGED got
    /\ UNCHANGED <<process, at, held, awaits, inFlight>>

\* An answer that is not JSON parses as {}; persist takes it for one without a
\* refresh token and ends the process.
RefreshGarbled(t) == Exchange(t) /\ Exit({held[t]})

\* The provider refuses the token, or cannot be reached.
RefreshFails(t) ==
    /\ refreshing[t] = "asked"
    /\ refreshing' = [refreshing EXCEPT ![t] = "failed"]
    /\ UNCHANGED <<provider, file, process, at, held, awaits, inFlight, got, lost, login>>

\* Mutant of Truncate: the rotated token is used and not stored.
Truncate_Skip(t) ==
    /\ refreshing[t] = "granted"
    /\ refreshing' = [refreshing EXCEPT ![t] = "done"]
    /\ UNCHANGED <<provider, file, process, at, held, awaits, inFlight, got, lost, login>>

\* persist and saveState: the file is truncated first and written then.
Truncate(t) ==
    /\ refreshing[t] = "granted"
    /\ refreshing' = [refreshing EXCEPT ![t] = "writing"]
    /\ file' = NoCredential
    /\ UNCHANGED <<provider, process, at, held, awaits, inFlight, got, lost, login>>

Write(t) ==
    /\ refreshing[t] = "writing"
    /\ \/ /\ file' = got[t]
          /\ refreshing' = [refreshing EXCEPT ![t] = "done"]
          /\ UNCHANGED lost
       \/ /\ refreshing' = [refreshing EXCEPT ![t] = "failed"]  \* the disk is full
          /\ lost' = lost \cup {held[t]}
          /\ UNCHANGED file
    /\ UNCHANGED <<provider, process, at, held, awaits, inFlight, got, login>>

\* Mutant of Settle: only the task that began the refresh runs again.
Settle_OwnerOnly(t) ==
    /\ refreshing[t] \in {"done", "failed"}
    /\ inFlight' = Nobody
    /\ at' = [at EXCEPT ![t] = IF refreshing[t] = "done" THEN With(t) ELSE "refused"]
    /\ process' = Listening(t)
    /\ awaits' = [awaits EXCEPT ![t] = Nobody]
    /\ refreshing' = [refreshing EXCEPT ![t] = "no"]
    /\ held' = [held EXCEPT ![t] = NoCredential]
    /\ got' = [got EXCEPT ![t] = NoCredential]
    /\ UNCHANGED <<lost, provider, file, login>>

\* The refresh ends: inFlight is cleared and whoever awaited it runs again. The
\* broker does not start on a refresh that failed.
Settle(t) ==
    LET good == refreshing[t] = "done"
        woken == {u \in Tasks : awaits[u] = t}
    IN  /\ refreshing[t] \in {"done", "failed"}
        /\ IF Boot \in woken /\ ~good
           THEN Exit({})
           ELSE /\ inFlight' = Nobody
                /\ at' = [u \in Tasks |-> IF u \notin woken THEN at[u]
                                          ELSE IF good THEN With(u) ELSE "refused"]
                /\ process' = IF Boot \in woken THEN "serving" ELSE process
                /\ awaits' = [u \in Tasks |-> IF u \in woken THEN Nobody ELSE awaits[u]]
                /\ refreshing' = [refreshing EXCEPT ![t] = "no"]
                /\ held' = [held EXCEPT ![t] = NoCredential]
                /\ got' = [got EXCEPT ![t] = NoCredential]
                /\ UNCHANGED lost
        /\ UNCHANGED <<provider, file, login>>

\* The gateway is asked, with the token; it answers, or cannot be reached.
Forward(c) ==
    /\ at[c] = "sending"
    /\ \E next \in {"streaming", "unreachable"} : at' = [at EXCEPT ![c] = next]
    /\ UNCHANGED <<provider, file, process, held, awaits, inFlight, refreshing, got, lost, login>>

\* Its answer has been passed on to the end. The caller may have gone by then:
\* nothing looks.
StreamEnds(c) ==
    /\ at[c] = "streaming"
    /\ at' = [at EXCEPT ![c] = "answered"]
    /\ UNCHANGED <<provider, file, process, held, awaits, inFlight, refreshing, got, lost, login>>

\* The answer breaks off, or takes an hour: the read rejects where nothing
\* catches it, which ends the process and every other call with it.
StreamBreaks(c) ==
    /\ at[c] = "streaming"
    /\ Exit({})
    /\ UNCHANGED <<provider, file, login>>

\* The login command: a device code, polled until the user has signed in.
LoginStart ==
    /\ loginAt = "off"
    /\ loginAt' = "polling"
    /\ UNCHANGED <<provider, file, process, tasks, loginGot>>

LoginPoll ==
    /\ loginAt = "polling"
    /\ \/ /\ minted < MaxGrants
          /\ minted' = minted + 1
          /\ live' = live \cup {minted + 1}
          /\ loginAt' = "granted"
          /\ loginGot' = minted + 1
       \/ /\ loginAt' = "off"           \* refused, or the code has expired
          /\ UNCHANGED <<minted, live, loginGot>>
    /\ UNCHANGED <<spent, aged, file, process, tasks>>

LoginTruncate ==
    /\ loginAt = "granted"
    /\ loginAt' = "writing"
    /\ file' = NoCredential
    /\ UNCHANGED <<provider, process, tasks, loginGot>>

LoginWrite ==
    /\ loginAt = "writing"
    /\ loginAt' = "off"
    /\ loginGot' = NoCredential
    /\ file' = loginGot
    /\ UNCHANGED <<provider, process, tasks>>

LoginStopped ==
    /\ loginAt # "off"
    /\ loginAt' = "off"
    /\ loginGot' = NoCredential
    /\ UNCHANGED <<provider, file, process, tasks>>

\* Time passes; the provider may revoke a token, or ninety days are over.
Age ==
    /\ \E g \in 1..minted : g \notin aged /\ aged' = aged \cup {g}
    /\ UNCHANGED <<minted, live, spent, file, process, tasks, login>>

Revoke ==
    /\ \E g \in live : live' = live \ {g}
    /\ UNCHANGED <<minted, spent, aged, file, process, tasks, login>>

TaskStep(t) ==
    \/ LoadState(t) \/ NotSignedIn(t) \/ StillFresh(t) \/ AwaitRefresh(t)
    \/ RefreshGranted(t) \/ RefreshGarbled(t) \/ RefreshFails(t)
    \/ Truncate(t) \/ Write(t) \/ Settle(t)

CallStep(c) == Forward(c) \/ StreamEnds(c) \/ StreamBreaks(c)

BrokerNext ==
    \/ Stopped \/ Serve
    \/ \E c \in Callers : Call(c) \/ CallStep(c)
    \/ \E t \in Tasks : TaskStep(t)
    \/ LoginStart \/ LoginPoll \/ LoginTruncate \/ LoginWrite \/ LoginStopped
    \/ Age \/ Revoke

\* The event loop runs what is ready, the provider and the gateway answer (fetch
\* gives up on a server that sends no headers) and an answer comes to an end.
BrokerFairness ==
    /\ \A t \in Tasks : WF_brokerVars(TaskStep(t))
    /\ \A c \in Callers : WF_brokerVars(CallStep(c))

BrokerSpec == BrokerInit /\ [][BrokerNext]_brokerVars
FairBrokerSpec == BrokerSpec /\ BrokerFairness

-----------------------------------------------------------------------------

\* Every variable has its type (the state of the broker, its file and its
\* provider).
BrokerTypeOK ==
    /\ minted \in 0..MaxGrants
    /\ live \subseteq Grants /\ spent \subseteq Grants
    /\ aged \subseteq Grants /\ lost \subseteq Grants
    /\ file \in Grants \cup {NoCredential}
    /\ process \in {"down", "starting", "serving"}
    /\ at \in [Tasks -> Places]
    /\ held \in [Tasks -> Grants \cup {NoCredential}]
    /\ awaits \in [Tasks -> Tasks \cup {Nobody}]
    /\ inFlight \in Tasks \cup {Nobody}
    /\ refreshing \in [Tasks -> {"no", "asked", "granted", "writing", "done", "failed"}]
    /\ got \in [Tasks -> Grants \cup {NoCredential}]
    /\ loginAt \in {"off", "polling", "granted", "writing"}
    /\ loginGot \in Grants \cup {NoCredential}

\* Two refreshes never run at once, and whoever waits, waits for the one that
\* runs: tokens rotate on use, and a second refresh would present one that the
\* first is exchanging (currentToken, inFlight).
RefreshesAlone ==
    /\ \A t \in Tasks : refreshing[t] # "no" => inFlight = t
    /\ \A t \in Tasks : at[t] = "waiting" => awaits[t] = inFlight /\ inFlight # Nobody

\* A refresh presents a token the provider has already exchanged only if the
\* task read the file before it changed, or the replacement never reached the
\* disk: no call that reads the file as it is spends a token twice.
ReuseNeedsStaleRead ==
    [][\A t \in Tasks :
          refreshing[t] = "no" /\ refreshing'[t] = "asked" /\ held[t] \in spent
          => held[t] # file \/ held[t] \in lost]_brokerVars

\* Every call ends: it is answered, or refused, or the process has gone.
CallsEnd == \A c \in Callers : at[c] \notin Ended ~> at[c] \in Ended

=============================================================================
