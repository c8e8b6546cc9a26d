--------------------------- MODULE UpstreamCheck ---------------------------
(***************************************************************************)
(* Whether the name a model is forwarded under is one its backend answers  *)
(* to: each reconcile pass asks a replica that is ready for the names it   *)
(* serves and compares them with the registry it read when it began. The   *)
(* verdicts are kept in memory, for the dashboard.                         *)
(*                                                                         *)
(* Passes begin at an interval and are not waited for, so two may overlap. *)
(* One backend is modelled, with the models that share it; the image it    *)
(* runs, the registry and the readiness of its replicas change at any      *)
(* time, until they rest.                                                  *)
(***************************************************************************)
EXTENDS Naturals

CONSTANTS Passes,       \* reconcile passes under way at once
          Served,       \* the models of the backend
          UpstreamNames,
          Images,       \* the names each image answers to, aliases included
          NoListing     \* of a backend that does not list its models

ASSUME UpstreamAssumption ==
    /\ \A image \in Images : image \subseteq UpstreamNames
    /\ NoListing \notin Images

VARIABLES
    image,       \* what the backend answers to, or that it does not say
    ready,       \* whether some replica of it is ready
    registered,  \* the name the registry gives each model
    resting,     \* none of these changes any more, and requests get through
    router,      \* whether the router is up
    pass,        \* the passes
    report       \* the last verdict on each model

world == <<image, ready, registered, resting>>
upstreamVars == <<world, router, pass, report>>

NoPass == [stage |-> "idle", entries |-> [m \in Served |-> ""], names |-> {}]
NoReport == [m \in Served |-> "none"]

UpstreamInit ==
    /\ image \in Images \cup {NoListing}
    /\ ready = FALSE
    /\ registered \in [Served -> UpstreamNames]
    /\ resting = FALSE
    /\ router = "down"
    /\ pass = [p \in Passes |-> NoPass]
    /\ report = NoReport

\* The backend is rolled to another image, the registry names other upstreams,
\* the last ready replica goes or the first one comes.
WorldChanges ==
    /\ ~resting
    /\ \/ image' \in Images \cup {NoListing} /\ UNCHANGED <<ready, registered>>
       \/ ready' = ~ready /\ UNCHANGED <<image, registered>>
       \/ registered' \in [Served -> UpstreamNames] /\ UNCHANGED <<image, ready>>
    /\ UNCHANGED <<resting, router, pass, report>>

WorldRests ==
    /\ router = "up"
    /\ resting' = TRUE
    /\ UNCHANGED <<image, ready, registered, router, pass, report>>

RouterStarts ==
    /\ router = "down"
    /\ router' = "up"
    /\ UNCHANGED <<world, pass, report>>

\* The verdicts go with the process.
RouterStops ==
    /\ ~resting
    /\ router = "up"
    /\ router' = "down"
    /\ pass' = [p \in Passes |-> NoPass]
    /\ report' = NoReport
    /\ UNCHANGED world

Goes(p, next) == pass' = [pass EXCEPT ![p] = next] /\ UNCHANGED <<world, router>>

\* listModels, and then the pods and their probes.
PassBegins(p) ==
    /\ router = "up"
    /\ pass[p] = NoPass
    /\ Goes(p, [NoPass EXCEPT !.stage = "probing", !.entries = registered])
    /\ UNCHANGED report

\* Without a ready replica there is nobody to ask, and the verdicts stay.
Probed(p) ==
    /\ pass[p].stage = "probing"
    /\ Goes(p, IF ready THEN [pass[p] EXCEPT !.stage = "listing"] ELSE NoPass)
    /\ UNCHANGED report

\* listUpstreamNames: all that the backend lists; nothing usable if it offers no
\* listing, or did not answer in time.
ListUpstreamNames(p) ==
    /\ pass[p].stage = "listing"
    /\ \E names \in {image} \cup (IF resting THEN {} ELSE {NoListing}) :
          Goes(p, [pass[p] EXCEPT !.stage = "recording", !.names = names])
    /\ UNCHANGED report

\* checkUpstreamName
CheckUpstreamName(name, names) ==
    IF names = NoListing THEN "unknown"
    ELSE IF name \in names THEN "ok"
    ELSE "missing"

\* Mutant of Record: what was found before is not overwritten.
Record_Once(p) ==
    /\ pass[p].stage = "recording"
    /\ report' = [m \in Served |-> IF report[m] \in {"ok", "missing"} THEN report[m]
                                   ELSE CheckUpstreamName(pass[p].entries[m], pass[p].names)]
    /\ Goes(p, NoPass)

\* recordUpstreamCheck, for every model of the backend.
Record(p) ==
    /\ pass[p].stage = "recording"
    /\ report' = [m \in Served |-> CheckUpstreamName(pass[p].entries[m], pass[p].names)]
    /\ Goes(p, NoPass)

Proceeds(p) == Probed(p) \/ ListUpstreamNames(p) \/ Record(p)

UpstreamNext ==
    \/ WorldChanges \/ WorldRests \/ RouterStarts \/ RouterStops
    \/ \E p \in Passes : PassBegins(p) \/ Proceeds(p)

\* The interval fires for as long as the router is up, and what a pass awaits
\* answers or times out.
UpstreamFairness ==
    \A p \in Passes : WF_upstreamVars(PassBegins(p)) /\ WF_upstreamVars(Proceeds(p))

-----------------------------------------------------------------------------

\* The world, the passes and the verdicts are of their type.
UpstreamTypeOK ==
    /\ image \in Images \cup {NoListing} /\ ready \in BOOLEAN /\ resting \in BOOLEAN
    /\ registered \in [Served -> UpstreamNames]
    /\ router \in {"up", "down"}
    /\ pass \in [Passes -> [stage : {"idle", "probing", "listing", "recording"},
                            entries : [Served -> UpstreamNames \cup {""}],
                            names : Images \cup {NoListing, {}}]]
    /\ report \in [Served -> {"none", "ok", "missing", "unknown"}]

\* Whatever order overlapping passes end in, once the backend, the registry and
\* the network rest the dashboard comes to say of every model what is so, and
\* keeps saying it; with no ready replica to ask, nothing is promised.
VerdictsSettle ==
    resting /\ ready ~>
        [](\A m \in Served : report[m] = CheckUpstreamName(registered[m], image))

=============================================================================
