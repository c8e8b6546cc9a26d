------------------------------- MODULE SignIn -------------------------------
(***************************************************************************)
(* Signing in to the dashboard: the authorization code flow with PKCE,     *)
(* between browsers, the dashboard's three routes and the identity         *)
(* provider (the one the repository ships for its tests).                  *)
(*                                                                         *)
(* A flow is the pair of a state and a verifier made together; both, and   *)
(* the challenge made of the verifier, are named by its number. The        *)
(* dashboard keeps nothing: what it knows of a flow is in the cookies of   *)
(* the browser, which a route reads when a request comes in and writes     *)
(* when the answer arrives. A browser has several tabs, and a link may be  *)
(* opened twice or in another browser.                                     *)
(***************************************************************************)
EXTENDS Naturals, Sequences

CONSTANTS Browsers,
          Users,
          Handlers,       \* callbacks the dashboard may be handling at once
          RoleHolders,    \* users with the admin app role
          GroupMembers,   \* users in the admin group
          ByRole,         \* whether DASHBOARD_ADMIN_ROLE is set
          ByGroup,        \* whether DASHBOARD_ADMIN_GROUP_ID is set
          MaxFlows,       \* bound on the flows begun
          MaxCodes,       \* bound on the codes issued
          None

Flows == 1..MaxFlows
Codes == 1..MaxCodes

ASSUME SignInAssumption ==
    /\ RoleHolders \subseteq Users /\ GroupMembers \subseteq Users
    /\ ByRole \in BOOLEAN /\ ByGroup \in BOOLEAN
    /\ MaxFlows \in Nat /\ MaxCodes \in Nat
    /\ None \notin Nat /\ None \notin Users

VARIABLES
    \* browsers
    flowCookie,   \* cd_oauth_state and cd_oauth_verifier, set and deleted together
    session,      \* the session cookie: the user, and the code it came from
    \* the provider
    begun,        \* the browser each flow was begun in
    issued,       \* the user and the challenge of each code
    unused,       \* codes that have not been exchanged
    \* the dashboard
    callback,     \* the callback each handler works on
    sessions      \* how many sessions each code has led to

signInVars == <<flowCookie, session, begun, issued, unused, callback, sessions>>

NoSession == [user |-> None, code |-> None]
NoCallback == [stage |-> "idle", browser |-> None, code |-> None,
               verifier |-> None, roles |-> FALSE, groups |-> FALSE]

SignInInit ==
    /\ flowCookie = [b \in Browsers |-> None]
    /\ session = [b \in Browsers |-> NoSession]
    /\ begun = <<>> /\ issued = <<>> /\ unused = {}
    /\ callback = [h \in Handlers |-> NoCallback]
    /\ sessions = [n \in Codes |-> 0]

\* /api/auth/login: a new flow; its cookies replace those of another tab's.
Login(b) ==
    /\ Len(begun) < MaxFlows
    /\ begun' = Append(begun, b)
    /\ flowCookie' = [flowCookie EXCEPT ![b] = Len(begun) + 1]
    /\ UNCHANGED <<session, issued, unused, callback, sessions>>

\* maxAge: the cookies of a flow last ten minutes.
FlowExpires(b) ==
    /\ flowCookie[b] # None
    /\ flowCookie' = [flowCookie EXCEPT ![b] = None]
    /\ UNCHANGED <<session, begun, issued, unused, callback, sessions>>

\* Somebody signs in at the provider with the link of a flow.
Authorize ==
    /\ Len(issued) < MaxCodes
    /\ \E u \in Users, f \in 1..Len(begun) : issued' = Append(issued, [user |-> u, flow |-> f])
    /\ unused' = unused \cup {Len(issued) + 1}
    /\ UNCHANGED <<flowCookie, session, begun, callback, sessions>>

\* /api/auth/callback: the link with a code and the state of its flow is opened
\* in a browser whose cookies hold that state. Any other opening ends there.
Callback(h, b, n) ==
    /\ callback[h] = NoCallback
    /\ flowCookie[b] # None
    /\ issued[n].flow = flowCookie[b]
    /\ callback' = [callback EXCEPT ![h] =
                       [NoCallback EXCEPT !.stage = "exchange", !.browser = b,
                                          !.code = n, !.verifier = flowCookie[b]]]
    /\ UNCHANGED <<flowCookie, session, begun, issued, unused, sessions>>

\* What the token tells of roles and groups: a tenant may leave a claim out, and
\* the groups may be too many for a token.
ClaimsFor(u) == {claims \in [roles : BOOLEAN, groups : BOOLEAN] :
                    /\ claims.roles => u \in RoleHolders
                    /\ claims.groups => u \in GroupMembers}

\* Mutant of ExchangeCode: a code stays good.
ExchangeCode_Reusable(h) ==
    LET n == callback[h].code IN
    /\ callback[h].stage = "exchange"
    /\ callback[h].verifier = issued[n].flow
    /\ callback' = [callback EXCEPT ![h].stage = "token",
                                    ![h].roles = issued[n].user \in RoleHolders,
                                    ![h].groups = issued[n].user \in GroupMembers]
    /\ UNCHANGED <<flowCookie, session, begun, issued, unused, sessions>>

\* The token endpoint: a code is good once, whether or not its challenge is met.
ExchangeCode(h) ==
    LET n == callback[h].code IN
    /\ callback[h].stage = "exchange"
    /\ unused' = unused \ {n}
    /\ \/ /\ n \in unused
          /\ callback[h].verifier = issued[n].flow
          /\ \E claims \in ClaimsFor(issued[n].user) :
                callback' = [callback EXCEPT ![h].stage = "token",
                                             ![h].roles = claims.roles,
                                             ![h].groups = claims.groups]
       \/ /\ n \notin unused \/ callback[h].verifier # issued[n].flow
          /\ callback' = [callback EXCEPT ![h] = NoCallback]
    /\ UNCHANGED <<flowCookie, session, begun, issued, sessions>>

\* The exchange fails before the provider looks at the code.
ExchangeFails(h) ==
    /\ callback[h].stage = "exchange"
    /\ callback' = [callback EXCEPT ![h] = NoCallback]
    /\ UNCHANGED <<flowCookie, session, begun, issued, unused, sessions>>

\* Mutant of Admits: a groups claim that was left out is not looked into.
Admits_AnyGroup(roles, groups) == ByGroup \/ ByRole => roles \/ ByGroup

\* sessionFromIdToken: one configured check is enough; with none configured
\* whoever the tenant lets in is an admin.
Admits(roles, groups) ==
    \/ ~ByRole /\ ~ByGroup
    \/ ByRole /\ roles
    \/ ByGroup /\ groups

\* The session cookie is signed and made from the token alone.
SessionFrom(n) == [user |-> issued[n].user, code |-> n]

\* The answer reaches the browser: a session in place of the flow's cookies
\* (whichever flow they are of by now), or the reason there is none.
Grant(h) ==
    LET b == callback[h].browser
        n == callback[h].code
    IN  /\ callback[h].stage = "token"
        /\ Admits(callback[h].roles, callback[h].groups)
        /\ session' = [session EXCEPT ![b] = SessionFrom(n)]
        /\ sessions' = [sessions EXCEPT ![n] = @ + 1]
        /\ flowCookie' = [flowCookie EXCEPT ![b] = None]
        /\ callback' = [callback EXCEPT ![h] = NoCallback]
        /\ UNCHANGED <<begun, issued, unused>>

\* No admin; or the token is not accepted: the keys to check it with are not
\* to be had, or it has run out.
Deny(h) ==
    /\ callback[h].stage = "token"
    /\ callback' = [callback EXCEPT ![h] = NoCallback]
    /\ UNCHANGED <<flowCookie, session, begun, issued, unused, sessions>>

\* /api/auth/logout, or the eight hours are over.
SignOut(b) ==
    /\ session[b] # NoSession
    /\ session' = [session EXCEPT ![b] = NoSession]
    /\ UNCHANGED <<flowCookie, begun, issued, unused, callback, sessions>>

SignInNext ==
    \/ Authorize
    \/ \E b \in Browsers : Login(b) \/ FlowExpires(b) \/ SignOut(b)
    \/ \E h \in Handlers :
          \/ ExchangeCode(h) \/ ExchangeFails(h) \/ Grant(h) \/ Deny(h)
          \/ \E b \in Browsers, n \in 1..Len(issued) : Callback(h, b, n)

SignInSpec == SignInInit /\ [][SignInNext]_signInVars

-----------------------------------------------------------------------------

\* What the browsers, the provider and the handlers hold is of its type.
SignInTypeOK ==
    /\ begun \in Seq(Browsers) /\ Len(begun) <= MaxFlows
    /\ issued \in Seq([user : Users, flow : 1..Len(begun)]) /\ Len(issued) <= MaxCodes
    /\ unused \subseteq 1..Len(issued)
    /\ flowCookie \in [Browsers -> 1..Len(begun) \cup {None}]
    /\ session \in [Browsers -> [user : Users, code : 1..Len(issued)] \cup {NoSession}]
    /\ callback \in [Handlers -> {NoCallback} \cup
          [stage : {"exchange", "token"}, browser : Browsers, code : 1..Len(issued),
           verifier : 1..Len(begun), roles : BOOLEAN, groups : BOOLEAN]]
    /\ sessions \in [Codes -> Nat]

IsAdmin(u) == \/ ~ByRole /\ ~ByGroup
              \/ ByRole /\ u \in RoleHolders
              \/ ByGroup /\ u \in GroupMembers

\* A browser is signed in only as somebody who signed in at the provider with a
\* flow begun in this browser, and whom the directory makes an admin: neither a
\* link opened elsewhere nor a missing claim signs anybody in.
SessionsBegunHere ==
    \A b \in Browsers : session[b] # NoSession =>
        LET code == issued[session[b].code]
        IN  /\ begun[code.flow] = b
            /\ code.user = session[b].user
            /\ IsAdmin(code.user)

\* A code leads to one session at most, in whatever order two callbacks of the
\* same link are handled.
OneSessionPerCode == \A n \in Codes : sessions[n] <= 1

=============================================================================
