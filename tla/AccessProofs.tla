---------------------------- MODULE AccessProofs ----------------------------
(***************************************************************************)
(* Access. Signing in keeps its types, signs a browser in only as an admin *)
(* who took up a flow begun there, and makes one session of a code at      *)
(* most; the check of callers keeps its types, and refuses a good token    *)
(* only when its key could not be known: for any number of browsers,       *)
(* users, handlers, flows and codes, and of callers and keys.              *)
(***************************************************************************)
EXTENDS SignIn, CallerAuth, SequenceTheorems, TLAPS


(* Types. *)

\* A callback under way, when so many flows have begun and so many codes have
\* been issued.
Underway(flows, codes) ==
    [stage : {"exchange", "token"}, browser : Browsers, code : 1..codes,
     verifier : 1..flows, roles : BOOLEAN, groups : BOOLEAN]

\* A callback that is under way is not the one that is not.
LEMMA UnderwayIsSome ==
    ASSUME NEW flows \in Nat, NEW codes \in Nat
    PROVE  NoCallback \notin Underway(flows, codes)
BY SignInAssumption DEF SignInAssumption, NoCallback, Underway

\* A code that was issued makes a session.
LEMMA SessionIsSome ==
    ASSUME NEW codes \in Nat
    PROVE  NoSession \notin [user : Users, code : 1..codes]
BY SignInAssumption DEF SignInAssumption, NoSession

\* The next number, and the numbers before it.
LEMMA OneMore ==
    ASSUME NEW n \in Nat, NEW m \in Nat, n < m, NEW U \in SUBSET (1..n)
    PROVE  U \cup {n + 1} \subseteq 1..(n + 1) /\ n + 1 <= m
OBVIOUS

\* Initially every variable has its type ...
LEMMA InitType == SignInInit => SignInTypeOK
<1> SUFFICES ASSUME SignInInit PROVE SignInTypeOK
  OBVIOUS
<1>1. begun = <<>> /\ issued = <<>> /\ Len(begun) = 0 /\ Len(issued) = 0
  BY DEF SignInInit
<1>2. QED
  BY <1>1, SignInAssumption DEF SignInAssumption, SignInInit, SignInTypeOK

\* ... and every step keeps it.
LEMMA NextType == SignInTypeOK /\ [SignInNext]_signInVars => SignInTypeOK'
<1> SUFFICES ASSUME SignInTypeOK, [SignInNext]_signInVars PROVE SignInTypeOK'
  OBVIOUS
<1> USE SignInAssumption DEF SignInAssumption, SignInTypeOK
<1>a. Len(begun) \in Nat /\ Len(issued) \in Nat
  OBVIOUS
<1>b. /\ \A h \in Handlers : callback[h] = NoCallback
             \/ callback[h] \in Underway(Len(begun), Len(issued))
      /\ DOMAIN callback = Handlers
  BY DEF Underway
<1>c. \A n \in 1..Len(issued) : issued[n] \in [user : Users, flow : 1..Len(begun)]
  BY ElementOfSeq
<1>d. NoCallback.stage = "idle"
  BY DEF NoCallback
<1>1. CASE Authorize
  <2>1. PICK u \in Users, f \in 1..Len(begun) :
            issued' = Append(issued, [user |-> u, flow |-> f])
    BY <1>1 DEF Authorize
  <2>2. /\ issued' \in Seq([user : Users, flow : 1..Len(begun)])
        /\ Len(issued') = Len(issued) + 1
    BY <2>1
  <2>3. /\ unused' = unused \cup {Len(issued) + 1}
        /\ Len(issued) < MaxCodes
        /\ UNCHANGED <<flowCookie, session, begun, callback, sessions>>
    BY <1>1 DEF Authorize
  <2>4. 1..Len(issued) \subseteq 1..Len(issued')
    BY <1>a, <2>2
  <2>5. session' \in [Browsers -> [user : Users, code : 1..Len(issued')] \cup {NoSession}]
    BY <2>3, <2>4
  <2>6. callback' \in [Handlers -> {NoCallback} \cup Underway(Len(begun'), Len(issued'))]
    BY <1>b, <2>3, <2>4 DEF Underway
  <2>7. unused' \subseteq 1..Len(issued') /\ Len(issued') <= MaxCodes
    <3>1. unused' \subseteq 1..(Len(issued) + 1) /\ Len(issued) + 1 <= MaxCodes
      BY <1>a, <2>3, OneMore
    <3>2. QED
      BY <2>2, <3>1
  <2>8. /\ issued' \in Seq([user : Users, flow : 1..Len(begun')])
        /\ begun' \in Seq(Browsers) /\ Len(begun') <= MaxFlows
    BY <2>2, <2>3
  <2>9. /\ flowCookie' \in [Browsers -> 1..Len(begun') \cup {None}]
        /\ sessions' \in [Codes -> Nat]
    BY <2>3
  <2>10. QED
    BY <2>5, <2>6, <2>7, <2>8, <2>9 DEF Underway
<1>2. ASSUME NEW b \in Browsers, Login(b) PROVE SignInTypeOK'
  <2>1. /\ begun' \in Seq(Browsers) /\ Len(begun') = Len(begun) + 1
        /\ Len(begun') <= MaxFlows
    BY <1>a, <1>2 DEF Login
  <2>2. 1..Len(begun) \subseteq 1..Len(begun')
    BY <1>a, <2>1
  <2>3. flowCookie' \in [Browsers -> 1..Len(begun') \cup {None}]
    BY <1>a, <1>2, <2>1, <2>2 DEF Login
  <2>4. issued' \in Seq([user : Users, flow : 1..Len(begun')])
    <3>1. [user : Users, flow : 1..Len(begun)] \subseteq [user : Users, flow : 1..Len(begun')]
      BY <2>2
    <3>2. issued \in Seq([user : Users, flow : 1..Len(begun')])
      BY <3>1, SeqMonotonic
    <3>3. QED
      BY <1>2, <3>2 DEF Login
  <2>5. callback' \in [Handlers -> {NoCallback} \cup Underway(Len(begun'), Len(issued'))]
    BY <1>b, <1>2, <2>2 DEF Login, Underway
  <2>6. QED
    BY <1>2, <2>1, <2>3, <2>4, <2>5 DEF Login, Underway
<1>3. ASSUME NEW b \in Browsers, FlowExpires(b) PROVE SignInTypeOK'
  BY <1>3 DEF FlowExpires
<1>4. ASSUME NEW b \in Browsers, SignOut(b) PROVE SignInTypeOK'
  BY <1>4 DEF SignOut
<1>5. ASSUME NEW h \in Handlers, NEW b \in Browsers, NEW n \in 1..Len(issued),
             Callback(h, b, n)
      PROVE  SignInTypeOK'
  <2>1. [NoCallback EXCEPT !.stage = "exchange", !.browser = b,
                           !.code = n, !.verifier = flowCookie[b]]
            \in Underway(Len(begun), Len(issued))
    BY <1>5 DEF Callback, NoCallback, Underway
  <2>2. callback' \in [Handlers -> {NoCallback} \cup Underway(Len(begun), Len(issued))]
    BY <1>b, <1>5, <2>1 DEF Callback, Underway
  <2>3. QED
    BY <1>5, <2>2 DEF Callback, Underway
<1>6. ASSUME NEW h \in Handlers, ExchangeCode(h) PROVE SignInTypeOK'
  <2>1. callback[h] \in Underway(Len(begun), Len(issued))
    BY <1>b, <1>d, <1>6 DEF ExchangeCode
  <2>2. callback' \in [Handlers -> {NoCallback} \cup Underway(Len(begun), Len(issued))]
    <3>1. CASE callback' = [callback EXCEPT ![h] = NoCallback]
      BY <1>b, <3>1 DEF Underway
    <3>2. ASSUME NEW claims \in ClaimsFor(issued[callback[h].code].user),
                 callback' = [callback EXCEPT ![h].stage = "token",
                                              ![h].roles = claims.roles,
                                              ![h].groups = claims.groups]
          PROVE  callback' \in [Handlers -> {NoCallback}
                                    \cup Underway(Len(begun), Len(issued))]
      BY <1>b, <2>1, <3>2 DEF Underway, ClaimsFor
    <3>3. QED
      BY <1>6, <3>1, <3>2 DEF ExchangeCode
  <2>3. QED
    BY <1>6, <2>2 DEF ExchangeCode, Underway
<1>7. ASSUME NEW h \in Handlers, ExchangeFails(h) \/ Deny(h) PROVE SignInTypeOK'
  BY <1>7 DEF ExchangeFails, Deny
<1>8. ASSUME NEW h \in Handlers, Grant(h) PROVE SignInTypeOK'
  <2>1. callback[h] \in Underway(Len(begun), Len(issued))
    BY <1>b, <1>d, <1>8 DEF Grant
  <2>2. /\ callback[h].browser \in Browsers /\ callback[h].code \in 1..Len(issued)
        /\ callback[h].code \in Codes
    BY <1>a, <2>1 DEF Underway, Codes
  <2>3. SessionFrom(callback[h].code) \in [user : Users, code : 1..Len(issued)]
    BY <1>c, <2>2 DEF SessionFrom
  <2>4. session' \in [Browsers -> [user : Users, code : 1..Len(issued)] \cup {NoSession}]
    BY <1>8, <2>2, <2>3 DEF Grant
  <2>5. sessions' \in [Codes -> Nat]
    BY <1>8, <2>2 DEF Grant
  <2>6. flowCookie' \in [Browsers -> 1..Len(begun) \cup {None}]
    BY <1>8, <2>2 DEF Grant
  <2>7. QED
    BY <1>8, <2>4, <2>5, <2>6 DEF Grant
<1>9. CASE UNCHANGED signInVars
  BY <1>9 DEF signInVars
<1>10. QED
  BY <1>1, <1>2, <1>3, <1>4, <1>5, <1>6, <1>7, <1>8, <1>9 DEF SignInNext

\* Type correctness: cookies, codes, callbacks and sessions have their types,
\* for any number of browsers, users and handlers.
THEOREM TypeCorrect == SignInSpec => []SignInTypeOK
<1>1. SignInInit => SignInTypeOK
  BY InitType
<1>2. SignInTypeOK /\ [SignInNext]_signInVars => SignInTypeOK'
  BY NextType
<1>3. QED
  BY <1>1, <1>2, PTL DEF SignInSpec

-----------------------------------------------------------------------------
(* Who is signed in where. *)

\* A callback has the browser its flow was begun in, and claims of the user's.
CallbackBegunHere(h) ==
    callback[h] # NoCallback =>
        LET code == issued[callback[h].code]
        IN  /\ begun[code.flow] = callback[h].browser
            /\ callback[h].roles => code.user \in RoleHolders
            /\ callback[h].groups => code.user \in GroupMembers

\* The cookies of a flow are in the browser it was begun in.
BegunInv ==
    /\ \A b \in Browsers : flowCookie[b] # None => begun[flowCookie[b]] = b
    /\ \A h \in Handlers : CallbackBegunHere(h)
    /\ SessionsBegunHere

\* What is known of an entry that was issued or begun earlier.
LEMMA Entries ==
    ASSUME SignInTypeOK
    PROVE  /\ \A n \in 1..Len(issued) :
                 issued[n].user \in Users /\ issued[n].flow \in 1..Len(begun)
           /\ \A b \in Browsers : flowCookie[b] # None => flowCookie[b] \in 1..Len(begun)
           /\ \A b \in Browsers : session[b] # NoSession => session[b].code \in 1..Len(issued)
           /\ \A h \in Handlers : callback[h] # NoCallback =>
                 /\ callback[h].code \in 1..Len(issued)
                 /\ callback[h].browser \in Browsers
                 /\ callback[h].stage \in {"exchange", "token"}
<1> USE DEF SignInTypeOK
<1>1. \A n \in 1..Len(issued) : issued[n] \in [user : Users, flow : 1..Len(begun)]
  BY ElementOfSeq
<1>2. QED
  BY <1>1

\* Initially nothing is begun ...
LEMMA InitBegun == SignInInit => BegunInv
BY DEF SignInInit, BegunInv, CallbackBegunHere, SessionsBegunHere

\* ... a flow or a code that is added leaves the others as they were ...
LEMMA LaterEntries ==
    ASSUME SignInTypeOK, BegunInv, UNCHANGED <<session, callback>>,
           \A n \in 1..Len(issued) : issued'[n] = issued[n],
           \A f \in 1..Len(begun) : begun'[f] = begun[f]
    PROVE  /\ \A h \in Handlers : CallbackBegunHere(h)'
           /\ SessionsBegunHere'
BY Entries DEF BegunInv, CallbackBegunHere, SessionsBegunHere

\* ... and a callback, and the session it leads to, are of the browser's own flow.
LEMMA NextBegun == SignInTypeOK /\ BegunInv /\ [SignInNext]_signInVars => BegunInv'
<1> SUFFICES ASSUME SignInTypeOK, BegunInv, [SignInNext]_signInVars PROVE BegunInv'
  OBVIOUS
<1>a. /\ DOMAIN callback = Handlers /\ DOMAIN session = Browsers
      /\ DOMAIN flowCookie = Browsers
  BY DEF SignInTypeOK
<1>b. NoCallback.stage = "idle" /\ NoCallback.roles = FALSE /\ NoCallback.groups = FALSE
  BY DEF NoCallback
<1>1. CASE Authorize
  <2>1. \A n \in 1..Len(issued) : issued'[n] = issued[n]
    BY <1>1 DEF Authorize, SignInTypeOK
  <2>2. UNCHANGED <<flowCookie, session, begun, callback>>
    BY <1>1 DEF Authorize
  <2>3. QED
    BY <2>1, <2>2, LaterEntries DEF BegunInv
<1>2. ASSUME NEW b \in Browsers, Login(b) PROVE BegunInv'
  <2>1. /\ \A f \in 1..Len(begun) : begun'[f] = begun[f]
        /\ begun'[Len(begun) + 1] = b
    BY <1>2 DEF Login, SignInTypeOK
  <2>2. /\ flowCookie' = [flowCookie EXCEPT ![b] = Len(begun) + 1]
        /\ UNCHANGED <<session, issued, callback>>
    BY <1>2 DEF Login
  <2>3. \A x \in Browsers : flowCookie'[x] # None => begun'[flowCookie'[x]] = x
    BY <1>a, <2>1, <2>2, Entries DEF BegunInv
  <2>4. QED
    BY <2>1, <2>2, <2>3, LaterEntries DEF BegunInv
<1>3. ASSUME NEW b \in Browsers, FlowExpires(b) PROVE BegunInv'
  BY <1>a, <1>3 DEF FlowExpires, BegunInv, CallbackBegunHere, SessionsBegunHere
<1>4. ASSUME NEW b \in Browsers, SignOut(b) PROVE BegunInv'
  BY <1>a, <1>4 DEF SignOut, BegunInv, CallbackBegunHere, SessionsBegunHere
<1>5. ASSUME NEW h \in Handlers, NEW b \in Browsers, NEW n \in 1..Len(issued),
             Callback(h, b, n)
      PROVE  BegunInv'
  <2>1. /\ flowCookie[b] # None /\ issued[n].flow = flowCookie[b]
        /\ callback' = [callback EXCEPT ![h] = callback'[h]]
        /\ UNCHANGED <<flowCookie, session, begun, issued>>
    BY <1>a, <1>5 DEF Callback
  <2>2. /\ callback'[h].browser = b /\ callback'[h].code = n
        /\ callback'[h].roles = FALSE /\ callback'[h].groups = FALSE
    BY <1>a, <1>5 DEF Callback, NoCallback
  <2>3. CallbackBegunHere(h)'
    BY <2>1, <2>2 DEF CallbackBegunHere, BegunInv
  <2>4. QED
    BY <1>a, <2>1, <2>3 DEF BegunInv, CallbackBegunHere, SessionsBegunHere
<1>6. ASSUME NEW h \in Handlers, ExchangeCode(h) PROVE BegunInv'
  <2>1. callback[h] # NoCallback /\ UNCHANGED <<flowCookie, session, begun, issued>>
    BY <1>b, <1>6 DEF ExchangeCode
  <2>2. CASE callback' = [callback EXCEPT ![h] = NoCallback]
    BY <1>a, <2>1, <2>2 DEF BegunInv, CallbackBegunHere, SessionsBegunHere
  <2>3. ASSUME NEW claims \in ClaimsFor(issued[callback[h].code].user),
               callback' = [callback EXCEPT ![h].stage = "token",
                                            ![h].roles = claims.roles,
                                            ![h].groups = claims.groups]
        PROVE  BegunInv'
    <3>1. /\ callback'[h].browser = callback[h].browser
          /\ callback'[h].code = callback[h].code
          /\ callback'[h].roles => issued[callback[h].code].user \in RoleHolders
          /\ callback'[h].groups => issued[callback[h].code].user \in GroupMembers
      BY <1>a, <2>1, <2>3, Entries DEF ClaimsFor, SignInTypeOK
    <3>2. CallbackBegunHere(h)'
      BY <2>1, <3>1 DEF BegunInv, CallbackBegunHere
    <3>3. \A g \in Handlers \ {h} : callback'[g] = callback[g]
      BY <1>a, <2>3
    <3>4. QED
      BY <2>1, <3>2, <3>3 DEF BegunInv, CallbackBegunHere, SessionsBegunHere
  <2>4. QED
    BY <1>6, <2>2, <2>3 DEF ExchangeCode
<1>7. ASSUME NEW h \in Handlers, ExchangeFails(h) \/ Deny(h) PROVE BegunInv'
  BY <1>a, <1>7 DEF ExchangeFails, Deny, BegunInv, CallbackBegunHere, SessionsBegunHere
<1>8. ASSUME NEW h \in Handlers, Grant(h) PROVE BegunInv'
  <2> DEFINE b == callback[h].browser
             n == callback[h].code
  <2>1. callback[h] # NoCallback
    BY <1>b, <1>8 DEF Grant
  <2>2. /\ n \in 1..Len(issued) /\ b \in Browsers
        /\ begun[issued[n].flow] = b
    BY <2>1, Entries DEF BegunInv, CallbackBegunHere
  <2>3. IsAdmin(issued[n].user)
    BY <1>8, <2>1 DEF Grant, Admits, IsAdmin, BegunInv, CallbackBegunHere
  <2>4. /\ session' = [session EXCEPT ![b] = SessionFrom(n)]
        /\ flowCookie' = [flowCookie EXCEPT ![b] = None]
        /\ callback' = [callback EXCEPT ![h] = NoCallback]
        /\ UNCHANGED <<begun, issued>>
    BY <1>8 DEF Grant
  <2> HIDE DEF b, n
  <2>5. SessionsBegunHere'
    BY <1>a, <2>2, <2>3, <2>4 DEF SessionsBegunHere, SessionFrom, BegunInv, IsAdmin
  <2>6. QED
    BY <1>a, <2>2, <2>4, <2>5 DEF BegunInv, CallbackBegunHere
<1>9. CASE UNCHANGED signInVars
  BY <1>9 DEF signInVars, BegunInv, CallbackBegunHere, SessionsBegunHere
<1>10. QED
  BY <1>1, <1>2, <1>3, <1>4, <1>5, <1>6, <1>7, <1>8, <1>9 DEF SignInNext

\* Nobody is signed in but an admin who took up a flow of the very browser: with
\* any number of tabs, browsers and links opened elsewhere.
THEOREM SignedInByOwnFlow == SignInSpec => []SessionsBegunHere
<1>1. SignInInit => BegunInv
  BY InitBegun
<1>2. SignInTypeOK /\ BegunInv /\ [SignInNext]_signInVars => BegunInv'
  BY NextBegun
<1>3. BegunInv => SessionsBegunHere
  BY DEF BegunInv
<1>4. QED
  BY <1>1, <1>2, <1>3, TypeCorrect, PTL DEF SignInSpec

-----------------------------------------------------------------------------
(* One session of a code. *)

AtToken(h, n) == callback[h].stage = "token" /\ callback[h].code = n

\* A code leads to no session while it can still be exchanged, and one handler
\* at most has exchanged it and not yet answered.
ExchangedOnce ==
    /\ \A n \in Codes : n \in unused \/ n > Len(issued) =>
          sessions[n] = 0 /\ \A h \in Handlers : ~AtToken(h, n)
    /\ \A h \in Handlers, n \in Codes : AtToken(h, n) => sessions[n] = 0
    /\ \A g, h \in Handlers, n \in Codes : AtToken(g, n) /\ AtToken(h, n) => g = h
    /\ OneSessionPerCode

\* Initially no code has been issued ...
LEMMA InitOnce == SignInInit => ExchangedOnce
BY DEF SignInInit, ExchangedOnce, AtToken, NoCallback, OneSessionPerCode

\* ... and it is at most one handler that takes a code from unused to a session.
LEMMA NextOnce ==
    SignInTypeOK /\ ExchangedOnce /\ [SignInNext]_signInVars => ExchangedOnce'
<1> SUFFICES ASSUME SignInTypeOK, ExchangedOnce, [SignInNext]_signInVars
             PROVE  ExchangedOnce'
  OBVIOUS
<1>a. /\ DOMAIN callback = Handlers /\ sessions \in [Codes -> Nat]
      /\ Len(issued) \in Nat
  BY DEF SignInTypeOK
<1>b. NoCallback.stage = "idle"
  BY DEF NoCallback
<1> USE DEF ExchangedOnce, AtToken, OneSessionPerCode
<1>1. CASE Authorize
  <2>1. /\ unused' = unused \cup {Len(issued) + 1} /\ UNCHANGED <<callback, sessions>>
        /\ Len(issued') = Len(issued) + 1
    BY <1>1 DEF Authorize, SignInTypeOK
  <2>2. QED
    BY <1>a, <2>1 DEF Codes
<1>2. ASSUME NEW h \in Handlers, ExchangeCode(h) PROVE ExchangedOnce'
  <2>1. /\ callback[h].stage = "exchange" /\ UNCHANGED <<issued, sessions>>
        /\ unused' = unused \ {callback[h].code}
        /\ \A g \in Handlers \ {h} : callback'[g] = callback[g]
    BY <1>a, <1>2 DEF ExchangeCode
  <2>2. CASE callback'[h] = NoCallback
    BY <1>b, <2>1, <2>2
  <2>3. CASE callback'[h].code = callback[h].code /\ callback[h].code \in unused
    <3>1. callback[h].code \in 1..Len(issued)
      BY <2>3 DEF SignInTypeOK
    <3>2. callback[h].code <= Len(issued)
      BY <1>a, <3>1
    <3>3. QED
      BY <1>a, <2>1, <2>3, <3>2 DEF Codes
  <2>4. \/ callback'[h] = NoCallback
        \/ callback'[h].code = callback[h].code /\ callback[h].code \in unused
    <3>1. callback[h] # NoCallback
      BY <1>b, <2>1
    <3>2. ASSUME NEW claims,
                 callback' = [callback EXCEPT ![h].stage = "token",
                                              ![h].roles = claims.roles,
                                              ![h].groups = claims.groups]
          PROVE  callback'[h].code = callback[h].code
      BY <3>1, <3>2 DEF SignInTypeOK
    <3>3. CASE callback' = [callback EXCEPT ![h] = NoCallback]
      BY <1>a, <3>3
    <3>4. QED
      BY <1>2, <3>2, <3>3 DEF ExchangeCode
  <2>5. QED
    BY <2>2, <2>3, <2>4
<1>3. ASSUME NEW h \in Handlers, Grant(h) PROVE ExchangedOnce'
  <2> DEFINE n == callback[h].code
  <2>1. callback[h] # NoCallback
    BY <1>b, <1>3 DEF Grant
  <2>2. n \in Codes
    BY <2>1, Entries, SignInAssumption DEF SignInAssumption, SignInTypeOK, Codes
  <2>3. AtToken(h, n) /\ sessions[n] = 0 /\ n \notin unused /\ ~(n > Len(issued))
    BY <1>3, <2>2 DEF Grant
  <2>4. /\ sessions' = [sessions EXCEPT ![n] = 1]
        /\ callback' = [callback EXCEPT ![h] = NoCallback]
        /\ UNCHANGED <<unused, issued>>
    BY <1>a, <1>3, <2>2, <2>3 DEF Grant
  <2> HIDE DEF n
  <2>5. /\ \A m \in Codes : sessions'[m] = IF m = n THEN 1 ELSE sessions[m]
        /\ callback'[h].stage = "idle"
        /\ \A g \in Handlers \ {h} : callback'[g] = callback[g]
    BY <1>a, <1>b, <2>2, <2>4
  <2>6. QED
    BY <2>3, <2>4, <2>5
<1>4. ASSUME NEW h \in Handlers, ExchangeFails(h) \/ Deny(h) PROVE ExchangedOnce'
  BY <1>a, <1>b, <1>4 DEF ExchangeFails, Deny
<1>5. ASSUME NEW h \in Handlers, NEW b \in Browsers, NEW n \in 1..Len(issued),
             Callback(h, b, n)
      PROVE  ExchangedOnce'
  <2>1. callback'[h].stage = "exchange"
    BY <1>a, <1>5 DEF Callback, NoCallback
  <2>2. QED
    BY <1>a, <1>5, <2>1 DEF Callback
<1>6. ASSUME NEW b \in Browsers, Login(b) \/ FlowExpires(b) \/ SignOut(b)
      PROVE  ExchangedOnce'
  BY <1>6 DEF Login, FlowExpires, SignOut
<1>7. CASE UNCHANGED signInVars
  BY <1>7 DEF signInVars
<1>8. QED
  BY <1>1, <1>2, <1>3, <1>4, <1>5, <1>6, <1>7 DEF SignInNext

\* A code leads to one session at most, with any number of callbacks of the same
\* link, in any order and in any number of handlers.
THEOREM CodesMakeOneSession == SignInSpec => []OneSessionPerCode
<1>1. SignInInit => ExchangedOnce
  BY InitOnce
<1>2. SignInTypeOK /\ ExchangedOnce /\ [SignInNext]_signInVars => ExchangedOnce'
  BY NextOnce
<1>3. ExchangedOnce => OneSessionPerCode
  BY DEF ExchangedOnce
<1>4. QED
  BY <1>1, <1>2, <1>3, TypeCorrect, PTL DEF SignInSpec

-----------------------------------------------------------------------------
(* The check of callers. *)


\* Initially every variable has its type ...
LEMMA CallerInitType == AuthInit => AuthTypeOK
BY AuthAssumption DEF AuthAssumption, AuthInit, AuthTypeOK, Keys, Over, Flaws

\* ... and every step keeps it.
LEMMA CallerNextType == AuthTypeOK /\ [AuthNext]_authVars => AuthTypeOK'
<1> SUFFICES ASSUME AuthTypeOK, [AuthNext]_authVars PROVE AuthTypeOK'
  OBVIOUS
<1> USE AuthAssumption DEF AuthAssumption, AuthTypeOK, Keys, Over, Flaws
<1>1. CASE RollKey
  BY <1>1 DEF RollKey
<1>2. CASE DropKey
  BY <1>2 DEF DropKey
<1>3. CASE KeysSent
  BY <1>3 DEF KeysSent
<1>4. CASE KeysArrive
  BY <1>4 DEF KeysArrive
<1>5. CASE FetchFails
  BY <1>5 DEF FetchFails, Waits
<1>6. CASE CooldownEnds
  BY <1>6 DEF CooldownEnds
<1>7. CASE CacheGrowsOld
  BY <1>7 DEF CacheGrowsOld
<1>8. ASSUME NEW c \in Clients, Obtain(c) PROVE AuthTypeOK'
  <2>1. PICK flaw \in Flaws :
           token' = [token EXCEPT ![c] =
              [key |-> IF flaw \in {"missing", "forged"} THEN 0 ELSE signing, flaw |-> flaw]]
    BY <1>8 DEF Obtain
  <2>2. token' \in [Clients -> [key : Keys \cup {0}, flaw : Flaws]]
    BY <2>1
  <2>3. QED
    BY <1>8, <2>2 DEF Obtain
<1>9. ASSUME NEW c \in Clients, Present(c) PROVE AuthTypeOK'
  BY <1>9 DEF Present
<1>10. ASSUME NEW c \in Clients, Lookup(c) PROVE AuthTypeOK'
  BY <1>10 DEF Lookup, Verdict
<1>11. ASSUME NEW c \in Clients, LookAgain(c) PROVE AuthTypeOK'
  BY <1>11 DEF LookAgain, Verdict
<1>12. ASSUME NEW c \in Clients, Expire(c) PROVE AuthTypeOK'
  BY <1>12 DEF Expire
<1>13. CASE UNCHANGED authVars
  BY <1>13 DEF authVars
<1>14. QED
  BY <1>1, <1>2, <1>3, <1>4, <1>5, <1>6, <1>7, <1>8, <1>9, <1>10, <1>11,
     <1>12, <1>13 DEF AuthNext

\* Type correctness: tokens, checks, keys and the fetch have their types, for
\* any number of callers and keys.
THEOREM CallerTypeCorrect == AuthSpec => []AuthTypeOK
<1>1. AuthInit => AuthTypeOK
  BY CallerInitType
<1>2. AuthTypeOK /\ [AuthNext]_authVars => AuthTypeOK'
  BY CallerNextType
<1>3. QED
  BY <1>1, <1>2, PTL DEF AuthSpec

-----------------------------------------------------------------------------

\* What one step may do to a caller with a good token.
RefusedWithReason ==
    \A c \in Clients :
        Good(c) /\ check[c] \notin Over /\ check'[c] = "refused"
        => \/ FetchFails
           \/ ~KeyKnown(c) /\ (cacheAge = "cooling" \/ check[c] = "reloaded")

\* A check moves from one place to another by itself, except that all that
\* wait go on or are refused when the fetch ends.
LEMMA OthersStay ==
    ASSUME AuthTypeOK, AuthNext, ~KeysArrive, ~FetchFails,
           NEW c \in Clients, check'[c] # check[c]
    PROVE  Present(c) \/ Lookup(c) \/ LookAgain(c)
<1> USE DEF AuthTypeOK
<1>1. CASE RollKey \/ DropKey \/ KeysSent \/ CooldownEnds \/ CacheGrowsOld
  BY <1>1 DEF RollKey, DropKey, KeysSent, CooldownEnds, CacheGrowsOld
<1>2. ASSUME NEW d \in Clients, Obtain(d) \/ Expire(d)
      PROVE  Present(c) \/ Lookup(c) \/ LookAgain(c)
  BY <1>2 DEF Obtain, Expire
<1>3. ASSUME NEW d \in Clients, Present(d) \/ Lookup(d) \/ LookAgain(d)
      PROVE  d = c
  BY <1>3 DEF Present, Lookup, LookAgain
<1>4. QED
  BY <1>1, <1>2, <1>3 DEF AuthNext

\* Each step of a check has its reason.
LEMMA StepHasReason == AuthTypeOK /\ [AuthNext]_authVars => RefusedWithReason
<1> SUFFICES ASSUME AuthTypeOK, [AuthNext]_authVars, NEW c \in Clients,
                    Good(c), check[c] \notin Over, check'[c] = "refused",
                    ~FetchFails
             PROVE  ~KeyKnown(c) /\ (cacheAge = "cooling" \/ check[c] = "reloaded")
  BY DEF RefusedWithReason
<1> USE DEF AuthTypeOK, Over
<1>1. check'[c] # check[c]
  OBVIOUS
<1>2. AuthNext
  BY <1>1 DEF authVars
<1>3. ~KeysArrive
  BY DEF KeysArrive
<1>4. CASE Present(c)
  BY <1>4 DEF Present
<1>5. CASE Lookup(c)
  BY <1>5 DEF Lookup, Verdict, Good
<1>6. CASE LookAgain(c)
  BY <1>6 DEF LookAgain, Verdict, Good
<1>7. QED
  BY <1>1, <1>2, <1>3, <1>4, <1>5, <1>6, OthersStay

\* A good token is refused only because the keys could not be fetched, or
\* because its key is newer than the keys the gateway has just fetched: in
\* every order of rollovers, fetches and requests, of any number of callers.
THEOREM RefusedOnlyForWantOfKeys == AuthSpec => RefusedOnlyWhenUnknown
<1>1. AuthSpec => []AuthTypeOK
  BY CallerTypeCorrect
<1>2. AuthTypeOK /\ [AuthNext]_authVars => [RefusedWithReason]_authVars
  BY StepHasReason
<1>3. QED
  BY <1>1, <1>2, PTL DEF AuthSpec, RefusedOnlyWhenUnknown, RefusedWithReason

=============================================================================
