----------------------------- MODULE CallerAuth -----------------------------
(***************************************************************************)
(* The check of a caller's bearer token before a request is handled, and   *)
(* the set of signing keys it is made with. The keys are fetched from the  *)
(* identity provider, kept, and fetched again when they are old or when a  *)
(* token names one that is not among them.                                 *)
(*                                                                         *)
(* The provider and the library that keeps the keys are external. Times    *)
(* are not measured: a cooldown ends and a key set grows old at any moment *)
(* after the fetch that began it.                                          *)
(***************************************************************************)
EXTENDS Naturals

CONSTANTS Clients,    \* callers of the gateway
          MaxKeys     \* bound on the provider's signing keys

ASSUME AuthAssumption == MaxKeys \in Nat \ {0}

\* What may be wrong with a token: it is not there, it is signed with no key of
\* the provider, it has expired, or a claim (issuer, audience, tenant, object
\* id) is not what this gateway asks for.
Flaws == {"none", "missing", "forged", "expired", "claims"}

Keys == 1..MaxKeys

VARIABLES
    published,   \* keys the provider offers
    signing,     \* the one it signs with
    token,       \* the token of each caller: its key and its flaw
    check,       \* where the check of a caller's request has got to
    cachedKeys,  \* the keys the gateway has
    cacheAge,    \* how old they are
    fetch,       \* the request for keys; one serves every check that waits
    sample       \* the keys the provider put in its answer

authVars == <<published, signing, token, check, cachedKeys, cacheAge, fetch, sample>>

Over == {"none", "accepted", "refused"}

Waits(c) == check[c] \in {"loading", "reloading"}

AuthInit ==
    /\ published = {1} /\ signing = 1
    /\ token = [c \in Clients |-> [key |-> 0, flaw |-> "missing"]]
    /\ check = [c \in Clients |-> "none"]
    /\ cachedKeys = {} /\ cacheAge = "none"
    /\ fetch = "no" /\ sample = {}

\* The provider brings in a key, signs with it, and drops an old one later.
RollKey ==
    /\ signing < MaxKeys
    /\ published' = published \cup {signing + 1}
    /\ signing' = signing + 1
    /\ UNCHANGED <<token, check, cachedKeys, cacheAge, fetch, sample>>

DropKey ==
    /\ \E k \in published \ {signing} : published' = published \ {k}
    /\ UNCHANGED <<signing, token, check, cachedKeys, cacheAge, fetch, sample>>

Obtain(c) ==
    /\ check[c] \in Over
    /\ \E flaw \in Flaws :
          token' = [token EXCEPT ![c] =
              [key |-> IF flaw \in {"missing", "forged"} THEN 0 ELSE signing, flaw |-> flaw]]
    /\ UNCHANGED <<published, signing, check, cachedKeys, cacheAge, fetch, sample>>

\* A request arrives; without a bearer token it is refused at once.
Present(c) ==
    /\ check[c] \in Over
    /\ check' = [check EXCEPT ![c] =
                    IF token[c].flaw = "missing" THEN "refused" ELSE "lookup"]
    /\ UNCHANGED <<published, signing, token, cachedKeys, cacheAge, fetch, sample>>

\* The key is there: the signature is tried, and then the claims.
KeyKnown(c) == token[c].key \in cachedKeys
Verdict(c) == IF token[c].flaw = "none" THEN "accepted" ELSE "refused"

\* Mutant of Lookup: a key that is unknown is not fetched.
Lookup_NoReload(c) ==
    /\ check[c] = "lookup"
    /\ IF cacheAge \in {"none", "old"}
       THEN /\ check' = [check EXCEPT ![c] = "loading"]
            /\ fetch' = IF fetch = "no" THEN "asked" ELSE fetch
       ELSE /\ check' = [check EXCEPT ![c] = IF KeyKnown(c) THEN Verdict(c) ELSE "refused"]
            /\ UNCHANGED fetch
    /\ UNCHANGED <<published, signing, token, cachedKeys, cacheAge, sample>>

\* createRemoteJWKSet: a set that is missing or old is fetched before the key
\* is looked for; an unknown key has the set fetched too, unless that was done
\* within the cooldown.
Lookup(c) ==
    /\ check[c] = "lookup"
    /\ IF cacheAge \in {"none", "old"}
       THEN /\ check' = [check EXCEPT ![c] = "loading"]
            /\ fetch' = IF fetch = "no" THEN "asked" ELSE fetch
       ELSE IF KeyKnown(c)
       THEN /\ check' = [check EXCEPT ![c] = Verdict(c)]
            /\ UNCHANGED fetch
       ELSE IF cacheAge = "cooling"
       THEN /\ check' = [check EXCEPT ![c] = "refused"]
            /\ UNCHANGED fetch
       ELSE /\ check' = [check EXCEPT ![c] = "reloading"]
            /\ fetch' = IF fetch = "no" THEN "asked" ELSE fetch
    /\ UNCHANGED <<published, signing, token, cachedKeys, cacheAge, sample>>

\* The second look, after the fetch an unknown key has caused.
LookAgain(c) ==
    /\ check[c] = "reloaded"
    /\ check' = [check EXCEPT ![c] = IF KeyKnown(c) THEN Verdict(c) ELSE "refused"]
    /\ UNCHANGED <<published, signing, token, cachedKeys, cacheAge, fetch, sample>>

KeysSent ==
    /\ fetch = "asked"
    /\ fetch' = "sent"
    /\ sample' = published
    /\ UNCHANGED <<published, signing, token, check, cachedKeys, cacheAge>>

\* Mutant of KeysArrive: the keys that are there already are kept.
KeysArrive_KeepsKeys ==
    /\ fetch = "sent"
    /\ fetch' = "no"
    /\ cachedKeys' = IF cachedKeys = {} THEN sample ELSE cachedKeys
    /\ cacheAge' = "cooling"
    /\ check' = [c \in Clients |-> CASE check[c] = "loading" -> "lookup"
                                     [] check[c] = "reloading" -> "reloaded"
                                     [] OTHER -> check[c]]
    /\ UNCHANGED <<published, signing, token, sample>>

KeysArrive ==
    /\ fetch = "sent"
    /\ fetch' = "no"
    /\ cachedKeys' = sample
    /\ cacheAge' = "cooling"
    /\ check' = [c \in Clients |-> CASE check[c] = "loading" -> "lookup"
                                     [] check[c] = "reloading" -> "reloaded"
                                     [] OTHER -> check[c]]
    /\ UNCHANGED <<published, signing, token, sample>>

\* The fetch fails, or takes longer than its timeout: every check that waits
\* for it throws, which verifyBearerToken turns into a refusal.
FetchFails ==
    /\ fetch # "no"
    /\ fetch' = "no"
    /\ check' = [c \in Clients |-> IF Waits(c) THEN "refused" ELSE check[c]]
    /\ UNCHANGED <<published, signing, token, cachedKeys, cacheAge, sample>>

CooldownEnds ==
    /\ cacheAge = "cooling"
    /\ cacheAge' = "warm"
    /\ UNCHANGED <<published, signing, token, check, cachedKeys, fetch, sample>>

\* Ten minutes are over. A check that can run has long done so.
CacheGrowsOld ==
    /\ cacheAge = "warm"
    /\ \A c \in Clients : check[c] \notin {"lookup", "reloaded"}
    /\ cacheAge' = "old"
    /\ UNCHANGED <<published, signing, token, check, cachedKeys, fetch, sample>>

Expire(c) ==
    /\ check[c] \in Over
    /\ token[c].flaw = "none"
    /\ token' = [token EXCEPT ![c].flaw = "expired"]
    /\ UNCHANGED <<published, signing, check, cachedKeys, cacheAge, fetch, sample>>

AuthNext ==
    \/ RollKey \/ DropKey \/ KeysSent \/ KeysArrive \/ FetchFails
    \/ CooldownEnds \/ CacheGrowsOld
    \/ \E c \in Clients : Obtain(c) \/ Present(c) \/ Lookup(c) \/ LookAgain(c) \/ Expire(c)

\* Checks run, the cooldown is over in time, a caller that has a token tries
\* again, and of the fetches a caller waits for not every one fails.
AuthFairness ==
    /\ WF_authVars(CooldownEnds)
    /\ \A c \in Clients :
          /\ WF_authVars(token[c].flaw # "missing" /\ Present(c))
          /\ WF_authVars(Lookup(c)) /\ WF_authVars(LookAgain(c))
          /\ SF_authVars(Waits(c) /\ KeysSent) /\ SF_authVars(Waits(c) /\ KeysArrive)

AuthSpec == AuthInit /\ [][AuthNext]_authVars
FairAuthSpec == AuthSpec /\ AuthFairness

-----------------------------------------------------------------------------

\* The variables of the key set and of the checks have their types.
AuthTypeOK ==
    /\ published \subseteq Keys /\ signing \in published
    /\ token \in [Clients -> [key : Keys \cup {0}, flaw : Flaws]]
    /\ check \in [Clients -> Over \cup {"lookup", "loading", "reloading", "reloaded"}]
    /\ cachedKeys \subseteq Keys /\ sample \subseteq Keys
    /\ cacheAge \in {"none", "cooling", "warm", "old"}
    /\ fetch \in {"no", "asked", "sent"}

Good(c) == token[c].flaw = "none" /\ token[c].key \in published

\* A good token is refused only when the keys could not be fetched, or when its
\* key came after the keys the gateway has just fetched: in the cooldown, or
\* after a fetch made for this very token.
RefusedOnlyWhenUnknown ==
    [][\A c \in Clients :
          Good(c) /\ check[c] \notin Over /\ check'[c] = "refused"
          => \/ FetchFails
             \/ ~KeyKnown(c) /\ (cacheAge = "cooling" \/ check[c] = "reloaded")]_authVars

\* A caller whose token is and stays good gets in again and again, whatever key
\* it is signed with: a rollover is picked up without a restart.
RolloverPickedUp ==
    \A c \in Clients : <>[]Good(c) => []<>(check[c] = "accepted")

=============================================================================
