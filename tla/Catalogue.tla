----------------------------- MODULE Catalogue -----------------------------
(***************************************************************************)
(* The model registry. Helm's list of models is mounted into every router, *)
(* and each router that starts makes the registry match it in one          *)
(* transaction, statement by statement, while other routers do the same    *)
(* with the same or another list. Administrators' edits are kept apart and *)
(* merged over the base row when a model is read.                          *)
(*                                                                         *)
(* PostgreSQL at READ COMMITTED: a statement sees what was committed when  *)
(* it began, a row somebody is writing is waited for, and what one waits   *)
(* for is read again. A transaction that fails, as the victim of a         *)
(* deadlock say, leaves nothing.                                           *)
(***************************************************************************)
EXTENDS Naturals, Sequences

CONSTANTS Routers, Ids,
          Lists,      \* what Helm may have mounted: sequences of entries
          Fields, Values,
          Admins,
          Absent, Same, Unset

Entries == [id : Ids, capable : BOOLEAN, backendRef : Ids \cup {Absent},
            fields : [Fields -> Values]]

IdsOf(models) == {models[i].id : i \in DOMAIN models}

\* readModelsConfig: what it throws on.
Readable(models) ==
    \A i \in DOMAIN models :
        /\ models[i].capable
        /\ models[i].backendRef # Absent =>
              /\ models[i].backendRef \in IdsOf(models)
              /\ models[i].backendRef # models[i].id
              /\ \A j \in DOMAIN models :
                    models[j].id = models[i].backendRef => models[j].backendRef = Absent

\* Any two lists a release and its successor mount have a model in common.
ASSUME CatalogueAssumption ==
    /\ Lists \subseteq Seq(Entries)
    /\ \A l, m \in Lists : Readable(l) /\ Readable(m) => IdsOf(l) \cap IdsOf(m) # {}
    /\ {Absent, Same} \cap Entries = {} /\ Absent # Same
    /\ Absent \notin [Fields -> Values \cup {Unset}]
    /\ Absent \notin Ids /\ Unset \notin Values

VARIABLES
    registry,   \* model_registry, as committed: id -> its row
    overrides,  \* model_registry_overrides: id -> its fields
    list,       \* the list a router is synchronising to, or <<>>
    done,       \* how many of its entries it has upserted
    doomed,     \* the rows its DELETE has still to take
    wrote,      \* what its open transaction has written, and so locked
    form        \* the override form an administrator has open

catalogueVars == <<registry, overrides, list, done, doomed, wrote, form>>

Nothing == [id \in Ids |-> Same]

CatalogueInit ==
    /\ registry = [id \in Ids |-> Absent]
    /\ overrides = [id \in Ids |-> Absent]
    /\ list = [r \in Routers |-> <<>>]
    /\ done = [r \in Routers |-> 0]
    /\ doomed = [r \in Routers |-> {}]
    /\ wrote = [r \in Routers |-> Nothing]
    /\ form = [a \in Admins |-> Absent]

Locked(id, r) == \E s \in Routers \ {r} : wrote[s][id] # Same

\* syncModelsFromConfigFile, at the start of a router: a list that is missing or
\* not readable leaves the registry alone.
Begin(r) ==
    /\ list[r] = <<>>
    /\ \E l \in Lists : Readable(l) /\ list' = [list EXCEPT ![r] = l]
    /\ UNCHANGED <<registry, overrides, done, doomed, wrote, form>>

\* Mutant of UpsertEntry: no BEGIN, every statement is committed by itself.
UpsertEntry_AutoCommit(r) ==
    /\ done[r] < Len(list[r])
    /\ LET entry == list[r][done[r] + 1] IN
          registry' = [registry EXCEPT ![entry.id] = entry]
    /\ done' = [done EXCEPT ![r] = @ + 1]
    /\ UNCHANGED <<overrides, list, doomed, wrote, form>>

\* The next INSERT ... ON CONFLICT.
UpsertEntry(r) ==
    /\ done[r] < Len(list[r])
    /\ LET entry == list[r][done[r] + 1] IN
          /\ ~Locked(entry.id, r)
          /\ wrote' = [wrote EXCEPT ![r][entry.id] = entry]
    /\ done' = [done EXCEPT ![r] = @ + 1]
    /\ UNCHANGED <<registry, overrides, list, doomed, form>>

\* The DELETE begins: it will take the rows it can see.
Unlisted(r) == {id \in Ids : registry[id] # Absent /\ id \notin IdsOf(list[r])}

StartDelete(r) ==
    /\ list[r] # <<>> /\ done[r] = Len(list[r])
    /\ doomed' = [doomed EXCEPT ![r] = Unlisted(r)]
    /\ done' = [done EXCEPT ![r] = @ + 1]
    /\ UNCHANGED <<registry, overrides, list, wrote, form>>

DeleteRow(r) ==
    /\ \E id \in doomed[r] :
          /\ ~Locked(id, r)
          /\ wrote' = [wrote EXCEPT ![r][id] = Absent]
          /\ doomed' = [doomed EXCEPT ![r] = @ \ {id}]
    /\ UNCHANGED <<registry, overrides, list, done, form>>

Finish(r) ==
    /\ list' = [list EXCEPT ![r] = <<>>]
    /\ done' = [done EXCEPT ![r] = 0]
    /\ doomed' = [doomed EXCEPT ![r] = {}]
    /\ wrote' = [wrote EXCEPT ![r] = Nothing]

\* Mutant of Commit: the registry is emptied and filled again.
Commit_Refill(r) ==
    /\ done[r] > Len(list[r]) /\ doomed[r] = {}
    /\ registry' = [id \in Ids |-> IF wrote[r][id] = Same THEN registry[id] ELSE wrote[r][id]]
    /\ overrides' = [id \in Ids |-> IF wrote[r][id] # Same THEN Absent ELSE overrides[id]]
    /\ Finish(r)
    /\ UNCHANGED form

\* What is deleted takes its override with it.
Commit(r) ==
    /\ done[r] > Len(list[r]) /\ doomed[r] = {}
    /\ registry' = [id \in Ids |-> IF wrote[r][id] = Same THEN registry[id] ELSE wrote[r][id]]
    /\ overrides' = [id \in Ids |-> IF wrote[r][id] = Absent THEN Absent ELSE overrides[id]]
    /\ Finish(r)
    /\ UNCHANGED form

\* A statement fails, or the router dies: ROLLBACK. The router that is still
\* there serves what the registry holds.
SyncFails(r) ==
    /\ list[r] # <<>>
    /\ Finish(r)
    /\ UNCHANGED <<registry, overrides, form>>

\* mergeModelConfig, for the fields that can be edited.
Merged(id) ==
    [f \in Fields |-> IF overrides[id] # Absent /\ overrides[id][f] # Unset
                      THEN overrides[id][f] ELSE registry[id].fields[f]]

OpenForm(a) ==
    /\ form[a] = Absent
    /\ \E id \in Ids : registry[id] # Absent
                    /\ form' = [form EXCEPT ![a] = [id |-> id, fields |-> Merged(id)]]
    /\ UNCHANGED <<registry, overrides, list, done, doomed, wrote>>

\* setModelOverride: what is sent is merged, field by field, over what is there.
\* A model that is gone is a failure (of the foreign key); one that is being
\* deleted is waited for.
SetModelOverride(id, sent) ==
    /\ \A r \in Routers : wrote[r][id] # Absent
    /\ overrides' =
          IF registry[id] = Absent THEN overrides
          ELSE [overrides EXCEPT ![id] =
                  [f \in Fields |-> IF sent[f] # Unset \/ @ = Absent THEN sent[f] ELSE @[f]]]
    /\ UNCHANGED <<registry, list, done, doomed, wrote>>

\* handleSave: the form sends every field it shows, edited or not.
Save(a) ==
    /\ form[a] # Absent
    /\ \E sent \in [Fields -> Values] :
          /\ \E f \in Fields : \A g \in Fields \ {f} : sent[g] = form[a].fields[g]
          /\ SetModelOverride(form[a].id, sent)
    /\ form' = [form EXCEPT ![a] = Absent]

\* A PATCH of one field by a client of the API.
PatchField ==
    /\ \E id \in Ids, f \in Fields, v \in Values :
          SetModelOverride(id, [g \in Fields |-> IF g = f THEN v ELSE Unset])
    /\ UNCHANGED form

CatalogueNext ==
    \/ \E r \in Routers : \/ Begin(r) \/ UpsertEntry(r) \/ StartDelete(r)
                          \/ DeleteRow(r) \/ Commit(r) \/ SyncFails(r)
    \/ \E a \in Admins : OpenForm(a) \/ Save(a)
    \/ PatchField

CatalogueSpec == CatalogueInit /\ [][CatalogueNext]_catalogueVars

-----------------------------------------------------------------------------

Rows == Entries \cup {Absent}
Edits == [Fields -> Values \cup {Unset}]

CatalogueTypeOK ==
    /\ registry \in [Ids -> Rows]
    /\ overrides \in [Ids -> Edits \cup {Absent}]
    /\ list \in [Routers -> Lists \cup {<<>>}]
    /\ done \in [Routers -> Nat]
    /\ doomed \in [Routers -> SUBSET Ids]
    /\ wrote \in [Routers -> [Ids -> Rows \cup {Same}]]
    /\ form \in [Admins -> [id : Ids, fields : [Fields -> Values]] \cup {Absent}]

Holds(l) ==
    \A id \in Ids :
        IF id \in IdsOf(l) THEN registry[id] \in {l[i] : i \in DOMAIN l} /\ registry[id].id = id
                           ELSE registry[id] = Absent

\* Routers that start at the same time with different lists, in whatever order
\* their statements fall and whichever of them fails, never leave a mixture:
\* the registry is the whole of one list, as long as every two lists share a
\* model.
WholeConfiguration ==
    (\A id \in Ids : registry[id] = Absent) \/ \E l \in Lists : Readable(l) /\ Holds(l)

\* An administrator's edit outlives every sync that keeps its model: it is lost
\* only with the model, and no transaction of a router changes it otherwise.
EditsOutliveSyncs ==
    [][\A id \in Ids : overrides[id] # Absent /\ overrides'[id] # overrides[id] =>
          \/ overrides'[id] = Absent /\ registry'[id] = Absent
          \/ overrides'[id] # Absent /\ UNCHANGED <<registry, wrote>>]_catalogueVars

=============================================================================
