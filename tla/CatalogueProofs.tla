-------------------------- MODULE CatalogueProofs --------------------------
(***************************************************************************)
(* The registry keeps its types, is never a mixture of two lists, and      *)
(* keeps what administrators edit: for any number of routers, models and   *)
(* lists of which every two have a model in common.                        *)
(***************************************************************************)
EXTENDS Catalogue, SequenceTheorems, TLAPS

(* Types. *)

\* A list that is mounted is a sequence of entries.
LEMMA ListTypes ==
    ASSUME NEW l \in Lists \cup {<<>>}
    PROVE  /\ l \in Seq(Entries) /\ Len(l) \in Nat /\ DOMAIN l = 1..Len(l)
           /\ \A i \in DOMAIN l : l[i] \in Entries /\ l[i].id \in Ids
<1>1. l \in Seq(Entries)
  <2>1. Lists \subseteq Seq(Entries)
    BY CatalogueAssumption DEF CatalogueAssumption
  <2>2. <<>> \in Seq(Entries)
    BY EmptySeq
  <2>3. QED
    BY <2>1, <2>2
<1>2. Len(l) \in Nat /\ DOMAIN l = 1..Len(l)
  BY <1>1
<1>3. \A i \in 1..Len(l) : l[i] \in Entries
  BY <1>1, ElementOfSeq
<1>4. QED
  BY <1>1, <1>2, <1>3 DEF Entries

\* What merges an edit into a row has the fields of one.
LEMMA MergedTypes ==
    ASSUME CatalogueTypeOK, NEW id \in Ids, registry[id] # Absent
    PROVE  Merged(id) \in [Fields -> Values]
<1>1. registry[id].fields \in [Fields -> Values]
  BY DEF CatalogueTypeOK, Rows, Entries
<1>2. overrides[id] # Absent => overrides[id] \in [Fields -> Values \cup {Unset}]
  BY DEF CatalogueTypeOK, Edits
<1>3. QED
  BY <1>1, <1>2 DEF Merged

\* An edit that is set keeps the types, and is there afterwards.
LEMMA SetTypes ==
    ASSUME CatalogueTypeOK, NEW id \in Ids, NEW sent \in Edits,
           SetModelOverride(id, sent)
    PROVE  /\ overrides' \in [Ids -> Edits \cup {Absent}]
           /\ \A m \in Ids : overrides[m] # Absent => overrides'[m] # Absent
<1> DEFINE edit == [f \in Fields |-> IF sent[f] # Unset \/ overrides[id] = Absent
                                     THEN sent[f] ELSE overrides[id][f]]
<1>1. overrides[id] # Absent => overrides[id] \in Edits
  BY DEF CatalogueTypeOK
<1>2. edit \in Edits /\ edit # Absent
  BY <1>1, CatalogueAssumption DEF CatalogueAssumption, Edits
<1>3. overrides' = overrides \/ overrides' = [overrides EXCEPT ![id] = edit]
  BY DEF SetModelOverride
<1> HIDE DEF edit
<1>4. QED
  BY <1>2, <1>3 DEF CatalogueTypeOK

\* A transaction that ends leaves nothing of its own.
LEMMA FinishTypes ==
    ASSUME CatalogueTypeOK, NEW r \in Routers, Finish(r)
    PROVE  /\ list' \in [Routers -> Lists \cup {<<>>}] /\ done' \in [Routers -> Nat]
           /\ doomed' \in [Routers -> SUBSET Ids]
           /\ wrote' \in [Routers -> [Ids -> Rows \cup {Same}]]
BY DEF CatalogueTypeOK, Finish, Nothing

\* Initially every variable has its type ...
LEMMA InitType == CatalogueInit => CatalogueTypeOK
BY DEF CatalogueInit, CatalogueTypeOK, Rows, Nothing

\* ... and every step keeps it.
LEMMA NextType == CatalogueTypeOK /\ [CatalogueNext]_catalogueVars => CatalogueTypeOK'
<1> SUFFICES ASSUME CatalogueTypeOK, [CatalogueNext]_catalogueVars
             PROVE  CatalogueTypeOK'
  OBVIOUS
<1>1. ASSUME NEW r \in Routers, Begin(r) PROVE CatalogueTypeOK'
  BY <1>1 DEF Begin, CatalogueTypeOK
<1>2. ASSUME NEW r \in Routers, UpsertEntry(r) PROVE CatalogueTypeOK'
  <2> DEFINE entry == list[r][done[r] + 1]
  <2>1. list[r] \in Lists \cup {<<>>} /\ done[r] \in Nat /\ done[r] < Len(list[r])
    BY <1>2 DEF UpsertEntry, CatalogueTypeOK
  <2>2. done[r] + 1 \in DOMAIN list[r]
    BY <2>1, ListTypes
  <2>3. entry \in Entries /\ entry.id \in Ids
    BY <2>1, <2>2, ListTypes
  <2>4. wrote' = [wrote EXCEPT ![r][entry.id] = entry]
    BY <1>2 DEF UpsertEntry
  <2> HIDE DEF entry
  <2>5. wrote' \in [Routers -> [Ids -> Rows \cup {Same}]]
    BY <2>3, <2>4 DEF CatalogueTypeOK, Rows
  <2>6. done' \in [Routers -> Nat]
    BY <1>2, <2>1 DEF UpsertEntry, CatalogueTypeOK
  <2>7. QED
    BY <1>2, <2>5, <2>6 DEF UpsertEntry, CatalogueTypeOK
<1>3. ASSUME NEW r \in Routers, StartDelete(r) PROVE CatalogueTypeOK'
  BY <1>3 DEF StartDelete, Unlisted, CatalogueTypeOK
<1>4. ASSUME NEW r \in Routers, DeleteRow(r) PROVE CatalogueTypeOK'
  <2>1. PICK id \in doomed[r] : /\ wrote' = [wrote EXCEPT ![r][id] = Absent]
                                /\ doomed' = [doomed EXCEPT ![r] = @ \ {id}]
    BY <1>4 DEF DeleteRow
  <2>2. id \in Ids
    BY DEF CatalogueTypeOK
  <2>3. wrote' \in [Routers -> [Ids -> Rows \cup {Same}]]
    BY <2>1, <2>2 DEF CatalogueTypeOK, Rows
  <2>4. doomed' \in [Routers -> SUBSET Ids]
    BY <2>1 DEF CatalogueTypeOK
  <2>5. QED
    BY <1>4, <2>3, <2>4 DEF DeleteRow, CatalogueTypeOK
<1>5. ASSUME NEW r \in Routers, Commit(r) PROVE CatalogueTypeOK'
  <2>1. registry' \in [Ids -> Rows] /\ overrides' \in [Ids -> Edits \cup {Absent}]
    BY <1>5 DEF Commit, CatalogueTypeOK
  <2>2. QED
    BY <1>5, <2>1, FinishTypes DEF Commit, CatalogueTypeOK
<1>6. ASSUME NEW r \in Routers, SyncFails(r) PROVE CatalogueTypeOK'
  BY <1>6, FinishTypes DEF SyncFails, CatalogueTypeOK
<1>7. ASSUME NEW a \in Admins, OpenForm(a) PROVE CatalogueTypeOK'
  BY <1>7, MergedTypes DEF OpenForm, CatalogueTypeOK
<1>8. ASSUME NEW a \in Admins, Save(a) PROVE CatalogueTypeOK'
  <2>1. form[a].id \in Ids /\ [Fields -> Values] \subseteq Edits
    BY <1>8 DEF Save, CatalogueTypeOK, Edits
  <2>2. overrides' \in [Ids -> Edits \cup {Absent}]
    BY <1>8, <2>1, SetTypes DEF Save
  <2>3. QED
    BY <1>8, <2>2 DEF Save, SetModelOverride, CatalogueTypeOK
<1>9. CASE PatchField
  <2>1. \A f \in Fields, v \in Values :
            [g \in Fields |-> IF g = f THEN v ELSE Unset] \in Edits
    BY DEF Edits
  <2>2. overrides' \in [Ids -> Edits \cup {Absent}]
    BY <1>9, <2>1, SetTypes DEF PatchField
  <2>3. QED
    BY <1>9, <2>2 DEF PatchField, SetModelOverride, CatalogueTypeOK
<1>10. CASE UNCHANGED catalogueVars
  BY <1>10 DEF catalogueVars, CatalogueTypeOK
<1>11. QED
  BY <1>1, <1>2, <1>3, <1>4, <1>5, <1>6, <1>7, <1>8, <1>9, <1>10 DEF CatalogueNext

\* Type correctness: the registry, the edits, the transactions and the forms
\* have their types, for any number of routers, models and administrators.
THEOREM TypeCorrect == CatalogueSpec => []CatalogueTypeOK
<1>1. CatalogueInit => CatalogueTypeOK
  BY InitType
<1>2. CatalogueTypeOK /\ [CatalogueNext]_catalogueVars => CatalogueTypeOK'
  BY NextType
<1>3. QED
  BY <1>1, <1>2, PTL DEF CatalogueSpec

-----------------------------------------------------------------------------
(* Edits. *)

\* What one step may do to the edit of a model.
EditStays ==
    \A id \in Ids : overrides[id] # Absent /\ overrides'[id] # overrides[id] =>
        \/ overrides'[id] = Absent /\ registry'[id] = Absent
        \/ overrides'[id] # Absent /\ UNCHANGED <<registry, wrote>>

\* Only a commit takes an edit, with the row it deletes.
LEMMA StepKeepsEdits ==
    CatalogueTypeOK /\ [CatalogueNext]_catalogueVars => EditStays
<1> SUFFICES ASSUME CatalogueTypeOK, [CatalogueNext]_catalogueVars PROVE EditStays
  OBVIOUS
<1>1. ASSUME NEW r \in Routers, Commit(r) PROVE EditStays
  BY <1>1, CatalogueAssumption DEF CatalogueAssumption, Commit, EditStays
<1>2. ASSUME NEW id \in Ids, NEW sent \in Edits, SetModelOverride(id, sent)
      PROVE  EditStays
  BY <1>2, SetTypes DEF SetModelOverride, EditStays
<1>3. ASSUME NEW a \in Admins, Save(a) PROVE EditStays
  <2>1. form[a].id \in Ids /\ [Fields -> Values] \subseteq Edits
    BY <1>3 DEF Save, CatalogueTypeOK, Edits
  <2>2. QED
    BY <1>2, <1>3, <2>1 DEF Save
<1>4. CASE PatchField
  <2>1. \A f \in Fields, v \in Values :
            [g \in Fields |-> IF g = f THEN v ELSE Unset] \in Edits
    BY DEF Edits
  <2>2. QED
    BY <1>2, <1>4, <2>1 DEF PatchField
<1>5. CASE UNCHANGED overrides
  BY <1>5 DEF EditStays
<1>6. ASSUME NEW r \in Routers, \/ Begin(r) \/ UpsertEntry(r) \/ StartDelete(r)
                                \/ DeleteRow(r) \/ SyncFails(r)
      PROVE  EditStays
  BY <1>5, <1>6 DEF Begin, UpsertEntry, StartDelete, DeleteRow, SyncFails
<1>7. ASSUME NEW a \in Admins, OpenForm(a) PROVE EditStays
  BY <1>5, <1>7 DEF OpenForm
<1>8. QED
  BY <1>1, <1>3, <1>4, <1>5, <1>6, <1>7 DEF CatalogueNext, catalogueVars

\* An edit is lost only with its model, however many routers synchronise and
\* however many administrators edit meanwhile.
THEOREM EditsAreKept == CatalogueSpec => EditsOutliveSyncs
<1>1. CatalogueTypeOK /\ [CatalogueNext]_catalogueVars => [EditStays]_catalogueVars
  BY StepKeepsEdits
<1>2. QED
  BY <1>1, TypeCorrect, PTL DEF CatalogueSpec, EditsOutliveSyncs, EditStays

-----------------------------------------------------------------------------
(* One configuration. *)

\* A router that synchronises does so to a list it could read.
ListInv(r) ==
    /\ list[r] # <<>> => list[r] \in Lists /\ Readable(list[r])
    /\ list[r] = <<>> => done[r] = 0 /\ doomed[r] = {} /\ wrote[r] = Nothing

\* What its transaction has written is what the list says, as far as it has got.
WroteInv(r) ==
    /\ \A id \in Ids :
          \/ wrote[r][id] = Same
          \/ wrote[r][id] = Absent /\ id \notin IdsOf(list[r])
          \/ \E i \in DOMAIN list[r] : wrote[r][id] = list[r][i] /\ list[r][i].id = id
    /\ \A i \in DOMAIN list[r] : i <= done[r] => wrote[r][list[r][i].id] # Same

\* After its DELETE has begun, no row is left that the list does not have but
\* those still to be deleted.
DeleteInv(r) ==
    /\ doomed[r] \cap IdsOf(list[r]) = {}
    /\ done[r] > Len(list[r]) => \A id \in Ids \ IdsOf(list[r]) :
          registry[id] = Absent \/ id \in doomed[r] \/ wrote[r][id] = Absent

\* A row has one writer.
LockInv ==
    \A r, s \in Routers, id \in Ids :
        wrote[r][id] # Same /\ wrote[s][id] # Same => r = s

SyncInv ==
    /\ \A r \in Routers : ListInv(r) /\ WroteInv(r) /\ DeleteInv(r)
    /\ LockInv

\* A transaction that has written all of its list has locked a row every other
\* such transaction needs: there is one of them.
LEMMA OneIsThrough ==
    ASSUME CatalogueTypeOK, SyncInv, NEW r \in Routers, NEW s \in Routers,
           list[r] # <<>>, done[r] >= Len(list[r]),
           list[s] # <<>>, done[s] >= Len(list[s])
    PROVE  r = s
<1>1. /\ list[r] \in Lists /\ Readable(list[r])
      /\ list[s] \in Lists /\ Readable(list[s])
  BY DEF SyncInv, ListInv
<1>2. PICK id \in IdsOf(list[r]) : id \in IdsOf(list[s])
  BY <1>1, CatalogueAssumption DEF CatalogueAssumption
<1>3. ASSUME NEW q \in {r, s} PROVE id \in Ids /\ wrote[q][id] # Same
  <2>1. PICK i \in DOMAIN list[q] : list[q][i].id = id
    BY <1>2 DEF IdsOf
  <2>2. id \in Ids /\ i \in 1..Len(list[q]) /\ Len(list[q]) \in Nat
    BY <1>1, <2>1, ListTypes
  <2>3. done[q] \in Nat /\ done[q] >= Len(list[q])
    BY DEF CatalogueTypeOK
  <2>4. i <= done[q]
    BY <2>2, <2>3
  <2>5. QED
    BY <2>1, <2>2, <2>4 DEF SyncInv, WroteInv
<1>4. QED
  BY <1>3 DEF SyncInv, LockInv

\* Nothing is under way initially ...
LEMMA InitSync == CatalogueInit => SyncInv
BY DEF CatalogueInit, SyncInv, ListInv, WroteInv, DeleteInv, LockInv, Nothing, IdsOf

\* ... a transaction that ends holds nothing ...
LEMMA FinishSync ==
    ASSUME CatalogueTypeOK, SyncInv, NEW r \in Routers, Finish(r)
    PROVE  /\ \A s \in Routers \ {r} : /\ list'[s] = list[s] /\ done'[s] = done[s]
                                       /\ doomed'[s] = doomed[s] /\ wrote'[s] = wrote[s]
           /\ ListInv(r)' /\ WroteInv(r)' /\ DeleteInv(r)'
           /\ LockInv'
<1>1. /\ list'[r] = <<>> /\ done'[r] = 0 /\ doomed'[r] = {} /\ wrote'[r] = Nothing
      /\ \A s \in Routers \ {r} : /\ list'[s] = list[s] /\ done'[s] = done[s]
                                  /\ doomed'[s] = doomed[s] /\ wrote'[s] = wrote[s]
  BY DEF Finish, CatalogueTypeOK
<1>2. /\ DOMAIN list'[r] = {} /\ Len(list'[r]) = 0
      /\ \A id \in Ids : wrote'[r][id] = Same
  BY <1>1 DEF Nothing
<1>3. ListInv(r)' /\ WroteInv(r)' /\ DeleteInv(r)'
  BY <1>1, <1>2 DEF ListInv, WroteInv, DeleteInv, IdsOf
<1>4. LockInv'
  BY <1>1, <1>2 DEF SyncInv, LockInv
<1>5. QED
  BY <1>1, <1>3, <1>4

\* ... and every statement goes on as the list says.
LEMMA NextSync ==
    CatalogueTypeOK /\ SyncInv /\ [CatalogueNext]_catalogueVars => SyncInv'
<1> SUFFICES ASSUME CatalogueTypeOK, SyncInv, [CatalogueNext]_catalogueVars
             PROVE  SyncInv'
  OBVIOUS
<1>a. /\ DOMAIN list = Routers /\ DOMAIN done = Routers /\ DOMAIN doomed = Routers
      /\ DOMAIN wrote = Routers /\ DOMAIN registry = Ids
      /\ \A r \in Routers : done[r] \in Nat /\ DOMAIN wrote[r] = Ids /\ doomed[r] \subseteq Ids
      /\ \A r \in Routers : list[r] \in Lists \cup {<<>>}
  BY DEF CatalogueTypeOK
\* what is left as it is, of one router and of the registry
<1>b. ASSUME NEW s \in Routers, list'[s] = list[s], done'[s] = done[s],
             doomed'[s] = doomed[s], wrote'[s] = wrote[s], registry' = registry
      PROVE  ListInv(s)' /\ WroteInv(s)' /\ DeleteInv(s)'
  BY <1>b DEF SyncInv, ListInv, WroteInv, DeleteInv, IdsOf
<1>1. ASSUME NEW r \in Routers, Begin(r) PROVE SyncInv'
  <2>1. /\ list[r] = <<>> /\ list'[r] \in Lists /\ Readable(list'[r])
        /\ \A s \in Routers \ {r} : list'[s] = list[s]
        /\ UNCHANGED <<registry, done, doomed, wrote>>
    BY <1>1, <1>a DEF Begin
  <2>2. done'[r] = 0 /\ doomed'[r] = {} /\ wrote'[r] = Nothing
    BY <2>1 DEF SyncInv, ListInv
  <2>3. list'[r] # <<>>
    <3>1. IdsOf(list'[r]) # {}
      BY <2>1, CatalogueAssumption DEF CatalogueAssumption
    <3>2. QED
      BY <3>1 DEF IdsOf
  <2>4. /\ Len(list'[r]) \in Nat /\ DOMAIN list'[r] = 1..Len(list'[r])
        /\ \A id \in Ids : wrote'[r][id] = Same
    BY <2>1, <2>2, ListTypes DEF Nothing
  <2>5. ListInv(r)' /\ WroteInv(r)' /\ DeleteInv(r)'
    BY <2>1, <2>2, <2>3, <2>4 DEF ListInv, WroteInv, DeleteInv
  <2>6. LockInv'
    BY <2>1 DEF SyncInv, LockInv
  <2>7. QED
    BY <1>b, <2>1, <2>5, <2>6 DEF SyncInv
<1>2. ASSUME NEW r \in Routers, UpsertEntry(r) PROVE SyncInv'
  <2> DEFINE n == done[r] + 1
             entry == list[r][n]
  <2>1. /\ done[r] < Len(list[r]) /\ ~Locked(entry.id, r)
        /\ wrote' = [wrote EXCEPT ![r][entry.id] = entry]
        /\ done' = [done EXCEPT ![r] = n]
        /\ UNCHANGED <<registry, list, doomed>>
    BY <1>2 DEF UpsertEntry
  <2>2. /\ Len(list[r]) \in Nat /\ DOMAIN list[r] = 1..Len(list[r])
        /\ n \in DOMAIN list[r] /\ done'[r] = n
    BY <1>a, <2>1, ListTypes
  <2>3. entry \in Entries /\ entry.id \in Ids /\ entry # Same
    BY <1>a, <2>2, ListTypes, CatalogueAssumption DEF CatalogueAssumption
  <2>4. /\ \A id \in Ids : wrote'[r][id] = IF id = entry.id THEN entry ELSE wrote[r][id]
        /\ \A s \in Routers \ {r} : wrote'[s] = wrote[s] /\ done'[s] = done[s]
    BY <1>a, <2>1, <2>3
  <2>5. list[r] # <<>>
    BY <2>2
  <2>6. ListInv(r)'
    BY <2>1, <2>5 DEF SyncInv, ListInv
  <2>7. WroteInv(r)'
    <3>1. \A id \in Ids :
             \/ wrote'[r][id] = Same
             \/ wrote'[r][id] = Absent /\ id \notin IdsOf(list[r])
             \/ \E i \in DOMAIN list[r] : wrote'[r][id] = list[r][i] /\ list[r][i].id = id
      BY <2>2, <2>4 DEF SyncInv, WroteInv
    <3>2. \A i \in DOMAIN list[r] : i <= done'[r] => wrote'[r][list[r][i].id] # Same
      <4> SUFFICES ASSUME NEW i \in DOMAIN list[r], i <= n
                   PROVE  wrote'[r][list[r][i].id] # Same
        BY <2>2
      <4>1. list[r][i].id \in Ids
        BY <1>a, ListTypes
      <4>2. i = n \/ i <= done[r]
        BY <1>a, <2>2
      <4>3. CASE i = n
        BY <2>3, <2>4, <4>3
      <4>4. CASE i <= done[r]
        BY <2>3, <2>4, <4>1, <4>4 DEF SyncInv, WroteInv
      <4>5. QED
        BY <4>2, <4>3, <4>4
    <3>3. QED
      BY <2>1, <3>1, <3>2 DEF WroteInv, IdsOf
  <2>8. DeleteInv(r)'
    <3>1. ~(done'[r] > Len(list[r]))
      BY <2>2
    <3>2. QED
      BY <2>1, <3>1 DEF SyncInv, DeleteInv, IdsOf
  <2>9. LockInv'
    <3>1. \A s \in Routers \ {r} : wrote[s][entry.id] = Same
      BY <2>1 DEF Locked
    <3> HIDE DEF entry
    <3>2. QED
      BY <2>4, <3>1 DEF SyncInv, LockInv
  <2> HIDE DEF entry, n
  <2>10. QED
    BY <1>b, <2>1, <2>4, <2>6, <2>7, <2>8, <2>9 DEF SyncInv
<1>3. ASSUME NEW r \in Routers, StartDelete(r) PROVE SyncInv'
  <2>1. /\ list[r] # <<>> /\ done[r] = Len(list[r]) /\ done'[r] = done[r] + 1
        /\ doomed'[r] = Unlisted(r)
        /\ \A s \in Routers \ {r} : done'[s] = done[s] /\ doomed'[s] = doomed[s]
        /\ UNCHANGED <<registry, list, wrote>>
    BY <1>3, <1>a DEF StartDelete
  <2>2. ListInv(r)'
    BY <2>1 DEF SyncInv, ListInv
  <2>3. WroteInv(r)'
    <3>1. DOMAIN list[r] = 1..Len(list[r]) /\ Len(list[r]) \in Nat
      BY <1>a, ListTypes
    <3>2. \A i \in DOMAIN list[r] : i <= done[r]
      BY <2>1, <3>1
    <3>3. QED
      BY <2>1, <3>2 DEF SyncInv, WroteInv, IdsOf
  <2>4. DeleteInv(r)'
    BY <2>1 DEF DeleteInv, Unlisted, IdsOf
  <2>5. LockInv'
    BY <2>1 DEF SyncInv, LockInv
  <2>6. QED
    BY <1>b, <2>1, <2>2, <2>3, <2>4, <2>5 DEF SyncInv
<1>4. ASSUME NEW r \in Routers, DeleteRow(r) PROVE SyncInv'
  <2>1. PICK id \in doomed[r] : /\ ~Locked(id, r)
                                /\ wrote' = [wrote EXCEPT ![r][id] = Absent]
                                /\ doomed' = [doomed EXCEPT ![r] = @ \ {id}]
    BY <1>4 DEF DeleteRow
  <2>2. id \in Ids /\ id \notin IdsOf(list[r])
    BY <1>a DEF SyncInv, DeleteInv
  <2>3. /\ \A m \in Ids : wrote'[r][m] = IF m = id THEN Absent ELSE wrote[r][m]
        /\ doomed'[r] = doomed[r] \ {id}
        /\ \A s \in Routers \ {r} : wrote'[s] = wrote[s] /\ doomed'[s] = doomed[s]
        /\ UNCHANGED <<registry, list, done>>
    BY <1>4, <1>a, <2>1, <2>2 DEF DeleteRow
  <2>4. ListInv(r)'
    BY <2>1, <2>3 DEF SyncInv, ListInv
  <2>5. WroteInv(r)'
    <3>1. \A m \in Ids :
             \/ wrote'[r][m] = Same
             \/ wrote'[r][m] = Absent /\ m \notin IdsOf(list[r])
             \/ \E i \in DOMAIN list[r] : wrote'[r][m] = list[r][i] /\ list[r][i].id = m
      BY <2>2, <2>3 DEF SyncInv, WroteInv
    <3>2. \A i \in DOMAIN list[r] : list[r][i].id \in Ids /\ list[r][i].id # id
      BY <1>a, <2>2, ListTypes DEF IdsOf
    <3>3. \A i \in DOMAIN list[r] : i <= done[r] => wrote'[r][list[r][i].id] # Same
      BY <2>3, <3>2 DEF SyncInv, WroteInv
    <3>4. QED
      BY <2>3, <3>1, <3>3 DEF WroteInv, IdsOf
  <2>6. DeleteInv(r)'
    BY <2>2, <2>3 DEF SyncInv, DeleteInv, IdsOf
  <2>7. LockInv'
    <3>1. \A s \in Routers \ {r} : wrote[s][id] = Same
      BY <2>1 DEF Locked
    <3>2. QED
      BY <2>3, <3>1 DEF SyncInv, LockInv
  <2>8. QED
    BY <1>b, <2>3, <2>4, <2>5, <2>6, <2>7 DEF SyncInv
<1>5. ASSUME NEW r \in Routers, Commit(r) PROVE SyncInv'
  <2>1. /\ done[r] > Len(list[r]) /\ Finish(r)
        /\ registry' = [id \in Ids |-> IF wrote[r][id] = Same THEN registry[id]
                                       ELSE wrote[r][id]]
    BY <1>5 DEF Commit
  <2>2. /\ \A s \in Routers \ {r} : /\ list'[s] = list[s] /\ done'[s] = done[s]
                                    /\ doomed'[s] = doomed[s] /\ wrote'[s] = wrote[s]
        /\ ListInv(r)' /\ WroteInv(r)' /\ DeleteInv(r)'
        /\ LockInv'
    BY <2>1, FinishSync
  <2>3. list[r] # <<>> /\ done[r] >= Len(list[r])
    <3>1. list[r] # <<>>
      BY <2>1 DEF SyncInv, ListInv
    <3>2. QED
      BY <1>a, <2>1, <3>1, ListTypes
  <2>4. ASSUME NEW s \in Routers \ {r} PROVE ListInv(s)' /\ WroteInv(s)' /\ DeleteInv(s)'
    <3>1. ListInv(s)' /\ WroteInv(s)'
      BY <2>2 DEF SyncInv, ListInv, WroteInv, IdsOf
    <3>2. ~(done[s] > Len(list[s]))
      <4> SUFFICES ASSUME done[s] > Len(list[s]) PROVE FALSE
        OBVIOUS
      <4>1. list[s] # <<>>
        BY DEF SyncInv, ListInv
      <4>2. done[s] >= Len(list[s])
        BY <1>a, ListTypes
      <4>3. QED
        BY <2>3, <4>1, <4>2, OneIsThrough
    <3>3. DeleteInv(s)'
      BY <2>2, <3>2 DEF SyncInv, DeleteInv, IdsOf
    <3>4. QED
      BY <3>1, <3>3
  <2>5. QED
    BY <2>2, <2>4 DEF SyncInv
<1>6. ASSUME NEW r \in Routers, SyncFails(r) PROVE SyncInv'
  <2>1. Finish(r) /\ registry' = registry
    BY <1>6 DEF SyncFails
  <2>2. QED
    BY <1>b, <2>1, FinishSync DEF SyncInv
<1>7. CASE UNCHANGED <<registry, list, done, doomed, wrote>>
  BY <1>b, <1>7 DEF SyncInv, LockInv
<1>8. ASSUME NEW a \in Admins, OpenForm(a) \/ Save(a) PROVE SyncInv'
  BY <1>7, <1>8 DEF OpenForm, Save, SetModelOverride
<1>9. CASE PatchField \/ UNCHANGED catalogueVars
  BY <1>7, <1>9 DEF PatchField, SetModelOverride, catalogueVars
<1>10. QED
  BY <1>1, <1>2, <1>3, <1>4, <1>5, <1>6, <1>8, <1>9 DEF CatalogueNext

\* A commit leaves exactly what its list says.
LEMMA CommitLeavesList ==
    ASSUME CatalogueTypeOK, SyncInv, NEW r \in Routers, Commit(r),
           NEW l, l = list[r]
    PROVE  l \in Lists /\ Readable(l) /\ Holds(l)'
<1>1. /\ done[r] > Len(list[r]) /\ doomed[r] = {}
      /\ registry' = [id \in Ids |-> IF wrote[r][id] = Same THEN registry[id]
                                     ELSE wrote[r][id]]
  BY DEF Commit
<1>2. list[r] # <<>>
  BY <1>1 DEF SyncInv, ListInv
<1>3. list[r] \in Lists /\ Readable(list[r])
  BY <1>2 DEF SyncInv, ListInv
<1>4. ASSUME NEW id \in Ids, id \in IdsOf(list[r])
      PROVE  /\ registry'[id] \in {list[r][i] : i \in DOMAIN list[r]}
             /\ registry'[id].id = id
  <2>1. PICK i \in DOMAIN list[r] : list[r][i].id = id
    BY <1>4 DEF IdsOf
  <2>2. i \in 1..Len(list[r]) /\ Len(list[r]) \in Nat /\ done[r] \in Nat
    BY <1>3, ListTypes DEF CatalogueTypeOK
  <2>3. wrote[r][id] # Same
    BY <1>1, <2>1, <2>2 DEF SyncInv, WroteInv
  <2>4. PICK j \in DOMAIN list[r] : wrote[r][id] = list[r][j] /\ list[r][j].id = id
    BY <1>4, <2>3 DEF SyncInv, WroteInv
  <2>5. QED
    BY <1>1, <2>3, <2>4
<1>5. ASSUME NEW id \in Ids, id \notin IdsOf(list[r]) PROVE registry'[id] = Absent
  <2>1. wrote[r][id] \in {Same, Absent}
    BY <1>5 DEF SyncInv, WroteInv, IdsOf
  <2>2. registry[id] = Absent \/ wrote[r][id] = Absent
    BY <1>1, <1>5 DEF SyncInv, DeleteInv
  <2>3. Absent # Same
    BY CatalogueAssumption DEF CatalogueAssumption
  <2>4. QED
    BY <1>1, <2>1, <2>2, <2>3
<1>6. Holds(l)'
  BY <1>4, <1>5 DEF Holds
<1>7. QED
  BY <1>3, <1>6

\* Nothing but a commit writes the registry.
LEMMA NextWhole ==
    CatalogueTypeOK /\ SyncInv /\ WholeConfiguration /\ [CatalogueNext]_catalogueVars
    => WholeConfiguration'
<1> SUFFICES ASSUME CatalogueTypeOK, SyncInv, WholeConfiguration,
                    [CatalogueNext]_catalogueVars
             PROVE  WholeConfiguration'
  OBVIOUS
<1>1. ASSUME NEW r \in Routers, Commit(r) PROVE WholeConfiguration'
  BY <1>1, CommitLeavesList DEF WholeConfiguration
<1>2. CASE registry' = registry
  BY <1>2 DEF WholeConfiguration, Holds
<1>3. ASSUME ~ \E r \in Routers : Commit(r) PROVE registry' = registry
  BY <1>3 DEF CatalogueNext, Begin, UpsertEntry, StartDelete, DeleteRow, SyncFails,
              OpenForm, Save, PatchField, SetModelOverride, catalogueVars
<1>4. QED
  BY <1>1, <1>2, <1>3

\* The registry is the whole of one list, or empty: for any number of routers
\* with any lists of which every two share a model, wherever a sync fails.
THEOREM AlwaysOneConfiguration == CatalogueSpec => []WholeConfiguration
<1>1. CatalogueInit => SyncInv /\ WholeConfiguration
  BY InitSync DEF CatalogueInit, WholeConfiguration
<1>2. CatalogueTypeOK /\ SyncInv /\ [CatalogueNext]_catalogueVars => SyncInv'
  BY NextSync
<1>3. CatalogueTypeOK /\ SyncInv /\ WholeConfiguration /\ [CatalogueNext]_catalogueVars
      => WholeConfiguration'
  BY NextWhole
<1>4. QED
  BY <1>1, <1>2, <1>3, TypeCorrect, PTL DEF CatalogueSpec

=============================================================================
