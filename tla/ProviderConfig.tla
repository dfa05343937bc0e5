-------------------------- MODULE ProviderConfig ---------------------------
(***************************************************************************)
(* The credentials of one kind of provider, as an administrator edits them *)
(* (ProviderTab.tsx, AdminProxyProvidersPage.tsx, providerConfig.ts): a    *)
(* change reads the whole list, alters it in the browser and puts it back  *)
(* (handler_sdk_mgmt.go).  Credentials come and go by other routes, the    *)
(* files of AuthFiles.tla among them.  No button is locked while a change  *)
(* is under way.  The credentials themselves are kept by the SDK's manager,*)
(* which is external.                                                      *)
(***************************************************************************)
EXTENDS Integers, Sequences, FiniteSets, SequencesExt

CONSTANTS
    ProviderKind,   \* "openai", whose rows are groups of keys, or another
    AuthIds,        \* the credentials that may come to be
    FirstAuths,     \* lists of credentials there may be when the tab is opened
    Settings,       \* the values of what an administrator sets
    MaxChanges,     \* bound on the changes of the list
    MaxUnderWay     \* bound on the changes, and on the answers, under way

ASSUME ProviderAssumption == AuthIds \subseteq Nat \ {0} /\ MaxChanges \in Nat /\ MaxUnderWay \in Nat

VARIABLES
    auths,          \* the manager's credentials, by creation
    version,        \* how often they have changed
    items,          \* the rows of the tab, and the version they are of
    changes,        \* the changes under way, by kind
    providerReads   \* the answers of fetchItems that are under way

providerVars == <<auths, version, items, changes, providerReads>>

Masked == "masked"
Unlabelled == 0
Auth(id, label) == [id |-> id, label |-> label, key |-> "its own", setting |-> "initial"]

\* Every credential has an identifier of its own.
ASSUME FirstAuthsAssumption ==
    \A list \in FirstAuths :
      /\ list \in Seq([id : AuthIds, label : Nat, key : {"its own"},
                        setting : Settings \union {"initial"}])
      /\ \A i, j \in 1..Len(list) : list[i].id = list[j].id => i = j

\* What the list handler shows of a credential: a masked key, and Channel-n
\* (here -n) for a label it does not have.
Serialized(a, n) == [a EXCEPT !.key = Masked, !.label = IF @ = Unlabelled THEN -n ELSE @]
SerializedAuths(list) == [n \in 1..Len(list) |-> Serialized(list[n], n)]
Rows(list, v) == [list |-> SerializedAuths(list), version |-> v]

\* A row that is new has no identifier.
NewRow(label, key, setting) == [id |-> 0, label |-> label, key |-> key, setting |-> setting]

ChangeKinds == {"add", "edit", "models", "delete"}
NoChange == [phase |-> "idle", index |-> 0, row |-> NewRow(Unlabelled, Masked, "initial"),
             version |-> 0, list |-> << >>]

ProvidersInit ==
    /\ auths \in FirstAuths /\ version = 0
    /\ items = Rows(<< >>, 0)
    /\ changes = [k \in ChangeKinds |-> NoChange]
    /\ providerReads = {}

(***************************************************************************)
(* The rows                                                                *)
(***************************************************************************)

\* On opening, and after a change that succeeded: nothing drops the answer
\* of an older request, which may be the last to come.
FetchItems ==
    /\ Cardinality(providerReads) < MaxUnderWay
    /\ providerReads' = providerReads \union {Rows(auths, version)}
    /\ UNCHANGED <<auths, version, items, changes>>

ItemsArrive(rows) ==
    /\ items' = rows /\ providerReads' = providerReads \ {rows}
    /\ UNCHANGED <<auths, version, changes>>

(***************************************************************************)
(* A change: what it builds from the list it reads                         *)
(***************************************************************************)

\* A key for a name or a base URL that is known goes into that group.  The
\* served rows have no entries to add to, so the new one becomes the row's.
BuildProviderAddArray(list, row) ==
    LET same == {i \in 1..Len(list) : ProviderKind = "openai" /\ list[i].label = row.label}
    IN IF same = {} THEN Append(list, row)
       ELSE [list EXCEPT ![CHOOSE i \in same : \A j \in same : i <= j] =
                            [@ EXCEPT !.key = row.key, !.setting = row.setting]]

\* The form was filled from the row when the dialog opened, and its advanced
\* part holds all of it, the identifier too.  An OpenAI row has no key entry
\* for the key to go to.
BuildProviderEditArray(list, index, row) ==
    [list EXCEPT ![index] = [row EXCEPT !.key = IF ProviderKind = "openai" THEN Masked ELSE @]]

BuildProviderModelsArray(list, index, row) ==
    [list EXCEPT ![index].setting = row.setting]

BuildProviderDeleteArray(list, index) ==
    IF index > Len(list) THEN list ELSE RemoveAt(list, index)

Built(kind, list, c) ==
    CASE kind = "add" -> BuildProviderAddArray(list, c.row)
      [] kind = "edit" -> BuildProviderEditArray(list, c.index, c.row)
      [] kind = "models" -> BuildProviderModelsArray(list, c.index, c.row)
      [] kind = "delete" -> BuildProviderDeleteArray(list, c.index)

Start(kind, index, row, v) ==
    /\ changes[kind].phase = "idle" /\ version < MaxChanges
    /\ Cardinality({k \in ChangeKinds : changes[k].phase # "idle"}) < MaxUnderWay
    /\ changes' = [changes EXCEPT ![kind] =
            [phase |-> "reading", index |-> index, row |-> row, version |-> v, list |-> << >>]]
    /\ UNCHANGED <<auths, version, items, providerReads>>

HandleAdd(label, setting) ==
    Start("add", 0, NewRow(IF ProviderKind = "openai" THEN label ELSE Unlabelled, "typed", setting),
          version)

HandleDelete(i) == Start("delete", i, items.list[i], items.version)

\* The key is left as it is shown, masked, or typed anew.
PersistEdit(i, key, setting) ==
    Start("edit", i, [items.list[i] EXCEPT !.key = key, !.setting = setting], items.version)

HandleSaveConfiguredModels(i, setting) ==
    Start("models", i, [items.list[i] EXCEPT !.setting = setting], items.version)

\* The list is read.  An index that it no longer has is told as an error; to
\* delete it leaves the list as it is.
ReadLatest(kind) ==
    LET c == changes[kind]
        list == SerializedAuths(auths)
        gone == c.index > Len(list)
    IN  /\ c.phase = "reading"
        /\ changes' = [changes EXCEPT ![kind] =
              IF gone /\ kind # "delete" THEN NoChange
              ELSE [c EXCEPT !.phase = "putting", !.list = Built(kind, list, c)]]
        /\ UNCHANGED <<auths, version, items, providerReads>>

ReadFails(kind) ==
    /\ changes[kind].phase = "reading"
    /\ changes' = [changes EXCEPT ![kind] = NoChange]
    /\ UNCHANGED <<auths, version, items, providerReads>>

(***************************************************************************)
(* The handler of PUT                                                      *)
(***************************************************************************)

First(S) == IF S = {} THEN 0 ELSE CHOOSE i \in S : \A j \in S : i <= j

\* Mutant: the place comes first.
FindByPlace(list, row, index) ==
    IF index <= Len(list) THEN index ELSE 0

\* A row is looked for by its identifier, then by its name, then by its
\* place; 0 when there is none.
FindProviderAuth(list, row, index) ==
    LET byId == First({i \in 1..Len(list) : row.id # 0 /\ list[i].id = row.id})
        byName == First({i \in 1..Len(list) :
                            row.label # Unlabelled /\ list[i].label = row.label})
    IN  IF byId # 0 THEN byId
        ELSE IF byName # 0 THEN byName
        ELSE IF index <= Len(list) THEN index ELSE 0

\* Mutant: the key of the row is written, whatever it looks like.
AuthFromWholePayload(row, existing) ==
    [existing EXCEPT !.setting = row.setting,
                     !.label = IF row.label # Unlabelled THEN row.label ELSE @,
                     !.key = row.key]

\* A key that looks masked is not written.
AuthFromPayload(row, existing) ==
    [existing EXCEPT !.setting = row.setting,
                     !.label = IF row.label # Unlabelled THEN row.label ELSE @,
                     !.key = IF row.key = Masked THEN @ ELSE row.key]

\* One that is not found is skipped.
PutRow(list, put, n) ==
    LET at == FindProviderAuth(list, put[n], n) IN
    IF at = 0 THEN list ELSE [list EXCEPT ![at] = AuthFromPayload(put[n], @)]

\* The rows are put one after the other; a credential that has no row stays.
PutRows(list, put) ==
    LET sofar[n \in 0..Len(put)] ==
            IF n = 0 THEN list ELSE PutRow(sofar[n-1], put, n)
    IN  sofar[Len(put)]

FoundAny(list, put) == \E n \in 1..Len(put) : FindProviderAuth(list, put[n], n) # 0

\* Nothing to put, or none of it found: the answer is an error.
PutProviders(kind) ==
    LET c == changes[kind] IN
    /\ c.phase = "putting"
    /\ auths' = PutRows(auths, c.list)
    /\ version' = IF auths' = auths THEN version ELSE version + 1
    /\ changes' = [changes EXCEPT ![kind] = [NoChange EXCEPT !.phase =
                        IF FoundAny(auths, c.list) THEN "succeeded" ELSE "failed"]]
    /\ UNCHANGED <<items, providerReads>>

\* The manager fails to update a row: those before it are put, the rest is not.
PutStops(kind) ==
    LET c == changes[kind] IN
    /\ c.phase = "putting"
    /\ \E n \in 1..Len(c.list) : auths' = PutRows(auths, SubSeq(c.list, 1, n - 1))
    /\ version' = IF auths' = auths THEN version ELSE version + 1
    /\ changes' = [changes EXCEPT ![kind] = [NoChange EXCEPT !.phase = "failed"]]
    /\ UNCHANGED <<items, providerReads>>

\* The answer is told, and the rows are fetched anew after a success.
ChangeAnswered(kind) ==
    /\ changes[kind].phase \in {"succeeded", "failed"}
    /\ changes' = [changes EXCEPT ![kind] = NoChange]
    /\ providerReads' = IF changes[kind].phase = "succeeded" THEN providerReads \union {Rows(auths, version)}
                ELSE providerReads
    /\ UNCHANGED <<auths, version, items>>

\* The request or its answer is lost.
ChangeLost(kind) ==
    /\ changes[kind].phase \in {"putting", "succeeded"}
    /\ changes' = [changes EXCEPT ![kind] = NoChange]
    /\ UNCHANGED <<auths, version, items, providerReads>>

(***************************************************************************)
(* The other routes                                                        *)
(***************************************************************************)

Elsewhere(list) ==
    /\ version < MaxChanges
    /\ auths' = list /\ version' = version + 1
    /\ UNCHANGED <<items, changes, providerReads>>

AuthCreated(id) ==
    /\ id \notin {auths[i].id : i \in 1..Len(auths)}
    /\ Elsewhere(Append(auths, Auth(id, IF ProviderKind = "openai" THEN id ELSE Unlabelled)))

AuthDeleted(i) == Elsewhere(RemoveAt(auths, i))
AuthSet(i, setting) == Elsewhere([auths EXCEPT ![i].setting = setting])

ProvidersNext ==
    \/ FetchItems
    \/ \E rows \in providerReads : ItemsArrive(rows)
    \/ \E label \in AuthIds, setting \in Settings : HandleAdd(label, setting)
    \/ \E i \in 1..Len(items.list) :
         \/ HandleDelete(i)
         \/ \E setting \in Settings : \/ HandleSaveConfiguredModels(i, setting)
                                      \/ \E key \in {Masked, "typed"} : PersistEdit(i, key, setting)
    \/ \E kind \in ChangeKinds : \/ ReadLatest(kind) \/ ReadFails(kind) \/ PutProviders(kind)
                                 \/ PutStops(kind) \/ ChangeAnswered(kind) \/ ChangeLost(kind)
    \/ \E id \in AuthIds : AuthCreated(id)
    \/ \E i \in 1..Len(auths) :
         AuthDeleted(i) \/ (\E setting \in Settings : AuthSet(i, setting))

ProvidersSpec == ProvidersInit /\ [][ProvidersNext]_providerVars

(***************************************************************************)
(* Properties                                                              *)
(***************************************************************************)

\* The list goes to and fro with masked keys, from every screen: no masked
\* key is ever stored in the place of a real one.
KeysAreReal ==
    \A i \in 1..Len(auths) : auths[i].key # Masked

\* When nobody has changed the list since the row that is saved was read,
\* putting the whole list back changes that row's credential alone, and to
\* what was asked if no update failed.
FreshSaveIsLocal ==
    [][ \A kind \in {"edit", "models", "delete"} :
          changes[kind].phase = "putting" /\ changes[kind].version = version
              /\ changes'[kind].phase \in {"succeeded", "failed"} =>
            \A i \in 1..Len(auths) :
              /\ auths'[i].id = auths[i].id
              /\ IF auths[i].id = changes[kind].row.id /\ kind # "delete"
                 THEN \/ auths'[i].setting = changes[kind].row.setting
                      \/ auths'[i].setting = auths[i].setting /\ changes'[kind].phase = "failed"
                 ELSE auths'[i].setting = auths[i].setting /\ auths'[i].key = auths[i].key
      ]_providerVars
=============================================================================
