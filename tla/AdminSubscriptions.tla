------------------------- MODULE AdminSubscriptions --------------------------
(***************************************************************************)
(* The administration of subscriptions: the table with its four changes,    *)
(* the dialog that assigns, the packages and their dialog, and the handlers  *)
(* behind them, each of which loads a row, changes a field and saves the     *)
(* whole row, while usage is added to it.                                   *)
(* react-query is external: an invalidation restarts the load of the list.  *)
(***************************************************************************)
EXTENDS Integers, FiniteSets

CONSTANTS
    SubIds,      \* the subscriptions there are
    Limits,      \* limits that can be typed, in dollars
    MaxUse,      \* bound: usage added by the gateway
    MaxSubCalls  \* bound: changes asked for on the page

Unlimited == 0   \* a limit that is not set
ASSUME AdminSubscriptionsAssumption == Limits \subseteq Nat \ {Unlimited} /\ Limits # {}

VARIABLES
    subsTable,   \* the subscriptions: status, days added, usage
    consumed,    \* usage the gateway added to each, whatever became of it
    package,     \* the package of the table: its limit and whether it is there
    handlers,    \* requests on the server: what for, and the row they loaded
    subRows,     \* the rows on the screen
    packageRow,  \* the card of the package
    subsLoad,    \* the load of both: idle, asked, read
    extending,   \* the dialog that extends: which subscription, waiting or not
    packageForm, \* the dialog of the package: open, new or not, limit, saving
    assigning,   \* the dialog that assigns
    subUnsure,   \* a change may have been made whose answer was lost
    subCalls     \* changes asked for so far

subVars == <<subsTable, consumed, package, handlers, subRows, packageRow, subsLoad, extending,
             packageForm, assigning, subUnsure, subCalls>>

Sub == [status |-> "active", days |-> 0, used |-> 0]
NoPackage == [there |-> FALSE, limit |-> Unlimited]
NoExtension == [open |-> FALSE, id |-> 0, waiting |-> FALSE]
NoPackageForm == [open |-> FALSE, new |-> TRUE, limit |-> Unlimited, saving |-> FALSE]
NoAssignment == [open |-> FALSE, waiting |-> FALSE]

SubsInit ==
    /\ subsTable = [s \in SubIds |-> Sub]
    /\ consumed = [s \in SubIds |-> 0]
    /\ package = [there |-> TRUE, limit |-> Unlimited]
    /\ handlers = {}
    /\ subRows = subsTable /\ packageRow = package
    /\ subsLoad = "idle"
    /\ extending = NoExtension /\ packageForm = NoPackageForm /\ assigning = NoAssignment
    /\ subUnsure = FALSE /\ subCalls = 0

Server == <<subsTable, consumed, package, handlers>>
Dialogs == <<extending, packageForm, assigning>>

\* invalidateAll and loadData: the lists are fetched again.
ReloadSubs == subsLoad' = "asked"

(***************************************************************************)
(* The table and its dialogs                                               *)
(***************************************************************************)

SubCall(what, id, limit) == [what |-> what, id |-> id, limit |-> limit, phase |-> "sent", row |-> Sub]

AskServer(c) ==
    /\ subCalls < MaxSubCalls
    /\ \A h \in handlers : <<h.what, h.id>> # <<c.what, c.id>>
    /\ subCalls' = subCalls + 1
    /\ handlers' = handlers \cup {c}
    /\ UNCHANGED <<subsTable, consumed, package, subRows, packageRow, subsLoad, subUnsure>>

\* What a row offers besides an extension and a reset: what is suspended can
\* be restored, anything else revoked.
RowOffers(s) == IF subRows[s].status = "suspended" THEN "reactivate" ELSE "revoke"

\* Confirmed in the table; nothing locks the row.
ChangeSub(what, s) ==
    /\ what \in {"resetQuota", RowOffers(s)}
    /\ packageRow.there
    /\ AskServer(SubCall(what, s, Unlimited))
    /\ UNCHANGED Dialogs

\* The dialog can be closed, and opened for another row, while it waits.
OpenExtend(s) ==
    /\ packageRow.there
    /\ extending' = [extending EXCEPT !.open = TRUE, !.id = s]
    /\ UNCHANGED <<Server, subRows, packageRow, subsLoad, packageForm, assigning, subUnsure, subCalls>>

HandleExtend ==
    /\ extending.open /\ ~extending.waiting
    /\ extending' = [extending EXCEPT !.waiting = TRUE]
    /\ AskServer(SubCall("extend", extending.id, Unlimited))
    /\ UNCHANGED <<packageForm, assigning>>

OpenAssign ==
    /\ packageRow.there /\ ~assigning.open
    /\ assigning' = [assigning EXCEPT !.open = TRUE]
    /\ UNCHANGED <<Server, subRows, packageRow, subsLoad, extending, packageForm, subUnsure, subCalls>>

HandleAssign ==
    /\ assigning.open /\ ~assigning.waiting
    /\ assigning' = [assigning EXCEPT !.waiting = TRUE]
    /\ AskServer(SubCall("assign", 0, Unlimited))
    /\ UNCHANGED <<extending, packageForm>>

\* The form of a package starts empty, or with what its card says.
OpenPackage(new) ==
    /\ ~new => packageRow.there
    /\ packageForm' = [packageForm EXCEPT !.open = TRUE, !.new = new,
                           !.limit = IF new THEN Unlimited ELSE packageRow.limit]
    /\ UNCHANGED <<Server, subRows, packageRow, subsLoad, extending, assigning, subUnsure, subCalls>>

TypeLimit(limit) ==
    /\ packageForm.open /\ packageForm.limit # limit
    /\ packageForm' = [packageForm EXCEPT !.limit = limit]
    /\ UNCHANGED <<Server, subRows, packageRow, subsLoad, extending, assigning, subUnsure, subCalls>>

HandleSaveGroup ==
    /\ packageForm.open /\ ~packageForm.saving
    /\ packageForm' = [packageForm EXCEPT !.saving = TRUE]
    /\ AskServer(SubCall(IF packageForm.new THEN "createPackage" ELSE "updatePackage", 0, packageForm.limit))
    /\ UNCHANGED <<extending, assigning>>

HandleDeleteGroup ==
    /\ packageRow.there
    /\ AskServer(SubCall("deletePackage", 0, Unlimited))
    /\ UNCHANGED Dialogs

CloseSubDialogs ==
    /\ extending.open \/ packageForm.open \/ assigning.open
    /\ extending' = [extending EXCEPT !.open = FALSE]
    /\ packageForm' = [packageForm EXCEPT !.open = FALSE]
    /\ assigning' = [assigning EXCEPT !.open = FALSE]
    /\ UNCHANGED <<Server, subRows, packageRow, subsLoad, subUnsure, subCalls>>

(***************************************************************************)
(* The handlers                                                            *)
(***************************************************************************)

OnRow(c) == c.what \in {"extend", "revoke", "reactivate", "resetQuota"}

\* loadSubscription, then the change of the copy, then Save of all of it.
LoadRow(c) ==
    /\ c \in handlers /\ c.phase = "sent" /\ OnRow(c)
    /\ handlers' = (handlers \ {c}) \cup {[c EXCEPT !.phase = "loaded", !.row = subsTable[c.id]]}
    /\ UNCHANGED <<subsTable, consumed, package, subRows, packageRow, subsLoad, Dialogs, subUnsure, subCalls>>

ChangedRow(what, row) ==
    CASE what = "extend" -> [row EXCEPT !.days = @ + 1]
      [] what = "revoke" -> [row EXCEPT !.status = "revoked"]
      [] what = "reactivate" -> [row EXCEPT !.status = "active"]
      [] what = "resetQuota" -> [row EXCEPT !.used = 0]

\* Mutant: the copy's usage is added to the row's.
SaveRowAdding(c) ==
    /\ c \in handlers /\ c.phase = "loaded"
    /\ subsTable' = [subsTable EXCEPT ![c.id] =
            [ChangedRow(c.what, c.row) EXCEPT !.used = @ + subsTable[c.id].used]]
    /\ handlers' = (handlers \ {c}) \cup {[c EXCEPT !.phase = "done", !.row = Sub]}
    /\ UNCHANGED <<consumed, package, subRows, packageRow, subsLoad, Dialogs, subUnsure, subCalls>>

SaveRow(c) ==
    /\ c \in handlers /\ c.phase = "loaded"
    /\ subsTable' = [subsTable EXCEPT ![c.id] = ChangedRow(c.what, c.row)]
    /\ handlers' = (handlers \ {c}) \cup {[c EXCEPT !.phase = "done", !.row = Sub]}
    /\ UNCHANGED <<consumed, package, subRows, packageRow, subsLoad, Dialogs, subUnsure, subCalls>>

\* The fields of the limits have no JSON name, so that "daily_limit_usd" of
\* the form is not read: every package is saved without limits.
SaveAdminGroup(limit) == [there |-> TRUE, limit |-> Unlimited]

HandlePackage(c) ==
    /\ c \in handlers /\ c.phase = "sent"
    /\ c.what \in {"createPackage", "updatePackage", "deletePackage"}
    /\ LET found == c.what # "updatePackage" \/ package.there IN
        /\ package' = CASE c.what = "deletePackage" -> NoPackage
                        [] c.what = "createPackage" -> SaveAdminGroup(c.limit)
                        [] OTHER -> IF found THEN SaveAdminGroup(c.limit) ELSE package
        /\ handlers' = (handlers \ {c}) \cup {[c EXCEPT !.phase = IF found THEN "done" ELSE "failed"]}
    /\ UNCHANGED <<subsTable, consumed, subRows, packageRow, subsLoad, Dialogs, subUnsure, subCalls>>

\* Nor are "user_id" and "group_id" of an assignment read: it is refused as
\* one without a user.
RefuseAssignment(c) ==
    /\ c \in handlers /\ c.phase = "sent" /\ c.what = "assign"
    /\ handlers' = (handlers \ {c}) \cup {[c EXCEPT !.phase = "failed"]}
    /\ UNCHANGED <<subsTable, consumed, package, subRows, packageRow, subsLoad, Dialogs, subUnsure, subCalls>>

SubCallLost(c) ==
    /\ c \in handlers /\ c.phase \in {"sent", "done"}
    /\ handlers' = (handlers \ {c}) \cup {[c EXCEPT !.phase = "failed", !.row = Sub]}
    /\ subUnsure' = (subUnsure \/ c.phase = "done")
    /\ UNCHANGED <<subsTable, consumed, package, subRows, packageRow, subsLoad, Dialogs, subCalls>>

\* The gateway adds usage to a subscription.
UseSub(s) ==
    /\ subsTable[s].status = "active" /\ consumed[s] < MaxUse
    /\ subsTable' = [subsTable EXCEPT ![s].used = @ + 1]
    /\ consumed' = [consumed EXCEPT ![s] = @ + 1]
    /\ UNCHANGED <<package, handlers, subRows, packageRow, subsLoad, Dialogs, subUnsure, subCalls>>

(***************************************************************************)
(* Answers                                                                 *)
(***************************************************************************)

\* Mutant: a change on a row does not load the lists again.
SubAnsweredQuietly(c) ==
    /\ c \in handlers /\ c.phase \in {"done", "failed"}
    /\ handlers' = handlers \ {c}
    /\ IF c.phase = "done" /\ ~OnRow(c) THEN ReloadSubs ELSE UNCHANGED subsLoad
    /\ extending' = IF c.what = "extend" THEN NoExtension ELSE extending
    /\ packageForm' = IF c.what \in {"createPackage", "updatePackage"}
                      THEN IF c.phase = "done" THEN NoPackageForm ELSE [packageForm EXCEPT !.saving = FALSE]
                      ELSE packageForm
    /\ assigning' = IF c.what = "assign" THEN [assigning EXCEPT !.waiting = FALSE] ELSE assigning
    /\ UNCHANGED <<subsTable, consumed, package, subRows, packageRow, subUnsure, subCalls>>

\* The dialog of an extension closes whether it came off or not; those of a
\* package and of an assignment only then.
SubAnswered(c) ==
    /\ c \in handlers /\ c.phase \in {"done", "failed"}
    /\ handlers' = handlers \ {c}
    /\ IF c.phase = "done" THEN ReloadSubs ELSE UNCHANGED subsLoad
    /\ extending' = IF c.what = "extend" THEN NoExtension ELSE extending
    /\ packageForm' = IF c.what \in {"createPackage", "updatePackage"}
                      THEN IF c.phase = "done" THEN NoPackageForm ELSE [packageForm EXCEPT !.saving = FALSE]
                      ELSE packageForm
    /\ assigning' = IF c.what = "assign" THEN [assigning EXCEPT !.waiting = FALSE] ELSE assigning
    /\ UNCHANGED <<subsTable, consumed, package, subRows, packageRow, subUnsure, subCalls>>

\* Both lists are read, and shown, unless the load is started anew.
SubsLoaded ==
    /\ subsLoad = "asked"
    /\ subRows' = subsTable /\ packageRow' = package
    /\ subsLoad' = "idle" /\ subUnsure' = (handlers # {} /\ subUnsure)
    /\ UNCHANGED <<Server, Dialogs, subCalls>>

SubsNotLoaded ==
    /\ subsLoad = "asked"
    /\ subsLoad' = "failed"
    /\ UNCHANGED <<Server, subRows, packageRow, Dialogs, subUnsure, subCalls>>

SubsNext ==
    \/ HandleExtend \/ OpenAssign \/ HandleAssign \/ HandleSaveGroup \/ HandleDeleteGroup
    \/ CloseSubDialogs \/ SubsLoaded \/ SubsNotLoaded
    \/ \E s \in SubIds : OpenExtend(s) \/ UseSub(s)
    \/ \E s \in SubIds, what \in {"resetQuota", "revoke", "reactivate"} : ChangeSub(what, s)
    \/ \E new \in BOOLEAN : OpenPackage(new)
    \/ \E limit \in Limits \cup {Unlimited} : TypeLimit(limit)
    \/ \E c \in handlers : LoadRow(c) \/ SaveRow(c) \/ HandlePackage(c) \/ RefuseAssignment(c)
                              \/ SubCallLost(c) \/ SubAnswered(c)

SubsSpec == SubsInit /\ [][SubsNext]_subVars

(***************************************************************************)
(* Properties                                                              *)
(***************************************************************************)

\* Saving a whole row that was loaded before can lose usage, or undo a reset,
\* but no order of the handlers charges a subscription for usage it never had.
UsageNeverInvented == \A s \in SubIds : subsTable[s].used <= consumed[s]

\* With no change under way and the list loaded since, the panel shows each
\* subscription with the status and the days that the table has.
SubsShownAreStored ==
    handlers = {} /\ subsLoad = "idle" /\ ~subUnsure =>
        \A s \in SubIds : /\ subRows[s].status = subsTable[s].status
                          /\ subRows[s].days = subsTable[s].days
=============================================================================
