----------------------------- MODULE AdminUsers ------------------------------
(***************************************************************************)
(* The administration of users: pages of rows with check boxes, deletion   *)
(* one by one and in a batch, the dialogs that create, edit and deposit,   *)
(* and the handlers behind them.  Meanwhile users spend: the ledger takes  *)
(* from the balance that an edit writes back.                              *)
(* react-query is external: an invalidation restarts the load of the page. *)
(***************************************************************************)
EXTENDS Integers, FiniteSets, Sequences

CONSTANTS
    UserIds,       \* ids of users, the newest first on page 1, one to a page
    FirstUsers,    \* those that are there from the start
    MaxBalance,    \* bound: money a user has at first, and may come to have
    MaxUserCalls   \* bound: changes asked for

VARIABLES
    people,        \* the users table: balance and status
    logged,        \* what the balance logs of a user add up to
    userPage,      \* the page of the list
    userRows,      \* its rows
    userLoad,      \* the load of it: idle, asked, or read
    selected,      \* selectedUserIds
    confirming,    \* what the confirmation on the screen is about
    agreed,        \* users whose deletion was ever confirmed
    batch,         \* targets of the batch that are left to do
    deleting,      \* single deletions under way
    dialog,        \* the dialog that is open, and its form
    saves,         \* edits, deposits and creations under way
    userCalls      \* changes asked for so far

userVars == <<people, logged, userPage, userRows, userLoad, selected, confirming, agreed, batch,
              deleting, dialog, saves, userCalls>>

Absent == [balance |-> 0, status |-> "absent"]
Person(balance, status) == [balance |-> balance, status |-> status]
People == {u \in UserIds : people[u] # Absent}

UserRow(u) == [id |-> u, is |-> people[u]]
\* Ordered by id, the newest first, one to a page.
PageRows(n) == {UserRow(u) : u \in {v \in People : Cardinality({w \in People : w > v}) = n - 1}}

IdleLoad == [phase |-> "idle", rows |-> {}]
AskedLoad == [phase |-> "asked", rows |-> {}]
NothingToConfirm == [what |-> "none", targets |-> {}]
NoBatch == [on |-> FALSE, left |-> {}]
NoForm == [kind |-> "none", user |-> 0, balance |-> 0, status |-> ""]

UsersInit ==
    /\ people = [u \in UserIds |-> IF u \in FirstUsers THEN Person(MaxBalance, "active") ELSE Absent]
    /\ logged = [u \in UserIds |-> people[u].balance]
    /\ userPage = 1 /\ userRows = {} /\ userLoad = AskedLoad
    /\ selected = {} /\ confirming = NothingToConfirm /\ agreed = {}
    /\ batch = NoBatch /\ deleting = {}
    /\ dialog = NoForm /\ saves = {} /\ userCalls = 0

(***************************************************************************)
(* The list                                                                *)
(***************************************************************************)

UsersRead ==
    /\ userLoad.phase = "asked"
    /\ userLoad' = [phase |-> "read", rows |-> PageRows(userPage)]
    /\ UNCHANGED <<people, logged, userPage, userRows, selected, confirming, agreed, batch, deleting, dialog, saves, userCalls>>

UsersShown ==
    /\ userLoad.phase = "read"
    /\ userRows' = userLoad.rows /\ userLoad' = IdleLoad
    /\ UNCHANGED <<people, logged, userPage, selected, confirming, agreed, batch, deleting, dialog, saves, userCalls>>

ModalFree == confirming = NothingToConfirm /\ dialog = NoForm

\* Another page keeps what is selected on this one.
TurnUsersPage(n) ==
    /\ ModalFree /\ n # userPage
    /\ n <= (IF People = {} THEN 1 ELSE Cardinality(People))
    /\ userPage' = n /\ userRows' = {} /\ userLoad' = AskedLoad
    /\ UNCHANGED <<people, logged, selected, confirming, agreed, batch, deleting, dialog, saves, userCalls>>

RefetchUsers ==
    /\ ModalFree /\ userLoad = IdleLoad
    /\ userLoad' = AskedLoad
    /\ UNCHANGED <<people, logged, userPage, userRows, selected, confirming, agreed, batch, deleting, dialog, saves, userCalls>>

RowIds == {r.id : r \in userRows}

Selects == UNCHANGED <<people, logged, userPage, userRows, userLoad, confirming, agreed, batch, deleting, dialog, saves, userCalls>>

HandleSelectUser(u) ==
    /\ ModalFree /\ u \in RowIds
    /\ selected' = IF u \in selected THEN selected \ {u} ELSE selected \cup {u}
    /\ Selects

\* The box in the head of the table drops the selection of other pages.
HandleSelectAllVisible ==
    /\ ModalFree /\ RowIds # {}
    /\ selected' = IF RowIds \subseteq selected THEN {} ELSE RowIds
    /\ Selects

(***************************************************************************)
(* Deletion                                                                *)
(***************************************************************************)

AskToDelete(u) ==
    /\ ModalFree /\ u \in RowIds
    /\ confirming' = [what |-> "one", targets |-> {u}]
    /\ UNCHANGED <<people, logged, userPage, userRows, userLoad, selected, agreed, batch, deleting, dialog, saves, userCalls>>

\* The rows in view that are selected are the targets; the question names them.
BatchTargets == RowIds \cap selected

AskToDeleteBatch ==
    /\ ModalFree /\ ~batch.on
    /\ BatchTargets # {}
    /\ confirming' = [what |-> "batch", targets |-> BatchTargets]
    /\ UNCHANGED <<people, logged, userPage, userRows, userLoad, selected, agreed, batch, deleting, dialog, saves, userCalls>>

\* Mutant: the batch deletes what is selected when the question is answered.
SettleConfirmSelected(ok) ==
    /\ confirming # NothingToConfirm
    /\ ok => userCalls < MaxUserCalls
    /\ userCalls' = IF ok THEN userCalls + 1 ELSE userCalls
    /\ confirming' = NothingToConfirm
    /\ agreed' = IF ok THEN agreed \cup confirming.targets ELSE agreed
    /\ deleting' = IF ok /\ confirming.what = "one" THEN deleting \cup confirming.targets ELSE deleting
    /\ batch' = IF ok /\ confirming.what = "batch" THEN [on |-> TRUE, left |-> selected] ELSE batch
    /\ UNCHANGED <<people, logged, userPage, userRows, userLoad, selected, dialog, saves>>

\* The answer to the question (ConfirmModalProvider).
SettleConfirm(ok) ==
    /\ confirming # NothingToConfirm
    /\ ok => userCalls < MaxUserCalls
    /\ userCalls' = IF ok THEN userCalls + 1 ELSE userCalls
    /\ confirming' = NothingToConfirm
    /\ agreed' = IF ok THEN agreed \cup confirming.targets ELSE agreed
    /\ deleting' = IF ok /\ confirming.what = "one" THEN deleting \cup confirming.targets ELSE deleting
    /\ batch' = IF ok /\ confirming.what = "batch" THEN [on |-> TRUE, left |-> confirming.targets] ELSE batch
    /\ UNCHANGED <<people, logged, userPage, userRows, userLoad, selected, dialog, saves>>

\* DELETE of a user: the row stays, with status "deleted".
MarkDeleted(u) == people' = [people EXCEPT ![u].status = "deleted"]
Invalidated == IF userLoad = IdleLoad THEN AskedLoad ELSE [userLoad EXCEPT !.phase = "asked", !.rows = {}]

\* A deletion comes off, or fails after or before the server has done it.
DeleteUser(u, ok) ==
    \/ ok /\ MarkDeleted(u) /\ userLoad' = Invalidated
    \/ ~ok /\ MarkDeleted(u) /\ UNCHANGED userLoad
    \/ ~ok /\ UNCHANGED <<people, userLoad>>

HandleDeleteUser(u, ok) ==
    /\ u \in deleting
    /\ DeleteUser(u, ok)
    /\ deleting' = deleting \ {u}
    /\ selected' = IF ok THEN selected \ {u} ELSE selected
    /\ UNCHANGED <<logged, userPage, userRows, confirming, agreed, batch, dialog, saves, userCalls>>

\* One after the other, whatever fails; then nothing is selected any more.
BatchStep(u, ok) ==
    /\ batch.on /\ u \in batch.left
    /\ DeleteUser(u, ok)
    /\ batch' = [batch EXCEPT !.left = @ \ {u}]
    /\ UNCHANGED <<logged, userPage, userRows, selected, confirming, agreed, deleting, dialog, saves, userCalls>>

BatchEnds ==
    /\ batch.on /\ batch.left = {}
    /\ batch' = NoBatch /\ selected' = {}
    /\ UNCHANGED <<people, logged, userPage, userRows, userLoad, confirming, agreed, deleting, dialog, saves, userCalls>>

(***************************************************************************)
(* The dialogs                                                             *)
(***************************************************************************)

\* The form of an edit starts with what the row says.
OpenEdit(r) ==
    /\ ModalFree /\ r \in userRows
    /\ dialog' = [kind |-> "edit", user |-> r.id, balance |-> r.is.balance, status |-> r.is.status]
    /\ UNCHANGED <<people, logged, userPage, userRows, userLoad, selected, confirming, agreed, batch, deleting, saves, userCalls>>

\* Only "active" is told from the rest: the switch makes a deleted user active.
ToggleStatus ==
    /\ dialog.kind = "edit"
    /\ dialog' = [dialog EXCEPT !.status = IF @ = "active" THEN "disabled" ELSE "active"]
    /\ UNCHANGED <<people, logged, userPage, userRows, userLoad, selected, confirming, agreed, batch, deleting, saves, userCalls>>

OpenDeposit(r) ==
    /\ ModalFree /\ r \in userRows
    /\ dialog' = [kind |-> "deposit", user |-> r.id, balance |-> 1, status |-> ""]
    /\ UNCHANGED <<people, logged, userPage, userRows, userLoad, selected, confirming, agreed, batch, deleting, saves, userCalls>>

OpenCreate(u) ==
    /\ ModalFree /\ people[u] = Absent /\ \A s \in saves : s.user # u
    /\ \A v \in UserIds : v < u => people[v] # Absent
    /\ dialog' = [kind |-> "create", user |-> u, balance |-> MaxBalance, status |-> "active"]
    /\ UNCHANGED <<people, logged, userPage, userRows, userLoad, selected, confirming, agreed, batch, deleting, saves, userCalls>>

CloseDialog ==
    /\ dialog # NoForm
    /\ dialog' = NoForm
    /\ UNCHANGED <<people, logged, userPage, userRows, userLoad, selected, confirming, agreed, batch, deleting, saves, userCalls>>

\* Each dialog has its own mutation, and its button waits for it.
SubmitDialog ==
    /\ dialog # NoForm /\ userCalls < MaxUserCalls
    /\ \A s \in saves : s.kind # dialog.kind
    /\ saves' = saves \cup {dialog}
    /\ userCalls' = userCalls + 1
    /\ UNCHANGED <<people, logged, userPage, userRows, userLoad, selected, confirming, agreed, batch, deleting, dialog>>

\* The whole form is written; the change of the balance is not logged.
AdminUsersUpdate(s) ==
    /\ s.kind = "edit"
    /\ people' = [people EXCEPT ![s.user] = Person(s.balance, s.status)]
    /\ UNCHANGED logged

AdminUsersDeposit(s) ==
    /\ s.kind = "deposit"
    /\ people[s.user].balance + s.balance <= MaxBalance
    /\ people' = [people EXCEPT ![s.user].balance = @ + s.balance]
    /\ logged' = [logged EXCEPT ![s.user] = @ + s.balance]

AdminUsersCreate(s) ==
    /\ s.kind = "create"
    /\ people' = [people EXCEPT ![s.user] = Person(s.balance, "active")]
    /\ UNCHANGED logged

\* A success closes the dialog of its kind that is open by then, whoever it
\* is about.  A failure leaves it, whether or not the server has acted.
DialogSaved(s) ==
    /\ s \in saves
    /\ AdminUsersUpdate(s) \/ AdminUsersDeposit(s) \/ AdminUsersCreate(s)
    /\ saves' = saves \ {s}
    /\ \/ /\ dialog' = IF dialog.kind = s.kind THEN NoForm ELSE dialog
          /\ userLoad' = Invalidated
       \/ UNCHANGED <<dialog, userLoad>>
    /\ UNCHANGED <<userPage, userRows, selected, confirming, agreed, batch, deleting, userCalls>>

DialogFailed(s) ==
    /\ s \in saves
    /\ saves' = saves \ {s}
    /\ UNCHANGED <<people, logged, userPage, userRows, userLoad, selected, confirming, agreed, batch, deleting, dialog, userCalls>>

\* A settlement of the ledger: from the balance, and into the log.
Spend(u) ==
    /\ people[u].balance > 0
    /\ people' = [people EXCEPT ![u].balance = @ - 1]
    /\ logged' = [logged EXCEPT ![u] = @ - 1]
    /\ UNCHANGED <<userPage, userRows, userLoad, selected, confirming, agreed, batch, deleting, dialog, saves, userCalls>>

UsersNext ==
    \/ UsersRead \/ UsersShown \/ RefetchUsers \/ HandleSelectAllVisible \/ AskToDeleteBatch
    \/ BatchEnds \/ ToggleStatus \/ CloseDialog \/ SubmitDialog
    \/ \E n \in 1..Cardinality(UserIds) : TurnUsersPage(n)
    \/ \E ok \in BOOLEAN : SettleConfirm(ok)
    \/ \E u \in UserIds : HandleSelectUser(u) \/ AskToDelete(u) \/ OpenCreate(u) \/ Spend(u)
    \/ \E u \in UserIds, ok \in BOOLEAN : HandleDeleteUser(u, ok) \/ BatchStep(u, ok)
    \/ \E r \in userRows : OpenEdit(r) \/ OpenDeposit(r)
    \/ \E s \in saves : DialogSaved(s) \/ DialogFailed(s)

UsersSpec == UsersInit /\ [][UsersNext]_userVars

(***************************************************************************)
(* Properties                                                              *)
(***************************************************************************)

\* No user is deleted whom a confirmation did not name: neither one selected
\* on another page, nor a row that a reload put in the place of another.
DeletedWereConfirmed == \A u \in UserIds : people[u].status = "deleted" => u \in agreed
=============================================================================
