------------------------------ MODULE CrudPages -------------------------------
(***************************************************************************)
(* Three pages of the administrator that list, create, edit and delete by   *)
(* hand: announcements and redeem codes, which the server keeps in memory   *)
(* under numbers it deals out itself (opsStore), and pricing groups, which  *)
(* it keeps in the database under the name that was typed.  A page reloads  *)
(* after each change and shows whichever list comes last, so it acts on     *)
(* rows that may be old.                                                    *)
(***************************************************************************)
EXTENDS Integers, FiniteSets

CONSTANTS
    CrudPages,    \* pages that may be open: "announcements", "codes", "groups"
    Texts,        \* what can be typed into a field that says what the item is
    GroupNames,   \* names of groups, "default" among them
    MaxCrudCalls, \* bound: changes that are asked for
    MaxLives      \* bound: lives of the server process

ASSUME CrudPagesAssumption == CrudPages \subseteq {"announcements", "codes", "groups"}

VARIABLES
    crudPage,     \* the page that is open
    crudLife,     \* which life of the server this is
    nextId,       \* the number opsStore deals out next
    minted,       \* items ever made (an item's origin tells it from all others)
    crudStore,    \* the items of the server
    crudRows,     \* the rows on the screen
    unread,       \* loads the server has not come to
    lists,        \* lists on their way to the page
    creator,      \* the dialog that creates (and, for groups, edits)
    editor,       \* the row of an announcement that is being edited
    crudCalls,    \* changes under way
    crudMade      \* changes asked for so far

crudVars == <<crudPage, crudLife, nextId, minted, crudStore, crudRows, unread, lists, creator, editor,
              crudCalls, crudMade>>
crudServer == <<crudLife, nextId, minted, crudStore>>

Item(id, text, origin) == [id |-> id, text |-> text, life |-> crudLife, origin |-> origin]
NoItem == [id |-> 0, text |-> "", life |-> 0, origin |-> 0]
Numbered == crudPage # "groups"

Closed == [open |-> FALSE, name |-> "", text |-> "", sending |-> FALSE]
NotEditing == [row |-> NoItem, text |-> ""]

\* The store of the process that starts: one announcement, no code.  The
\* groups are the database's.
FirstItems ==
    CASE crudPage = "announcements" -> {[id |-> 1, text |-> "welcome", life |-> 1, origin |-> 1]}
      [] crudPage = "codes" -> {}
      [] crudPage = "groups" -> {[id |-> "default", text |-> "1.0", life |-> 1, origin |-> 1]}

CrudInit ==
    /\ crudPage \in CrudPages
    /\ crudLife = 1
    /\ nextId = IF crudPage = "announcements" THEN 2 ELSE 1
    /\ minted = 1
    /\ crudStore = FirstItems
    /\ crudRows = {} /\ unread = 1 /\ lists = {}
    /\ creator = Closed /\ editor = NotEditing
    /\ crudCalls = {} /\ crudMade = 0

(***************************************************************************)
(* Loading                                                                 *)
(***************************************************************************)

\* A load is a GET; what the server reads for it is the list of the moment.
ListItems ==
    /\ unread > 0
    /\ unread' = unread - 1
    /\ lists' = lists \cup {crudStore}
    /\ UNCHANGED <<crudPage, crudLife, nextId, minted, crudStore, crudRows, creator, editor, crudCalls, crudMade>>

\* loadItems, loadCodes and loadData put every list they get on the screen,
\* and leave an editor alone.
ListArrives ==
    /\ \E l \in lists : crudRows' = l /\ lists' = lists \ {l}
    /\ UNCHANGED <<crudPage, crudLife, nextId, minted, crudStore, unread, creator, editor, crudCalls, crudMade>>

ListLost ==
    /\ unread > 0
    /\ unread' = unread - 1
    /\ UNCHANGED <<crudPage, crudLife, nextId, minted, crudStore, crudRows, lists, creator, editor, crudCalls, crudMade>>

(***************************************************************************)
(* What is asked for                                                       *)
(***************************************************************************)

\* A change of an item is asked for by what its row says the item's key is;
\* origin and life of that row are kept for the properties only.
Request(what, row, text) ==
    [what |-> what, row |-> row, text |-> text, phase |-> "sent"]

Send(c) ==
    /\ crudMade < MaxCrudCalls
    /\ crudMade' = crudMade + 1
    /\ crudCalls' = crudCalls \cup {c}
    /\ UNCHANGED <<crudPage, crudLife, nextId, minted, crudStore, crudRows, unread, lists>>

Asks == UNCHANGED <<crudPage, crudLife, nextId, minted, crudStore, crudRows, unread, lists, crudCalls, crudMade>>

\* The form of an announcement keeps its text after it was published.
FillAnnouncement(text) ==
    /\ crudPage = "announcements"
    /\ creator' = [creator EXCEPT !.open = TRUE, !.text = text]
    /\ UNCHANGED editor /\ Asks

CreateAnnouncement ==
    /\ crudPage = "announcements"
    /\ creator.open /\ creator.text # "" /\ ~creator.sending
    /\ creator' = [creator EXCEPT !.sending = TRUE]
    /\ UNCHANGED editor
    /\ Send(Request("create", NoItem, creator.text))

EditAnnouncement(r) ==
    /\ crudPage = "announcements" /\ r \in crudRows
    /\ editor' = [row |-> r, text |-> r.text]
    /\ UNCHANGED creator /\ Asks

TypeAnnouncement(text) ==
    /\ editor # NotEditing
    /\ editor' = [editor EXCEPT !.text = text]
    /\ UNCHANGED creator /\ Asks

CancelEdit ==
    /\ editor # NotEditing
    /\ editor' = NotEditing
    /\ UNCHANGED creator /\ Asks

\* Only a row that the list still has shows its editor.
SaveAnnouncement ==
    /\ crudPage = "announcements"
    /\ \E r \in crudRows : r.id = editor.row.id
    /\ UNCHANGED <<creator, editor>>
    /\ Send(Request("save", editor.row, editor.text))

DeleteAnnouncement(r) ==
    /\ crudPage = "announcements" /\ r \in crudRows /\ r.id # editor.row.id
    /\ UNCHANGED <<creator, editor>>
    /\ Send(Request("delete", r, ""))

GenerateCodes(amount) ==
    /\ crudPage = "codes" /\ ~creator.sending
    /\ creator' = [open |-> TRUE, name |-> "", text |-> amount, sending |-> TRUE]
    /\ UNCHANGED editor
    /\ Send(Request("create", NoItem, amount))

DeleteCode(r) ==
    /\ crudPage = "codes" /\ r \in crudRows
    /\ UNCHANGED <<creator, editor>>
    /\ Send(Request("delete", r, ""))

\* The dialog of a group opens empty or with a row; the name can be changed
\* unless it is "default".
OpenGroup(name, rate) ==
    /\ crudPage = "groups"
    /\ \/ name # ""
       \/ name = "" /\ rate = "1.0"
    /\ name # "" => \E r \in crudRows : r.id = name /\ r.text = rate
    /\ creator' = [open |-> TRUE, name |-> name, text |-> rate, sending |-> FALSE]
    /\ UNCHANGED editor /\ Asks

TypeGroup(name, rate) ==
    /\ crudPage = "groups" /\ creator.open
    /\ creator.name = "default" => name = "default"
    /\ creator' = [creator EXCEPT !.name = name, !.text = rate]
    /\ UNCHANGED editor /\ Asks

\* Nothing keeps the form from being sent twice.
SaveGroup ==
    /\ crudPage = "groups" /\ creator.open /\ creator.name # ""
    /\ UNCHANGED <<creator, editor>>
    /\ Send(Request("save", [NoItem EXCEPT !.id = creator.name], creator.text))

DeleteGroup(r) ==
    /\ crudPage = "groups" /\ r \in crudRows /\ r.id # "default"
    /\ UNCHANGED <<creator, editor>>
    /\ Send(Request("delete", r, ""))

CloseCreator ==
    /\ creator.open
    /\ creator' = [creator EXCEPT !.open = FALSE]
    /\ UNCHANGED editor /\ Asks

(***************************************************************************)
(* What the server does                                                    *)
(***************************************************************************)


Named(id) == {i \in crudStore : i.id = id}

\* Mutant: the smallest number that is free is dealt out again.
MintedFree(text) ==
    LET free == CHOOSE n \in 1..nextId : Named(n) = {} /\ \A k \in 1..(n - 1) : Named(k) # {} IN
    /\ crudStore' = crudStore \cup {Item(free, text, minted + 1)}
    /\ nextId' = nextId + 1
    /\ minted' = minted + 1

\* Numbers are dealt out once in the life of a process.
Minted(text) ==
    /\ crudStore' = crudStore \cup {Item(nextId, text, minted + 1)}
    /\ nextId' = nextId + 1
    /\ minted' = minted + 1

UpdateItem(id, text) ==
    /\ crudStore' = {IF i.id = id THEN [i EXCEPT !.text = text] ELSE i : i \in crudStore}
    /\ UNCHANGED <<nextId, minted>>

\* The upsert of a group creates what is not there.
UpsertGroup(id, text) ==
    IF Named(id) # {} THEN UpdateItem(id, text)
    ELSE /\ crudStore' = crudStore \cup {Item(id, text, minted + 1)}
         /\ minted' = minted + 1
         /\ UNCHANGED nextId

DeleteItem(id) ==
    /\ crudStore' = crudStore \ Named(id)
    /\ UNCHANGED <<nextId, minted>>

\* An announcement or a code that is gone is not found, nor is a group that
\* is to be deleted; the group "default" is not deleted.
Found(c) ==
    \/ c.what = "create" \/ (c.what = "save" /\ ~Numbered)
    \/ Named(c.row.id) # {} /\ (Numbered \/ c.row.id # "default")

Handle(c) ==
    /\ c \in crudCalls /\ c.phase = "sent"
    /\ IF Found(c)
       THEN /\ \/ c.what = "create" /\ Minted(c.text)
               \/ c.what = "save" /\ Numbered /\ UpdateItem(c.row.id, c.text)
               \/ c.what = "save" /\ ~Numbered /\ UpsertGroup(c.row.id, c.text)
               \/ c.what = "delete" /\ DeleteItem(c.row.id)
            /\ crudCalls' = (crudCalls \ {c}) \cup {[c EXCEPT !.phase = "done"]}
       ELSE /\ UNCHANGED crudServer
            /\ crudCalls' = (crudCalls \ {c}) \cup {[c EXCEPT !.phase = "failed"]}
    /\ UNCHANGED <<crudPage, crudLife, crudRows, unread, lists, creator, editor, crudMade>>

\* A request, or its answer, is lost.
Lost(c) ==
    /\ c \in crudCalls /\ c.phase # "failed"
    /\ crudCalls' = (crudCalls \ {c}) \cup {[c EXCEPT !.phase = "failed"]}
    /\ UNCHANGED <<crudPage, crudLife, nextId, minted, crudStore, crudRows, unread, lists, creator, editor, crudMade>>

\* What opsStore kept is gone, and its numbers start again.  Pages stay open.
ServerRestarts ==
    /\ crudLife < MaxLives
    /\ crudLife' = crudLife + 1
    /\ IF Numbered
       THEN /\ crudStore' = {[i EXCEPT !.life = crudLife + 1, !.origin = minted + 1] : i \in FirstItems}
            /\ nextId' = IF crudPage = "announcements" THEN 2 ELSE 1
            /\ minted' = minted + 1
       ELSE UNCHANGED <<crudStore, nextId, minted>>
    /\ UNCHANGED <<crudPage, crudRows, unread, lists, creator, editor, crudCalls, crudMade>>

(***************************************************************************)
(* What the page does with an answer                                       *)
(***************************************************************************)

\* A success closes the dialog, or the editor, that is open by then, and
\* reloads; a failure leaves both.
Succeeded(c) ==
    /\ c \in crudCalls /\ c.phase = "done"
    /\ crudCalls' = crudCalls \ {c}
    /\ unread' = unread + 1
    /\ creator' = CASE c.what = "create" -> [creator EXCEPT !.open = FALSE, !.sending = FALSE]
                    [] c.what = "save" /\ ~Numbered -> [creator EXCEPT !.open = FALSE]
                    [] OTHER -> creator
    /\ editor' = IF c.what = "save" /\ Numbered THEN NotEditing ELSE editor
    /\ UNCHANGED <<crudPage, crudLife, nextId, minted, crudStore, crudRows, lists, crudMade>>

Failed(c) ==
    /\ c \in crudCalls /\ c.phase = "failed"
    /\ crudCalls' = crudCalls \ {c}
    /\ creator' = [creator EXCEPT !.sending = IF c.what = "create" THEN FALSE ELSE @]
    /\ UNCHANGED <<crudPage, crudLife, nextId, minted, crudStore, crudRows, unread, lists, editor, crudMade>>

CrudNext ==
    \/ ListItems \/ ListArrives \/ ListLost \/ ServerRestarts
    \/ CreateAnnouncement \/ CancelEdit \/ SaveAnnouncement \/ SaveGroup \/ CloseCreator
    \/ \E text \in Texts : FillAnnouncement(text) \/ TypeAnnouncement(text) \/ GenerateCodes(text)
    \/ \E r \in crudRows : EditAnnouncement(r) \/ DeleteAnnouncement(r) \/ DeleteCode(r) \/ DeleteGroup(r)
    \/ \E name \in GroupNames \cup {""}, rate \in Texts \cup {"1.0"} : OpenGroup(name, rate) \/ TypeGroup(name, rate)
    \/ \E c \in crudCalls : Handle(c) \/ Lost(c) \/ Succeeded(c) \/ Failed(c)

CrudSpec == CrudInit /\ [][CrudNext]_crudVars

(***************************************************************************)
(* Properties                                                              *)
(***************************************************************************)

Addressed == crudRows \cup {editor.row} \cup {c.row : c \in {d \in crudCalls : d.phase = "sent"}}

\* A row on the screen, an open editor or a request under way, however old it
\* is, never names an item other than the one it was loaded as, so that a late
\* save or delete changes that item or none.  It holds for one life of the
\* server: the numbers start again with the process.
RowsNameTheirItem ==
    Numbered => \A r \in Addressed, i \in crudStore :
                    r.id = i.id /\ r.life = crudLife => r.origin = i.origin
=============================================================================
