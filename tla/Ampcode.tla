------------------------------- MODULE Ampcode -------------------------------
(***************************************************************************)
(* The Ampcode page of the administrator.  Address and key of the upstream  *)
(* save themselves 600 ms after they change; pairs of keys are saved when   *)
(* they are added or deleted; model mappings are drafted on the page and    *)
(* saved by a button.  The server keeps all of it in one JSON value that    *)
(* every handler loads, changes and saves (handler_sdk_mgmt.go), so two     *)
(* calls can overwrite each other.  When a save fails the page reads        *)
(* everything again, but not after one of the mappings.                     *)
(*                                                                         *)
(* One administrator, one page.  A handler saves nothing after the page has *)
(* heard that its request failed.                                           *)
(***************************************************************************)
EXTENDS Naturals, Sequences

CONSTANTS
    AmpTexts,     \* what is typed as an address or a key, besides nothing
    HttpTexts,    \* those of them that are an address a test can call
    AmpPairs,     \* upstream keys that pairs are made of
    AmpModels,    \* models that are mapped; a mapping is named by its model
    MaxMappings,  \* bound: rows of model mappings on the page
    MaxAmpEdits,  \* bound: things the administrator does
    MaxAmpCalls,  \* bound: changes under way at one time
    MaxAmpSent,   \* bound: changes sent to the server
    MaxAmpLoads   \* bound: times everything is read

VARIABLES
    ampStore,     \* the JSON value of the server
    ampShown,     \* upstreamUrl, upstreamApiKey, upstreamKeyEntries, modelMappings, forceModelMappings
    ampHydrated,  \* urlFormHydrated
    ampLocks,     \* loading, and togglesLoading of the pairs
    ampTimers,    \* which of the two debounce timers run
    ampCalls,     \* changes under way, in the order they were sent
    ampLoads,     \* runs of fetchAll under way, in the order they were started
    ampCounts,    \* changes sent and runs of fetchAll started so far
    ampProbe,     \* the test of the upstream: its stage and the result shown
    ampEdits,     \* things done so far
    ampCleared,   \* history: what was empty at first or was emptied by hand
    ampMishaps    \* history: which of the known accidents happened

ampVars == <<ampStore, ampShown, ampHydrated, ampLocks, ampTimers, ampCalls, ampLoads, ampCounts,
             ampProbe, ampEdits, ampCleared, ampMishaps>>

Typed == {"url", "key"}
AmpRows == {"blank", "half"} \cup AmpModels    \* mappings with neither, one or both of their models
PairOps == {"addPair", "dropPair"}

EmptyPage == [url |-> "", key |-> "", pairs |-> {}, maps |-> << >>, force |-> FALSE]

\* Nothing was configured, or everything was.
FirstStores ==
    {[url |-> "", key |-> "", pairs |-> {}, maps |-> << >>]} \cup
    UNION {{[url |-> x, key |-> x, pairs |-> AmpPairs, maps |-> <<m>>] : x \in AmpTexts} : m \in AmpModels}

Asked(n) == [stage |-> n, saw |-> {}]
StillLoading == ampLoads # << >>
Busy(ops) == \E k \in DOMAIN ampCalls : ampCalls[k].op \in ops

Without(s, k) == SubSeq(s, 1, k - 1) \o SubSeq(s, k + 1, Len(s))

AmpInit ==
    /\ ampStore \in FirstStores
    /\ ampShown = EmptyPage
    /\ ampHydrated = FALSE
    /\ ampLocks = {"loading"}
    /\ ampTimers = {}
    /\ ampCalls = << >>
    /\ ampLoads = <<Asked(1)>>
    /\ ampCounts = [sent |-> 0, loads |-> 1]
    /\ ampProbe = [stage |-> 0, result |-> "none"]
    /\ ampEdits = 0
    /\ ampCleared = {f \in Typed : ampStore[f] = ""}
    /\ ampMishaps = {}

\* Mutant: the effects do not depend on the values.
EffectsOnce == ampTimers' = ampTimers \cup {f \in Typed : ampHydrated' /\ ~ampHydrated}

\* The effects of React: a timer starts when the form is hydrated and starts
\* again when its value changed.
Effects ==
    ampTimers' = ampTimers \cup
        {f \in Typed : ampHydrated' /\ (~ampHydrated \/ ampShown'[f] # ampShown[f])}

(***************************************************************************)
(* Reading: fetchAll                                                       *)
(***************************************************************************)

\* The server reads its JSON value for one of the three GETs.
AmpRead(i) ==
    /\ ampLoads[i].saw = {}
    /\ ampLoads' = [ampLoads EXCEPT ![i].saw = {ampStore}]
    /\ UNCHANGED <<ampStore, ampShown, ampHydrated, ampLocks, ampTimers, ampCalls, ampCounts, ampProbe,
                   ampEdits, ampCleared, ampMishaps>>

\* The answers: the configuration, then the mappings, then the pairs, each shown
\* as it comes.  force is never stored, so it is read as off.
AmpReadArrives(i) ==
    /\ ampLoads[i].saw # {}
    /\ LET seen == CHOOSE s \in ampLoads[i].saw : TRUE
           n == ampLoads[i].stage
       IN  /\ ampShown' =
                CASE n = 1 -> [ampShown EXCEPT !.url = seen.url, !.key = seen.key, !.force = FALSE]
                  [] n = 2 -> [ampShown EXCEPT !.maps = seen.maps]
                  [] n = 3 -> [ampShown EXCEPT !.pairs = seen.pairs]
           /\ ampLoads' = IF n = 3 THEN Without(ampLoads, i) ELSE [ampLoads EXCEPT ![i] = Asked(n + 1)]
           /\ ampHydrated' = (ampHydrated \/ n = 3)
           /\ ampLocks' = IF n = 3 THEN ampLocks \ {"loading"} ELSE ampLocks
    /\ Effects
    /\ UNCHANGED <<ampStore, ampCalls, ampCounts, ampProbe, ampEdits, ampCleared, ampMishaps>>

\* A failed GET ends the run; finally { } hydrates the form all the same, with
\* whatever is in it.
AmpReadFails(i) ==
    /\ ampLoads' = Without(ampLoads, i)
    /\ ampHydrated' = TRUE /\ ampLocks' = ampLocks \ {"loading"}
    /\ ampMishaps' = ampMishaps \cup
          (IF ampLoads[i].stage = 1 /\ ~ampHydrated THEN {"unread"} ELSE {"halfread"})
    /\ UNCHANGED <<ampStore, ampShown, ampCalls, ampCounts, ampProbe, ampEdits, ampCleared>>
    /\ Effects

(***************************************************************************)
(* Changing                                                                *)
(***************************************************************************)

\* Two changes of one thing, or a change and a read of the pairs, are on their
\* way at the same time.
Crossing(op) ==
    \/ Busy({op})
    \/ op \in PairOps /\ (StillLoading \/ Busy(PairOps))

SendAmp(op, val) ==
    /\ Len(ampCalls) < MaxAmpCalls /\ ampCounts.sent < MaxAmpSent
    /\ ampCounts' = [ampCounts EXCEPT !.sent = @ + 1]
    /\ ampCalls' = Append(ampCalls, [op |-> op, val |-> val, phase |-> "sent", loaded |-> {}])
    /\ ampMishaps' = IF Crossing(op) THEN ampMishaps \cup {"crossed"} ELSE ampMishaps

\* updateSetting, called by a timer that ran out: PUT, or DELETE when the field
\* is empty; on the server both leave the field with this value.
AutoSave(f) ==
    /\ f \in ampTimers
    /\ ampTimers' = ampTimers \ {f}
    /\ SendAmp(f, ampShown[f])
    /\ UNCHANGED <<ampStore, ampShown, ampHydrated, ampLocks, ampLoads, ampProbe, ampEdits, ampCleared>>

Does ==
    /\ ampEdits < MaxAmpEdits
    /\ ampEdits' = ampEdits + 1

\* Typing into the address or the key, at any time; the result of a test goes.
TypeField(f, x) ==
    /\ Does /\ ampShown[f] # x
    /\ ampShown' = [ampShown EXCEPT ![f] = x]
    /\ ampProbe' = [ampProbe EXCEPT !.result = "none"]
    /\ ampCleared' = IF x = "" THEN ampCleared \cup {f} ELSE ampCleared
    /\ UNCHANGED <<ampStore, ampHydrated, ampLocks, ampCalls, ampLoads, ampCounts, ampMishaps>>
    /\ Effects

\* handleAddUpstreamKeyMapping sends the whole list the page shows, with the new
\* pair in it.  Whichever change of pairs ends first unlocks the button.
AddPair(p) ==
    /\ Does /\ ampLocks = {}
    /\ ampLocks' = {"pairs"}
    /\ SendAmp("addPair", ampShown.pairs \cup {p})
    /\ UNCHANGED <<ampStore, ampShown, ampHydrated, ampTimers, ampLoads, ampProbe, ampCleared>>

\* handleDeleteUpstreamKeyMapping: its button is never locked.
DropPair(p) ==
    /\ Does /\ p \in ampShown.pairs
    /\ ampLocks' = ampLocks \cup {"pairs"}
    /\ SendAmp("dropPair", {p})
    /\ UNCHANGED <<ampStore, ampShown, ampHydrated, ampTimers, ampLoads, ampProbe, ampCleared>>

\* The switch turns at once; no route takes what it sends.
ToggleForce ==
    /\ Does /\ "loading" \notin ampLocks /\ ~Busy({"force"})
    /\ ampShown' = [ampShown EXCEPT !.force = ~@]
    /\ SendAmp("force", ~ampShown.force)
    /\ UNCHANGED <<ampStore, ampHydrated, ampLocks, ampTimers, ampLoads, ampProbe, ampCleared>>

\* addModelMapping, updateModelMapping and deleteModelMapping change the draft.
DraftMappings(rows) ==
    /\ Does /\ rows # ampShown.maps
    /\ ampShown' = [ampShown EXCEPT !.maps = rows]
    /\ UNCHANGED <<ampStore, ampHydrated, ampLocks, ampTimers, ampCalls, ampLoads, ampCounts, ampProbe,
                   ampCleared, ampMishaps>>

AddMapping ==
    /\ "loading" \notin ampLocks /\ Len(ampShown.maps) < MaxMappings
    /\ DraftMappings(Append(ampShown.maps, "blank"))

EditMapping(k, row) == DraftMappings([ampShown.maps EXCEPT ![k] = row])

DropMapping(k) == DraftMappings(Without(ampShown.maps, k))

Whole(row) == row \in AmpModels

\* validateAmpModelMappings: no half mapping, no model mapped twice.
Valid(rows) ==
    \A j, k \in DOMAIN rows :
        rows[j] # "half" /\ (j # k /\ Whole(rows[j]) => rows[j] # rows[k])

\* handleSaveMappings: what is not valid is refused on the page, blank rows are
\* left out of what is sent.
SaveMappings ==
    /\ Does /\ "loading" \notin ampLocks /\ ~Busy({"maps"})
    /\ Valid(ampShown.maps)
    /\ SendAmp("maps", SelectSeq(ampShown.maps, Whole))
    /\ UNCHANGED <<ampStore, ampShown, ampHydrated, ampLocks, ampTimers, ampLoads, ampProbe, ampCleared>>

(***************************************************************************)
(* The server                                                              *)
(***************************************************************************)

\* What a handler makes of the value it loaded.
Applied(c, old) ==
    CASE c.op = "url" -> [old EXCEPT !.url = c.val]
      [] c.op = "key" -> [old EXCEPT !.key = c.val]
      [] c.op = "addPair" -> [old EXCEPT !.pairs = c.val]
      [] c.op = "dropPair" -> [old EXCEPT !.pairs = @ \ c.val]
      [] c.op = "maps" -> [old EXCEPT !.maps = c.val]

AmpServes ==
    UNCHANGED <<ampShown, ampHydrated, ampLocks, ampTimers, ampLoads, ampCounts, ampProbe, ampEdits,
                ampCleared>>

\* loadAmpcodeConfig ...
HandlerLoads(k) ==
    /\ ampCalls[k].phase = "sent" /\ ampCalls[k].op # "force"
    /\ ampCalls' = [ampCalls EXCEPT ![k].phase = "loaded", ![k].loaded = {ampStore}]
    /\ UNCHANGED <<ampStore, ampMishaps>> /\ AmpServes

\* ... and saveAmpcodeConfig, whatever was saved in between.
HandlerSaves(k) ==
    /\ ampCalls[k].phase = "loaded"
    /\ ampStore' = Applied(ampCalls[k], CHOOSE s \in ampCalls[k].loaded : TRUE)
    /\ ampMishaps' = IF ampCalls[k].loaded = {ampStore} THEN ampMishaps ELSE ampMishaps \cup {"torn"}
    /\ ampCalls' = [ampCalls EXCEPT ![k].phase = "saved", ![k].loaded = {}]
    /\ AmpServes

CallEnds(k) ==
    /\ ampCalls' = Without(ampCalls, k)
    /\ ampLocks' = IF ampCalls[k].op \in PairOps THEN ampLocks \ {"pairs"} ELSE ampLocks

\* The page hears that a change was made.
AmpSaved(k) ==
    LET c == ampCalls[k] IN
    /\ c.phase = "saved" /\ CallEnds(k)
    /\ ampShown' =
          CASE c.op = "addPair" -> [ampShown EXCEPT !.pairs = c.val]
            [] c.op = "dropPair" -> [ampShown EXCEPT !.pairs = @ \ c.val]
            [] c.op = "maps" -> [ampShown EXCEPT !.maps = SelectSeq(@, Whole)]
            [] OTHER -> ampShown
    /\ UNCHANGED <<ampStore, ampHydrated, ampTimers, ampLoads, ampCounts, ampProbe, ampEdits,
                   ampCleared, ampMishaps>>

\* A change of the mappings fails: it never arrived, could not be loaded or
\* saved, or its answer was lost.
MappingsFail(k) ==
    /\ ampCalls[k].op = "maps" /\ CallEnds(k)
    /\ UNCHANGED <<ampStore, ampShown, ampHydrated, ampTimers, ampLoads, ampCounts, ampProbe, ampEdits,
                   ampCleared, ampMishaps>>

\* Any other change fails in these ways, or because it is not routed, and
\* everything is read again ("rollback").
AmpFails(k) ==
    /\ ampCalls[k].op # "maps"
    /\ ampCounts.loads < MaxAmpLoads
    /\ ampCounts' = [ampCounts EXCEPT !.loads = @ + 1]
    /\ ampCalls' = Without(ampCalls, k)
    /\ ampLocks' = (IF ampCalls[k].op \in PairOps THEN ampLocks \ {"pairs"} ELSE ampLocks) \cup {"loading"}
    /\ ampLoads' = Append(ampLoads, Asked(1))
    /\ ampMishaps' = IF \E j \in DOMAIN ampCalls \ {k} : ampCalls[j].op \in PairOps
                     THEN ampMishaps \cup {"crossed"} ELSE ampMishaps
    /\ UNCHANGED <<ampStore, ampShown, ampHydrated, ampTimers, ampProbe, ampEdits, ampCleared>>

(***************************************************************************)
(* The test of the upstream                                                *)
(***************************************************************************)

ProbeOnly ==
    UNCHANGED <<ampStore, ampShown, ampHydrated, ampLocks, ampTimers, ampCalls, ampLoads, ampCounts,
                ampCleared, ampMishaps>>

\* handleTestUpstream tries the values of the fields; what is no address fails
\* before anything is sent.
TestUpstream ==
    /\ Does /\ ampProbe.stage = 0 /\ "loading" \notin ampLocks
    /\ ampShown.url # "" /\ ampShown.key # ""
    /\ ampProbe' = IF ampShown.url \in HttpTexts THEN [stage |-> 1, result |-> "none"]
                   ELSE [stage |-> 0, result |-> "failed"]
    /\ ProbeOnly

\* testAmpcodeUpstream tries two endpoints.  The first that is there decides: it
\* accepts, refuses the key, or says something else; a missing or silent one
\* leaves it to the next.
Endpoints == 2
Verdict == [accepts |-> "connected", denies |-> "failed", other |-> "reachable"]
ProbeAnswers(answer) ==
    /\ ampProbe.stage > 0
    /\ ampProbe' =
          IF answer \in DOMAIN Verdict THEN [stage |-> 0, result |-> Verdict[answer]]
          ELSE IF ampProbe.stage = Endpoints THEN [stage |-> 0, result |-> "failed"]
          ELSE [ampProbe EXCEPT !.stage = @ + 1]
    /\ UNCHANGED ampEdits /\ ProbeOnly

AmpNext ==
    \/ \E i \in DOMAIN ampLoads : AmpRead(i) \/ AmpReadArrives(i) \/ AmpReadFails(i)
    \/ \E f \in Typed : AutoSave(f) \/ \E x \in AmpTexts \cup {""} : TypeField(f, x)
    \/ \E p \in AmpPairs : AddPair(p) \/ DropPair(p)
    \/ ToggleForce \/ AddMapping \/ SaveMappings
    \/ \E k \in DOMAIN ampShown.maps : DropMapping(k) \/ \E row \in AmpRows : EditMapping(k, row)
    \/ \E k \in DOMAIN ampCalls :
          HandlerLoads(k) \/ HandlerSaves(k) \/ AmpSaved(k) \/ MappingsFail(k) \/ AmpFails(k)
    \/ TestUpstream
    \/ \E answer \in DOMAIN Verdict \cup {"missing"} : ProbeAnswers(answer)

AmpSpec == AmpInit /\ [][AmpNext]_ampVars

(***************************************************************************)
(* Property                                                                *)
(***************************************************************************)

AtRest == ampTimers = {} /\ ampLoads = << >> /\ ampCalls = << >>

\* The timers of the page (the effects of AdminProxyAmpcodePage) erase nothing:
\* address and key are empty on the server only if they were so at first or were
\* emptied by hand, whatever calls race, unless the very first read failed.  And
\* once nothing is under way the page shows what the server keeps, unless a read
\* failed, one handler's save undid another's, or two changes of one thing crossed.
KeptAsShown ==
    /\ "unread" \notin ampMishaps =>
          \A f \in Typed : ampStore[f] = "" => f \in ampCleared
    /\ AtRest /\ ampMishaps = {} =>
          \A f \in {"url", "key", "pairs"} : ampStore[f] = ampShown[f]
===============================================================================
