---------------------------- MODULE MCAdminPages ----------------------------
(***************************************************************************)
(* The pages of an administrator whose safety is checked, in one run.      *)
(* Leaving a route unmounts its page and the state of the page is gone, so *)
(* a behaviour stays on one page: the sum of the pages is explored, not    *)
(* their product.                                                          *)
(***************************************************************************)
EXTENDS ProviderConfig, CrudPages, AdminUsers, AdminSubscriptions, AuthFiles, AuthFileImport,
        OAuthFlow, Ampcode

CONSTANT Scenes    \* the pages that are explored

VARIABLE scene     \* the page of this behaviour

pageVars == <<providerVars, crudVars, userVars, subVars, fileVars, importVars,
              oauthVars, ampVars, scene>>

MCFirstFiles ==
    {[id |-> 1, name |-> "a", paused |-> FALSE], [id |-> 2, name |-> "b", paused |-> TRUE]}
MCProviders ==
    {[mode |-> "gateway", xai |-> FALSE], [mode |-> "sdk", xai |-> FALSE],
     [mode |-> "none", xai |-> FALSE], [mode |-> "gateway", xai |-> TRUE]}

\* The credentials carry what the administrator set before.
MCFirstAuths ==
    {<< >>, <<Auth(1, Unlabelled), [Auth(2, Unlabelled) EXCEPT !.setting = "a"]>>}

\* A page that is not open has its first initial state.
PagesInit ==
    /\ scene \in Scenes
    /\ CrudInit /\ (scene # "crud" => crudPage = "codes")
    /\ ProvidersInit /\ (scene # "providers" => auths = << >>)
    /\ UsersInit /\ SubsInit /\ FilesInit /\ ImportInit
    /\ OAuthInit /\ AmpInit
    /\ scene # "ampcode" => ampCleared = {}

PagesNext ==
    /\ UNCHANGED scene
    /\ IF scene = "providers" THEN ProvidersNext ELSE UNCHANGED providerVars
    /\ IF scene = "crud" THEN CrudNext ELSE UNCHANGED crudVars
    /\ IF scene = "users" THEN UsersNext ELSE UNCHANGED userVars
    /\ IF scene = "subs" THEN SubsNext ELSE UNCHANGED subVars
    /\ IF scene = "files" THEN FilesNext ELSE UNCHANGED fileVars
    /\ IF scene = "import" THEN ImportNext ELSE UNCHANGED importVars
    /\ IF scene = "oauth" THEN OAuthNext ELSE UNCHANGED oauthVars
    /\ IF scene = "ampcode" THEN AmpNext ELSE UNCHANGED ampVars

\* What follows a failed first read of the Ampcode page is not explored: no
\* property speaks of it.
MCJudged == "unread" \notin ampMishaps

PagesSpec == PagesInit /\ [][PagesNext]_pageVars
=============================================================================
