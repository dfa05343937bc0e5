--------------------------- MODULE OAuthCallback ----------------------------
(***************************************************************************)
(* What the OAuth page reads out of a pasted callback                      *)
(* (features/admin-proxy/oauthCallbackUtils.ts).  A paste is known by its  *)
(* form and by which parameters it carries; a value that comes out is      *)
(* known by where it came from: the paste's own parameter, the session's   *)
(* state, or raw text that is neither.                                     *)
(***************************************************************************)

Nothing == "nothing"    \* null

\* url: absolute; query: ?a=b or a=b; fragment: #a=b; pair: code#state;
\* bare: a displayed code.
Forms == {"blank", "url", "query", "fragment", "pair", "bare"}

Pastes == [form: Forms, code: BOOLEAN, state: BOOLEAN, error: BOOLEAN]

Own(present) == IF present THEN "own" ELSE Nothing
Or(value, otherwise) == IF value = Nothing THEN otherwise ELSE value

Parsed(code, state, error, redirect) ==
    [code |-> code, state |-> state, error |-> error, redirect |-> redirect]
Unparsed == Parsed(Nothing, Nothing, FALSE, FALSE)

IsAbsoluteUrl(paste) == paste.form = "url"

\* Query-like text is recognized by one of the three parameters in it.
ReadsAsQuery(paste) ==
    /\ paste.form \in {"query", "fragment"}
    /\ paste.code \/ paste.state \/ paste.error

\* A displayed code is whatever follows "code:", or the whole text.
ExtractDisplayedXaiCode(paste) ==
    IF paste.form = "bare" /\ paste.code THEN "own" ELSE "raw"

\* buildXaiRedirectUrl, and the parameters of the URL it builds.
ParseXai(paste, session) ==
    LET state == Or(Own(paste.state), session) IN
    IF IsAbsoluteUrl(paste)
    THEN Parsed(Own(paste.code), Own(paste.state), paste.error, TRUE)
    ELSE IF ReadsAsQuery(paste)
    THEN IF state = Nothing THEN Unparsed
         ELSE Parsed(Own(paste.code), state, paste.error, TRUE)
    ELSE IF session = Nothing THEN Unparsed
    ELSE Parsed(ExtractDisplayedXaiCode(paste), session, FALSE, TRUE)

\* A hash in anything but a URL splits it in two, whatever stands around it.
SplitAtHash(paste, session) ==
    IF paste.form = "fragment" THEN Parsed(Nothing, "raw", FALSE, FALSE)
    ELSE Parsed(Own(paste.code), Or(Own(paste.state), session), FALSE, FALSE)

ParseOAuthCallbackInput(paste, session, isXai) ==
    IF paste.form = "blank" THEN Unparsed
    ELSE IF isXai THEN ParseXai(paste, session)
    ELSE IF paste.form \in {"fragment", "pair"} THEN SplitAtHash(paste, session)
    ELSE IF IsAbsoluteUrl(paste) \/ ReadsAsQuery(paste)
    THEN Parsed(Own(paste.code), Or(Own(paste.state), session), paste.error,
                IsAbsoluteUrl(paste))
    ELSE Unparsed
=============================================================================
