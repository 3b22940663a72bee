------------------------------ MODULE McpLogin ------------------------------
(***************************************************************************)
(* Connecting to MCP servers that ask for OAuth: connectToMcpServer        *)
(* (packages/core/src/tools/mcp-client.ts), MCPOAuthProvider               *)
(* (packages/core/src/mcp/oauth-provider.ts) with its callback server on   *)
(* one fixed port, and the file of credentials, plain                      *)
(* (oauth-token-storage.ts) or encrypted (token-storage/).                 *)
(*                                                                         *)
(* All servers are connected at once, each by an async function of its     *)
(* own.  The file is read and written as a whole; a write empties it       *)
(* before it fills it.                                                     *)
(***************************************************************************)
EXTENDS Naturals, FiniteSets

CONSTANTS
    OAuthServer,  \* servers that answer 401 without a token
    NoOwner,      \* nobody
    LoginWorld    \* what may happen: [store, mishaps, stored]

VARIABLES
    loginWorld,  \* the member of LoginWorld this session is in
    login,       \* how far the connection to each server is
    port,        \* who listens on REDIRECT_PORT
    tokenFile,   \* the credentials that are stored
    torn,        \* whether a write is under way, and whose
    saved,       \* servers whose credentials were written last, not deleted
    overlapped   \* some other read or write fell between a read and its write

loginVars == <<loginWorld, login, port, tokenFile, torn, saved, overlapped>>

Mishap == {"revoked", "refused", "denied", "expiry"}
May(mishap) == mishap \in loginWorld.mishaps
Encrypted == loginWorld.store = "encrypted"

Credential == {"none", "fresh", "expired"}
\* again: after authenticate(); goal: what the write under way is for.
LoginState == [at : {"idle", "looking", "refreshing", "reading", "writing", "filling",
                     "connecting", "denied", "browser", "exchanging", "connected", "failed"},
               token : BOOLEAN, again : BOOLEAN, goal : {"refresh", "delete", "login"},
               copy : [OAuthServer -> Credential]]
Nothing == [s \in OAuthServer |-> "none"]
NoLogin == [at |-> "idle", token |-> FALSE, again |-> FALSE, goal |-> "login", copy |-> Nothing]

LoginInit ==
    /\ loginWorld \in LoginWorld
    /\ login = [s \in OAuthServer |-> NoLogin]
    /\ port = NoOwner
    /\ tokenFile = loginWorld.stored
    /\ torn = NoOwner
    /\ saved = {s \in OAuthServer : tokenFile[s] # "none"}
    /\ overlapped = FALSE

At(s, where) == login[s].at = where
Go(s, where) == login' = [login EXCEPT ![s].at = where]
Exists == torn # NoOwner \/ \E s \in OAuthServer : tokenFile[s] # "none"

\* What getAllCredentials and loadTokens make of the file; an emptied file is no
\* JSON, which the plain store takes for an empty one.  The encrypted store
\* throws also when there is no file.
Throws == Encrypted /\ (torn # NoOwner \/ ~Exists)
Contents == IF torn # NoOwner THEN Nothing ELSE tokenFile
\* The encrypted store hides what has expired.
Stored(s) == IF Encrypted /\ Contents[s] = "expired" THEN "none" ELSE Contents[s]

\* A flow that has read the file and not yet written it.
Between(s) == login[s].at \in {"writing", "filling"}
Crosses(s) == \E o \in OAuthServer \ {s} : Between(o)

-----------------------------------------------------------------------------
Connect(s) ==
    /\ At(s, "idle")
    /\ Go(s, "looking")
    /\ UNCHANGED <<loginWorld, port, tokenFile, torn, saved, overlapped>>

\* getCredentials and getValidToken: for the transport, and after a login, when
\* not to find them is an error.
Look(s) ==
    /\ At(s, "looking")
    /\ LET found == Stored(s) IN
       login' = [login EXCEPT
         ![s].at = IF Throws THEN "failed"
                   ELSE IF found = "expired" THEN "refreshing"
                   ELSE IF found = "none" /\ login[s].again THEN "failed"
                   ELSE "connecting",
         ![s].token = found = "fresh"]
    /\ overlapped' = (overlapped \/ torn # NoOwner)
    /\ UNCHANGED <<loginWorld, port, tokenFile, torn, saved>>

Change(s, goal) == login' = [login EXCEPT ![s].at = "reading", ![s].goal = goal]

\* refreshAccessToken, then saveToken; when it fails the credentials are deleted.
Refresh(s) ==
    /\ At(s, "refreshing")
    /\ \/ Change(s, "refresh")
       \/ May("refused") /\ Change(s, "delete")
    /\ UNCHANGED <<loginWorld, port, tokenFile, torn, saved, overlapped>>

\* What follows a write, done or failed.
AfterWrite(l) ==
    IF l.goal = "login" THEN [l EXCEPT !.at = "looking", !.again = TRUE]
    ELSE IF l.goal = "refresh" THEN [l EXCEPT !.at = "connecting", !.token = TRUE]
    ELSE [l EXCEPT !.at = IF l.again THEN "failed" ELSE "connecting", !.token = FALSE]

\* setCredentials and deleteCredentials read the whole file first.  A login that
\* cannot be saved fails; a refresh that cannot be saved deletes the credentials,
\* and the encrypted store throws where there are none to delete.
ReadForChange(s) ==
    /\ At(s, "reading")
    /\ LET l == login[s] IN
       login' = [login EXCEPT ![s] =
         IF Throws
           THEN IF l.goal = "refresh" THEN [l EXCEPT !.goal = "delete"]
                ELSE [l EXCEPT !.at = "failed"]
         ELSE IF l.goal = "delete" /\ Contents[s] = "none"
           THEN IF Encrypted THEN [l EXCEPT !.at = "failed"] ELSE AfterWrite(l)
         ELSE [l EXCEPT !.at = "writing", !.copy = Contents]]
    /\ overlapped' = (overlapped \/ Crosses(s) \/ torn # NoOwner)
    /\ UNCHANGED <<loginWorld, port, tokenFile, torn, saved>>

\* Only what is written is kept: a mistake the runs must notice.
KeepsOwn(s) == [Nothing EXCEPT ![s] = IF login[s].goal = "delete" THEN "none" ELSE "fresh"]
\* The map that was read, with the server's credentials set or deleted.
Changed(s) == [login[s].copy EXCEPT ![s] = IF login[s].goal = "delete" THEN "none" ELSE "fresh"]

\* writeFile empties the file; the last credentials are deleted by unlink.
WriteBegins(s) ==
    /\ At(s, "writing")
    /\ Go(s, "filling")
    /\ torn' = IF Changed(s) = Nothing THEN torn ELSE s
    /\ overlapped' = (overlapped \/ Crosses(s))
    /\ UNCHANGED <<loginWorld, port, tokenFile, saved>>

WriteEnds(s) ==
    /\ At(s, "filling")
    /\ tokenFile' = Changed(s)
    /\ torn' = IF torn = s THEN NoOwner ELSE torn
    /\ saved' = IF login[s].goal = "delete" THEN saved \ {s} ELSE saved \cup {s}
    /\ login' = [login EXCEPT ![s] = [AfterWrite(login[s]) EXCEPT !.copy = Nothing]]
    /\ overlapped' = (overlapped \/ Crosses(s))
    /\ UNCHANGED <<loginWorld, port>>

-----------------------------------------------------------------------------
\* The server accepts a token that was not revoked; it answers 401 otherwise, and
\* the connection that follows a login is not tried again.
Connected(s) ==
    /\ At(s, "connecting") /\ login[s].token
    /\ Go(s, "connected")
    /\ UNCHANGED <<loginWorld, port, tokenFile, torn, saved, overlapped>>
Unauthorized(s) ==
    /\ At(s, "connecting") /\ (login[s].token => May("revoked"))
    /\ Go(s, IF login[s].again THEN "failed" ELSE "denied")
    /\ UNCHANGED <<loginWorld, port, tokenFile, torn, saved, overlapped>>

\* handleAutomaticOAuth: discovery and registration may fail; then authenticate()
\* listens on the port, which may be taken, and opens the browser.
Authenticate(s) ==
    /\ At(s, "denied")
    /\ IF port = NoOwner
         THEN port' = s /\ Go(s, "browser")
         ELSE port' = port /\ Go(s, "failed")
    /\ UNCHANGED <<loginWorld, tokenFile, torn, saved, overlapped>>
DiscoveryFails(s) ==
    /\ May("denied") /\ At(s, "denied")
    /\ Go(s, "failed")
    /\ UNCHANGED <<loginWorld, port, tokenFile, torn, saved, overlapped>>

\* The callback closes the server, as do an error and the time limit.
Callback(s) ==
    /\ At(s, "browser")
    /\ port' = IF port = s THEN NoOwner ELSE port
    /\ \/ port = s /\ Go(s, "exchanging")
       \/ May("denied") /\ Go(s, "failed")
    /\ UNCHANGED <<loginWorld, tokenFile, torn, saved, overlapped>>

\* exchangeCodeForToken, then saveToken
Exchange(s) ==
    /\ At(s, "exchanging")
    /\ \/ Change(s, "login")
       \/ May("denied") /\ Go(s, "failed")
    /\ UNCHANGED <<loginWorld, port, tokenFile, torn, saved, overlapped>>

\* Time passes.
Expire(s) ==
    /\ May("expiry") /\ torn = NoOwner /\ tokenFile[s] = "fresh"
    /\ tokenFile' = [tokenFile EXCEPT ![s] = "expired"]
    /\ UNCHANGED <<loginWorld, login, port, torn, saved, overlapped>>

LoginStep(s) ==
    \/ Connect(s) \/ Look(s) \/ Refresh(s) \/ ReadForChange(s) \/ WriteBegins(s)
    \/ WriteEnds(s) \/ Connected(s) \/ Unauthorized(s) \/ Authenticate(s)
    \/ DiscoveryFails(s) \/ Callback(s) \/ Exchange(s)
LoginNext == \E s \in OAuthServer : LoginStep(s) \/ Expire(s)

LoginSpec == LoginInit /\ [][LoginNext]_loginVars

-----------------------------------------------------------------------------
LoginTypeOK ==
    /\ login \in [OAuthServer -> LoginState]
    /\ port \in OAuthServer \cup {NoOwner}
    /\ tokenFile \in [OAuthServer -> Credential]
    /\ torn \in OAuthServer \cup {NoOwner}
    /\ saved \subseteq OAuthServer
    /\ overlapped \in BOOLEAN

(* Nothing but overlapping writes loses a login: unless a read or a write of *)
(* the file fell between another one's read and write, every server whose    *)
(* credentials were written and not deleted finds them, whatever the others  *)
(* refreshed, deleted or failed to do in between.  Two servers that log in   *)
(* at startup do overlap (README).                                           *)
LoginsSurvive ==
    ~overlapped =>
      \A s \in saved : ~(\E o \in OAuthServer : At(o, "filling")) => tokenFile[s] # "none"
=============================================================================
