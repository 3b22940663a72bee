------------------------------ MODULE IdeDiff ------------------------------
(***************************************************************************)
(* A diff view in the IDE, from both of its ends: IdeClient                *)
(* (packages/core/src/ide/ide-client.ts) with the promise-chain mutex, the *)
(* resolvers it keeps by file and its connection; the DiffManager of the   *)
(* companion extension (packages/vscode-ide-companion/src/diff-manager.ts) *)
(* with the documents it shows; and the prompt of the CLI, which answers   *)
(* the same edits (ToolConfirmationMessage.tsx).                           *)
(*                                                                         *)
(* The companion serves requests in the order in which they are sent.      *)
(* Replies and notifications travel on streams of their own.               *)
(***************************************************************************)
EXTENDS Naturals, Sequences, FiniteSets, SequencesExt

CONSTANTS
    Edit,      \* edits that ask for a diff
    File,      \* files
    NoEdit,    \* no edit
    IdeWorld   \* what may happen: [file, sides, faults]

VARIABLES
    ideWorld,       \* the member of IdeWorld this session is in
    edit,           \* the promise openDiff returns for each edit
    mutex,          \* the chain of diffMutex: the first holds it
    diffResponses,  \* IdeClient.diffResponses
    asked,          \* edits whose openDiff request is on its way
    documents,      \* DiffManager.diffDocuments, in the order of insertion
    deciding,       \* accepts and cancels in the companion that await the editor
    notices,        \* notifications on their way to the CLI
    answer,         \* resolveDiffFromCli of each edit
    link            \* "up", "closing" (disconnect), "down", "lost" or "again"

ideVars == <<ideWorld, edit, mutex, diffResponses, asked, documents, deciding,
             notices, answer, link>>

Settled == {"accepted", "rejected", "failed"}
Promise == [at : {"new", "queued", "open"} \cup Settled, content : Edit \cup {NoEdit}]
Verdict == {"accepted", "rejected"}
Decision == [view : Edit, verdict : Verdict]
\* at: "closing" until the companion has served closeDiff, then "closed".
Answering == [at : {"no", "closing", "closed"}, verdict : Verdict,
              resolver : Edit \cup {NoEdit}, content : Edit \cup {NoEdit}]
NoAnswer == [at |-> "no", verdict |-> "rejected", resolver |-> NoEdit, content |-> NoEdit]

FileOf(e) == ideWorld.file[e]
May(fault) == fault \in ideWorld.faults
Up == link \in {"up", "again"}
Connected == Up \/ link = "closing"

IdeInit ==
    /\ ideWorld \in IdeWorld
    /\ edit = [e \in Edit |-> [at |-> "new", content |-> NoEdit]]
    /\ mutex = <<>>
    /\ diffResponses = [f \in File |-> NoEdit]
    /\ asked = {}
    /\ documents = <<>>
    /\ deciding = {}
    /\ notices = <<>>
    /\ answer = [e \in Edit |-> NoAnswer]
    /\ link = "up"

-----------------------------------------------------------------------------
(* The resolver of edit e is called, and the mutex is released: a promise   *)
(* that is settled does not change.                                         *)
Settle(e, at, content) ==
    IF e # NoEdit /\ edit[e].at = "open"
      THEN /\ edit' = [edit EXCEPT ![e] = [at |-> at, content |-> content]]
           /\ mutex' = Tail(mutex)
      ELSE UNCHANGED <<edit, mutex>>

\* openDiff is called while diffing is enabled, and waits for the mutex.
OpenDiff(e) ==
    /\ edit[e].at = "new" /\ Up
    /\ edit' = [edit EXCEPT ![e].at = "queued"]
    /\ mutex' = Append(mutex, e)
    /\ UNCHANGED <<ideWorld, diffResponses, asked, documents, deciding, notices, answer, link>>

Locked(e) == Head(mutex) = e

\* The mutex is acquired: the resolver is kept and the request sent.
Ask(e) ==
    /\ edit[e].at = "queued" /\ Locked(e)
    /\ edit' = [edit EXCEPT ![e].at = "open"]
    /\ diffResponses' = [diffResponses EXCEPT ![FileOf(e)] = e]
    /\ asked' = asked \cup {e}
    /\ UNCHANGED <<ideWorld, mutex, documents, deciding, notices, answer, link>>

\* showDiff: the companion keeps the document and opens the editor.
ShowDiff(e) ==
    /\ e \in asked /\ Connected
    /\ asked' = asked \ {e}
    /\ documents' = Append(documents, e)
    /\ UNCHANGED <<ideWorld, edit, mutex, diffResponses, deciding, notices, answer, link>>

\* The request fails, or fails in the editor once the document is kept.
OpenFails(e) ==
    /\ e \in asked /\ (Connected => May("open"))
    /\ asked' = asked \ {e}
    /\ documents' \in {documents} \cup (IF Connected THEN {Append(documents, e)} ELSE {})
    /\ diffResponses' = [diffResponses EXCEPT ![FileOf(e)] = NoEdit]
    /\ Settle(e, "failed", NoEdit)
    /\ UNCHANGED <<ideWorld, deciding, notices, answer, link>>

-----------------------------------------------------------------------------
(* The companion: its user, and closeDiff.                                  *)

\* acceptDiff, or cancelDiff (also by closing the tab): the document is known,
\* its text is awaited.  One of each at most.
Decides(d) ==
    /\ "ide" \in ideWorld.sides
    /\ d \notin deciding /\ Contains(documents, d.view)
    /\ (\A o \in deciding : o.view # d.view) \/ May("twice")
    /\ deciding' = deciding \cup {d}
    /\ UNCHANGED <<ideWorld, edit, mutex, diffResponses, asked, documents, notices, answer, link>>

\* Map.delete: a document is kept once at most.
Without(view) ==
    IF Contains(documents, view)
      THEN LET i == CHOOSE j \in DOMAIN documents : documents[j] = view IN
           SubSeq(documents, 1, i - 1) \o SubSeq(documents, i + 1, Len(documents))
      ELSE documents
\* The tab is closed, the document kept: a mistake the runs must notice.
KeepsDocument(view) == documents
\* closeDiffEditor
Closed(view) == Without(view)

\* The editor is closed and the CLI is told.
Decided(d) ==
    /\ d \in deciding
    /\ deciding' = deciding \ {d}
    /\ documents' = Closed(d.view)
    /\ notices' = IF Connected THEN Append(notices, d) ELSE notices
    /\ UNCHANGED <<ideWorld, edit, mutex, diffResponses, asked, answer, link>>

\* closeDiff finds the first document of the file.
Shows(i, f) == FileOf(documents[i]) = f
FirstOf(f) ==
    IF \E i \in DOMAIN documents : Shows(i, f)
      THEN documents[CHOOSE i \in DOMAIN documents :
                       Shows(i, f) /\ \A j \in 1..(i - 1) : ~Shows(j, f)]
      ELSE NoEdit

\* A request that was sent before is served before.
Served(f) == \A e \in asked : FileOf(e) # f

-----------------------------------------------------------------------------
(* The client.                                                              *)

\* The resolver is not looked up but the oldest taken: a mistake the runs must notice.
OldestResolver(f) == CHOOSE e \in Edit : FileOf(e) = f
\* The resolver that is registered for the file.
ResolverOf(f) == diffResponses[f]

\* ide/diffAccepted, ide/diffRejected and ide/diffClosed
Notified ==
    /\ notices # <<>> /\ Connected
    /\ LET d == Head(notices) f == FileOf(d.view) IN
       /\ Settle(ResolverOf(f), d.verdict, IF d.verdict = "accepted" THEN d.view ELSE NoEdit)
       /\ diffResponses' = [diffResponses EXCEPT ![f] = NoEdit]
    /\ notices' = Tail(notices)
    /\ UNCHANGED <<ideWorld, asked, documents, deciding, answer, link>>

\* handleConfirm: the user answers the prompt of an edit whose diff is not
\* settled; resolveDiffFromCli takes the resolver and asks for closeDiff.
CliAnswers(e) ==
    /\ "cli" \in ideWorld.sides /\ Up
    /\ edit[e].at = "open" /\ answer[e].at = "no"
    /\ \E v \in Verdict :
         answer' = [answer EXCEPT ![e] = [at |-> "closing", verdict |-> v, content |-> NoEdit,
                                          resolver |-> ResolverOf(FileOf(e))]]
    /\ UNCHANGED <<ideWorld, edit, mutex, diffResponses, asked, documents, deciding, notices, link>>

\* closeDiff is served, without a notification.
CloseDiff(e) ==
    /\ answer[e].at = "closing" /\ Connected /\ Served(FileOf(e))
    /\ LET view == FirstOf(FileOf(e)) IN
       /\ documents' = IF view = NoEdit THEN documents ELSE Closed(view)
       /\ answer' = [answer EXCEPT ![e].at = "closed", ![e].content = view]
    /\ UNCHANGED <<ideWorld, edit, mutex, diffResponses, asked, deciding, notices, link>>

\* closeDiff fails or times out: it returns undefined.
CloseFails(e) ==
    /\ answer[e].at = "closing" /\ (Connected => May("close"))
    /\ answer' = [answer EXCEPT ![e].at = "closed"]
    /\ UNCHANGED <<ideWorld, edit, mutex, diffResponses, asked, documents, deciding, notices, link>>

\* The reply of closeDiff arrives: the resolver taken before is called, and
\* whatever the file has in diffResponses now is deleted.
ResolveFromCli(e) ==
    /\ answer[e].at = "closed"
    /\ LET a == answer[e] IN
       IF a.resolver # NoEdit
         THEN /\ Settle(a.resolver, a.verdict, IF a.verdict = "accepted" THEN a.content ELSE NoEdit)
              /\ diffResponses' = [diffResponses EXCEPT ![FileOf(e)] = NoEdit]
         ELSE UNCHANGED <<edit, mutex, diffResponses>>
    /\ answer' = [answer EXCEPT ![e] = NoAnswer]
    /\ UNCHANGED <<ideWorld, asked, documents, deciding, notices, link>>

-----------------------------------------------------------------------------
(* The connection.                                                          *)

\* disconnect(): every diff that is open is closed in the IDE, with a notice.
Disconnect ==
    /\ May("off") /\ link = "up"
    /\ link' = "closing"
    /\ UNCHANGED <<ideWorld, edit, mutex, diffResponses, asked, documents, deciding, notices, answer>>

CloseForDisconnect ==
    /\ link = "closing"
    /\ \E e \in Edit :
         /\ diffResponses[FileOf(e)] = e /\ Contains(documents, e)
         /\ LET view == FirstOf(FileOf(e)) IN
            /\ documents' = Closed(view)
            /\ notices' = Append(notices, [view |-> view, verdict |-> "rejected"])
    /\ UNCHANGED <<ideWorld, edit, mutex, diffResponses, asked, deciding, answer, link>>

\* diffResponses.clear() and client.close(): what is on its way is lost.
DisconnectEnds ==
    /\ link = "closing"
    /\ \A e \in Edit : diffResponses[FileOf(e)] = e => ~Contains(documents, e)
    /\ link' = "down"
    /\ diffResponses' = [f \in File |-> NoEdit]
    /\ notices' = <<>>
    /\ UNCHANGED <<ideWorld, edit, mutex, asked, documents, deciding, answer>>

\* onerror or onclose: the state is Disconnected, the resolvers are kept.
LoseConnection ==
    /\ May("drop") /\ link = "up"
    /\ link' = "lost"
    /\ notices' = <<>>
    /\ UNCHANGED <<ideWorld, edit, mutex, diffResponses, asked, documents, deciding, answer>>

\* connect(), by /ide enable, once; what the old client had asked has failed.
Reconnect ==
    /\ link \in {"down", "lost"} /\ asked = {}
    /\ \A e \in Edit : answer[e].at # "closing"
    /\ link' = "again"
    /\ UNCHANGED <<ideWorld, edit, mutex, diffResponses, documents, deciding, notices, asked, answer>>

-----------------------------------------------------------------------------
IdeClientStep ==
    \/ \E e \in Edit : Ask(e) \/ OpenFails(e) \/ ResolveFromCli(e) \/ CloseFails(e)
    \/ Notified \/ CloseForDisconnect \/ DisconnectEnds
IdeCompanion ==
    \/ \E e \in Edit : ShowDiff(e) \/ CloseDiff(e)
    \/ \E d \in Decision : Decided(d)
IdeNext ==
    \/ \E e \in Edit : OpenDiff(e) \/ CliAnswers(e)
    \/ \E d \in Decision : Decides(d)
    \/ IdeClientStep \/ IdeCompanion
    \/ Disconnect \/ LoseConnection \/ Reconnect

IdeSpec == IdeInit /\ [][IdeNext]_ideVars

\* The user answers a diff that is shown, in the terminal or in the IDE.
UserAnswers(e) == CliAnswers(e) \/ \E v \in Verdict : Decides([view |-> e, verdict |-> v])

-----------------------------------------------------------------------------
IdeTypeOK ==
    /\ ideWorld.file \in [Edit -> File]
    /\ edit \in [Edit -> Promise]
    /\ mutex \in Seq(Edit) /\ IsInjective(mutex)
    /\ diffResponses \in [File -> Edit \cup {NoEdit}]
    /\ asked \subseteq Edit
    /\ documents \in Seq(Edit)
    /\ deciding \subseteq Decision
    /\ notices \in Seq(Decision)
    /\ answer \in [Edit -> Answering]
    /\ link \in {"up", "closing", "down", "lost", "again"}

SameFile == \E e, f \in Edit : e # f /\ FileOf(e) = FileOf(f)
Quiet == ideWorld.faults = {}

\* No two edits are of one file, or nothing fails and one side answers them.
Separate == SameFile => Quiet /\ Cardinality(ideWorld.sides) = 1

(* What the mutex is for: only one diff view is open in the IDE at a time.  *)
(* It takes the settling of a diff to come after the closing of its view on *)
(* every path: a notification, the prompt, a disconnect.  A request that    *)
(* fails, a double click or a lost connection breaks it, and so does an     *)
(* answer in the IDE that is late for its own edit and meets the resolver   *)
(* of a newer edit of the file (README).                                    *)
OneViewAtATime == Quiet /\ Separate => Len(documents) <= 1

(* An edit is accepted with the text of its own view and of no other edit's *)
(* of the same file; without text only when its view was already gone.      *)
(* Replies, notices and resolvers are matched by the path of the file only. *)
(* A view that an earlier edit of the file left behind, or an answer the    *)
(* prompt and the IDE give at once, breaks it (README).                     *)
AcceptedTextIsOwn ==
    Separate => \A e \in Edit : edit[e].at = "accepted" => edit[e].content \in {e, NoEdit}

(* Every edit that asks for a diff is answered at last: no resolver is      *)
(* forgotten and the mutex is always released.  Two edits of one file that  *)
(* the IDE and the prompt answer together, and a connection that ends, may  *)
(* forget one (README).                                                     *)
EveryDiffSettles ==
    [](\/ ~(ideWorld.faults \subseteq {"open", "close"})
       \/ ~Separate
       \/ \A e \in Edit : edit[e].at = "queued" => <>(edit[e].at \in Settled))
=============================================================================
