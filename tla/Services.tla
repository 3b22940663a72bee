------------------------------ MODULE Services ------------------------------
(***************************************************************************)
(* The services beside the conversation: the diffs shown in the IDE        *)
(* (IdeDiff), the MCP servers (McpServers), the logins to them (McpLogin), *)
(* the telemetry queue (Telemetry), a shell command (ShellExecution), a    *)
(* sub-agent (SubAgent), the keys of the terminal (Keypress), the vim mode *)
(* (VimKeys), the text that is typed (TextBuffer), the extensions          *)
(* (Extensions), the tools that edit a file (FileEdits), the recordings of *)
(* conversations (ChatRecording), the message log and the checkpoints      *)
(* (SessionLog) and the confirmations over the message bus                 *)
(* (ConfirmationBus).  They share no state, so that a behaviour of one of  *)
(* them, the others at rest, shows all there is.                           *)
(***************************************************************************)
EXTENDS Integers, Sequences, FiniteSets

CONSTANTS
    Edit, File, NoEdit, IdeWorld,
    Server, McpWorld,
    OAuthServer, NoOwner, LoginWorld,
    MaxEvents, MaxRetry, MaxLogged,
    MaxChunks, ShellWorld,
    MaxAgentTurns, MaxAgentCalls,
    Char, FirstText, HistoryLimit, MaxCount, MaxText, MaxEdits,
    KeyWorld, MaxKeys, MaxKitty,
    VimWorld, MaxVimKeys,
    Extension, ExtensionWorld, MaxCommands,
    FileText, FileCalls, FileWorld, MaxSaves,
    Chat, RecordingWorld, MaxReplies, MaxThoughts,
    Logger, LogWorld, MaxPrompts, Tag, MaxChatCommands,
    BusTool, NoServer, BusCall, PolicyWorld, MaxAnswers,
    AtRest     \* the worlds of the services that rest

ASSUME NoEditIsNone == NoEdit \notin Edit
ASSUME PlainIsNoServer == "plain" \notin Server
ASSUME NobodyIsNone == NoOwner \notin OAuthServer
ASSUME StoredAreTokens == \A w \in LoginWorld : w.stored \in [OAuthServer -> {"none", "fresh", "expired"}]
ASSUME DiffsAreOfFiles == \A w \in IdeWorld : w.file \in [Edit -> File] /\ w.sides \subseteq {"cli", "ide"}
ASSUME BoundsAreNumbers ==
    /\ {MaxEvents, MaxRetry, MaxLogged, MaxAgentTurns, MaxAgentCalls} \subseteq Nat
    /\ MaxEvents > 0 /\ MaxRetry <= MaxEvents
\* No text is one of the words with which FileEdits says what else a file can be.
ASSUME EditsAreOfTexts ==
    /\ FileText \cap {"missing", "blank", "failed", "unsure", "unescaped"} = {}
    /\ \A w \in FileWorld :
         /\ \A c \in DOMAIN w.jobs :
              /\ w.jobs[c] \in {<<"create">>, <<"write">>, <<"escaped">>} \cup {<<"replace", old>> : old \in FileText}
              /\ FileCalls[c] \in FileText
         /\ w.text = <<>> \/ w.text \in [{1, 2} -> FileText \cup {"blank"}]
ASSUME FilesAreOfChats == \A w \in RecordingWorld : w.file \in [Chat -> Chat]
\* A tool's name tells its kind, settings name no server NoServer, and rules have priorities.
ASSUME PoliciesAreRules ==
    /\ IsFiniteSet(BusCall)
    /\ \A c, d \in BusCall : BusTool[c].name = BusTool[d].name => BusTool[c].kind = BusTool[d].kind
    /\ \A w \in PolicyWorld :
         /\ \A s \in {w.settings.allowedServers, w.settings.trusted, w.settings.allowed,
                      w.settings.excluded, w.settings.excludedServers} :
              IsFiniteSet(s) /\ NoServer \notin s
         /\ {w.settings.autoAccept, w.settings.nonInteractive} \subseteq BOOLEAN
         /\ \A r \in w.rules :
              /\ r = [kind |-> r.kind, name |-> r.name, decision |-> r.decision,
                      priority |-> r.priority, since |-> 0]
              /\ r.priority \in Int

VARIABLES
    ideWorld, edit, mutex, diffResponses, asked, documents, deciding, notices, answer, link,
    mcpWorld, run, closing, managed, client, serverStatus, registry,
    loginWorld, login, port, tokenFile, torn, saved, overlapped,
    logged, events, sending, flushing, pendingFlush, due, received, unread,
    shellWorld, phase, command, pipe, processing, isWriting, outputChunks, screen, streaming,
    sniffing, renderTimeout, display, exited, delivered, shellAborted, listening, killDue,
    signals, shellResult,
    agentAt, turnCounter, functionCalls, running, nextMessage, accepted, taskCompleted,
    reason, agentAborted, outOfTime,
    buffer, past, future, edits,
    keyWorld, typed, isPaste, pasteBuffer, isDragging, dragBuffer, backslash,
    backslashTimers, kittyBuffer, heard, mounted,
    vimWorld, vim, rendered, seen, vimKeys, spelled, done, calm,
    extensionWorld, updates, shown, effectsDue, checking, checkBroke, updateAt, disk, backup,
    overridden, awaited, commands, commandProcessing, quit,
    fileWorld, fileContent, approvalMode, fileCall, saves, raced, undone, faltered,
    recordingWorld, conversationFile, queuedThoughts, queuedTokens, reply, spoken,
    logWorld, logFile, logger, prompts, disturbed, checkpoint, overwriting, chatCommands, kept,
    policyWorld, rules, added, changes, confirmation, listeners, timers, asking, answers,
    fired, given,
    service    \* the one that works

Ide == INSTANCE IdeDiff
Mcp == INSTANCE McpServers
Login == INSTANCE McpLogin
Clearcut == INSTANCE Telemetry
Shell == INSTANCE ShellExecution
Agent == INSTANCE SubAgent
Text == INSTANCE TextBuffer
Keys == INSTANCE Keypress
Vim == INSTANCE VimKeys
Extend == INSTANCE Extensions
Files == INSTANCE FileEdits
Record == INSTANCE ChatRecording
Log == INSTANCE SessionLog
Bus == INSTANCE ConfirmationBus

ideVars == <<ideWorld, edit, mutex, diffResponses, asked, documents, deciding, notices,
             answer, link>>
mcpVars == <<mcpWorld, run, closing, managed, client, serverStatus, registry>>
loginVars == <<loginWorld, login, port, tokenFile, torn, saved, overlapped>>
telemetryVars == <<logged, events, sending, flushing, pendingFlush, due, received, unread>>
shellVars == <<shellWorld, phase, command, pipe, processing, isWriting, outputChunks, screen,
               streaming, sniffing, renderTimeout, display, exited, delivered, shellAborted,
               listening, killDue, signals, shellResult>>
agentVars == <<agentAt, turnCounter, functionCalls, running, nextMessage, accepted,
               taskCompleted, reason, agentAborted, outOfTime>>
textVars == <<buffer, past, future, edits>>
keypressVars == <<keyWorld, typed, isPaste, pasteBuffer, isDragging, dragBuffer, backslash,
                  backslashTimers, kittyBuffer, heard, mounted>>
vimVars == <<vimWorld, vim, rendered, seen, vimKeys, spelled, done, calm>>
extensionVars == <<extensionWorld, updates, shown, effectsDue, checking, checkBroke, updateAt,
                   disk, backup, overridden, awaited, commands, commandProcessing, quit>>
fileVars == <<fileWorld, fileContent, approvalMode, fileCall, saves, raced, undone, faltered>>
recordingVars == <<recordingWorld, conversationFile, queuedThoughts, queuedTokens, reply, spoken>>
logVars == <<logWorld, logFile, logger, prompts, disturbed, checkpoint, overwriting,
             chatCommands, kept>>
busVars == <<policyWorld, rules, added, changes, confirmation, listeners, timers, asking,
             answers, fired, given>>
vars == <<ideVars, mcpVars, loginVars, telemetryVars, shellVars, agentVars, textVars,
          keypressVars, vimVars, extensionVars, fileVars, recordingVars, logVars, busVars, service>>

Services == {"ide", "mcp", "login", "telemetry", "shell", "agent", "text", "keys", "vim",
             "extensions", "files", "recording", "log", "bus"}
\* A service works, or it is at rest in the world of AtRest.
Rests(s, world) == service # s => world = AtRest[s]
Init ==
    /\ service \in Services
    /\ Bus!BusInit /\ Rests("bus", policyWorld)
    /\ Ide!IdeInit /\ Rests("ide", ideWorld)
    /\ Mcp!McpInit /\ Rests("mcp", mcpWorld)
    /\ Login!LoginInit /\ Rests("login", loginWorld)
    /\ Clearcut!TelemetryInit
    /\ Shell!ShellInit /\ Rests("shell", shellWorld)
    /\ Agent!AgentInit
    /\ Text!TextInit /\ Rests("text", buffer.lines)
    /\ Keys!KeypressInit /\ Rests("keys", keyWorld)
    /\ Vim!VimInit /\ Rests("vim", <<vimWorld, vim.enabled>>)
    /\ Extend!ExtensionInit /\ Rests("extensions", extensionWorld)
    /\ Files!FileInit /\ Rests("files", fileWorld)
    /\ Record!RecordingInit /\ Rests("recording", recordingWorld)
    /\ Log!SessionLogInit /\ Rests("log", logWorld)

Step(s, next, sVars) ==
    \/ service = s /\ next
    \/ service # s /\ UNCHANGED sVars
Next ==
    /\ Step("ide", Ide!IdeNext, ideVars)
    /\ Step("mcp", Mcp!McpNext, mcpVars)
    /\ Step("login", Login!LoginNext, loginVars)
    /\ Step("telemetry", Clearcut!TelemetryNext, telemetryVars)
    /\ Step("shell", Shell!ShellNext, shellVars)
    /\ Step("agent", Agent!AgentNext, agentVars)
    /\ Step("text", Text!TextNext, textVars)
    /\ Step("keys", Keys!KeypressNext, keypressVars)
    /\ Step("vim", Vim!VimNext, vimVars)
    /\ Step("extensions", Extend!ExtensionNext, extensionVars)
    /\ Step("files", Files!FileNext, fileVars)
    /\ Step("recording", Record!RecordingNext, recordingVars)
    /\ Step("log", Log!SessionLogNext, logVars)
    /\ Step("bus", Bus!BusNext, busVars)
    /\ UNCHANGED service

\* The client and the companion go on; the user answers every diff that is shown.
IdeFairness ==
    /\ WF_ideVars(service = "ide" /\ Ide!IdeClientStep)
    /\ WF_ideVars(service = "ide" /\ Ide!IdeCompanion)
    /\ \A e \in Edit : WF_ideVars(service = "ide" /\ Ide!UserAnswers(e))
\* Every callback is called at last and the system delivers signals; a command need
\* not end by itself.
ShellFairness ==
    /\ WF_shellVars(service = "shell" /\ Shell!Data)
    /\ WF_shellVars(service = "shell" /\ (Shell!Process \/ Shell!Written))
    /\ WF_shellVars(service = "shell" /\ (Shell!Exit \/ Shell!Finish))
    /\ WF_shellVars(service = "shell" /\ Shell!KillTimeout)
    /\ WF_shellVars(service = "shell" /\ Shell!Dies)
Spec == Init /\ [][Next]_vars /\ IdeFairness /\ ShellFairness

-----------------------------------------------------------------------------
(* Every variable of a service keeps its type while the service works.      *)
Typed(s, typeOK) == service = s => typeOK
ServicesTypeOK ==
    /\ Typed("ide", Ide!IdeTypeOK)
    /\ Typed("mcp", Mcp!McpTypeOK)
    /\ Typed("login", Login!LoginTypeOK)
    /\ Typed("telemetry", Clearcut!TelemetryTypeOK)
    /\ Typed("shell", Shell!ShellTypeOK)
    /\ Typed("agent", Agent!AgentTypeOK)
    /\ Typed("text", Text!TextTypeOK)
    /\ Typed("keys", Keys!KeypressTypeOK)
    /\ Typed("vim", Vim!VimTypeOK)
    /\ Typed("extensions", Extend!ExtensionTypeOK)
    /\ Typed("files", Files!FileTypeOK)
    /\ Typed("recording", Record!RecordingTypeOK)
    /\ Typed("log", Log!SessionLogTypeOK)
    /\ Typed("bus", Bus!BusTypeOK)

(* Diffs do not mix: one view at a time, by the mutex of IdeClient and the  *)
(* views of the companion's DiffManager, and an edit is accepted with the   *)
(* text of its own view, though notices, replies and resolvers only name a  *)
(* file.                                                                    *)
DiffsStayApart == Ide!OneViewAtATime /\ Ide!AcceptedTextIsOwn
(* Every diff is settled at last: resolvers and the mutex of IdeClient.     *)
EveryDiffSettles == Ide!EveryDiffSettles
(* Overlapping discoveries of McpClientManager and ToolRegistry leave every *)
(* server a tool that can be called, those that do not overlap just one;    *)
(* and the logins to servers are not lost unless writes of the token file   *)
(* overlap.                                                                 *)
ServersServe == Mcp!EveryServerServes /\ Login!LoginsSurvive
(* What is kept arrives whole and in order: ClearcutLogger's retries keep   *)
(* the order of events and repeat none, and the limits of its queue drop    *)
(* the oldest; recordings have all messages and thoughts, and each its own  *)
(* tokens; the log has every prompt, and checkpoints what was saved last.   *)
RecordsAreKept ==
    /\ Clearcut!EventsArriveInOrder /\ Clearcut!NewestEventsSurvive
    /\ Record!RecordingsAreKept /\ Log!LogIsKept
(* What the settings promise of a tool is what PolicyEngine decides, and a  *)
(* call is confirmed by a response to its own request.                      *)
ConfirmationsAreOwn == Bus!ConfirmationsAreOwn
(* ShellExecutionService resolves with all that was delivered and read.     *)
OutputIsWhole == Shell!OutputIsWhole
(* An abort that reaches a shell command ends it.                           *)
AbortEndsCommand == Shell!AbortEndsCommand
(* AgentExecutor leaves a turn when all of its calls are answered.          *)
TurnsAreComplete == Agent!TurnsAreComplete
(* What is typed arrives and can be taken back: the keys that wait in a     *)
(* buffer of KeypressContext are handed on once and in order, the keys of   *)
(* the vim mode act as they are spelled, in the mode that is shown, and the *)
(* text buffer's undo and redo lead through the texts there were.           *)
TypingIsFaithful == Keys!KeysAreKept /\ Vim!VimIsFaithful /\ Text!HistoryIsFaithful
(* An update leaves a whole extension, is shown as what it is, and a        *)
(* command that waits for updates ends with them, unless one has failed.    *)
ExtensionsSurvive == Extend!ExtensionsSurvive
(* replace and write_file undo nothing that was there before they execute,  *)
(* edit the one place they name, write what the user saw, and write unseen  *)
(* only what changed since they were looked at.                             *)
FilesAreKept == Files!FilesAreKept
=============================================================================
