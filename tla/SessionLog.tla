----------------------------- MODULE SessionLog -----------------------------
(***************************************************************************)
(* The message log and the checkpoints of a project                        *)
(* (packages/core/src/core/logger.ts).  Every prompt is added to one       *)
(* logs.json by reading it, appending, and writing all of it again, from   *)
(* each Logger of each terminal in the project; /chat save, resume and     *)
(* delete (cli ui/commands/chatCommand.ts) keep conversations under a tag. *)
(* Steps end at the awaits; fs.writeFile empties the file first.           *)
(***************************************************************************)
EXTENDS Naturals, Sequences, FiniteSets, FiniteSetsExt

CONSTANTS
    Logger,
    LogWorld,         \* [session, mishaps, plain, old, uses], see below
    MaxPrompts,       \* bound: prompts of the project
    Tag,
    MaxChatCommands   \* bound: /chat commands

VARIABLES
    \* session: that of each Logger; mishaps: what may happen; plain: the tags that
    \* need no encoding; old: those kept under the bare tag, before there was one;
    \* uses: "prompts", "chat", what the terminals are used for
    logWorld,
    logFile,      \* its state: "absent", "torn" (empty, or not to be parsed) or "whole"; its entries
    logger,       \* where each is; its prompt; the entries it writes; whether its file was renamed
    prompts,      \* how many were logged
    disturbed,    \* ghost: operations on the log met, or one was cut off
    checkpoint,   \* the files of the checkpoints
    overwriting,  \* the tag of a /chat save that waits to be confirmed, or "none"
    chatCommands, \* how many /chat commands were given
    kept          \* ghost: what the last /chat save kept under each tag

logFileVars == <<logFile, logger, prompts, disturbed>>
checkpointVars == <<checkpoint, overwriting, chatCommands, kept>>
sessionLogVars == <<logWorld, logFileVars, checkpointVars>>

\* "overlap": loggers work at once; "crash": a terminal dies in a write; "full": a
\* checkpoint is not written, and nobody is told.
LogMishaps == {"overlap", "crash", "full"}
AtWork == {"accessed", "reading", "renaming", "creating", "adding", "writing"}

\* _checkpointPath, and the path from before there was encodeTagName
NewPath(t) == <<"encoded", t>>
OldPath(t) == IF t \in logWorld.plain THEN NewPath(t) ELSE <<"bare", t>>
Path == {"encoded", "bare"} \X Tag
\* What a checkpoint file holds: the conversation of the n-th command, or of before them
Holds(n) == [state |-> "whole", saved |-> n]
NoFile == [state |-> "none", saved |-> 0]
TornFile == [state |-> "torn", saved |-> 0]

SessionLogInit ==
    /\ logWorld \in LogWorld
    /\ logFile = [state |-> "absent", logs |-> <<>>]
    /\ logger = [l \in Logger |-> [at |-> "new", prompt |-> 0, logs |-> <<>>, existed |-> FALSE, renamed |-> FALSE]]
    /\ prompts = 0 /\ disturbed = FALSE
    /\ checkpoint = [p \in Path |-> IF \E t \in logWorld.old : p = OldPath(t) THEN Holds(0) ELSE NoFile]
    /\ kept = [t \in Tag |-> IF t \in logWorld.old THEN Holds(0) ELSE NoFile]
    /\ overwriting = "none" /\ chatCommands = 0

May(mishap) == mishap \in logWorld.mishaps
Whole(logs) == [state |-> "whole", logs |-> logs]
Torn == [state |-> "torn", logs |-> <<>>]
Others(l) == {o \in Logger \ {l} : logger[o].at \in AtWork}
Goes(l, at) == logger' = [logger EXCEPT ![l].at = at]

\* An operation begins: with others under way, anything may be missed.
Begins(l) ==
    /\ Others(l) # {} => May("overlap")
    /\ disturbed' = (disturbed \/ Others(l) # {})
    /\ UNCHANGED <<logWorld, logFile, checkpointVars>>

\* initialize, up to fs.access
Access(l) ==
    /\ logger[l].at = "new"
    /\ logger' = [logger EXCEPT ![l].at = "accessed", ![l].existed = logFile.state # "absent"]
    /\ Begins(l) /\ UNCHANGED prompts
\* logMessage, up to its read
LogMessage(l) ==
    /\ logger[l].at = "ready" /\ "prompts" \in logWorld.uses /\ prompts < MaxPrompts
    /\ prompts' = prompts + 1
    /\ logger' = [logger EXCEPT ![l].at = "reading", ![l].prompt = prompts + 1]
    /\ Begins(l)

\* Where the entries of session s are in the log
EntriesOf(logs, s) == {i \in 1 .. Len(logs) : logs[i].session = s}
\* Sessions are not told apart: a mistake the runs must notice.
CountsAll(logs, s) == Len(logs)
\* messageId: one more than the greatest of the session in the file
NextId(logs, s) ==
    IF EntriesOf(logs, s) = {} THEN 0 ELSE Max({logs[i].id : i \in EntriesOf(logs, s)}) + 1
Added(l) ==
    LET s == logWorld.session[l]
    IN Append(logFile.logs, [session |-> s, id |-> NextId(logFile.logs, s), prompt |-> logger[l].prompt])

\* _readLogFile: what cannot be parsed is to be renamed, and counts as no entries.
Read(l, at, logs) ==
    /\ logger' = [logger EXCEPT ![l].at = IF logFile.state = "torn" THEN "renaming" ELSE at, ![l].logs = logs]
    /\ UNCHANGED <<logWorld, logFile, prompts, disturbed, checkpointVars>>
\* initialize: a log that was not there is created, though it may be there by now.
Initialize(l) ==
    /\ logger[l].at = "accessed"
    /\ Read(l, IF logger[l].existed \/ logFile.logs # <<>> THEN "ready" ELSE "creating", <<>>)
\* _updateLogFile, up to the write
Update(l) ==
    /\ logger[l].at = "reading"
    /\ Read(l, "adding", Added(l))
\* _backupCorruptedLogFile renames what is there by now; whoever writes to it goes on
\* writing to the renamed file.
Backup(l) ==
    /\ logger[l].at = "renaming"
    /\ logFile' = [state |-> "absent", logs |-> <<>>]
    /\ logger' = [o \in Logger |->
           IF o = l
             THEN [logger[l] EXCEPT !.at = CASE logger[l].logs # <<>> -> "adding"
                                             [] logger[l].existed     -> "ready"
                                             [] OTHER                 -> "creating"]
             ELSE [logger[o] EXCEPT !.renamed = @ \/ logger[o].at = "writing"]]
    /\ UNCHANGED <<logWorld, prompts, disturbed, checkpointVars>>

\* fs.writeFile opens the file, which empties it.
Open(l) ==
    /\ logger[l].at \in {"creating", "adding"}
    /\ logger' = [logger EXCEPT ![l].at = "writing", ![l].renamed = FALSE]
    /\ logFile' = Torn
    /\ UNCHANGED <<logWorld, prompts, disturbed, checkpointVars>>
\* It writes; when another has written meanwhile, the text may end in the other's.
Write(l) ==
    /\ logger[l].at = "writing"
    /\ logger' = [logger EXCEPT ![l].at = "ready", ![l].logs = <<>>]
    /\ IF logger[l].renamed
         THEN UNCHANGED logFile
         ELSE logFile' \in {Whole(logger[l].logs)} \cup (IF logFile.state = "whole" THEN {Torn} ELSE {})
    /\ UNCHANGED <<logWorld, prompts, disturbed, checkpointVars>>

Crash(l) ==
    /\ May("crash") /\ logger[l].at = "writing"
    /\ Goes(l, "gone")
    /\ disturbed' = TRUE
    /\ UNCHANGED <<logWorld, logFile, prompts, checkpointVars>>

-----------------------------------------------------------------------------
\* The /chat commands; one at a time, by the prompt they block.
Given ==
    /\ "chat" \in logWorld.uses /\ chatCommands < MaxChatCommands /\ overwriting = "none"
    /\ chatCommands' = chatCommands + 1
    /\ UNCHANGED <<logWorld, logFileVars>>

\* checkpointExists, and _getCheckpointPath: the encoded name comes first.
Exists(p) == checkpoint[p] # NoFile
PathOf(t) == IF Exists(NewPath(t)) THEN NewPath(t) ELSE OldPath(t)
\* loadCheckpoint; what cannot be parsed is taken for no checkpoint.
Loaded(t) == IF checkpoint[PathOf(t)] = TornFile THEN NoFile ELSE checkpoint[PathOf(t)]

\* saveCheckpoint: always under the encoded name; the conversation is that of now.
Saves(t) ==
    /\ \/ checkpoint' = [checkpoint EXCEPT ![NewPath(t)] = Holds(chatCommands')]
       \/ May("full") /\ checkpoint' = [checkpoint EXCEPT ![NewPath(t)] = TornFile]
    /\ kept' = [kept EXCEPT ![t] = Holds(chatCommands')]
Save(t) ==
    /\ Given
    /\ IF Exists(PathOf(t))
         THEN overwriting' = t /\ UNCHANGED <<checkpoint, kept>>
         ELSE Saves(t) /\ UNCHANGED overwriting
Overwrite ==
    /\ overwriting # "none" /\ overwriting' = "none"
    /\ UNCHANGED chatCommands
    /\ Saves(overwriting) \/ UNCHANGED <<checkpoint, kept>>
    /\ UNCHANGED <<logWorld, logFileVars>>

\* Only the encoded name is looked for: a mistake the runs must notice.
DeletesNew(t) == [checkpoint EXCEPT ![NewPath(t)] = NoFile]
\* deleteCheckpoint: both names
Deleted(t) == [checkpoint EXCEPT ![NewPath(t)] = NoFile, ![OldPath(t)] = NoFile]
Delete(t) ==
    /\ Given
    /\ checkpoint' = Deleted(t)
    /\ kept' = [kept EXCEPT ![t] = NoFile]
    /\ UNCHANGED overwriting

SessionLogNext ==
    \/ \E l \in Logger :
         Access(l) \/ Initialize(l) \/ LogMessage(l) \/ Update(l) \/ Backup(l) \/ Open(l) \/ Write(l) \/ Crash(l)
    \/ \E t \in Tag : Save(t) \/ Delete(t)
    \/ Overwrite
SessionLogSpec == SessionLogInit /\ [][SessionLogNext]_sessionLogVars

-----------------------------------------------------------------------------
Entry == [session : {logWorld.session[l] : l \in Logger}, id : 0 .. MaxPrompts, prompt : 1 .. MaxPrompts]
Contents == {NoFile, TornFile} \cup {Holds(n) : n \in 0 .. MaxChatCommands}
SessionLogTypeOK ==
    /\ logFile.logs \in Seq(Entry) /\ logFile.state \in {"absent", "torn", "whole"}
    /\ \A l \in Logger :
         /\ logger[l].at \in AtWork \cup {"new", "ready", "gone"}
         /\ logger[l].prompt \in 0 .. MaxPrompts /\ logger[l].logs \in Seq(Entry)
         /\ {logger[l].existed, logger[l].renamed} \subseteq BOOLEAN
    /\ prompts \in 0 .. MaxPrompts /\ disturbed \in BOOLEAN
    /\ checkpoint \in [Path -> Contents] /\ kept \in [Tag -> Contents]
    /\ overwriting \in Tag \cup {"none"} /\ chatCommands \in 0 .. MaxChatCommands

(* Unless operations met or a terminal died in one, the log has every prompt  *)
(* in the order they were given, from whichever terminal.                     *)
PromptsAreLogged ==
    ~disturbed /\ (\A l \in Logger : logger[l].at \notin AtWork) /\ prompts > 0 =>
      [i \in 1 .. Len(logFile.logs) |-> logFile.logs[i].prompt] = [i \in 1 .. prompts |-> i]

(* Whatever met, a log that can be read numbers the prompts of each session   *)
(* without a gap and without a repetition.                                    *)
InOrder(logs) ==
    \A i \in 1 .. Len(logs) : logs[i].id = Cardinality(EntriesOf(logs, logs[i].session) \cap 1 .. i - 1)
IdsAreInOrder == InOrder(logFile.logs)

(* /chat resume finds what was saved last under a tag and not deleted, be it  *)
(* kept under the old name or the new; only after a write that failed it may  *)
(* find nothing.                                                              *)
CheckpointsAreKept ==
    \A t \in Tag : Loaded(t) = kept[t] \/ (May("full") /\ checkpoint[NewPath(t)] = TornFile)
LogIsKept == PromptsAreLogged /\ IdsAreInOrder /\ CheckpointsAreKept
=============================================================================
