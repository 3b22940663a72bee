--------------------------- MODULE ShellExecution ---------------------------
(***************************************************************************)
(* One shell command: ShellToolInvocation.execute                          *)
(* (packages/core/src/tools/shell.ts) and ShellExecutionService            *)
(* (packages/core/src/services/shellExecutionService.ts), with its         *)
(* pseudo-terminal and its child process.                                  *)
(*                                                                         *)
(* A pseudo-terminal says that the command has ended when all its output   *)
(* was delivered; a child process may say so before.                       *)
(***************************************************************************)
EXTENDS Naturals, Sequences, FiniteSets

CONSTANTS
    MaxChunks,   \* bound: chunks of output
    ShellWorld   \* [method, heeds]: how the command is run; the signals that end it

VARIABLES
    shellWorld,    \* the member of ShellWorld this command is in
    phase,         \* "new", "loading" (getPty), "spawned" or "done"
    command,       \* the process: "none", "running" or "gone"
    pipe,          \* output on its way
    processing,    \* processingChain: chunks that wait for the terminal
    isWriting,     \* the first of them is being written to the terminal
    outputChunks,  \* the bytes that were received
    screen,        \* what was decoded: the text of headlessTerminal (as "out"), or stdout and stderr
    streaming,     \* isStreamingRawContent
    sniffing,      \* fewer than MAX_SNIFF_SIZE bytes were looked at
    renderTimeout, \* a render is due
    display,       \* cumulativeOutput of the tool
    exited,
    delivered,     \* ghost: the chunks that were delivered up to the exit
    shellAborted,  \* the AbortSignal
    listening,     \* abortHandler is registered
    killDue,       \* SIGKILL_TIMEOUT_MS run
    signals,       \* the signals the command was sent
    shellResult    \* the result of the command

shellVars == <<shellWorld, phase, command, pipe, processing, isWriting, outputChunks, screen,
               streaming, sniffing, renderTimeout, display, exited, delivered, shellAborted,
               listening, killDue, signals, shellResult>>
input == <<phase, command, pipe, signals>>
terminal == <<processing, isWriting, outputChunks, screen, streaming, sniffing>>
control == <<shellWorld, shellAborted, listening, killDue>>

Signal == {"SIGINT", "SIGTERM", "SIGKILL"}
Stream == {"out", "err"}
Chunk == [n : 1 .. MaxChunks, stream : Stream, binary : BOOLEAN]
Display == [kind : {"none", "text", "binary"}, text : Seq(Chunk)]
NoText == [kind |-> "none", text |-> <<>>]
NoResult == [at |-> "none", output |-> <<>>, raw |-> <<>>]

\* Without the module of the pseudo-terminal the child process is used.
Pty == shellWorld.method = "pty"

ShellInit ==
    /\ shellWorld \in ShellWorld
    /\ phase = "new" /\ command = "none"
    /\ pipe = <<>> /\ processing = <<>> /\ isWriting = FALSE
    /\ outputChunks = <<>> /\ screen = [s \in Stream |-> <<>>] /\ streaming = TRUE /\ sniffing = TRUE
    /\ renderTimeout = FALSE /\ display = NoText
    /\ exited = FALSE /\ delivered = <<>>
    /\ shellAborted = FALSE /\ listening = FALSE /\ killDue = FALSE
    /\ signals = {} /\ shellResult = NoResult

-----------------------------------------------------------------------------
(* The command is started.                                                  *)

\* An aborted command is not started; getPty is awaited.
Execute ==
    /\ phase = "new"
    /\ IF shellAborted
         THEN /\ phase' = "done"
              /\ shellResult' = [NoResult EXCEPT !.at = "cancelled"]
         ELSE /\ phase' = "loading"
              /\ UNCHANGED shellResult
    /\ UNCHANGED <<control, terminal, command, pipe, signals, renderTimeout, display, exited,
                   delivered>>

\* A signal that was aborted meanwhile calls no handler any more.
Spawn ==
    /\ phase = "loading"
    /\ phase' = "spawned" /\ command' = "running"
    /\ listening' = ~shellAborted
    /\ UNCHANGED <<shellWorld, terminal, pipe, signals, renderTimeout, display, exited, delivered,
                   shellAborted, killDue, shellResult>>

\* spawn throws, or the child reports an error instead of starting.
SpawnFails ==
    /\ phase = "loading"
    /\ phase' = "done"
    /\ shellResult' = [NoResult EXCEPT !.at = "failed"]
    /\ UNCHANGED <<control, terminal, command, pipe, signals, renderTimeout, display, exited,
                   delivered>>

-----------------------------------------------------------------------------
(* The command.                                                             *)
Outputs ==
    /\ command = "running" /\ Len(delivered) + Len(pipe) < MaxChunks
    /\ \E stream \in {"out"} \cup (IF Pty THEN {} ELSE {"err"}), binary \in BOOLEAN :
         pipe' = Append(pipe, [n |-> Len(delivered) + Len(pipe) + 1, stream |-> stream,
                               binary |-> binary])
    /\ UNCHANGED <<control, terminal, phase, command, signals, renderTimeout, display, exited,
                   delivered, shellResult>>

CommandEnds ==
    /\ command = "running"
    /\ command' = "gone"
    /\ UNCHANGED <<control, terminal, phase, pipe, signals, renderTimeout, display, exited,
                   delivered, shellResult>>

\* A signal it does not handle ends the command.
Dies == signals \cap (shellWorld.heeds \cup {"SIGKILL"}) # {} /\ CommandEnds

-----------------------------------------------------------------------------
(* Its output.                                                              *)

\* onOutputEvent: a tool that was told of binary output ignores text.
ShowText(text) ==
    IF text = <<>> \/ display.kind = "binary" THEN display
    ELSE [kind |-> "text", text |-> text]
Binary == [kind |-> "binary", text |-> <<>>]

\* The first chunks are looked at.
Sniff(chunk) ==
    /\ outputChunks' = Append(outputChunks, chunk)
    /\ streaming' = (streaming /\ ~(sniffing /\ \E i \in 1 .. Len(outputChunks') :
                                                  outputChunks'[i].binary))
    /\ sniffing' \in IF sniffing THEN BOOLEAN ELSE {FALSE}

\* A chunk is decoded.
Decodes(chunk) == screen' = [screen EXCEPT ![chunk.stream] = Append(@, chunk)]
\* What the child wrote to stdout comes before what it wrote to stderr.
Combined(text) == text["out"] \o text["err"]

\* onData and the child's 'data' events, before the exit: the pseudo-terminal's
\* chunks are processed one after the other, the child's at once.
Data ==
    /\ pipe # <<>> /\ ~exited
    /\ pipe' = Tail(pipe)
    /\ delivered' = Append(delivered, Head(pipe))
    /\ IF Pty
         THEN /\ processing' = Append(processing, Head(pipe))
              /\ UNCHANGED <<outputChunks, screen, streaming, sniffing>>
         ELSE /\ Sniff(Head(pipe))
              /\ IF streaming' THEN Decodes(Head(pipe)) ELSE UNCHANGED screen
              /\ UNCHANGED processing
    /\ UNCHANGED <<control, phase, command, signals, isWriting, renderTimeout, display, exited,
                   shellResult>>

\* The next chunk of processingChain: it is written to the terminal, or counted.
Process ==
    /\ processing # <<>> /\ ~isWriting
    /\ Sniff(Head(processing))
    /\ isWriting' = streaming'
    /\ processing' = IF streaming' THEN processing ELSE Tail(processing)
    /\ display' = IF streaming' THEN display ELSE Binary
    /\ UNCHANGED <<control, input, screen, renderTimeout, exited, delivered, shellResult>>

\* The terminal has written it; a render is due.
Written ==
    /\ isWriting
    /\ isWriting' = FALSE
    /\ Decodes(Head(processing))
    /\ processing' = Tail(processing)
    /\ renderTimeout' = TRUE
    /\ UNCHANGED <<control, input, outputChunks, streaming, sniffing, display, exited, delivered,
                   shellResult>>

\* scrollPty: the terminal scrolls outside a write.
Scroll ==
    /\ Pty /\ phase = "spawned" /\ ~exited /\ ~isWriting /\ ~renderTimeout
    /\ renderTimeout' = TRUE
    /\ UNCHANGED <<control, input, terminal, display, exited, delivered, shellResult>>

\* What a render shows: nothing any more once the output is binary.
Rendered == IF streaming THEN ShowText(Combined(screen)) ELSE display

Render ==
    /\ renderTimeout
    /\ renderTimeout' = FALSE
    /\ display' = Rendered
    /\ UNCHANGED <<control, input, terminal, exited, delivered, shellResult>>

-----------------------------------------------------------------------------
(* Its end.                                                                 *)

\* onExit, after the last of onData, and the child's 'exit', with or without
\* the rest of its output.
Exit ==
    /\ command = "gone" /\ ~exited
    /\ Pty => pipe = <<>>
    /\ exited' = TRUE /\ listening' = FALSE
    /\ IF Pty
         THEN UNCHANGED <<phase, display, shellResult>>
         ELSE /\ display' = IF streaming THEN ShowText(Combined(screen)) ELSE Binary
              /\ shellResult' = [at |-> "done", output |-> Combined(screen), raw |-> outputChunks]
              /\ phase' = "done"
    /\ UNCHANGED <<terminal, shellWorld, command, pipe, signals, renderTimeout, delivered,
                   shellAborted, killDue>>

\* The result does not wait for the terminal: a mistake the runs must notice.
AtOnce == TRUE
\* The chunks that were received before the exit were processed.
ChainIsOver == processing = <<>>

\* onExit, after the processing chain: the last render cancels the one that is due.
Finish ==
    /\ Pty /\ phase = "spawned" /\ exited /\ ChainIsOver
    /\ renderTimeout' = FALSE
    /\ display' = Rendered
    /\ shellResult' = [at |-> "done", output |-> Combined(screen), raw |-> outputChunks]
    /\ phase' = "done"
    /\ UNCHANGED <<control, terminal, command, pipe, signals, exited, delivered>>

-----------------------------------------------------------------------------
(* Its abort.                                                               *)
Abort ==
    /\ ~shellAborted
    /\ shellAborted' = TRUE
    /\ listening' = FALSE
    /\ IF ~listening
         THEN UNCHANGED <<signals, killDue>>
         ELSE /\ signals' = signals \cup {IF Pty THEN "SIGINT" ELSE "SIGTERM"}
              /\ killDue' = ~Pty
    /\ UNCHANGED <<terminal, shellWorld, phase, command, pipe, renderTimeout, display, exited,
                   delivered, shellResult>>

\* Nothing follows a signal: a mistake the runs must notice.
LetsRun == signals
\* A child that has not ended gets SIGKILL.
Killed == IF exited THEN signals ELSE signals \cup {"SIGKILL"}

KillTimeout ==
    /\ killDue
    /\ killDue' = FALSE
    /\ signals' = Killed
    /\ UNCHANGED <<terminal, shellWorld, phase, command, pipe, renderTimeout, display, exited,
                   delivered, shellAborted, listening, shellResult>>

-----------------------------------------------------------------------------
ShellNext ==
    \/ Execute \/ Spawn \/ SpawnFails \/ Outputs \/ CommandEnds
    \/ Data \/ Process \/ Written \/ Scroll \/ Render \/ Exit \/ Finish
    \/ Abort \/ KillTimeout

ShellSpec == ShellInit /\ [][ShellNext]_shellVars

-----------------------------------------------------------------------------
ShellTypeOK ==
    /\ phase \in {"new", "loading", "spawned", "done"}
    /\ command \in {"none", "running", "gone"}
    /\ pipe \in Seq(Chunk) /\ processing \in Seq(Chunk) /\ delivered \in Seq(Chunk)
    /\ outputChunks \in Seq(Chunk) /\ screen \in [Stream -> Seq(Chunk)]
    /\ {isWriting, streaming, sniffing, renderTimeout, exited} \subseteq BOOLEAN
    /\ {shellAborted, listening, killDue} \subseteq BOOLEAN
    /\ display \in Display
    /\ signals \subseteq Signal
    /\ shellResult.at \in {"none", "cancelled", "failed", "done"}

\* The text has the chunks of stdout, then those of stderr, each in their order.
Of(chunks, stream) == {i \in 1 .. Len(chunks) : chunks[i].stream = stream}
Place(chunks, i) ==
    IF chunks[i].stream = "out"
      THEN Cardinality(Of(chunks, "out") \cap 1 .. i)
      ELSE Cardinality(Of(chunks, "out")) + Cardinality(Of(chunks, "err") \cap 1 .. i)
IsTextOf(text, chunks) ==
    /\ Len(text) = Len(chunks)
    /\ \A i \in 1 .. Len(chunks) : text[Place(chunks, i)] = chunks[i]

(* The result holds every byte that was delivered before the exit, its text  *)
(* is all of the text, and what the tool shows last is that text and stays   *)
(* so: no chunk waits in the chain and no render is due when the promise is  *)
(* resolved.  What a child process prints last may be delivered after its    *)
(* exit and is lost (README).                                                *)
OutputIsWhole ==
    shellResult.at = "done" =>
      /\ shellResult.raw = delivered
      /\ streaming => IsTextOf(shellResult.output, delivered)
      /\ IF ~streaming THEN display = Binary
         ELSE IF delivered = <<>> THEN display = NoText
         ELSE display.kind = "text" /\ IsTextOf(display.text, delivered)

(* An abort ends the command, whatever signals it ignores, as long as its   *)
(* handler is called; a pseudo-terminal only interrupts, and a signal that  *)
(* is aborted while getPty is awaited never reaches the command (README).   *)
Reached == shellAborted /\ signals # {} /\ (Pty => "SIGINT" \in shellWorld.heeds)
AbortEndsCommand == Reached ~> (shellResult.at = "done")
=============================================================================
