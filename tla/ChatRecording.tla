---------------------------- MODULE ChatRecording ----------------------------
(***************************************************************************)
(* The recordings of conversations                                         *)
(* (packages/core/src/services/chatRecordingService.ts) as the streams of  *)
(* core/geminiChat.ts write them.  Every GeminiChat has a service of its   *)
(* own: the chat of the session, the one that replaces it, those of        *)
(* sub-agents.  A file is named after the minute and the session, so that  *)
(* several of them write to one file.  A write is synchronous.             *)
(***************************************************************************)
EXTENDS Naturals, Sequences, SequencesExt, FiniteSetsExt

CONSTANTS
    Chat,
    RecordingWorld,  \* [file, usage]: the file of each chat, and whether usage always comes
    MaxReplies,      \* bound: attempts at a reply, of all chats
    MaxThoughts      \* bound: thoughts, of all chats

VARIABLES
    recordingWorld,
    conversationFile,  \* what is in each file: the messages of the ConversationRecord
    queuedThoughts,
    queuedTokens,      \* of each service: the reply they are of, or 0
    reply,             \* the stream of each chat
    spoken             \* ghost: what each chat has said and heard, in order

recordingVars == <<recordingWorld, conversationFile, queuedThoughts, queuedTokens, reply, spoken>>

\* "new": the chat is not made yet. Replies and thoughts are numbered.
Reply == [at : {"new", "idle", "streaming"}, number : 0 .. MaxReplies, thoughts : 0 .. MaxThoughts,
          text : BOOLEAN, usage : BOOLEAN]
\* The usage of a reply: [chat |-> c, number |-> n]
NoTokens == [chat |-> "none", number |-> 0]
Line(type, c, n) == [type |-> type, chat |-> c, number |-> n]
FileOf(c) == recordingWorld.file[c]
Replies == MapThenSumSet(LAMBDA c : reply[c].number, Chat)
Thoughts == MapThenSumSet(LAMBDA c : reply[c].thoughts, Chat)
Ends(c) == reply' = [reply EXCEPT ![c].at = "idle", ![c].text = FALSE, ![c].usage = FALSE]

RecordingInit ==
    /\ recordingWorld \in RecordingWorld
    /\ conversationFile = [c \in Chat |-> <<>>]
    /\ queuedThoughts = [c \in Chat |-> <<>>]
    /\ queuedTokens = [c \in Chat |-> NoTokens]
    /\ reply = [c \in Chat |-> [at |-> "new", number |-> 0, thoughts |-> 0, text |-> FALSE, usage |-> FALSE]]
    /\ spoken = [c \in Chat |-> <<>>]

\* A file is begun with no message: a mistake the runs must notice.
Begun(f) == [conversationFile EXCEPT ![f] = <<>>]
\* writeConversation writes nothing before the first message.
Initialized(f) == conversationFile

\* The constructor of GeminiChat: initialize
NewConversation(c) ==
    /\ reply[c].at = "new"
    /\ reply' = [reply EXCEPT ![c].at = "idle"]
    /\ conversationFile' = Initialized(FileOf(c))
    /\ UNCHANGED <<recordingWorld, queuedThoughts, queuedTokens, spoken>>

\* recordMessage: a message of the model takes what is queued.
Recorded(c, type, n) ==
    LET taken == type = "gemini"
    IN /\ conversationFile' = [conversationFile EXCEPT ![FileOf(c)] = Append(@,
              [line |-> Line(type, c, n),
               thoughts |-> IF taken THEN queuedThoughts[c] ELSE <<>>,
               tokens |-> IF taken THEN queuedTokens[c] ELSE NoTokens])]
       /\ queuedThoughts' = IF taken THEN [queuedThoughts EXCEPT ![c] = <<>>] ELSE queuedThoughts
       /\ queuedTokens' = IF taken THEN [queuedTokens EXCEPT ![c] = NoTokens] ELSE queuedTokens
       /\ spoken' = [spoken EXCEPT ![c] = Append(@, Line(type, c, n))]

\* sendMessageStream: a prompt is recorded; the responses of tools are not, and nothing
\* is when an attempt is made again.
Send(c) ==
    /\ reply[c].at = "idle" /\ Replies < MaxReplies
    /\ reply' = [reply EXCEPT ![c].at = "streaming", ![c].number = @ + 1]
    /\ \/ Recorded(c, "user", reply[c].number + 1)
       \/ UNCHANGED <<conversationFile, queuedThoughts, queuedTokens, spoken>>
    /\ UNCHANGED recordingWorld

\* recordThoughtFromContent
Thought(c) ==
    /\ reply[c].at = "streaming" /\ Thoughts < MaxThoughts
    /\ reply' = [reply EXCEPT ![c].thoughts = @ + 1]
    /\ queuedThoughts' = [queuedThoughts EXCEPT ![c] = Append(@, reply[c].thoughts + 1)]
    /\ UNCHANGED <<recordingWorld, conversationFile, queuedTokens, spoken>>

Text(c) ==
    /\ reply[c].at = "streaming" /\ ~reply[c].text
    /\ reply' = [reply EXCEPT ![c].text = TRUE]
    /\ UNCHANGED <<recordingWorld, conversationFile, queuedThoughts, queuedTokens, spoken>>

\* It is the last message that the tokens go to: a mistake the runs must notice.
LastIsModel(messages) == messages # <<>> /\ Last(messages).line.type = "gemini"
\* The last message awaits its tokens.
AwaitsTokens(messages) ==
    /\ messages # <<>>
    /\ Last(messages).line.type = "gemini" /\ Last(messages).tokens = NoTokens

\* recordMessageTokens; every chunk may report the usage so far.
Usage(c) ==
    /\ reply[c].at = "streaming"
    /\ reply' = [reply EXCEPT ![c].usage = TRUE]
    /\ LET f == FileOf(c)
           messages == conversationFile[f]
           tokens == [chat |-> c, number |-> reply[c].number]
       IN IF AwaitsTokens(messages)
            THEN /\ conversationFile' = [conversationFile EXCEPT ![f][Len(messages)].tokens = tokens]
                 /\ queuedTokens' = [queuedTokens EXCEPT ![c] = NoTokens]
            ELSE /\ queuedTokens' = [queuedTokens EXCEPT ![c] = tokens]
                 /\ UNCHANGED conversationFile
    /\ UNCHANGED <<recordingWorld, queuedThoughts, spoken>>

\* The stream ends: its text is recorded before it is judged, so that the text of an
\* attempt that is made again is there as well.
StreamEnds(c) ==
    /\ reply[c].at = "streaming"
    /\ recordingWorld.usage /\ reply[c].text => reply[c].usage
    /\ Ends(c)
    /\ IF reply[c].text
         THEN Recorded(c, "gemini", reply[c].number)
         ELSE UNCHANGED <<conversationFile, queuedThoughts, queuedTokens, spoken>>
    /\ UNCHANGED recordingWorld

\* The stream breaks, or its reader goes away.
StreamBreaks(c) ==
    /\ reply[c].at = "streaming"
    /\ Ends(c)
    /\ UNCHANGED <<recordingWorld, conversationFile, queuedThoughts, queuedTokens, spoken>>

RecordingNext ==
    \E c \in Chat :
      \/ NewConversation(c) \/ Send(c) \/ Thought(c) \/ Text(c) \/ Usage(c)
      \/ StreamEnds(c) \/ StreamBreaks(c)
RecordingSpec == RecordingInit /\ [][RecordingNext]_recordingVars

-----------------------------------------------------------------------------
Lines == [type : {"user", "gemini"}, chat : Chat, number : 1 .. MaxReplies]
Tokens == [chat : Chat, number : 1 .. MaxReplies] \cup {NoTokens}
RecordingTypeOK ==
    /\ conversationFile \in [Chat -> Seq([line : Lines, thoughts : Seq(1 .. MaxThoughts), tokens : Tokens])]
    /\ queuedThoughts \in [Chat -> Seq(1 .. MaxThoughts)]
    /\ queuedTokens \in [Chat -> Tokens]
    /\ reply \in [Chat -> Reply]
    /\ spoken \in [Chat -> Seq(Lines)]

\* Where the messages of chat c are in a file
PlacesOf(messages, c) == {i \in 1 .. Len(messages) : messages[i].line.chat = c}
Ascends(s) == \A i, j \in 1 .. Len(s) : i < j => s[i] < s[j]
Precede(s, t) == \A n \in ToSet(s), k \in ToSet(t) : n < k

\* The lines of chat c in a file are those of said: the k-th of them is the k-th.
HasLines(messages, c, said) ==
    /\ Cardinality(PlacesOf(messages, c)) = Len(said)
    /\ \A i \in PlacesOf(messages, c) :
         messages[i].line = said[Cardinality(PlacesOf(messages, c) \cap 1 .. i)]

(* Whoever else writes to its file, what a chat said and heard is in it,      *)
(* once and in order; the texts of attempts that were made again as well.     *)
ConversationsAreWhole ==
    \A c \in Chat : HasLines(conversationFile[FileOf(c)], c, spoken[c])

\* One after the other, the messages of chat c and its queue have the thoughts 1 .. n.
HasThoughts(messages, c, queue, n) ==
    /\ (UNION {ToSet(messages[i].thoughts) : i \in PlacesOf(messages, c)}) \cup ToSet(queue) = 1 .. n
    /\ Ascends(queue)
    /\ \A i \in PlacesOf(messages, c) :
         /\ Ascends(messages[i].thoughts) /\ Precede(messages[i].thoughts, queue)
         /\ \A j \in PlacesOf(messages, c) : i < j => Precede(messages[i].thoughts, messages[j].thoughts)

(* Every thought is kept once and in order: with the first message that       *)
(* follows it, or still queued.                                               *)
ThoughtsAreKept ==
    \A c \in Chat : HasThoughts(conversationFile[FileOf(c)], c, queuedThoughts[c], reply[c].thoughts)

(* When every reply with a text reports its usage, a message has the tokens   *)
(* of its own reply, however many chats share the file; when one does not,    *)
(* they may be those of the reply that comes next in the file.                *)
TokensAreOwn ==
    \A f \in Chat : \A i \in 1 .. Len(conversationFile[f]) :
      LET m == conversationFile[f][i]
      IN /\ recordingWorld.usage /\ m.line.type = "gemini" =>
              m.tokens = [chat |-> m.line.chat, number |-> m.line.number]
         /\ m.line.type = "user" => m.tokens = NoTokens
RecordingsAreKept == ConversationsAreWhole /\ ThoughtsAreKept /\ TokensAreOwn
=============================================================================
