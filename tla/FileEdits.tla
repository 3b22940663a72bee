----------------------------- MODULE FileEdits -----------------------------
(***************************************************************************)
(* The tools that change a file: replace (tools/smart-edit.ts) and         *)
(* write_file (tools/write-file.ts), what a model corrects of their        *)
(* arguments (utils/llm-edit-fixer.ts, utils/editCorrector.ts) and what    *)
(* the user changes before approving them (tools/modifiable-tool.ts, the   *)
(* IDE).  A call reads the file twice: when it shows what it would do, and *)
(* when it does it.  The approved calls of a batch run at once, and the    *)
(* user saves the file whenever he likes.                                  *)
(***************************************************************************)
EXTENDS Naturals, Sequences, FiniteSets

CONSTANTS
    FileText,     \* the texts of files and arguments
    FileCalls,    \* the calls, in the order they are looked at; each names its text
    FileWorld,    \* [jobs, text, together, auto, longer, mishaps]
    MaxSaves      \* bound: how often the user saves the file

\* "save": the user saves the file; "ide", "editor": he can change the proposal there;
\* "fixer": a request to the model fails; "disk": a write fails.
FileMishaps == {"save", "ide", "editor", "fixer", "disk"}

VARIABLES
    fileWorld,
    fileContent,
    approvalMode,
    fileCall,     \* see FileCallType
    saves,
    raced,        \* the calls that saw the file change while they executed
    undone,       \* the calls that undid what they were not to touch
    faltered      \* the calls whose request to the model failed while they were looked at

fileVars == <<fileWorld, fileContent, approvalMode, fileCall, saves, raced, undone, faltered>>

\* A file has two places, each with a text; the text may be indented (1) or spaced (2) in
\* another way than the arguments of a call have it.
Region == {1, 2}
Plain(x) == [text |-> x, spacing |-> 0]
All(x) == [r \in Region |-> Plain(x)]
Missing == All("missing")      \* there is no file
Blank == All("blank")          \* the file, or the argument, is empty
Failed == All("failed")        \* no result, but an error
Unsure == All("unsure")        \* the model has to be asked

Calls == DOMAIN fileWorld.jobs
Job(c) == fileWorld.jobs[c]    \* <<"replace", old>>, <<"create">>, <<"write">> or <<"escaped">>
IsWrite(c) == Job(c) \in {<<"write">>, <<"escaped">>}
Together(c) == IF fileWorld.together THEN Calls ELSE {c}
NewText(c) == FileCalls[c]

\* The arguments: the text `old` of one place, or of the whole file, becomes `new`.
Arguments(c) ==
    [whole |-> Job(c)[1] # "replace", new |-> All(NewText(c)),
     old |-> IF Job(c)[1] = "replace" THEN All(Job(c)[2]) ELSE Blank]

FileInit ==
    /\ fileWorld \in FileWorld
    /\ fileContent = (IF fileWorld.text = <<>> THEN Missing
                      ELSE [r \in Region |-> Plain(fileWorld.text[r])])
    /\ approvalMode = (IF fileWorld.auto THEN "auto_edit" ELSE "default")
    /\ fileCall = [c \in Calls |->
         [at |-> "queued", params |-> Arguments(c), asked |-> "no", looked |-> Missing,
          shown |-> Failed, fixes |-> {}, read |-> Missing, result |-> Failed]]
    /\ saves = 0 /\ raced = {} /\ undone = {} /\ faltered = {}

At(c) == fileCall[c].at
May(m) == m \in fileWorld.mishaps

-----------------------------------------------------------------------------
(* calculateReplacement: three strategies, the next one tried when one      *)
(* finds nothing.  A spot is a set of places.  The trailing newline, which    *)
(* is restored, and the indentation that the new text takes from the old    *)
(* are left out.                                                            *)
Spots(p) == IF p.whole THEN {Region} ELSE {{r} : r \in Region}
First(spots) == CHOOSE s \in spots : \A t \in spots : \E r \in s : \A q \in t : r <= q
Exact(content, p) == {s \in Spots(p) : \A r \in s : content[r] = p.old[r]}
\* calculateFlexibleReplacement ignores the indentation.  When the new text is longer than
\* the old it goes on behind the lines it would have inserted, and counts too little.
Flexible(content, p) ==
    LET all == {s \in Spots(p) : \A r \in s : content[r].text = p.old[r].text /\ content[r].spacing < 2}
    IN IF fileWorld.longer /\ all # {} THEN {First(all)} ELSE all
\* calculateRegexReplacement takes the first match, and counts no more.
Regex(content, p) ==
    LET all == {s \in Spots(p) : \A r \in s : content[r].text = p.old[r].text}
    IN IF all = {} THEN {} ELSE {First(all)}
Occurrences(content, p) ==
    IF Exact(content, p) # {} THEN Exact(content, p)
      ELSE IF Flexible(content, p) # {} THEN Flexible(content, p) ELSE Regex(content, p)

\* The lines of a flexible replacement end without a newline: what follows is on its last line.
Glued(content, p, r) ==
    /\ Exact(content, p) = {} /\ Flexible(content, p) # {}
    /\ r - 1 \in UNION Occurrences(content, p)
Replaced(content, p) ==
    [r \in Region |->
       IF r \in UNION Occurrences(content, p) THEN p.new[r]
       ELSE IF Glued(content, p, r) THEN [content[r] EXCEPT !.spacing = 2] ELSE content[r]]

\* calculateEdit up to attemptSelfCorrection
Edited(content, p) ==
    IF p.old = Blank THEN IF content = Missing THEN p.new ELSE Failed
    ELSE IF content = Missing THEN Failed
    ELSE IF Cardinality(Occurrences(content, p)) = 1 /\ p.old # p.new THEN Replaced(content, p)
    ELSE Unsure

\* getCorrectedFileContent: a text that looks escaped is corrected by a model, unless the
\* file is there and empty.
LooksEscaped(c, text) == Job(c) = <<"escaped">> /\ \E r \in Region : text[r].text = NewText(c)
Corrected(c, content, p) ==
    IF LooksEscaped(c, p.new) /\ content # Blank THEN Unsure ELSE p.new

\* What the model may answer: for replace another pair of texts, which fit one place, fit
\* badly or are not needed; for write_file the text with its escapes removed, or as it is.
Unescaped(c, text) == [r \in Region |-> IF text[r].text = NewText(c) THEN Plain("unescaped") ELSE text[r]]
Answers(c, content) ==
    IF IsWrite(c) THEN {fileCall[c].params.new, Unescaped(c, fileCall[c].params.new)}
                  ELSE {Failed} \cup {[content EXCEPT ![r] = Plain(NewText(c))] : r \in Region}

\* Answers are cached by the file's content and the arguments.
Cached(c, content) == {f.result : f \in {g \in fileCall[c].fixes : g.content = content}}
OneOf(results) == CHOOSE f \in results : TRUE
Calculated(c, content) ==
    LET direct == IF IsWrite(c) THEN Corrected(c, content, fileCall[c].params)
                                ELSE Edited(content, fileCall[c].params)
    IN IF direct = Unsure /\ Cached(c, content) # {} THEN OneOf(Cached(c, content)) ELSE direct
\* A change of the arguments is a change of the cache's key.
WithParams(call, p) == [call EXCEPT !.params = p, !.fixes = IF p = call.params THEN @ ELSE {}]

-----------------------------------------------------------------------------
Executing == {c \in Calls : At(c) \in {"fixing", "ready", "writing"}}
\* The file changes, by a call or by the user.
Changes(by, content) ==
    /\ fileContent' = content
    /\ raced' = raced \cup (IF content = fileContent THEN {} ELSE Executing \ by)
Becomes(c, call) == fileCall' = [fileCall EXCEPT ![c] = call]
untouchedFile == <<fileContent, saves, raced, undone>>

\* The scheduler looks at the calls of a batch one after another, at the next batch when
\* this one is over, and executes a batch when none of its calls waits for an answer.
MayLook(c) ==
    \A d \in Calls : d < c =>
        At(d) \notin {"queued", "looking"} /\ (d \in Together(c) \/ At(d) = "done")
MayExecute(c) == \A d \in Together(c) : At(d) \notin {"queued", "looking", "asking"}

\* shouldConfirmExecute: an error is not shown, the call goes on to meet it again.
Showing(call, result) ==
    IF result = Failed THEN [call EXCEPT !.at = "scheduled"]
                       ELSE [call EXCEPT !.at = "asking", !.asked = "shown", !.shown = result]
Look(c) ==
    /\ At(c) = "queued" /\ MayLook(c)
    /\ LET result == Calculated(c, fileContent)
           looking == [fileCall[c] EXCEPT !.looked = fileContent]
       IN Becomes(c, IF approvalMode = "auto_edit"
                       THEN [fileCall[c] EXCEPT !.at = "scheduled", !.asked = "skipped"]
                     ELSE IF result = Unsure THEN [looking EXCEPT !.at = "looking"]
                     ELSE Showing(looking, result))
    /\ UNCHANGED <<fileWorld, approvalMode, untouchedFile, faltered>>

\* FixLLMEditWithInstruction, or one of the corrections of editCorrector, has answered.
Answered(c, content, result) ==
    [fileCall[c] EXCEPT !.fixes = @ \cup {[content |-> content, result |-> result]}]
LookFixed(c) ==
    /\ At(c) = "looking"
    /\ \E result \in Answers(c, fileCall[c].looked) :
         Becomes(c, Showing(Answered(c, fileCall[c].looked, result), result))
    /\ UNCHANGED <<fileWorld, approvalMode, untouchedFile, faltered>>

\* The request of replace fails: that is an error like others, and nothing is cached.
\* (The corrections of write_file take the text as it is, see Answers.)
LookFalters(c) ==
    /\ At(c) = "looking" /\ May("fixer") /\ ~IsWrite(c)
    /\ Becomes(c, Showing(fileCall[c], Failed))
    /\ faltered' = faltered \cup {c}
    /\ UNCHANGED <<fileWorld, approvalMode, untouchedFile>>

-----------------------------------------------------------------------------
\* ProceedOnce or ProceedAlways in the prompt, where no diff is open in the IDE
Proceed(c) ==
    /\ At(c) = "asking"
    /\ Becomes(c, [fileCall[c] EXCEPT !.at = "scheduled"])
    /\ approvalMode' \in {approvalMode, "auto_edit"}
    /\ UNCHANGED <<fileWorld, untouchedFile, faltered>>

\* autoApproveCompatiblePendingTools
AutoApproved(c) ==
    /\ At(c) = "asking" /\ approvalMode = "auto_edit"
    /\ Becomes(c, [fileCall[c] EXCEPT !.at = "scheduled"])
    /\ UNCHANGED <<fileWorld, approvalMode, untouchedFile, faltered>>

Refuse(c) ==
    /\ At(c) = "asking"
    /\ Becomes(c, [fileCall[c] EXCEPT !.at = "done"])
    /\ UNCHANGED <<fileWorld, approvalMode, untouchedFile, faltered>>

\* The call with the text the user made of `shown`.  The old text of replace is then the
\* whole file as it was read, of which nothing is left when there was none.
ByUser(call, c, content, text) ==
    [WithParams(call, [whole |-> TRUE, new |-> text,
                       old |-> IF IsWrite(c) \/ content = Missing THEN Blank ELSE content])
       EXCEPT !.asked = IF text = call.shown THEN @ ELSE "changed", !.shown = text]
Retyped(text) == [text EXCEPT ![1] = Plain("user")]

\* onConfirm, once or always, with the content of the IDE's view, which counts unless it is empty.
AcceptInIde(c) ==
    /\ At(c) = "asking" /\ May("ide")
    /\ \E text \in {fileCall[c].shown, Retyped(fileCall[c].shown), fileCall[c].looked, Blank} :
         /\ text # Missing
         /\ LET accepted == ByUser(fileCall[c], c, fileCall[c].looked, text)
                ignored == [fileCall[c] EXCEPT !.asked = "changed", !.shown = Blank]
            IN Becomes(c, [(IF text = Blank THEN ignored ELSE accepted) EXCEPT !.at = "scheduled"])
    /\ approvalMode' \in {approvalMode, "auto_edit"}
    /\ UNCHANGED <<fileWorld, untouchedFile, faltered>>

\* modifyWithEditor, or a client with new content: the file is read again, and the call goes
\* on asking; bounded: what was changed is not changed again.  For a file that is not there getCurrentContent of replace rejects.
Proposed(c, content) ==
    IF ~IsWrite(c) THEN {IF Exact(content, fileCall[c].params) = {} THEN content
                         ELSE Replaced(content, fileCall[c].params)}
    ELSE IF Calculated(c, content) = Unsure THEN Answers(c, content) ELSE {Calculated(c, content)}
Modify(c) ==
    /\ At(c) = "asking" /\ May("editor") /\ fileCall[c].asked = "shown"
    /\ IsWrite(c) \/ fileContent # Missing
    /\ \E proposed \in Proposed(c, fileContent) : \E text \in {proposed, Retyped(proposed)} :
         LET asked == IF IsWrite(c) /\ Calculated(c, fileContent) = Unsure
                        THEN Answered(c, fileContent, proposed) ELSE fileCall[c]
         IN Becomes(c, ByUser([asked EXCEPT !.looked = fileContent, !.shown = proposed],
                              c, fileContent, text))
    /\ UNCHANGED <<fileWorld, approvalMode, untouchedFile, faltered>>

-----------------------------------------------------------------------------
\* execute: it reads the file again and calculates the edit anew.
Executed(call, result) ==
    IF result = Failed THEN [call EXCEPT !.at = "done"]
    ELSE [call EXCEPT !.at = IF result = Unsure THEN "fixing" ELSE "ready", !.result = result]
\* The edit that was shown is written, whatever the file is by now: a mistake the runs must notice.
ExecuteShown(c) ==
    /\ At(c) = "scheduled" /\ MayExecute(c)
    /\ LET known == fileCall[c].asked = "shown" /\ fileCall[c].shown # Failed
           call == [fileCall[c] EXCEPT !.read = IF known THEN fileCall[c].looked ELSE fileContent]
       IN Becomes(c, Executed(call, IF known THEN call.shown ELSE Calculated(c, fileContent)))
    /\ UNCHANGED <<fileWorld, approvalMode, untouchedFile, faltered>>
Execute(c) ==
    /\ At(c) = "scheduled" /\ MayExecute(c)
    /\ Becomes(c, Executed([fileCall[c] EXCEPT !.read = fileContent], Calculated(c, fileContent)))
    /\ UNCHANGED <<fileWorld, approvalMode, untouchedFile, faltered>>

ExecuteFixed(c) ==
    /\ At(c) = "fixing"
    /\ \E result \in Answers(c, fileCall[c].read) :
         Becomes(c, Executed(Answered(c, fileCall[c].read, result), result))
    /\ UNCHANGED <<fileWorld, approvalMode, untouchedFile, faltered>>
ExecuteFalters(c) ==
    /\ At(c) = "fixing" /\ May("fixer") /\ ~IsWrite(c)
    /\ Becomes(c, Executed(fileCall[c], Failed))
    /\ UNCHANGED <<fileWorld, approvalMode, untouchedFile, faltered>>

\* writeTextFile: fs.writeFile truncates the file, and then it writes.
Undoes(c) ==
    \E r \in Region : /\ fileCall[c].result[r].text = fileCall[c].read[r].text
                     /\ fileContent[r].text # fileCall[c].read[r].text
Truncate(c) ==
    /\ At(c) = "ready"
    /\ Becomes(c, [fileCall[c] EXCEPT !.at = "writing"])
    /\ Changes({c}, Blank)
    /\ undone' = IF ~IsWrite(c) /\ Undoes(c) THEN undone \cup {c} ELSE undone
    /\ UNCHANGED <<fileWorld, approvalMode, saves, faltered>>
\* What another one has written meanwhile may stick out behind what is written; when the
\* file was deleted meanwhile, it is gone.
Write(c) ==
    /\ At(c) = "writing"
    /\ Becomes(c, [fileCall[c] EXCEPT !.at = "done"])
    /\ \E written \in {fileCall[c].result, [fileCall[c].result EXCEPT ![2] = fileContent[2]]} :
         /\ written = fileCall[c].result \/ fileContent # Blank
         /\ Changes({c}, IF fileContent = Missing THEN Missing ELSE written)
    /\ UNCHANGED <<fileWorld, approvalMode, saves, undone, faltered>>
WriteFails(c) ==
    /\ At(c) \in {"ready", "writing"} /\ May("disk")
    /\ Becomes(c, [fileCall[c] EXCEPT !.at = "done"])
    /\ UNCHANGED <<fileWorld, approvalMode, untouchedFile, faltered>>

\* The user saves the file with another text or other spacing, deletes or creates it.
UserSaves ==
    /\ May("save") /\ saves < MaxSaves
    /\ saves' = saves + 1
    /\ \E content \in
          IF fileContent = Missing THEN {All("user")}
          ELSE {Missing} \cup {[fileContent EXCEPT ![r] = token] : r \in Region,
                   token \in {Plain("user")} \cup {[text |-> fileContent[q].text, spacing |-> s] : q \in Region, s \in {1, 2}}} :
         Changes({}, content)
    /\ UNCHANGED <<fileWorld, approvalMode, fileCall, undone, faltered>>

FileNext ==
    \/ UserSaves
    \/ \E c \in Calls :
         \/ Look(c) \/ LookFixed(c) \/ LookFalters(c)
         \/ Proceed(c) \/ AutoApproved(c) \/ Refuse(c) \/ AcceptInIde(c) \/ Modify(c)
         \/ Execute(c) \/ ExecuteFixed(c) \/ ExecuteFalters(c)
         \/ Truncate(c) \/ Write(c) \/ WriteFails(c)

FileSpec == FileInit /\ [][FileNext]_fileVars

-----------------------------------------------------------------------------
Texts == FileText \cup {"missing", "blank", "failed", "unsure", "user", "unescaped"}
Content == [Region -> [text : Texts, spacing : 0..2]]
ParamsType == [whole : BOOLEAN, old : Content, new : Content]
FileCallType ==
    [at : {"queued", "looking", "asking", "scheduled", "fixing", "ready", "writing", "done"},
     params : ParamsType,
     asked : {"no", "skipped", "shown", "changed"},
     looked : Content,      \* the file when the call was looked at
     shown : Content,       \* what the user saw last, or made of it
     fixes : SUBSET [content : Content, result : Content],
     read : Content,        \* the file when the call was executed
     result : Content]      \* what it writes
FileTypeOK ==
    /\ fileContent \in Content \ {Failed, Unsure}
    /\ approvalMode \in {"default", "auto_edit"}
    /\ saves \in 0..MaxSaves
    /\ raced \subseteq Calls /\ undone \subseteq Calls /\ faltered \subseteq Calls
    /\ \A c \in Calls : fileCall[c] \in FileCallType

Writing == {c \in Calls : At(c) = "writing"}
Consulted(c) == \E f \in fileCall[c].fixes : f.content = fileCall[c].read

(* An edit undoes nothing but what was changed while it executed: replace   *)
(* reads the file again, and a text that was accepted for the whole file is *)
(* only written over the file it was made of.                               *)
ChangesAreKept == undone \subseteq raced
(* Without the model's help an edit of replace changes the text of one      *)
(* place, whose text was the one to replace, and never one of two places    *)
(* that have it exactly.                                                    *)
OnePlaceIsEdited ==
    \A c \in Writing :
      LET call == fileCall[c]
          edited == {r \in Region : call.result[r].text # call.read[r].text}
      IN ~call.params.whole /\ ~Consulted(c) =>
            /\ Cardinality(edited) = 1
            /\ \A r \in edited : call.read[r].text = call.params.old[r].text
            /\ Cardinality({r \in Region : call.read[r] = call.params.old[r]}) < 2
(* What the user saw, or made of it, is what is written, when the file did  *)
(* not change in between.  He may not have emptied it in the IDE (that is   *)
(* ignored), nor have taken the change back (a model is then asked to mend  *)
(* the edit), nor have kept escapes in a text he changed.                   *)
ShownIsWritten ==
    \A c \in Writing :
      LET call == fileCall[c]
      IN /\ call.asked \in {"shown", "changed"} /\ call.read = call.looked
         /\ call.shown \notin {Blank, call.looked}
         /\ ~(call.asked = "changed" /\ LooksEscaped(c, call.shown))
         => call.result = call.shown
(* Where edits need approval one is written unseen only when the file       *)
(* changed, or the model could not be asked, since it was looked at.        *)
UnseenOnlyByChange ==
    \A c \in Writing :
        fileCall[c].asked = "no" => fileCall[c].read # fileCall[c].looked \/ c \in faltered

FilesAreKept == ChangesAreKept /\ OnePlaceIsEdited /\ ShownIsWritten /\ UnseenOnlyByChange
=============================================================================
