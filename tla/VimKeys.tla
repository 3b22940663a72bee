------------------------------ MODULE VimKeys -------------------------------
(***************************************************************************)
(* useVim (packages/cli/src/ui/hooks/vim.ts) with VimModeContext: which    *)
(* edit a key of the vim mode becomes.  A key is handled by the handler of *)
(* the render whose effects ran last, which knows the state of that render *)
(* only, while what it dispatches changes the state of now.  The edits     *)
(* themselves are those of TextBuffer.                                     *)
(***************************************************************************)
EXTENDS Naturals, Sequences, SequencesExt, Folds

CONSTANTS
    VimWorld,    \* the sets of keys that are pressed
    MaxVimKeys   \* bound: how many are

Digit == {"0", "2"}                 \* the digits
Movement == {"h"}                   \* h j k l and the arrows
WordMotion == {"w"}                 \* w b e
Inserting == {"i"}                  \* i a o O I A
Operator == {"g", "d", "c"}
\* "$" stands for $ and ^, "?" for every key that is no command.
AllVimKeys == Digit \cup Movement \cup WordMotion \cup Inserting \cup Operator
              \cup {"x", "$", "G", "D", "C", ".", "escape", "?"}
\* cmdType of executeCommand: what "." can repeat
Repeatable == {"dw", "cw", "ch", "dd", "cc", "x", "D", "C"}
Changing == {"cw", "ch", "cc", "C"}

VARIABLES
    vimWorld,
    vim,         \* VimState, vimMode and vimEnabled of the context
    rendered,    \* the same, of the last render
    seen,        \* the same, of the render whose effects ran last
    vimKeys,     \* how many keys were pressed
    spelled,     \* ghost: the keys since nothing was pending
    done,        \* ghost: what the last key did, and the keys it was spelled with
    calm         \* ghost: every key was handled with the state of its time

vimVars == <<vimWorld, vim, rendered, seen, vimKeys, spelled, done, calm>>

Nothing == [what |-> "nothing", count |-> 0]
\* initialVimState; vimEnabled comes from the settings.
VimInit ==
    /\ vimWorld \in VimWorld
    /\ \E enabled \in BOOLEAN :
         vim = [mode |-> "NORMAL", count |-> 0, operator |-> "none", last |-> Nothing,
                context |-> IF enabled THEN "NORMAL" ELSE "INSERT", enabled |-> enabled]
    /\ rendered = vim /\ seen = [vim EXCEPT !.context = "none"]
    /\ vimKeys = 0 /\ spelled = <<>>
    /\ done = [what |-> "nothing", count |-> 0, keys |-> <<>>]
    /\ calm = TRUE

-----------------------------------------------------------------------------
\* The context is forgotten: a mistake the runs must notice.
InReducer(v, m) == [v EXCEPT !.mode = m]
\* updateMode
UpdateMode(v, m) == [v EXCEPT !.mode = m, !.context = m]
ClearCount(v) == [v EXCEPT !.count = 0]
\* CLEAR_PENDING_STATES, ESCAPE_TO_NORMAL
ClearPending(v) == [v EXCEPT !.count = 0, !.operator = "none"]
GetCurrentCount == IF seen.count = 0 THEN 1 ELSE seen.count
Number(digits) == FoldLeft(LAMBDA n, d : n * 10 + (IF d = "0" THEN 0 ELSE 2), 0, digits)

Executes(v, command) == IF command \in Changing THEN UpdateMode(v, "INSERT") ELSE v
\* A command of the switch: executeCommand, SET_LAST_COMMAND, CLEAR_COUNT
Command(command, count) ==
    ClearCount([Executes(vim, command) EXCEPT !.last = [what |-> command, count |-> count]])
\* The operator stays: a mistake the runs must notice.
KeepsOperator(command) == Command(command, GetCurrentCount)
\* handleOperatorMotion, handleChangeMovement, dd and cc
OperatorMotion(command) ==
    [Command(command, GetCurrentCount) EXCEPT !.operator = "none"]

\* What a key does in NORMAL mode: what becomes of the state, and the edit or move
Does(v, what, count) == [state |-> v, what |-> what, count |-> count]
Edits(v, command) == Does(v, command, GetCurrentCount)
Moves(k) == Does(ClearCount(vim), k, GetCurrentCount)

NormalMode(k) ==
    CASE k = "escape" -> Does(IF seen.operator = "none" THEN vim ELSE ClearPending(vim), "nothing", 0)
      [] k = "2" \/ (k = "0" /\ seen.count > 0) ->
           Does([vim EXCEPT !.count = @ * 10 + Number(<<k>>)], "nothing", 0)
      [] k = "h" /\ seen.operator = "c" -> Edits(OperatorMotion("ch"), "ch")
      [] k = "w" /\ seen.operator = "d" -> Edits(OperatorMotion("dw"), "dw")
      [] k = "w" /\ seen.operator = "c" -> Edits(OperatorMotion("cw"), "cw")
      [] k \in {"d", "c"} /\ seen.operator = k ->
           Edits(OperatorMotion(IF k = "d" THEN "dd" ELSE "cc"), IF k = "d" THEN "dd" ELSE "cc")
      [] k \in {"d", "c"} /\ seen.operator # k -> Does([vim EXCEPT !.operator = k], "nothing", 0)
      [] k = "g" -> IF seen.operator = "g"
                      THEN Does([ClearCount(vim) EXCEPT !.operator = "none"], "gg", 1)
                      ELSE Does([ClearCount(vim) EXCEPT !.operator = "g"], "nothing", 0)
      [] k = "x" -> Edits(Command("x", GetCurrentCount), "x")
      [] k \in {"D", "C"} -> Does(Command(k, 1), k, 1)
      [] k = "." -> Does(ClearCount(Executes(vim, seen.last.what)), seen.last.what, seen.last.count)
      [] k \in Inserting -> Does(ClearCount(UpdateMode(vim, "INSERT")), "insert", 1)
      [] k = "G" -> Does(ClearCount(vim), k, seen.count)
      [] k = "?" -> Does(ClearPending(vim), "nothing", 0)
      [] OTHER -> Moves(k)

\* In INSERT mode a key is text, or left to the prompt, but for Escape.
InsertMode(k) ==
    IF k = "escape" THEN Does(UpdateMode(ClearPending(vim), "NORMAL"), "nothing", 0)
                    ELSE Does(vim, "text", 1)

Handled(k) ==
    IF ~seen.enabled THEN Does(vim, "text", 1)
      ELSE IF seen.mode = "INSERT" THEN InsertMode(k) ELSE NormalMode(k)

\* What a command with an operator is spelled with
Spelling == [dw |-> <<"d", "w">>, cw |-> <<"c", "w">>, ch |-> <<"c", "h">>,
             dd |-> <<"d", "d">>, cc |-> <<"c", "c">>, gg |-> <<"g", "g">>]
LastOf(keys, set) == FoldLeft(LAMBDA o, k : IF k \in set THEN k ELSE o, "none", keys)
\* The digits that count: "d" and "c" do not end them.
Digits(keys) ==
    FoldLeft(LAMBDA ds, k : IF k \in Digit THEN Append(ds, k)
                              ELSE IF k \in {"d", "c"} THEN ds ELSE <<>>, <<>>, keys)
\* The keys that still wait for others
Pending(keys) ==
    LET operator == LastOf(Front(keys), Operator)
    IN  CASE <<operator, Last(keys)>> \in Range(Spelling) -> <<>>
          [] Last(keys) = "?" -> <<>>
          [] Last(keys) = "escape" -> IF operator = "none" THEN Front(keys) ELSE <<>>
          [] OTHER -> IF LastOf(keys, Operator) = "none" /\ Number(Digits(keys)) = 0 THEN <<>> ELSE keys

HandleInput ==
    /\ seen.context # "none"
    /\ vimKeys < MaxVimKeys
    /\ vimKeys' = vimKeys + 1
    /\ \E k \in vimWorld :
         LET handled == Handled(k) IN
         /\ vim' = handled.state
         /\ done' = [what |-> handled.what, count |-> handled.count, keys |-> Append(spelled, k)]
         /\ calm' = (calm /\ seen = vim)
         /\ spelled' = IF ~calm' THEN <<>> ELSE IF handled.what = "text" THEN spelled
                        ELSE Pending(Append(spelled, k))
    /\ UNCHANGED <<vimWorld, rendered, seen>>

\* toggleVimEnabled, of a slash command that was typed, submitted and rendered
ToggleVimEnabled ==
    /\ vim = rendered /\ rendered = seen
    /\ vimKeys < MaxVimKeys
    /\ vimKeys' = vimKeys + 1
    /\ vim' = [vim EXCEPT !.enabled = ~@, !.context = IF vim.enabled THEN @ ELSE "NORMAL"]
    /\ UNCHANGED <<vimWorld, rendered, seen, spelled, done, calm>>

Render ==
    /\ rendered # vim
    /\ rendered' = vim
    /\ UNCHANGED <<vimWorld, vim, seen, vimKeys, spelled, done, calm>>

\* The effects of a render: the handler of now on hears the keys, and a change of the
\* context's mode is dispatched.
Effects ==
    /\ seen # rendered
    /\ seen' = rendered
    /\ vim' = IF seen.context = rendered.context THEN vim ELSE [vim EXCEPT !.mode = rendered.context]
    /\ UNCHANGED <<vimWorld, rendered, vimKeys, spelled, done, calm>>

VimNext == HandleInput \/ ToggleVimEnabled \/ Render \/ Effects
VimSpec == VimInit /\ [][VimNext]_vimVars

-----------------------------------------------------------------------------
VimTypeOK ==
    /\ vim \in [mode : {"NORMAL", "INSERT"}, count : Nat, operator : Operator \cup {"none"},
                last : [what : Repeatable \cup {"nothing"}, count : Nat],
                context : {"NORMAL", "INSERT"}, enabled : BOOLEAN]
    /\ vimWorld \subseteq AllVimKeys /\ vimKeys \in 0 .. MaxVimKeys
    /\ spelled \in Seq(vimWorld) /\ calm \in BOOLEAN

(* The mode that the footer shows, that of the context, is the mode in which  *)
(* keys act once everything is rendered, however late the effects of a render *)
(* put the mode of that render back.                                          *)
ModesAgree == vim.enabled /\ vim = rendered /\ rendered = seen => vim.mode = vim.context

(* Keys that each wait for the render of the one before mean what they spell: *)
(* an operator acts with the key that completes it, whatever other commands   *)
(* come between, with the digits before and behind it as its count, and no    *)
(* line or word is deleted or changed otherwise.                              *)
CommandsAreSpelled ==
    calm /\ done.keys # <<>> /\ done.what # "text" /\ Last(done.keys) # "." =>
      \A command \in DOMAIN Spelling :
        /\ done.what = command
             <=> <<LastOf(Front(done.keys), Operator), Last(done.keys)>> = Spelling[command]
        /\ done.what = command /\ command # "gg" =>
             LET n == Number(Digits(Front(done.keys)))
             IN  done.count = IF n = 0 THEN 1 ELSE n
VimIsFaithful == ModesAgree /\ CommandsAreSpelled
=============================================================================
