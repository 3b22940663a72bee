------------------------------ MODULE Keypress ------------------------------
(***************************************************************************)
(* KeypressProvider (packages/cli/src/ui/contexts/KeypressContext.tsx):    *)
(* the keys of the terminal on their way to the handlers, and the buffers  *)
(* some of them wait in: a paste, a path that is dragged into the window,  *)
(* a backslash that may belong to the Enter after it, and the sequences of *)
(* the kitty protocol.  A key is known by its number in "typed".           *)
(***************************************************************************)
EXTENDS Naturals, Sequences, SequencesExt, FiniteSets

CONSTANTS
    KeyWorld,  \* [kitty, kinds]: whether the kitty protocol is on, and which keys are typed
    MaxKeys,   \* bound: how many are typed
    MaxKitty   \* MAX_KITTY_SEQUENCE_LENGTH, counted in keys

\* "sequence": parseKittyPrefix knows it; "unknown": it starts with ESC [, and
\* parseKittyPrefix does not know it; "letter" stands for all plain keys.
AllKinds == {"letter", "quote", "backslash", "return", "arrow", "interrupt", "sequence",
             "unknown", "paste-start", "paste-end"}

VARIABLES
    keyWorld,       \* the keys, and kittyProtocolEnabled
    typed,
    isPaste, pasteBuffer,
    isDragging, dragBuffer,
    backslash,      \* the key whose timer is backslashTimeout; 0: not waiting for an Enter
    backslashTimers,\* the keys whose timers run, oldest first
    kittyBuffer,    \* kittySequenceBuffer
    heard,          \* what was broadcast
    mounted

keypressVars == <<keyWorld, typed, isPaste, pasteBuffer, isDragging, dragBuffer, backslash,
                  backslashTimers, kittyBuffer, heard, mounted>>

KeypressInit ==
    /\ keyWorld \in KeyWorld
    /\ typed = <<>>
    /\ isPaste = FALSE /\ pasteBuffer = <<>>
    /\ isDragging = FALSE /\ dragBuffer = <<>>
    /\ backslash = 0 /\ backslashTimers = <<>>
    /\ kittyBuffer = <<>>
    /\ heard = <<>>
    /\ mounted = TRUE

\* What a handler is given: one key, a paste of several, or a backslash and an Enter
\* that are one Shift+Enter.
Pressed(n) == <<[as |-> "key", keys |-> <<n>>]>>
Pasted(ns) == <<[as |-> "paste", keys |-> ns]>>
ShiftEnter(b, n) == <<[as |-> "shift+return", keys |-> <<b, n>>]>>

unpasted == <<isPaste, pasteBuffer>>
undragged == <<isDragging, dragBuffer>>
unescaped == <<backslash, backslashTimers>>

-----------------------------------------------------------------------------
\* handleKeypress, branch by branch; n is the key's number.
PasteStart(k, n) ==
    /\ k = "paste-start"
    /\ isPaste' = TRUE
    /\ UNCHANGED <<pasteBuffer, undragged, unescaped, kittyBuffer, heard>>

PasteEnd(k, n) ==
    /\ k = "paste-end"
    /\ isPaste' = FALSE /\ pasteBuffer' = <<>>
    /\ heard' = heard \o Pasted(pasteBuffer)
    /\ UNCHANGED <<undragged, unescaped, kittyBuffer>>

InPaste(k, n) ==
    /\ k \notin {"paste-start", "paste-end"} /\ isPaste
    /\ pasteBuffer' = Append(pasteBuffer, n)
    /\ UNCHANGED <<isPaste, undragged, unescaped, kittyBuffer, heard>>

Typing(k) == k \notin {"paste-start", "paste-end"} /\ ~isPaste

InDrag(k, n) ==
    /\ Typing(k) /\ (k = "quote" \/ isDragging)
    /\ isDragging' = TRUE
    /\ dragBuffer' = Append(dragBuffer, n)
    /\ UNCHANGED <<unpasted, unescaped, kittyBuffer, heard>>

Undragged(k) == Typing(k) /\ k # "quote" /\ ~isDragging
Without(t) == SelectSeq(backslashTimers, LAMBDA b : b # t)

EnterAfterBackslash(k, n) ==
    /\ Undragged(k) /\ k = "return" /\ backslash # 0
    /\ backslashTimers' = Without(backslash)
    /\ backslash' = 0
    /\ heard' = heard \o ShiftEnter(backslash, n)
    /\ UNCHANGED <<unpasted, undragged, kittyBuffer>>

\* The timer of an earlier backslash is not cleared: its handle is lost.
Backslash(k, n) ==
    /\ Undragged(k) /\ k = "backslash"
    /\ backslash' = n
    /\ backslashTimers' = Append(backslashTimers, n)
    /\ UNCHANGED <<unpasted, undragged, kittyBuffer, heard>>

\* Every other key, after a backslash it turns out not to belong to
Passes(k) == Undragged(k) /\ k # "backslash" /\ ~(k = "return" /\ backslash # 0)
\* The timer goes on after its backslash: a mistake the runs must notice.
ForgetsToClear == /\ backslash' = 0 /\ UNCHANGED backslashTimers
ClearsBackslash == /\ backslash' = 0 /\ backslashTimers' = Without(backslash)
Overtaken == heard \o (IF backslash = 0 THEN <<>> ELSE Pressed(backslash))

\* Arrows go past the buffer of the kitty protocol, and Ctrl+C empties it.
PastKitty(k, n) ==
    /\ Passes(k) /\ k \in {"arrow", "interrupt"}
    /\ ClearsBackslash
    /\ kittyBuffer' = IF k = "interrupt" THEN <<>> ELSE kittyBuffer
    /\ heard' = Overtaken \o Pressed(n)
    /\ UNCHANGED <<unpasted, undragged>>

Buffers(k) == keyWorld.kitty /\ (kittyBuffer # <<>> \/ k \in {"sequence", "unknown"})
\* The loop over the buffer: what stands before the last ESC [ is skipped, a sequence
\* that is known is taken, one that is not stays, with all that follows it, until the
\* buffer is too long; the key that makes it so is broadcast.
Kitty(k, n) ==
    /\ Passes(k) /\ k \notin {"arrow", "interrupt"} /\ Buffers(k)
    /\ ClearsBackslash
    /\ \/ k = "sequence" /\ kittyBuffer' = <<>> /\ heard' = Overtaken \o Pressed(n)
       \/ k = "unknown" /\ kittyBuffer' = <<n>> /\ heard' = Overtaken
       \/ /\ k \notin {"sequence", "unknown"} /\ Len(kittyBuffer) < MaxKitty
          /\ kittyBuffer' = Append(kittyBuffer, n) /\ heard' = Overtaken
       \/ /\ k \notin {"sequence", "unknown"} /\ Len(kittyBuffer) >= MaxKitty
          /\ kittyBuffer' = <<>> /\ heard' = Overtaken \o Pressed(n)
    /\ UNCHANGED <<unpasted, undragged>>

Plain(k, n) ==
    /\ Passes(k) /\ k \notin {"arrow", "interrupt"} /\ ~Buffers(k)
    /\ ClearsBackslash
    /\ heard' = Overtaken \o Pressed(n)
    /\ UNCHANGED <<unpasted, undragged, kittyBuffer>>

HandleKeypress ==
    /\ mounted /\ Len(typed) < MaxKeys
    /\ \E k \in keyWorld.kinds :
         LET n == Len(typed) + 1 IN
         /\ typed' = Append(typed, k)
         /\ \/ PasteStart(k, n) \/ PasteEnd(k, n) \/ InPaste(k, n) \/ InDrag(k, n)
            \/ EnterAfterBackslash(k, n) \/ Backslash(k, n)
            \/ PastKitty(k, n) \/ Kitty(k, n) \/ Plain(k, n)
    /\ UNCHANGED <<keyWorld, mounted>>

\* BACKSLASH_ENTER_DETECTION_WINDOW_MS have passed: the timer also takes the handle of
\* a later one.
BackslashTimer ==
    /\ backslashTimers # <<>>
    /\ backslash' = 0
    /\ backslashTimers' = Tail(backslashTimers)
    /\ heard' = heard \o Pressed(Head(backslashTimers))
    /\ UNCHANGED <<keyWorld, typed, unpasted, undragged, kittyBuffer, mounted>>

\* DRAG_COMPLETION_TIMEOUT_MS after the last key of a drag; the shorter timer of a
\* backslash, which is older than the drag, has run out by then.
DraggingTimer ==
    /\ mounted /\ isDragging /\ backslashTimers = <<>>
    /\ isDragging' = FALSE /\ dragBuffer' = <<>>
    /\ heard' = heard \o Pasted(dragBuffer)
    /\ UNCHANGED <<keyWorld, typed, unpasted, unescaped, kittyBuffer, mounted>>

\* The cleanup of the effect
Unmount ==
    /\ mounted /\ mounted' = FALSE
    /\ backslashTimers' = Without(backslash) /\ backslash' = 0
    /\ pasteBuffer' = <<>>
    /\ isDragging' = FALSE /\ dragBuffer' = <<>>
    /\ heard' = heard \o (IF isPaste THEN Pasted(pasteBuffer) ELSE <<>>)
                      \o (IF isDragging THEN Pasted(dragBuffer) ELSE <<>>)
    /\ UNCHANGED <<keyWorld, typed, isPaste, kittyBuffer>>

KeypressNext == HandleKeypress \/ BackslashTimer \/ DraggingTimer \/ Unmount
KeypressSpec == KeypressInit /\ [][KeypressNext]_keypressVars

-----------------------------------------------------------------------------
KeypressTypeOK ==
    /\ keyWorld \in [kitty : BOOLEAN, kinds : SUBSET AllKinds] /\ mounted \in BOOLEAN
    /\ typed \in Seq(keyWorld.kinds)
    /\ isPaste \in BOOLEAN /\ isDragging \in BOOLEAN
    /\ ToSet(pasteBuffer \o dragBuffer \o backslashTimers \o kittyBuffer) \subseteq DOMAIN typed
    /\ Len(kittyBuffer) <= MaxKitty
    /\ backslash = 0 \/ backslash = Last(backslashTimers)

Brackets == {"paste-start", "paste-end"}
HeardKeys == FlattenSeq([i \in DOMAIN heard |-> heard[i].keys])
Kept == HeardKeys \o pasteBuffer \o dragBuffer \o backslashTimers
          \o (IF mounted THEN kittyBuffer ELSE <<>>)
Lost == {n \in DOMAIN typed : typed[n] \notin Brackets} \ ToSet(Kept)

\* The keys its buffer swallows with an unknown sequence
Swallowed(n) ==
    \E u \in Lost :
      /\ keyWorld.kitty /\ u <= n /\ typed[u] = "unknown"
      /\ Cardinality(Lost \cap u .. n) <= MaxKitty

(* No key is handed on twice, and none is lost but those that stand behind a  *)
(* sequence the kitty parser does not know, and a backslash that waits when   *)
(* the application goes.                                                       *)
NoKeyIsLost ==
    /\ Cardinality(ToSet(Kept)) = Len(Kept)
    /\ \A n \in Lost :
         \/ typed[n] \in {"unknown", "letter", "return"} /\ Swallowed(n)
         \/ typed[n] = "backslash" /\ ~mounted

Doubled == Cardinality({n \in DOMAIN typed : typed[n] = "backslash"}) > 1
(* Keys are handed on in the order in which they were typed, but for a paste, *)
(* which does not wait for a drag or for a backslash before it, and for        *)
(* backslashes of which a second one follows before the first one's timer.     *)
KeysKeepOrder ==
    \A i, j \in DOMAIN HeardKeys :
      i < j /\ HeardKeys[i] > HeardKeys[j] =>
        \/ typed[HeardKeys[j]] = "backslash" /\ Doubled
        \/ \E p \in HeardKeys[j] .. HeardKeys[i] : typed[p] = "paste-start"
KeysAreKept == NoKeyIsLost /\ KeysKeepOrder
=============================================================================
