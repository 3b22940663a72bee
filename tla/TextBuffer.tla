----------------------------- MODULE TextBuffer -----------------------------
(***************************************************************************)
(* The text the user types: textBufferReducer                              *)
(* (packages/cli/src/ui/components/shared/text-buffer.ts) with its undo    *)
(* and redo stacks, and the vim operations (vim-buffer-actions.ts).        *)
(*                                                                         *)
(* A text is a sequence of lines, a line a sequence of characters of which *)
(* only the class matters.  Columns count characters, from 0; rows are     *)
(* numbered from 1.  The viewport is as wide as the text (bound), so that  *)
(* visual lines are lines.                                                 *)
(***************************************************************************)
EXTENDS Integers, Sequences, FiniteSets, SequencesExt

CONSTANTS
    Char,          \* classes of characters: see Strict, Blank, Stop and Width
    FirstText,     \* texts the buffer may start with
    HistoryLimit,  \* historyLimit
    MaxCount,      \* bound: the count before a vim command
    MaxText,       \* bound: characters and line ends of a text
    MaxEdits       \* bound: edits of a session

VARIABLES
    buffer,   \* TextBufferState
    past,     \* ghost: the texts that edits replaced, the latest last
    future,   \* ghost: the texts that were undone, the latest first
    edits     \* edits so far

textVars == <<buffer, past, future, edits>>

NoCol == -1
Snapshot(b) == [lines |-> b.lines, row |-> b.row, col |-> b.col]
Empty == <<<<>>>>

TextInit ==
    /\ buffer \in {[lines |-> t, row |-> Len(t), col |-> Len(Last(t)), pref |-> NoCol,
                    undo |-> <<>>, redo |-> <<>>] : t \in FirstText}
    /\ past = <<>> /\ future = <<>> /\ edits = 0

-----------------------------------------------------------------------------
(* Lines and words.                                                         *)

\* isWordCharStrict, isWhitespace, isWordChar; the UTF-16 length
Strict(c) == c = "letter"
Blank(c) == c = "space"
Stop(c) == c \in {"space", "comma"}
Width(c) == IF c = "emoji" THEN 2 ELSE 1
Class(c) == IF Strict(c) THEN "word" ELSE IF Blank(c) THEN "blank" ELSE "mark"

Take(s, n) == SubSeq(s, 1, n)
Drop(s, n) == SubSeq(s, n + 1, Len(s))
Least(a, b) == IF a < b THEN a ELSE b
Most(a, b) == IF a > b THEN a ELSE b

\* The first column from c on, and the last one before c, whose character is
\* such; the length of the line and NoCol when there is none.
First(line, c, Such(_)) ==
    LET found == {i \in c + 1 .. Len(line) : Such(line[i])}
    IN  IF found = {} THEN Len(line) ELSE Min(found) - 1
Latest(line, c, Such(_)) ==
    LET found == {i \in 1 .. c : Such(line[i])}
    IN  IF found = {} THEN NoCol ELSE Max(found) - 1
NonBlank(line, c) == First(line, c, LAMBDA x : ~Blank(x))

\* findNextWordStartInLine
NextWordStart(line, c) ==
    IF c >= Len(line) THEN NoCol
    ELSE LET here == Class(line[c + 1])
             over == IF here = "blank" THEN c ELSE First(line, c, LAMBDA x : Class(x) # here)
             next == NonBlank(line, over)
         IN  IF next < Len(line) THEN next ELSE NoCol

\* findPrevWordStartInLine
PrevWordStart(line, c) ==
    LET end == Latest(line, c, LAMBDA x : ~Blank(x))
    IN  IF end = NoCol THEN NoCol
        ELSE Latest(line, end, LAMBDA x : Class(x) # Class(line[end + 1])) + 1

\* findWordEndInLine: at the end of a word, the end of the next one
WordEnd(line, c) ==
    LET atEnd == /\ c < Len(line) /\ ~Blank(line[c + 1])
                 /\ c + 1 < Len(line) => Class(line[c + 2]) # Class(line[c + 1])
        start == NonBlank(line, IF atEnd THEN c + 1 ELSE c)
    IN  IF start >= Len(line) THEN NoCol
        ELSE First(line, start, LAMBDA x : Class(x) # Class(line[start + 1])) - 1

\* findNextWordAcrossLines: on this line, on the next one that has a word, or an
\* empty line no word follows
Nowhere == [row |-> 0, col |-> 0]
Nearest(found, Before(_, _)) ==
    LET rows == {r \in DOMAIN found : found[r] # NoCol}
    IN  IF rows = {} THEN Nowhere
        ELSE LET r == CHOOSE x \in rows : \A y \in rows : Before(x, y)
             IN  [row |-> r, col |-> found[r]]
NextWord(lines, row, col, start) ==
    LET HasWord(r) == NonBlank(lines[r], 0) < Len(lines[r])
        from == [r \in row .. Len(lines) |-> IF r = row THEN col ELSE NonBlank(lines[r], 0)]
        empty == {r \in row + 1 .. Len(lines) :
                    lines[r] = <<>> /\ ~\E s \in r + 1 .. Len(lines) : HasWord(s)}
        found == [r \in row .. Len(lines) |->
                    IF r \in empty THEN 0
                    ELSE IF ~start THEN WordEnd(lines[r], from[r])
                    ELSE IF r = row THEN NextWordStart(lines[r], col)
                    ELSE IF from[r] < Len(lines[r]) THEN from[r] ELSE NoCol]
    IN  Nearest(found, LAMBDA x, y : x <= y)

\* findPrevWordAcrossLines
PrevWord(lines, row, col) ==
    Nearest([r \in 1 .. row |->
               PrevWordStart(lines[r], IF r = row THEN col ELSE Len(lines[r]))],
            LAMBDA x, y : x >= y)

\* A step that is taken n times, until it leads nowhere.
Steps(Step(_), from, n) ==
    LET at[i \in 0 .. n] ==
          IF i = 0 THEN [row |-> from.row, col |-> from.col, more |-> TRUE]
          ELSE LET p == at[i - 1]
                   q == IF p.more THEN Step(p) ELSE Nowhere
               IN  IF q = Nowhere THEN [p EXCEPT !.more = FALSE]
                   ELSE [row |-> q.row, col |-> q.col, more |-> TRUE]
    IN  at[n]

-----------------------------------------------------------------------------
(* Edits.                                                                   *)

\* What can be undone is kept, also what can be redone: a mistake the runs must
\* notice.
KeepsRedo(b) ==
    [b EXCEPT !.undo = LET s == Append(b.undo, Snapshot(b))
                       IN  IF Len(s) > HistoryLimit THEN Tail(s) ELSE s]
\* pushUndo
PushUndo(b) ==
    [b EXCEPT !.redo = <<>>,
              !.undo = LET s == Append(b.undo, Snapshot(b))
                       IN  IF Len(s) > HistoryLimit THEN Tail(s) ELSE s]

To(b, row, col) == [b EXCEPT !.row = row, !.col = col, !.pref = NoCol]
Splice(lines, from, to, new) == Take(lines, from - 1) \o new \o Drop(lines, to)

\* replaceRangeInternal, by lines
ReplaceRange(b, r1, c1, r2, c2, parts) ==
    IF r1 > r2 \/ (r1 = r2 /\ c1 > c2) \/ r1 < 1 \/ c1 < 0 \/ r2 > Len(b.lines)
       \/ c2 > Len(b.lines[r2])
      THEN b
      ELSE LET n == Len(parts)
               before == Take(b.lines[r1], Least(c1, Len(b.lines[r1])))
               after == Drop(b.lines[r2], c2)
               new == IF n = 1 THEN <<before \o parts[1] \o after>>
                      ELSE <<before \o parts[1]>> \o SubSeq(parts, 2, n - 1)
                           \o <<parts[n] \o after>>
           IN  To([b EXCEPT !.lines = Splice(b.lines, r1, r2, new)], r1 + n - 1,
                  (IF n = 1 THEN Len(before) ELSE 0) + Len(parts[n]))
Replace(b, r1, c1, r2, c2, parts) == ReplaceRange(PushUndo(b), r1, c1, r2, c2, parts)
Erase(b, r1, c1, r2, c2) == Replace(b, r1, c1, r2, c2, Empty)
\* Deletions leave the cursor where the text was; some keep preferredCol.
Cut(b, r1, c1, r2, c2) == [Erase(b, r1, c1, r2, c2) EXCEPT !.pref = b.pref]

Line(b) == b.lines[b.row]
AtStart(b) == b.row = 1 /\ b.col = 0
AtEnd(b) == b.row = Len(b.lines) /\ b.col >= Len(Line(b))
JoinBack(b) == Erase(b, b.row - 1, Len(b.lines[b.row - 1]), b.row, 0)
JoinNext(b) == Erase(b, b.row, b.col, b.row + 1, 0)

SetText(b, text) == To([PushUndo(b) EXCEPT !.lines = text], Len(text), Len(Last(text)))
Insert(b, text) == Replace(b, b.row, b.col, b.row, b.col, text)
Backspace(b) ==
    IF AtStart(b) THEN b
    ELSE IF b.col > 0 THEN Erase(b, b.row, b.col - 1, b.row, b.col) ELSE JoinBack(b)
Delete(b) ==
    IF AtEnd(b) THEN b
    ELSE IF b.col < Len(Line(b)) THEN Erase(b, b.row, b.col, b.row, b.col + 1)
    ELSE JoinNext(b)
DeleteWordLeft(b) ==
    IF AtStart(b) THEN b
    ELSE IF b.col = 0 THEN JoinBack(b)
    ELSE Erase(b, b.row, Most(0, PrevWordStart(Line(b), b.col)), b.row, b.col)
DeleteWordRight(b) ==
    IF AtEnd(b) THEN b
    ELSE IF b.col >= Len(Line(b)) THEN JoinNext(b)
    ELSE LET next == NextWordStart(Line(b), b.col)
         IN  Erase(b, b.row, b.col, b.row, IF next = NoCol THEN Len(Line(b)) ELSE next)
KillLineRight(b) ==
    IF AtEnd(b) THEN b
    ELSE IF b.col < Len(Line(b)) THEN Cut(b, b.row, b.col, b.row, Len(Line(b)))
    ELSE JoinNext(b)
KillLineLeft(b) == IF b.col = 0 THEN b ELSE Erase(b, b.row, 0, b.row, b.col)

-----------------------------------------------------------------------------
(* Edits of vim's normal mode.                                              *)
Here(b) == [row |-> b.row, col |-> b.col]

\* Up to the start of the nth word, or to the end of the last.
VimDeleteWordForward(b, n) ==
    LET p == Steps(LAMBDA q : NextWord(b.lines, q.row, q.col, TRUE), Here(b), n)
        line == b.lines[p.row]
        end == IF p.more THEN p.col
               ELSE IF WordEnd(line, p.col) = NoCol THEN Len(line)
               ELSE WordEnd(line, p.col) + 1
    IN  IF p.row = b.row /\ end = b.col THEN b ELSE Erase(b, b.row, b.col, p.row, end)
VimDeleteWordBackward(b, n) ==
    LET p == Steps(LAMBDA q : PrevWord(b.lines, q.row, q.col), Here(b), n)
    IN  IF p.row = b.row /\ p.col = b.col THEN b ELSE Erase(b, p.row, p.col, b.row, b.col)
\* Up to the end of the nth word: after each the start of the next is looked for.
VimDeleteWordEnd(b, n) ==
    LET After(p) == LET end == NextWord(b.lines, p.row, p.col, FALSE)
                    IN  IF end = Nowhere THEN Nowhere ELSE [end EXCEPT !.col = @ + 1]
        Following(p) == LET end == After(p)
                        IN  IF end = Nowhere THEN Nowhere
                            ELSE NextWord(b.lines, end.row, end.col, TRUE)
        ends == {After(Steps(Following, Here(b), k)) : k \in 0 .. n - 1} \ {Nowhere}
        Furthest(x) == \A y \in ends : y.row < x.row \/ (y.row = x.row /\ y.col <= x.col)
    IN  {Erase(b, b.row, b.col, x.row, Least(x.col, Len(b.lines[x.row]))) :
            x \in {y \in ends \ {Here(b)} : Furthest(y)}}
VimDeleteLine(b, n) ==
    LET count == Least(n, Len(b.lines) - b.row + 1)
        left == Splice(b.lines, b.row, b.row + count - 1, <<>>)
    IN  IF left = <<>> THEN To([PushUndo(b) EXCEPT !.lines = Empty], 1, 0)
        ELSE To([PushUndo(b) EXCEPT !.lines = left], Least(b.row, Len(left)), 0)

Units(line) == Len(line) + Cardinality({i \in DOMAIN line : Width(line[i]) = 2})
\* getLineRangeOffsets and getPositionFromOffsets: the range of lines ends after its
\* last line end, which is one column more than the line has, and counts UTF-16
\* units; such a range is refused, and nothing is changed but the history.
ClearLines(b, row, n) ==
    LET last == row + n - 1
        end == Units(b.lines[last]) + (IF last < Len(b.lines) THEN 1 ELSE 0)
    IN  Erase(b, row, 0, last, end)
VimChangeLine(b, n) == ClearLines(b, b.row, Least(n, Len(b.lines) - b.row + 1))
VimDeleteToEndOfLine(b) ==
    IF b.col < Len(Line(b)) THEN Erase(b, b.row, b.col, b.row, Len(Line(b))) ELSE b
VimChangeMovement(b, way, n) ==
    CASE way = "h" -> Erase(b, b.row, Most(0, b.col - n), b.row, b.col)
      [] way = "l" -> Erase(b, b.row, b.col, b.row, Least(Len(Line(b)), b.col + n))
      [] Len(b.lines) = 1 -> Erase(b, 1, 0, 1, Len(Line(b)))
      [] way = "j" -> VimChangeLine(b, n)
      [] OTHER -> LET from == Most(1, b.row - n + 1)
                  IN  [ClearLines(b, from, b.row - from + 1) EXCEPT !.row = from, !.col = 0]
VimDeleteChar(b, n) ==
    IF b.col < Len(Line(b))
      THEN Erase(b, b.row, b.col, b.row, Least(Len(Line(b)), b.col + n)) ELSE b
VimOpenLineBelow(b) ==
    Replace(b, b.row, Len(Line(b)), b.row, Len(Line(b)), <<<<>>, <<>>>>)
VimOpenLineAbove(b) ==
    [Replace(b, b.row, 0, b.row, 0, <<<<>>, <<>>>>) EXCEPT !.row = b.row, !.col = 0]

VimEdits(b, n) ==
    {VimDeleteWordForward(b, n), VimDeleteWordBackward(b, n), VimDeleteLine(b, n),
     VimChangeLine(b, n), VimDeleteToEndOfLine(b), VimDeleteChar(b, n), VimOpenLineBelow(b),
     VimOpenLineAbove(b)}
    \cup VimDeleteWordEnd(b, n)
    \cup {VimChangeMovement(b, way, n) : way \in {"h", "j", "k", "l"}}

-----------------------------------------------------------------------------
(* Moves.                                                                   *)
\* 'up' and 'down' keep the column the cursor came from.
UpDown(b, row) ==
    LET col == IF b.pref = NoCol THEN b.col ELSE b.pref
    IN  IF row < 1 \/ row > Len(b.lines) THEN b
        ELSE [b EXCEPT !.row = row, !.col = Least(col, Len(b.lines[row])), !.pref = col]
Left(b) ==
    IF b.col > 0 THEN To(b, b.row, b.col - 1)
    ELSE IF b.row > 1 THEN To(b, b.row - 1, Len(b.lines[b.row - 1])) ELSE To(b, 1, 0)
Right(b) ==
    IF b.col < Len(Line(b)) THEN To(b, b.row, b.col + 1)
    ELSE IF b.row < Len(b.lines) THEN To(b, b.row + 1, 0) ELSE To(b, b.row, b.col)
WordLeft(b) ==
    IF AtStart(b) THEN b
    ELSE IF b.col = 0 THEN To(b, b.row - 1, Len(b.lines[b.row - 1]))
    ELSE LET end == Latest(Line(b), b.col, LAMBDA x : ~Stop(x))
         IN  To(b, b.row, IF end = NoCol THEN b.col - 1
                          ELSE Latest(Line(b), end, Stop) + 1)
WordRight(b) ==
    IF AtEnd(b) THEN b
    ELSE IF b.col >= Len(Line(b)) THEN To(b, b.row + 1, 0)
    ELSE To(b, b.row, First(Line(b), First(Line(b), b.col, LAMBDA x : ~Stop(x)), Stop))
\* In vim's normal mode the cursor is on a character.
LastCol(line) == Most(0, Len(line) - 1)
VimLeft(lines, p) ==
    IF p.col > 0 THEN [p EXCEPT !.col = @ - 1]
    ELSE IF p.row > 1 THEN [p EXCEPT !.row = @ - 1, !.col = LastCol(lines[p.row - 1])] ELSE p
VimRight(lines, p) ==
    IF p.col < Len(lines[p.row]) - 1 THEN [p EXCEPT !.col = @ + 1]
    ELSE IF p.row < Len(lines) THEN [p EXCEPT !.row = @ + 1, !.col = 0] ELSE p
VimVertical(b, row) == To(b, row, Least(b.col, LastCol(b.lines[row])))
WordEndFrom(b, p) ==
    LET line == b.lines[p.row]
        atEnd == /\ p.col < Len(line) /\ Strict(line[p.col + 1])
                 /\ p.col + 1 < Len(line) => ~Strict(line[p.col + 2])
        after == NextWord(b.lines, p.row, p.col + 1, FALSE)
    IN  IF atEnd /\ after # Nowhere THEN after ELSE NextWord(b.lines, p.row, p.col, FALSE)
Repeated(Step(_), p, n) ==
    LET at[i \in 0 .. n] == IF i = 0 THEN p ELSE LET q == at[i - 1] IN Step(q) IN at[n]

VimMoves(b, n) ==
    LET At(p) == To(b, p.row, p.col)
        Word(p) == NextWord(b.lines, p.row, p.col, TRUE)
        Back(p) == PrevWord(b.lines, p.row, p.col)
        first == WordEndFrom(b, Here(b))
        indent == NonBlank(Line(b), 0)
    IN  {At(Repeated(LAMBDA p : VimLeft(b.lines, p), Here(b), n)),
         At(Repeated(LAMBDA p : VimRight(b.lines, p), Here(b), n)),
         VimVertical(b, Most(1, b.row - n)), VimVertical(b, Least(Len(b.lines), b.row + n)),
         At(Steps(Word, Here(b), n)), At(Steps(Back, Here(b), n)),
         IF first = Nowhere THEN To(b, b.row, b.col)
           ELSE At(Steps(LAMBDA p : NextWord(b.lines, p.row, p.col, FALSE), first, n - 1)),
         To(b, b.row, Least(Len(Line(b)), b.col + 1)), To(b, b.row, Len(Line(b))),
         To(b, b.row, indent), To(b, b.row, 0), To(b, b.row, LastCol(Line(b))),
         To(b, 1, 0), To(b, Len(b.lines), 0), To(b, Least(n, Len(b.lines)), 0),
         To(b, b.row, Most(0, b.col - 1))}

-----------------------------------------------------------------------------
TextOf(snapshots) == [i \in 1 .. Len(snapshots) |-> snapshots[i].lines]
SizeOf(text) ==
    Len(text) - 1 + Cardinality({p \in (1 .. Len(text)) \X (1 .. MaxText + 1) :
                                   p[2] <= Len(text[p[1]])})

\* An edit and what it replaces; one that changes nothing may cost the redo.
Edited(b) ==
    /\ edits < MaxEdits /\ b # buffer /\ SizeOf(b.lines) <= MaxText
    /\ edits' = edits + 1
    /\ buffer' = b
    /\ past' = IF b.lines = buffer.lines THEN past ELSE Append(past, buffer.lines)
    /\ future' = IF b.lines = buffer.lines THEN future ELSE <<>>

\* The payload of set_text (also after an editor), of a paste and of a completion:
\* texts the buffer may start with.
Type == \E c \in Char : Edited(Insert(buffer, <<<<c>>>>))
Paste == \E text \in FirstText : Edited(Insert(buffer, text))
Newline == Edited(Insert(buffer, <<<<>>, <<>>>>))
EraseKey ==
    \E b \in {Backspace(buffer), Delete(buffer), DeleteWordLeft(buffer),
              DeleteWordRight(buffer), KillLineRight(buffer), KillLineLeft(buffer)} : Edited(b)
NewText == \E text \in FirstText : Edited(SetText(buffer, text))
\* openInExternalEditor: the snapshot is taken before the editor runs, which may fail.
EditorFails == Edited(PushUndo(buffer))
Complete ==
    \E text \in FirstText, c \in 0 .. buffer.col :
      Edited(Replace(buffer, buffer.row, c, buffer.row, buffer.col, text))
VimEdit == \E n \in 1 .. MaxCount : \E b \in VimEdits(buffer, n) : Edited(b)

Move ==
    /\ buffer' \in {Left(buffer), Right(buffer), WordLeft(buffer), WordRight(buffer),
                    UpDown(buffer, buffer.row - 1), UpDown(buffer, buffer.row + 1),
                    To(buffer, buffer.row, 0), To(buffer, buffer.row, Len(Line(buffer)))}
    /\ UNCHANGED <<past, future, edits>>
VimMove ==
    /\ \E n \in 1 .. MaxCount : buffer' \in VimMoves(buffer, n)
    /\ UNCHANGED <<past, future, edits>>

Restored(b, s) == [b EXCEPT !.lines = s.lines, !.row = s.row, !.col = s.col]
Undo ==
    /\ buffer.undo # <<>>
    /\ LET s == Last(buffer.undo) IN
       /\ buffer' = [Restored(buffer, s) EXCEPT !.undo = Front(@),
                                                !.redo = Append(@, Snapshot(buffer))]
       /\ IF s.lines = buffer.lines THEN UNCHANGED <<past, future>>
          ELSE past' = Front(past) /\ future' = <<buffer.lines>> \o future
    /\ UNCHANGED edits
Redo ==
    /\ buffer.redo # <<>>
    /\ LET s == Last(buffer.redo) IN
       /\ buffer' = [Restored(buffer, s) EXCEPT !.redo = Front(@),
                                                !.undo = Append(@, Snapshot(buffer))]
       /\ IF s.lines = buffer.lines THEN UNCHANGED <<past, future>>
          ELSE past' = Append(past, buffer.lines) /\ future' = Tail(future)
    /\ UNCHANGED edits

TextNext ==
    \/ Type \/ Paste \/ Newline \/ EraseKey \/ NewText \/ EditorFails \/ Complete \/ VimEdit
    \/ Move \/ VimMove \/ Undo \/ Redo
TextSpec == TextInit /\ [][TextNext]_textVars

-----------------------------------------------------------------------------
InText(s) == s.row \in 1 .. Len(s.lines) /\ s.col \in 0 .. Len(s.lines[s.row])
TextTypeOK ==
    /\ buffer.lines \in Seq(Seq(Char)) /\ InText(buffer)
    /\ Len(buffer.undo) <= HistoryLimit
    /\ \A s \in ToSet(buffer.undo \o buffer.redo) : InText(s)
    /\ past \in Seq(Seq(Seq(Char))) /\ future \in Seq(Seq(Seq(Char)))
    /\ edits \in 0 .. MaxEdits

\* Equal neighbours count once: an edit may take a snapshot and change nothing.
Condensed(texts) ==
    LET keep == {i \in DOMAIN texts : i > 1 => texts[i - 1] # texts[i]}
    IN  [i \in 1 .. Cardinality(keep) |->
           texts[CHOOSE j \in keep : Cardinality({k \in keep : k <= j}) = i]]
Undoable == Condensed(TextOf(buffer.undo) \o <<buffer.lines>>)
Redoable == Condensed(<<buffer.lines>> \o TextOf(Reverse(buffer.redo)))

(* Undo leads back through exactly the texts that edits replaced, one after  *)
(* the other and none left out, as far as the limit of the stack goes; redo  *)
(* leads only to texts that were undone and that no edit has replaced since. *)
HistoryIsFaithful ==
    /\ IsSuffix(Undoable, Condensed(past \o <<buffer.lines>>))
    /\ edits <= HistoryLimit => Undoable = Condensed(past \o <<buffer.lines>>)
    /\ IsPrefix(Redoable, Condensed(<<buffer.lines>> \o future))
=============================================================================
