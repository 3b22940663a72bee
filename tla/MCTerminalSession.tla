------------------------ MODULE MCTerminalSession ------------------------
(* Small instances of TerminalSession for TLC.                             *)
EXTENDS TerminalSession

NoThought == [thought |-> FALSE, text |-> FALSE, finish |-> FALSE, call |-> "no"]
MCChunk == {[NoThought EXCEPT !.text = TRUE, !.finish = TRUE],
            [NoThought EXCEPT !.call = "mutator"],
            [NoThought EXCEPT !.thought = TRUE, !.call = "reader"]}
\* Only what is harmless, or one kind of trouble at a time.
MCWorld == {Calm, {"break", "long", "limit"}, {"break", "quota"},
            {"break", "loop", "thought"}, {"esc", "quota"}, {"esc", "command"}}
MCBreak == {{"break"}}
=============================================================================
