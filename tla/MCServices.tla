----------------------------- MODULE MCServices -----------------------------
(* Small instances of Services for TLC.                                    *)
EXTENDS Services, TLC

CONSTANTS e1, e2, f1, f2, o1, o2, x1, x2, c1, c2, l1, l2, b1, b2, b3

TwoFiles == (e1 :> f1) @@ (e2 :> f2)
OneFile == (e1 :> f1) @@ (e2 :> f1)
Diffs(file, sides, faults) == [file |-> file, sides |-> sides, faults |-> faults]
\* One fault at a time; two edits of one file are answered on one side, or
\* nothing fails.
MCIdeWorld ==
    {Diffs(TwoFiles, {"cli", "ide"}, f) :
        f \in {{}, {"open"}, {"close"}, {"twice"}, {"off"}, {"drop"}}}
    \cup {Diffs(OneFile, {s}, f) :
        s \in {"cli", "ide"}, f \in {{}, {"open"}, {"close"}, {"off"}, {"drop"}}}
    \cup {Diffs(OneFile, {"cli", "ide"}, {})}

MCMcpWorld == {{}, {"overlap"}, {"fail"}, {"drop"}}

Tokens(store, mishaps, first, second) ==
    [store |-> store, mishaps |-> mishaps, stored |-> (o1 :> first) @@ (o2 :> second)]
Troubles == {"revoked", "refused", "denied", "expiry"}
MCLoginWorld ==
    {Tokens("plain", Troubles, "expired", "none"), Tokens("plain", Troubles, "fresh", "none"),
     Tokens("plain", {}, "none", "none"), Tokens("encrypted", Troubles, "expired", "fresh"),
     Tokens("encrypted", {}, "none", "none")}

MCShellWorld == [method : {"pty", "child"}, heeds : {{}, {"SIGINT", "SIGTERM"}}]

MCText == {<<<<>>, <<"emoji">>>>}

Keyboard(kitty, kinds) == [kitty |-> kitty, kinds |-> kinds]
MCKeyWorld ==
    {Keyboard(TRUE, {"letter", "backslash", "return", "arrow", "interrupt", "sequence", "unknown"}),
     Keyboard(FALSE, {"letter", "quote", "backslash", "return", "paste-start", "paste-end"})}

Deleting == {"0", "2", "w", "d", "g", "x", ".", "escape", "?"}
Changing == {"2", "h", "w", "i", "c", "C", "$", ".", "escape"}
MCVimWorld == {Deleting, Changing}

Troubled(mishaps, auto) == [mishaps |-> mishaps, auto |-> auto]
MCExtensionWorld ==
    {Troubled(m, a) : m \in {{}, {"download", "refused"}, {"copy", "remove"}, {"renamed", "check"}, {"quit"},
                             {"metadata", "backup"}, {"download", "restore", "tidy"}},
                      a \in {{}, {x1}}}

MCFileCalls == <<"first", "second">>
Editing(jobs, text, together, auto, longer, mishaps) ==
    [jobs |-> jobs, text |-> text, together |-> together, auto |-> auto, longer |-> longer, mishaps |-> mishaps]
ReplaceA == <<"replace", "a">>
ReplaceB == <<"replace", "b">>
Escaped == <<"escaped">>
\* Two calls, one after the other or in one batch, or one call with a proposal that is changed.
MCFileWorld ==
    {Editing(<<ReplaceA, ReplaceB>>, <<"a", "b">>, TRUE, FALSE, FALSE, {"fixer"}),
     Editing(<<ReplaceA, ReplaceB>>, <<"a", "b">>, TRUE, TRUE, FALSE, {"save"}),
     Editing(<<ReplaceA, ReplaceB>>, <<"a", "b">>, FALSE, TRUE, FALSE, {"save", "disk"}),
     Editing(<<ReplaceA, ReplaceA>>, <<"a", "a">>, FALSE, FALSE, TRUE, {"save", "fixer"}),
     Editing(<<ReplaceA, Escaped>>, <<"a", "b">>, TRUE, FALSE, FALSE, {}),
     Editing(<<<<"create">>, <<"write">>>>, <<>>, TRUE, FALSE, FALSE, {"save"})}
    \cup {Editing(<<job>>, <<"a", "b">>, TRUE, FALSE, FALSE, {change, "save", "fixer"}) :
            job \in {ReplaceA, Escaped}, change \in {"ide", "editor"}}
    \cup {Editing(<<Escaped>>, <<"a", "b">>, TRUE, FALSE, FALSE, {"ide", "editor"})}

\* Two chats of a session write to one file.
MCRecordingWorld == [file : {(c1 :> c1) @@ (c2 :> c1)}, usage : BOOLEAN]

Logging(second, mishaps, plain, old, uses) ==
    [session |-> (l1 :> "first") @@ (l2 :> second), mishaps |-> mishaps, plain |-> plain, old |-> old, uses |-> uses]
Checkpoints(mishaps) == Logging("second", mishaps, {"t1"}, {"t1", "t2"}, {"chat"})
Prompts(second, mishaps) == Logging(second, mishaps, {}, {}, {"prompts"})
MCLogWorld ==
    {Checkpoints({}), Checkpoints({"full"}), Prompts("second", {}),
     Prompts("second", {"overlap", "crash"}), Prompts("first", {"overlap"})}

MCBusTool ==
    (b1 :> [name |-> "read_file", class |-> "ReadFile", server |-> NoServer, kind |-> "read"])
    @@ (b2 :> [name |-> "replace", class |-> "Edit", server |-> NoServer, kind |-> "edit"])
    @@ (b3 :> [name |-> "s__tool", class |-> "Mcp", server |-> "s", kind |-> "other"])
NoSettings ==
    [allowedServers |-> {}, trusted |-> {}, allowed |-> {}, excluded |-> {}, excludedServers |-> {},
     autoAccept |-> FALSE, mode |-> "default", nonInteractive |-> FALSE]
Mode == {"default", "auto_edit", "yolo"}
Configured ==
    {[NoSettings EXCEPT !.trusted = {"s"}, !.allowed = {"replace"}, !.excluded = x,
                        !.autoAccept = TRUE, !.mode = m, !.nonInteractive = n] :
        m \in Mode, n \in BOOLEAN, x \in {{}, {"replace"}, {"s__tool"}}}
    \cup {[NoSettings EXCEPT !.allowedServers = {"s"}, !.excludedServers = x, !.mode = m] :
        m \in Mode, x \in {{}, {"s"}}}
Ruling(kind, name, decision, priority) ==
    [kind |-> kind, name |-> name, decision |-> decision, priority |-> priority, since |-> 0]
LaterRules == {Ruling("tool", "ReadFile", "deny", 10), Ruling("any", "", "allow", 10), Ruling("tool", "s__tool", "ask", 50)}
Policy(settings, asks, later, n) == [settings |-> settings, asks |-> asks, rules |-> later, changes |-> n]
\* Settings alone; rules that change while a call asks; calls that ask at once.
MCPolicyWorld ==
    {Policy(s, {}, {}, 0) : s \in Configured}
    \cup {Policy(NoSettings, {b1}, LaterRules, 3), Policy(NoSettings, {b1, b2}, {}, 0),
          Policy([NoSettings EXCEPT !.nonInteractive = TRUE, !.mode = "yolo"], {b1, b2},
                 {Ruling("tool", "Edit", "deny", 100)}, 1)}

MCAtRest == [ide |-> Diffs(TwoFiles, {"cli", "ide"}, {}), mcp |-> {},
             login |-> Tokens("plain", {}, "none", "none"),
             shell |-> [method |-> "pty", heeds |-> {}],
             text |-> <<<<>>, <<"emoji">>>>,
             keys |-> Keyboard(FALSE, {"letter", "quote", "backslash", "return", "paste-start", "paste-end"}),
             vim |-> <<Deleting, TRUE>>,
             extensions |-> Troubled({}, {}),
             files |-> Editing(<<ReplaceA, ReplaceB>>, <<"a", "b">>, TRUE, FALSE, FALSE, {"fixer"}),
             recording |-> [file |-> (c1 :> c1) @@ (c2 :> c1), usage |-> TRUE],
             log |-> Prompts("second", {}),
             bus |-> Policy(NoSettings, {b1, b2}, {}, 0)]
=============================================================================
