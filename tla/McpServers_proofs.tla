------------------------- MODULE McpServers_proofs -------------------------
(***************************************************************************)
(* Proofs about McpServers and McpLogin, for every set of servers and      *)
(* every combination of mishaps.  Whatever runs at the same time, a server *)
(* that never failed is left with a tool that can be called, and with one  *)
(* only when nothing runs at the same time; and a login is not lost unless *)
(* writes of the credentials overlap.                                      *)
(***************************************************************************)
EXTENDS McpServers, FiniteSetTheorems, TLAPS

CONSTANTS OAuthServer, NoOwner, LoginWorld
VARIABLES loginWorld, login, port, tokenFile, torn, saved, overlapped

Login == INSTANCE McpLogin

\* A qualified name is not a plain one: a server's name and two underscores come first.
McpConstants == "plain" \notin Server

RunState == {"idle", "command", "stopping", "discovering", "done"}
McpTypes ==
    /\ run \in [Op -> RunState]
    /\ closing \in [All -> SUBSET Client]
    /\ managed \in [Server -> All \cup {"none"}]
    /\ client \in [Client -> ClientState]
    /\ serverStatus \in [Server -> ServerStatus]
    /\ registry \subseteq Tool

\* Only what is discovered is in progress, and only what an operation has connected
\* works; what is being closed is awaited by the operation that closes it.
ClientInv(c) ==
    /\ InProgress(c) => run[By(c)] = "discovering"
    /\ At(c, "connecting") => client[c].status = "connecting"
    /\ client[c].open /\ ~client[c].faulty => client[c].status \in {"connected", "disconnecting"}
    /\ client[c].status = "disconnecting" =>
         \E o \in All : run[o] = "stopping" /\ c \in closing[o]
\* A tool has the plain name or that of its server.
NamesInv == \A t \in registry : t.full \in {"plain", Of(t.client)}

\* An operation will make new clients of all servers; a client is connected and not
\* about to be closed.
Renews == \E o \in All : run[o] \in {"command", "stopping"}
Useful(c) == client[c].open /\ client[c].status = "connected"
Served(s) ==
    \/ Renews
    \/ \E c \in Client : Of(c) = s /\ (At(c, "connecting") \/ (InProgress(c) /\ Useful(c)))
    \/ \E t \in registry : Of(t.client) = s /\ Useful(t.client)

\* When operations do not overlap: a client that is discovered finds no tools of its
\* server, so that it registers the only ones, and the status follows the last client.
Alone ==
    /\ \A o, p \in Op : IsRunning(o) /\ IsRunning(p) => o = p
    /\ Renews => registry = {}
    /\ \A c \in Client, t \in registry : InProgress(c) => Of(t.client) # Of(c)
    /\ \A t, u \in registry : Of(t.client) = Of(u.client) => t = u
    /\ \A c \in Client : At(c, "prompts") \/ At(c, "tools") =>
         (Sound(Of(c)) => Useful(c) /\ (By(c) # "auth" => serverStatus[Of(c)] = "connected"))
StatusInv(s) ==
    \/ Renews
    \/ \E c \in Client : Of(c) = s /\ InProgress(c)
    \/ serverStatus[s] = "connected"

McpInv ==
    /\ McpTypes
    /\ \A c \in Client : ClientInv(c)
    /\ NamesInv
    /\ \A s \in Discovered : Sound(s) => Served(s)
    /\ ~May("overlap") => Alone
    /\ ~May("overlap") => \A s \in Discovered : Sound(s) => StatusInv(s)
-----------------------------------------------------------------------------
\* Clients, and operations that run.
LEMMA ClientParts ==
    /\ \A c \in Client : By(c) \in Op /\ Of(c) \in Server
    /\ \A c, d \in Client : By(c) = By(d) /\ Of(c) = Of(d) => c = d
    /\ \A o \in Op, s \in Server : <<o, s>> \in Client /\ By(<<o, s>>) = o /\ Of(<<o, s>>) = s
BY DEF Client, By, Of

LEMMA Operations == All \subseteq Op /\ "startup" \in All /\ "refresh" \in All /\ "auth" \in Op /\ "auth" \notin All
BY DEF Op, All

LEMMA RunningIs ==
    ASSUME NEW o, run[o] \in {"command", "stopping", "discovering"} PROVE IsRunning(o)
BY DEF IsRunning

LEMMA ProgressRuns ==
    ASSUME McpInv, NEW c \in Client, InProgress(c)
    PROVE  run[By(c)] = "discovering" /\ IsRunning(By(c)) /\ By(c) \in Op
BY ClientParts DEF McpInv, ClientInv, IsRunning

LEMMA InProgressIs ==
    \A c : InProgress(c) <=> At(c, "connecting") \/ At(c, "prompts") \/ At(c, "tools")
BY DEF InProgress, At

LEMMA RenewsAlone ==
    ASSUME McpInv, ~May("overlap"), Renews, NEW c \in Client
    PROVE  ~InProgress(c)
<1> SUFFICES ASSUME InProgress(c) PROVE FALSE
  OBVIOUS
<1>1. PICK o \in Op : run[o] \in {"command", "stopping"}
  BY Operations DEF Renews
<1>2. IsRunning(o)
  BY <1>1 DEF IsRunning
<1>3. run[By(c)] = "discovering" /\ IsRunning(By(c)) /\ By(c) \in Op
  BY ProgressRuns
<1> QED BY <1>1, <1>2, <1>3 DEF McpInv, Alone

\* A step by an operation that renews all clients.
LEMMA RenewKeeps ==
    ASSUME McpTypes', \A c \in Client : ClientInv(c)', NamesInv',
           NEW o \in All, run'[o] \in {"command", "stopping"},
           ~May("overlap")' => registry' = {} /\ \A p \in Op : IsRunning(p)' => p = o
    PROVE  McpInv'
<1>1. Renews'
  BY DEF Renews
<1>2. \A s \in Discovered' : Served(s)' /\ StatusInv(s)'
  BY <1>1 DEF Served, StatusInv
<1>3. ASSUME ~May("overlap")' PROVE Alone'
  <2>1. registry' = {} /\ \A p \in Op : IsRunning(p)' => p = o
    BY <1>3
  <2>2. ASSUME NEW c \in Client, InProgress(c)' PROVE FALSE
    <3>1. run'[By(c)] = "discovering"
      BY <2>2 DEF ClientInv
    <3>2. IsRunning(By(c))'
      BY <3>1 DEF IsRunning
    <3> QED BY <2>1, <3>1, <3>2, ClientParts
  <2>3. \A c \in Client : ~(At(c, "prompts") \/ At(c, "tools"))'
    BY <2>2 DEF InProgress, At
  <2> QED BY <2>1, <2>2, <2>3 DEF Alone
<1> QED BY <1>2, <1>3 DEF McpInv

\* A step of one client.
LEMMA ClientStepKeeps ==
    ASSUME McpInv, McpTypes', NEW c \in Client,
           UNCHANGED <<mcpWorld, run>>,
           \A o \in All : \A d \in closing[o] \ {c} : d \in closing'[o],
           \A d \in Client \ {c} : client'[d] = client[d],
           \A s \in Server \ {Of(c)} : serverStatus'[s] = serverStatus[s],
           ClientInv(c)',
           client'[c].at # "none" => client[c].at # "none",
           InProgress(c)' => InProgress(c),
           client[c].faulty => client'[c].faulty,
           \/ registry' = registry
           \/ InProgress(c) /\ ~InProgress(c)' /\ registry' = Registered(c),
           McpConstants,
           Sound(Of(c))' => Served(Of(c))',
           InProgress(c) \/ Renews \/ serverStatus' = serverStatus \/ ~Sound(Of(c))',
           ~May("overlap") /\ (At(c, "prompts") \/ At(c, "tools"))' /\ Sound(Of(c))' =>
               (Useful(c) /\ (By(c) # "auth" => serverStatus[Of(c)] = "connected"))',
           ~May("overlap") /\ Sound(Of(c))' => StatusInv(Of(c))'
    PROVE  McpInv'
<1>1. McpTypes /\ NamesInv /\ \A d \in Client : ClientInv(d)
  BY DEF McpInv
<1>2. \A s : Sound(s)' => Sound(s)
  BY DEF Sound
<1>3. \A s \in Discovered' : s \in Discovered
  BY DEF Discovered, At
<1>4. Renews' <=> Renews
  BY DEF Renews
<1>5. \A t \in registry' : t \in registry \/ (InProgress(c) /\ ~InProgress(c)' /\ t = [full |-> NameFor(c), client |-> c])
  BY DEF Registered
<1>6. ASSUME NEW t \in registry, Of(t.client) # Of(c) PROVE t \in registry'
  <2>1. t.full \in {"plain", Of(t.client)} /\ Of(c) # "plain"
    BY <1>1, ClientParts DEF NamesInv, McpConstants
  <2>2. t.full # NameFor(c)
    <3>1. CASE \E u \in registry : u.full = "plain"
      BY <1>6, <2>1, <3>1 DEF NameFor
    <3>2. CASE ~\E u \in registry : u.full = "plain"
      BY <3>2 DEF NameFor
    <3> QED BY <3>1, <3>2
  <2> QED BY <2>2 DEF Registered
<1>7. ASSUME NEW d \in Client \ {c} PROVE ClientInv(d)' /\ (InProgress(d)' <=> InProgress(d))
  BY <1>1 DEF ClientInv, InProgress, At
<1>8. NamesInv'
  BY <1>1, <1>5 DEF NamesInv, NameFor
<1>9. ASSUME NEW s \in Discovered', Sound(s)', s # Of(c) PROVE Served(s)'
  <2>1. Served(s)
    BY <1>2, <1>3, <1>9 DEF McpInv
  <2>2. CASE Renews
    BY <1>4, <2>2 DEF Served
  <2>3. ASSUME NEW d \in Client, Of(d) = s, At(d, "connecting") \/ (InProgress(d) /\ Useful(d))
        PROVE  Served(s)'
    <3>1. d \in Client \ {c}
      BY <1>9, <2>3
    <3>2. client'[d] = client[d] /\ (InProgress(d)' <=> InProgress(d))
      BY <3>1, <1>7
    <3>3. (At(d, "connecting") \/ (InProgress(d) /\ Useful(d)))'
      BY <2>3, <3>2 DEF At, Useful
    <3> QED BY <2>3, <3>3 DEF Served
  <2>4. ASSUME NEW t \in registry, Of(t.client) = s, Useful(t.client) PROVE Served(s)'
    <3>1. t \in registry' /\ t.client \in Client \ {c}
      BY <1>1, <1>6, <1>9, <2>4 DEF McpTypes, Tool
    <3>2. Useful(t.client)'
      BY <2>4, <3>1 DEF Useful
    <3> QED BY <2>4, <3>1, <3>2 DEF Served
  <2> QED BY <2>1, <2>2, <2>3, <2>4 DEF Served
<1>10. ASSUME ~May("overlap") PROVE Alone'
  <2>1. Alone
    BY <1>10 DEF McpInv
  <2>2. \A o \in Op : IsRunning(o)' <=> IsRunning(o)
    BY DEF IsRunning
  <2>3. ASSUME NEW d \in Client, InProgress(c), InProgress(d), Of(d) = Of(c) PROVE d = c
    <3>1. By(d) = By(c)
      <4>1. IsRunning(By(c)) /\ By(c) \in Op
        BY <2>3, ProgressRuns
      <4>2. IsRunning(By(d)) /\ By(d) \in Op
        BY <2>3, ProgressRuns
      <4> QED BY <2>1, <4>1, <4>2 DEF Alone
    <3> QED BY <2>3, <3>1, ClientParts
  <2>5. ASSUME Renews PROVE registry' = {} /\ ~InProgress(c)
    BY <1>10, <2>1, <2>5, RenewsAlone DEF Alone
  <2>6. ASSUME NEW d \in Client, NEW t \in registry', InProgress(d)' PROVE Of(t.client) # Of(d)
    <3>1. InProgress(d)
      BY <1>7, <2>6
    <3>2. CASE t \in registry
      BY <2>1, <3>1, <3>2 DEF Alone
    <3>3. CASE t \notin registry
      BY <1>5, <2>3, <2>6, <3>1, <3>3
    <3> QED BY <3>2, <3>3
  <2>7. ASSUME NEW t \in registry', NEW u \in registry', Of(t.client) = Of(u.client) PROVE t = u
    <3>1. CASE t \in registry /\ u \in registry
      BY <2>1, <2>7, <3>1 DEF Alone
    <3>2. CASE t \in registry /\ u \notin registry
      BY <1>5, <2>1, <2>7, <3>2 DEF Alone
    <3>3. CASE t \notin registry /\ u \in registry
      BY <1>5, <2>1, <2>7, <3>3 DEF Alone
    <3>4. CASE t \notin registry /\ u \notin registry
      BY <1>5, <3>4
    <3> QED BY <3>1, <3>2, <3>3, <3>4
  <2>8. ASSUME NEW d \in Client, (At(d, "prompts") \/ At(d, "tools"))', Sound(Of(d))'
        PROVE  (Useful(d) /\ (By(d) # "auth" => serverStatus[Of(d)] = "connected"))'
    <3>1. CASE d = c
      BY <1>10, <2>8, <3>1
    <3>2. CASE d # c
      <4>1. client'[d] = client[d] /\ Of(d) \in Server
        BY <3>2, ClientParts
      <4>2. Useful(d) /\ (By(d) # "auth" => serverStatus[Of(d)] = "connected")
        BY <1>2, <2>1, <2>8, <4>1 DEF Alone, At
      <4>3. InProgress(d) /\ IsRunning(By(d)) /\ By(d) \in Op /\ ~Renews
        <5>1. InProgress(d)
          BY <2>8, <4>1 DEF InProgress, At
        <5>2. run[By(d)] = "discovering" /\ IsRunning(By(d)) /\ By(d) \in Op
          BY <5>1, ProgressRuns
        <5>3. ~Renews
          BY <1>10, <5>1, RenewsAlone
        <5> QED BY <5>1, <5>2, <5>3
      <4>4. serverStatus'[Of(d)] = serverStatus[Of(d)]
        BY <2>3, <2>8, <3>2, <4>1, <4>3
      <4> QED BY <4>1, <4>2, <4>4 DEF Useful
    <3> QED BY <3>1, <3>2
  <2> QED BY <1>4, <2>1, <2>2, <2>5, <2>6, <2>7, <2>8 DEF Alone
<1>11. ASSUME ~May("overlap"), NEW s \in Discovered', Sound(s)', s # Of(c) PROVE StatusInv(s)'
  <2>1. StatusInv(s) /\ s \in Server
    BY <1>2, <1>3, <1>11 DEF McpInv, Discovered
  <2> QED BY <1>4, <1>7, <1>11, <2>1 DEF StatusInv
<1>12. ~May("overlap")' <=> ~May("overlap")
  BY DEF May
<1> QED
  BY <1>1, <1>7, <1>8, <1>9, <1>10, <1>11, <1>12 DEF McpInv
-----------------------------------------------------------------------------
\* The steps of one client.
LEMMA ConnectedKeeps ==
    ASSUME McpInv, McpConstants, NEW c \in Client, Connected(c)
    PROVE  McpInv'
<1>1. McpTypes /\ ClientInv(c) /\ client[c] \in ClientState /\ Of(c) \in Server
  BY ClientParts DEF McpInv, McpTypes
<1>2. PICK k \in ClientState :
        /\ client' = [client EXCEPT ![c] = k] /\ k.at = "prompts" /\ k.open /\ k.status = "connected"
        /\ k.faulty = client[c].faulty
  <2>1. PICK k : k = [client[c] EXCEPT !.at = "prompts", !.open = TRUE, !.status = "connected"]
    OBVIOUS
  <2>2. k \in ClientState /\ k.at = "prompts" /\ k.open /\ k.status = "connected" /\ k.faulty = client[c].faulty
    BY <1>1, <2>1 DEF ClientState, ServerStatus
  <2>3. client' = [client EXCEPT ![c] = k]
    BY <2>1 DEF Connected
  <2> QED BY <2>2, <2>3
<1>3. /\ client'[c] = k /\ \A d \in Client \ {c} : client'[d] = client[d]
      /\ client' \in [Client -> ClientState]
  BY <1>1, <1>2 DEF McpTypes
<1>4. /\ UNCHANGED <<mcpWorld, run, closing, managed, registry>>
      /\ client[c].at = "connecting"
      /\ serverStatus' = IF By(c) = "auth" THEN serverStatus
                         ELSE [serverStatus EXCEPT ![Of(c)] = "connected"]
  BY DEF Connected, At
<1>5. McpTypes' /\ (By(c) # "auth" => serverStatus'[Of(c)] = "connected")
  BY <1>1, <1>3, <1>4 DEF McpTypes, ServerStatus
<1>6. InProgress(c) /\ InProgress(c)' /\ Useful(c)'
  BY <1>2, <1>3, <1>4 DEF InProgress, Useful
<1>7. ClientInv(c)'
  BY <1>1, <1>2, <1>3, <1>4, <1>6 DEF ClientInv, At
<1>8. Served(Of(c))' /\ StatusInv(Of(c))'
  BY <1>6 DEF Served, StatusInv
<1>9. \A s \in Server \ {Of(c)} : serverStatus'[s] = serverStatus[s]
  BY <1>1, <1>4 DEF McpTypes
<1> QED
  BY <1>2, <1>3, <1>4, <1>5, <1>6, <1>7, <1>8, <1>9, ClientStepKeeps

LEMMA ConnectFailsKeeps ==
    ASSUME McpInv, McpConstants, NEW c \in Client, ConnectFails(c)
    PROVE  McpInv'
<1>1. McpTypes /\ ClientInv(c) /\ client[c] \in ClientState /\ Of(c) \in Server
  BY ClientParts DEF McpInv, McpTypes
<1>2. PICK k \in ClientState :
        /\ client' = [client EXCEPT ![c] = k]
        /\ k.at = "failed" /\ k.faulty /\ k.status = "disconnected"
  <2>1. PICK k : k = [client[c] EXCEPT !.at = "failed", !.status = "disconnected", !.faulty = TRUE]
    OBVIOUS
  <2>2. /\ k \in ClientState
        /\ k.at = "failed" /\ k.faulty /\ k.status = "disconnected"
    BY <1>1, <2>1 DEF ClientState, ServerStatus
  <2>3. client' = [client EXCEPT ![c] = k]
    BY <2>1 DEF ConnectFails
  <2> QED BY <2>2, <2>3
<1>3. /\ client'[c] = k /\ \A d \in Client \ {c} : client'[d] = client[d]
      /\ client' \in [Client -> ClientState]
  BY <1>1, <1>2 DEF McpTypes
<1>4. /\ UNCHANGED <<mcpWorld, run, closing, managed, registry>>
      /\ client[c].at = "connecting"
      /\ serverStatus' = [serverStatus EXCEPT ![Of(c)] = "disconnected"]
  BY DEF ConnectFails, At
<1>5. McpTypes'
  BY <1>1, <1>3, <1>4 DEF McpTypes, ServerStatus
<1>6. InProgress(c) /\ ~InProgress(c)' /\ ~At(c, "prompts")' /\ ~At(c, "tools")'
  BY <1>2, <1>3, <1>4 DEF InProgress, At
<1>7. ClientInv(c)' /\ ~Sound(Of(c))'
  BY <1>2, <1>3, <1>6 DEF ClientInv, At, Sound
<1>8. \A s \in Server \ {Of(c)} : serverStatus'[s] = serverStatus[s]
  BY <1>1, <1>4 DEF McpTypes
<1> QED
  BY <1>2, <1>3, <1>4, <1>5, <1>6, <1>7, <1>8, ClientStepKeeps

\* What serves a server beside the client that takes the step still does.
LEMMA OthersServe ==
    ASSUME McpInv, NEW c \in Client, UNCHANGED run, registry \subseteq registry',
           \A d \in Client \ {c} : client'[d] = client[d],
           client[c].at # "none", Sound(Of(c)),
           Useful(c) => Useful(c)',
           (At(c, "connecting") \/ (InProgress(c) /\ Useful(c))) => Served(Of(c))'
    PROVE  Served(Of(c))'
<1>1. Served(Of(c))
  BY ClientParts DEF McpInv, Discovered, At
<1>2. CASE Renews
  BY <1>2 DEF Renews, Served
<1>3. ASSUME NEW d \in Client, Of(d) = Of(c), At(d, "connecting") \/ (InProgress(d) /\ Useful(d))
      PROVE  Served(Of(c))'
  <2>1. CASE d = c
    BY <1>3, <2>1
  <2>2. CASE d # c
    <3>1. client'[d] = client[d]
      BY <2>2
    <3>2. (At(d, "connecting") \/ (InProgress(d) /\ Useful(d)))'
      BY <1>3, <3>1 DEF At, Useful, InProgress
    <3> QED BY <1>3, <3>2 DEF Served
  <2> QED BY <2>1, <2>2
<1>4. ASSUME NEW t \in registry, Of(t.client) = Of(c), Useful(t.client) PROVE Served(Of(c))'
  <2>1. t \in registry' /\ t.client \in Client
    BY DEF McpInv, McpTypes, Tool
  <2>2. Useful(t.client)'
    BY <1>4, <2>1 DEF Useful
  <2> QED BY <1>4, <2>1, <2>2 DEF Served
<1> QED BY <1>1, <1>2, <1>3, <1>4 DEF Served

LEMMA PromptsKeeps ==
    ASSUME McpInv, McpConstants, NEW c \in Client, Prompts(c)
    PROVE  McpInv'
<1>1. McpTypes /\ ClientInv(c) /\ client[c] \in ClientState /\ Of(c) \in Server
  BY ClientParts DEF McpInv, McpTypes
<1>2. PICK k \in ClientState :
        /\ client' = [client EXCEPT ![c] = k]
        /\ k.at \in {"failed", "tools"}
        /\ By(c) = "auth" \/ client[c].status = "connected" => k.at = "tools"
        /\ k.open = client[c].open /\ k.status = client[c].status /\ k.faulty = client[c].faulty
  <2>1. PICK found \in BOOLEAN :
          client' = [client EXCEPT
            ![c].prompts = found,
            ![c].at = IF By(c) # "auth" /\ client[c].status # "connected" THEN "failed" ELSE "tools"]
    BY <1>1 DEF Prompts, PromptsFound, ClientState
  <2>2. PICK at \in {"failed", "tools"} :
          at = IF By(c) # "auth" /\ client[c].status # "connected" THEN "failed" ELSE "tools"
    OBVIOUS
  <2>3. PICK k : k = [client[c] EXCEPT !.prompts = found, !.at = at]
    OBVIOUS
  <2>4. /\ k \in ClientState /\ k.at = at
        /\ k.open = client[c].open /\ k.status = client[c].status /\ k.faulty = client[c].faulty
    BY <1>1, <2>3 DEF ClientState
  <2>5. client' = [client EXCEPT ![c] = k]
    BY <2>1, <2>2, <2>3
  <2> QED BY <2>2, <2>4, <2>5
<1>3. /\ client'[c] = k /\ \A d \in Client \ {c} : client'[d] = client[d]
      /\ client' \in [Client -> ClientState]
  BY <1>1, <1>2 DEF McpTypes
<1>4. /\ UNCHANGED <<mcpWorld, run, closing, managed, serverStatus, registry>>
      /\ client[c].at = "prompts"
  BY DEF Prompts, At
<1>5. McpTypes'
  BY <1>1, <1>3, <1>4 DEF McpTypes
<1>6. InProgress(c) /\ (Useful(c)' <=> Useful(c)) /\ ~At(c, "connecting") /\ ~At(c, "connecting")'
  BY <1>2, <1>3, <1>4 DEF InProgress, Useful, At
<1>7. ClientInv(c)'
  BY <1>1, <1>2, <1>3, <1>4, <1>6 DEF ClientInv
<1>8. Useful(c) => InProgress(c)'
  BY <1>2, <1>3 DEF Useful, InProgress
<1>9. Sound(Of(c))' => Sound(Of(c))
  BY <1>2, <1>3 DEF Sound
<1>10. Sound(Of(c))' => Served(Of(c))'
  <2>1. Useful(c) => Served(Of(c))'
    BY <1>6, <1>8 DEF Served
  <2> QED BY <1>3, <1>4, <1>6, <1>9, <2>1, OthersServe
<1>11. ~May("overlap") /\ Sound(Of(c))' =>
         Useful(c)' /\ (By(c) # "auth" => serverStatus'[Of(c)] = "connected") /\ StatusInv(Of(c))'
  <2>1. ~May("overlap") /\ Sound(Of(c))' => Useful(c) /\ (By(c) # "auth" => serverStatus[Of(c)] = "connected")
    BY <1>4, <1>9 DEF McpInv, Alone, At
  <2> QED BY <1>4, <1>6, <1>8, <2>1 DEF StatusInv
<1> QED
  BY <1>2, <1>3, <1>4, <1>5, <1>6, <1>7, <1>10, <1>11, ClientStepKeeps

LEMMA ToolsFoundKeeps ==
    ASSUME McpInv, McpConstants, NEW c \in Client, ToolsFound(c)
    PROVE  McpInv'
<1>1. McpTypes /\ ClientInv(c) /\ client[c] \in ClientState /\ Of(c) \in Server
  BY ClientParts DEF McpInv, McpTypes
<1>2. PICK k \in ClientState :
        /\ client' = [client EXCEPT ![c] = k]
        /\ k.at = "done" /\ k.open = client[c].open /\ k.status = client[c].status /\ k.faulty = client[c].faulty
  <2>1. PICK k : k = [client[c] EXCEPT !.at = "done"]
    OBVIOUS
  <2>2. /\ k \in ClientState
        /\ k.at = "done" /\ k.open = client[c].open /\ k.status = client[c].status /\ k.faulty = client[c].faulty
    BY <1>1, <2>1 DEF ClientState, ServerStatus
  <2>3. client' = [client EXCEPT ![c] = k]
    BY <2>1 DEF ToolsFound
  <2> QED BY <2>2, <2>3
<1>3. /\ client'[c] = k /\ \A d \in Client \ {c} : client'[d] = client[d]
      /\ client' \in [Client -> ClientState]
  BY <1>1, <1>2 DEF McpTypes
<1>4. /\ UNCHANGED <<mcpWorld, run, closing, managed>>
      /\ client[c].at = "tools" /\ client[c].open /\ registry' = Registered(c)
      /\ serverStatus' = IF By(c) = "auth" THEN [serverStatus EXCEPT ![Of(c)] = "connected"]
                         ELSE serverStatus
  BY DEF ToolsFound, At
<1>5. McpTypes'
  <2>1. NameFor(c) \in {"plain"} \cup Server
    BY <1>1 DEF NameFor
  <2>2. registry' \subseteq Tool
    BY <1>1, <1>4, <2>1 DEF McpTypes, Registered, Tool
  <2> QED BY <1>1, <1>3, <1>4, <2>2 DEF McpTypes, ServerStatus
<1>6. InProgress(c) /\ ~InProgress(c)' /\ (Useful(c)' <=> Useful(c)) /\ Renews' = Renews
      /\ ~(At(c, "prompts") \/ At(c, "tools"))'
  BY <1>2, <1>3, <1>4 DEF InProgress, Useful, At, Renews
<1>7. ClientInv(c)'
  BY <1>1, <1>2, <1>3, <1>4, <1>6 DEF ClientInv, At
<1>8. Sound(Of(c))' => Sound(Of(c)) /\ ~client[c].faulty
  BY <1>2, <1>3 DEF Sound
<1>9. ASSUME Sound(Of(c))' PROVE Served(Of(c))'
  <2>1. CASE client[c].status = "connected"
    <3>1. PICK t \in registry' : t.client = c
      <4>1. [full |-> NameFor(c), client |-> c] \in registry'
        BY <1>4 DEF Registered
      <4> QED BY <4>1
    <3>2. Useful(t.client)'
      <4>1. client'[t.client].open /\ client'[t.client].status = "connected"
        BY <1>2, <1>3, <1>4, <2>1, <3>1
      <4> QED BY <4>1 DEF Useful
    <3> QED BY <3>1, <3>2 DEF Served
  <2>2. CASE client[c].status = "disconnecting"
    BY <1>1, <1>6, <2>2 DEF ClientInv, Renews, Served
  <2> QED BY <1>1, <1>4, <1>8, <1>9, <2>1, <2>2 DEF ClientInv
<1>10. ~May("overlap") /\ Sound(Of(c))' => StatusInv(Of(c))'
  <2>1. ~May("overlap") /\ Sound(Of(c)) /\ By(c) # "auth" => serverStatus[Of(c)] = "connected"
    BY <1>4 DEF McpInv, Alone, At
  <2>2. By(c) = "auth" => serverStatus'[Of(c)] = "connected"
    BY <1>1, <1>4 DEF McpTypes
  <2> QED BY <1>4, <1>8, <2>1, <2>2 DEF StatusInv
<1>11. \A s \in Server \ {Of(c)} : serverStatus'[s] = serverStatus[s]
  BY <1>1, <1>4 DEF McpTypes
<1> QED
  BY <1>2, <1>3, <1>4, <1>5, <1>6, <1>7, <1>9, <1>10, <1>11, ClientStepKeeps

LEMMA NoToolsKeeps ==
    ASSUME McpInv, McpConstants, NEW c \in Client, NoTools(c)
    PROVE  McpInv'
<1>1. McpTypes /\ ClientInv(c) /\ client[c] \in ClientState /\ Of(c) \in Server
  BY ClientParts DEF McpInv, McpTypes
<1>2. PICK k \in ClientState :
        /\ client' = [client EXCEPT ![c] = k]
        /\ k.at \in {"done", "failed"} /\ k.status = client[c].status
        /\ k.faulty = (client[c].faulty \/ client[c].open) /\ (k.open => client[c].open)
  <2>1. PICK at \in {"done", "failed"} : at = IF client[c].prompts THEN "done" ELSE "failed"
    OBVIOUS
  <2>2. PICK faulty \in BOOLEAN : faulty = (client[c].faulty \/ client[c].open)
    OBVIOUS
  <2>3. PICK open \in BOOLEAN : open = (client[c].open /\ (By(c) = "auth" => client[c].prompts))
    OBVIOUS
  <2>4. PICK k : k = [client[c] EXCEPT !.at = at, !.faulty = faulty, !.open = open]
    OBVIOUS
  <2>5. k \in ClientState /\ k.at = at /\ k.status = client[c].status /\ k.faulty = faulty /\ k.open = open
    BY <1>1, <2>4 DEF ClientState
  <2>6. client' = [client EXCEPT ![c].at = at, ![c].faulty = faulty, ![c].open = open]
    BY <1>1, <2>1, <2>2, <2>3 DEF NoTools, ClientState
  <2>7. client' = [client EXCEPT ![c] = k]
    BY <2>4, <2>6
  <2> QED BY <2>2, <2>3, <2>5, <2>7
<1>3. /\ client'[c] = k /\ \A d \in Client \ {c} : client'[d] = client[d]
      /\ client' \in [Client -> ClientState]
  BY <1>1, <1>2 DEF McpTypes
<1>4. /\ UNCHANGED <<mcpWorld, run, closing, managed, registry>>
      /\ client[c].at = "tools"
      /\ \/ serverStatus' = serverStatus
         \/ \E s \in ServerStatus : serverStatus' = [serverStatus EXCEPT ![Of(c)] = s]
  BY DEF NoTools, At, ServerStatus
<1>5. McpTypes'
  BY <1>1, <1>3, <1>4 DEF McpTypes
<1>6. InProgress(c) /\ ~InProgress(c)' /\ ~At(c, "connecting") /\ ~(At(c, "prompts") \/ At(c, "tools"))'
  BY <1>2, <1>3, <1>4 DEF InProgress, At
<1>7. ClientInv(c)'
  BY <1>1, <1>2, <1>3, <1>4, <1>6 DEF ClientInv, At, ClientState
<1>8. Sound(Of(c))' => Sound(Of(c)) /\ ~client[c].open
  BY <1>2, <1>3 DEF Sound
<1>9. Sound(Of(c))' => Served(Of(c))'
  BY <1>3, <1>4, <1>6, <1>8, OthersServe DEF Useful
<1>10. ~May("overlap") => ~Sound(Of(c))'
  BY <1>4, <1>8 DEF McpInv, Alone, At, Useful
<1>11. \A s \in Server \ {Of(c)} : serverStatus'[s] = serverStatus[s]
  BY <1>1, <1>4 DEF McpTypes
<1> QED
  BY <1>2, <1>3, <1>4, <1>5, <1>6, <1>7, <1>9, <1>10, <1>11, ClientStepKeeps

LEMMA ClientErrsKeeps ==
    ASSUME McpInv, McpConstants, NEW c \in Client, ClientErrs(c)
    PROVE  McpInv'
<1>1. McpTypes /\ ClientInv(c) /\ client[c] \in ClientState /\ Of(c) \in Server
  BY ClientParts DEF McpInv, McpTypes
<1>2. PICK k \in ClientState :
        /\ client' = [client EXCEPT ![c] = k]
        /\ k.at = client[c].at /\ k.faulty
        /\ \/ k.status = client[c].status
           \/ client[c].status = "connected" /\ k.status = "disconnected"
  <2>1. PICK stays \in BOOLEAN :
          client' = [client EXCEPT ![c].open = stays, ![c].faulty = TRUE,
                       ![c].status = IF (By(c) = "auth" \/ client[c].status = "connected") /\ By(c) # "auth"
                                       THEN "disconnected" ELSE @]
    BY DEF ClientErrs
  <2>2. PICK status \in ServerStatus :
          status = IF (By(c) = "auth" \/ client[c].status = "connected") /\ By(c) # "auth"
                     THEN "disconnected" ELSE client[c].status
    BY <1>1 DEF ServerStatus, ClientState
  <2>3. PICK k : k = [client[c] EXCEPT !.open = stays, !.faulty = TRUE, !.status = status]
    OBVIOUS
  <2>4. k \in ClientState /\ k.at = client[c].at /\ k.faulty /\ k.status = status
    BY <1>1, <2>3 DEF ClientState
  <2>5. client' = [client EXCEPT ![c] = k]
    BY <2>1, <2>2, <2>3
  <2> QED BY <2>2, <2>4, <2>5
<1>3. /\ client'[c] = k /\ \A d \in Client \ {c} : client'[d] = client[d]
      /\ client' \in [Client -> ClientState]
  BY <1>1, <1>2 DEF McpTypes
<1>4. /\ UNCHANGED <<mcpWorld, run, closing, managed, registry>>
      /\ \/ serverStatus' = serverStatus
         \/ serverStatus' = [serverStatus EXCEPT ![Of(c)] = "disconnected"]
  BY DEF ClientErrs
<1>5. McpTypes'
  BY <1>1, <1>3, <1>4 DEF McpTypes, ServerStatus
<1>6. InProgress(c)' <=> InProgress(c)
  BY <1>2, <1>3 DEF InProgress
<1>7. ClientInv(c)' /\ ~Sound(Of(c))'
  BY <1>1, <1>2, <1>3, <1>4, <1>6 DEF ClientInv, At, Sound
<1>8. \A s \in Server \ {Of(c)} : serverStatus'[s] = serverStatus[s]
  BY <1>1, <1>4 DEF McpTypes
<1> QED
  BY <1>2, <1>3, <1>4, <1>5, <1>6, <1>7, <1>8, ClientStepKeeps

LEMMA DisconnectedKeeps ==
    ASSUME McpInv, McpConstants, NEW c \in Client, Disconnected(c)
    PROVE  McpInv'
<1>1. McpTypes /\ ClientInv(c) /\ client[c] \in ClientState /\ Of(c) \in Server
  BY ClientParts DEF McpInv, McpTypes
<1>2. PICK k \in ClientState :
        /\ client' = [client EXCEPT ![c] = k]
        /\ k.at = client[c].at /\ k.faulty = client[c].faulty /\ k.status = "disconnected" /\ ~k.open
  <2>1. PICK k : k = [client[c] EXCEPT !.status = "disconnected", !.open = FALSE]
    OBVIOUS
  <2>2. /\ k \in ClientState
        /\ k.at = client[c].at /\ k.faulty = client[c].faulty /\ k.status = "disconnected" /\ ~k.open
    BY <1>1, <2>1 DEF ClientState, ServerStatus
  <2>3. client' = [client EXCEPT ![c] = k]
    BY <2>1 DEF Disconnected
  <2> QED BY <2>2, <2>3
<1>3. /\ client'[c] = k /\ \A d \in Client \ {c} : client'[d] = client[d]
      /\ client' \in [Client -> ClientState]
  BY <1>1, <1>2 DEF McpTypes
<1>4. /\ UNCHANGED <<mcpWorld, run, managed, registry>>
      /\ client[c].status = "disconnecting"
      /\ serverStatus' = [serverStatus EXCEPT ![Of(c)] = "disconnected"]
      /\ closing' = [o \in All |-> closing[o] \ {c}]
  BY DEF Disconnected
<1>5. McpTypes'
  BY <1>1, <1>3, <1>4 DEF McpTypes, ServerStatus
<1>6. (InProgress(c)' <=> InProgress(c)) /\ Renews /\ Renews'
  BY <1>1, <1>2, <1>3, <1>4 DEF InProgress, ClientInv, Renews
<1>7. ClientInv(c)'
  BY <1>1, <1>2, <1>3, <1>4, <1>6 DEF ClientInv, At
<1>8. Served(Of(c))' /\ StatusInv(Of(c))'
  BY <1>6 DEF Served, StatusInv
<1>9. ~May("overlap") => ~(At(c, "prompts") \/ At(c, "tools"))'
  BY <1>6, RenewsAlone DEF InProgress, At
<1>10. \A s \in Server \ {Of(c)} : serverStatus'[s] = serverStatus[s]
  BY <1>1, <1>4 DEF McpTypes
<1>11. \A o \in All : \A d \in closing[o] \ {c} : d \in closing'[o]
  BY <1>4
<1> QED
  BY <1>2, <1>3, <1>4, <1>5, <1>6, <1>7, <1>8, <1>9, <1>10, <1>11, ClientStepKeeps
-----------------------------------------------------------------------------
\* The steps of the operations.
LEMMA StartsAlone ==
    ASSUME ~May("overlap"), NEW o \in Op, MayStart(o)
    PROVE  \A p \in Op : ~IsRunning(p)
<1>1. IsFiniteSet(Op)
  <2>1. IsFiniteSet({"startup", "refresh"})
    <3>1. IsFiniteSet({"startup"} \cup {"refresh"})
      BY FS_Singleton, FS_AddElement
    <3>2. {"startup"} \cup {"refresh"} = {"startup", "refresh"}
      OBVIOUS
    <3> QED BY <3>1, <3>2
  <2> QED BY <2>1, FS_AddElement DEF Op, All
<1>2. PICK runs : runs = {p \in Op : IsRunning(p)}
  OBVIOUS
<1>3. IsFiniteSet(runs)
  BY <1>1, <1>2, FS_Subset
<1>4. Cardinality(runs) \in Nat
  BY <1>3, FS_CardinalityType
<1>5. Cardinality(runs) < 1
  BY <1>2 DEF MayStart
<1>6. runs = {}
  BY <1>3, <1>4, <1>5, FS_EmptySet
<1> QED BY <1>2, <1>6

LEMMA PromptsOff ==
    ASSUME McpTypes, NEW servers
    PROVE  /\ WithoutPrompts(client, servers) \in [Client -> ClientState]
           /\ \A c \in Client :
                LET k == WithoutPrompts(client, servers)[c]
                IN k.at = client[c].at /\ k.status = client[c].status /\ k.open = client[c].open
                   /\ k.faulty = client[c].faulty
<1>1. ASSUME NEW c \in Client
      PROVE  /\ [client[c] EXCEPT !.prompts = @ /\ Of(c) \notin servers] \in ClientState
             /\ LET k == [client[c] EXCEPT !.prompts = @ /\ Of(c) \notin servers]
                IN k.at = client[c].at /\ k.status = client[c].status /\ k.open = client[c].open
                   /\ k.faulty = client[c].faulty
  <2>1. client[c] \in ClientState
    BY DEF McpTypes
  <2>2. PICK p \in BOOLEAN : p = (client[c].prompts /\ Of(c) \notin servers)
    OBVIOUS
  <2>3. [client[c] EXCEPT !.prompts = p] \in ClientState
    BY <2>1 DEF ClientState
  <2> QED BY <2>1, <2>2, <2>3 DEF ClientState
<1> QED BY <1>1 DEF WithoutPrompts

LEMMA StopKeeps ==
    ASSUME McpInv, NEW o \in All, NEW clients \in [Client -> ClientState],
           \A c \in Client :
             /\ clients[c].at = client[c].at /\ clients[c].status = client[c].status
             /\ clients[c].open = client[c].open /\ clients[c].faulty = client[c].faulty,
           BeginStop(o, clients), UNCHANGED <<mcpWorld, managed>>, registry' \subseteq registry,
           run[o] \in {"idle", "command"},
           ~May("overlap") => registry' = {} /\ \A p \in Op : IsRunning(p) => p = o
    PROVE  McpInv'
<1>1. McpTypes /\ NamesInv /\ \A c \in Client : ClientInv(c)
  BY DEF McpInv
<1>2. /\ run' = [run EXCEPT ![o] = "stopping"]
      /\ closing' = [closing EXCEPT ![o] = Stopped]
      /\ client' = [c \in Client |->
           IF c \in Stopped THEN [clients[c] EXCEPT !.status = "disconnecting"] ELSE clients[c]]
      /\ serverStatus' = [s \in Server |->
           IF \E c \in Stopped : Of(c) = s THEN "disconnecting" ELSE serverStatus[s]]
  BY DEF BeginStop
<1>3. run'[o] = "stopping" /\ closing'[o] = Stopped /\ \A p \in Op \ {o} : run'[p] = run[p]
  BY <1>1, <1>2, Operations DEF McpTypes
<1>4. \A p \in All \ {o} : closing'[p] = closing[p]
  BY <1>1, <1>2 DEF McpTypes
<1>5. ASSUME NEW c \in Client
      PROVE  /\ client'[c] \in ClientState /\ client'[c].at = client[c].at
             /\ client'[c].open = client[c].open /\ client'[c].faulty = client[c].faulty
             /\ client'[c].status = IF c \in Stopped THEN "disconnecting" ELSE client[c].status
  <2>1. clients[c] \in ClientState
    OBVIOUS
  <2>2. [clients[c] EXCEPT !.status = "disconnecting"] \in ClientState
    BY <2>1 DEF ClientState, ServerStatus
  <2> QED BY <1>2, <2>1, <2>2 DEF ClientState
<1>6. McpTypes'
  <2>1. run' \in [Op -> RunState] /\ closing' \in [All -> SUBSET Client]
    BY <1>1, <1>2 DEF McpTypes, RunState, Stopped
  <2>2. client' \in [Client -> ClientState]
    BY <1>2, <1>5
  <2>3. serverStatus' \in [Server -> ServerStatus]
    BY <1>1, <1>2 DEF McpTypes, ServerStatus
  <2> QED BY <1>1, <2>1, <2>2, <2>3 DEF McpTypes
<1>7. ASSUME NEW c \in Client PROVE ClientInv(c)'
  <2>1. ClientInv(c) /\ By(c) \in Op
    BY <1>1, ClientParts
  <2>2. InProgress(c)' => run'[By(c)] = "discovering"
    BY <1>3, <1>5, <2>1 DEF ClientInv, InProgress
  <2>3. At(c, "connecting")' => client'[c].status = "connecting"
    BY <1>5, <2>1 DEF ClientInv, At, Stopped
  <2>4. client'[c].open /\ ~client'[c].faulty => client'[c].status \in {"connected", "disconnecting"}
    BY <1>5, <2>1 DEF ClientInv
  <2>5. ASSUME client'[c].status = "disconnecting"
        PROVE  \E p \in All : run'[p] = "stopping" /\ c \in closing'[p]
    <3>1. CASE c \in Stopped
      BY <1>3, <3>1
    <3>2. CASE c \notin Stopped
      <4>1. PICK p \in All : run[p] = "stopping" /\ c \in closing[p]
        BY <1>5, <2>1, <2>5, <3>2 DEF ClientInv
      <4>2. p \in Op /\ p # o
        BY <4>1, Operations
      <4> QED BY <1>3, <1>4, <4>1, <4>2
    <3> QED BY <3>1, <3>2
  <2> QED BY <2>2, <2>3, <2>4, <2>5 DEF ClientInv
<1>8. NamesInv'
  BY <1>1 DEF NamesInv
<1>9. \A p \in Op : IsRunning(p)' => IsRunning(p) \/ p = o
  BY <1>3 DEF IsRunning
<1>10. ~May("overlap")' => registry' = {} /\ \A p \in Op : IsRunning(p)' => p = o
  BY <1>9 DEF May
<1> QED BY <1>3, <1>6, <1>7, <1>8, <1>10, RenewKeeps

LEMMA RemovesAll == ASSUME McpTypes PROVE Removed(Server) = {}
BY ClientParts DEF McpTypes, Removed, Tool

LEMMA StartupKeeps ==
    ASSUME McpInv, Startup
    PROVE  McpInv'
<1>1. McpTypes /\ NamesInv /\ \A c \in Client : ClientInv(c)
  BY DEF McpInv
<1>2. /\ MayStart("startup") /\ run["startup"] = "idle" /\ registry' = {}
      /\ client' = WithoutPrompts(client, Server)
      /\ run' = [run EXCEPT !["startup"] = "command"]
      /\ UNCHANGED <<mcpWorld, closing, managed, serverStatus>>
  BY <1>1, RemovesAll DEF Startup, MayStart
<1>3. run'["startup"] = "command" /\ \A p \in Op \ {"startup"} : run'[p] = run[p]
  BY <1>1, <1>2, Operations DEF McpTypes
<1>4. /\ client' \in [Client -> ClientState]
      /\ \A c \in Client :
           /\ client'[c].at = client[c].at /\ client'[c].status = client[c].status
           /\ client'[c].open = client[c].open /\ client'[c].faulty = client[c].faulty
  BY <1>1, <1>2, PromptsOff
<1>5. McpTypes'
  BY <1>1, <1>2, <1>4 DEF McpTypes, RunState
<1>6. ASSUME NEW c \in Client PROVE ClientInv(c)'
  <2>1. ClientInv(c) /\ By(c) \in Op
    BY <1>1, ClientParts
  <2>2. InProgress(c)' => run'[By(c)] = "discovering"
    BY <1>2, <1>3, <1>4, <2>1 DEF ClientInv, InProgress
  <2>3. ASSUME client'[c].status = "disconnecting"
        PROVE  \E p \in All : run'[p] = "stopping" /\ c \in closing'[p]
    <3>1. PICK p \in All : run[p] = "stopping" /\ c \in closing[p]
      BY <1>4, <2>1, <2>3 DEF ClientInv
    <3> QED BY <1>2, <1>3, <3>1, Operations
  <2> QED BY <1>4, <2>1, <2>2, <2>3 DEF ClientInv, At
<1>7. NamesInv'
  BY <1>2 DEF NamesInv
<1>8. ~May("overlap") => \A p \in Op : ~IsRunning(p)
  BY <1>2, StartsAlone, Operations
<1>9. ~May("overlap")' => registry' = {} /\ \A p \in Op : IsRunning(p)' => p = "startup"
  BY <1>2, <1>3, <1>8 DEF May, IsRunning
<1> QED BY <1>3, <1>5, <1>6, <1>7, <1>9, RenewKeeps, Operations

LEMMA CommandEndsKeeps ==
    ASSUME McpInv, CommandEnds
    PROVE  McpInv'
<1>1. BeginStop("startup", client) /\ UNCHANGED <<mcpWorld, managed, registry>> /\ run["startup"] = "command"
  BY DEF CommandEnds
<1>2. client \in [Client -> ClientState] /\ "startup" \in All /\ "startup" \in Op /\ Renews
  BY <1>1, Operations DEF McpInv, McpTypes, Renews
<1>3. ~May("overlap") => registry' = {} /\ \A p \in Op : IsRunning(p) => p = "startup"
  BY <1>1, <1>2 DEF McpInv, Alone, IsRunning
<1> QED BY <1>1, <1>2, <1>3, StopKeeps

LEMMA RefreshKeeps ==
    ASSUME McpInv, Refresh
    PROVE  McpInv'
<1>1. McpTypes
  BY DEF McpInv
<1>2. /\ BeginStop("refresh", WithoutPrompts(client, Server)) /\ UNCHANGED <<mcpWorld, managed>>
      /\ registry' = {} /\ MayStart("refresh") /\ run["refresh"] = "idle"
  BY <1>1, RemovesAll DEF Refresh, MayStart
<1>3. ~May("overlap") => registry' = {} /\ \A p \in Op : IsRunning(p) => p = "refresh"
  BY <1>2, StartsAlone, Operations
<1>4. PICK clients \in [Client -> ClientState] :
        /\ clients = WithoutPrompts(client, Server)
        /\ \A c \in Client :
             /\ clients[c].at = client[c].at /\ clients[c].status = client[c].status
             /\ clients[c].open = client[c].open /\ clients[c].faulty = client[c].faulty
  BY <1>1, PromptsOff
<1> QED BY <1>2, <1>3, <1>4, StopKeeps, Operations

LEMMA EndStopKeeps ==
    ASSUME McpInv, NEW o \in All, EndStop(o)
    PROVE  McpInv'
<1>1. McpTypes /\ NamesInv /\ \A c \in Client : ClientInv(c)
  BY DEF McpInv
<1>2. /\ run[o] = "stopping" /\ closing[o] = {} /\ o \in Op
      /\ run' = [run EXCEPT ![o] = "discovering"]
      /\ managed' = [s \in Server |-> o]
      /\ client' = [c \in Client |-> IF By(c) = o THEN Connecting(c) ELSE client[c]]
      /\ serverStatus' = [s \in Server |-> "connecting"]
      /\ UNCHANGED <<mcpWorld, closing, registry>>
  BY Operations DEF EndStop
<1>3. run'[o] = "discovering" /\ \A p \in Op \ {o} : run'[p] = run[p]
  BY <1>1, <1>2 DEF McpTypes
<1>4. \A c \in Client : client'[c] = IF By(c) = o THEN Connecting(c) ELSE client[c]
  BY <1>2
<1>5. ASSUME NEW c
      PROVE  /\ Connecting(c) \in ClientState /\ Connecting(c).at = "connecting"
             /\ Connecting(c).status = "connecting" /\ ~Connecting(c).open
  BY DEF Connecting, NoClient, ClientState, ServerStatus
<1>6. McpTypes'
  <2>1. client' \in [Client -> ClientState]
    BY <1>1, <1>2, <1>5 DEF McpTypes
  <2>2. run' \in [Op -> RunState]
    BY <1>1, <1>2 DEF McpTypes, RunState
  <2> QED BY <1>1, <1>2, <2>1, <2>2 DEF McpTypes, ServerStatus
<1>7. ASSUME NEW c \in Client PROVE ClientInv(c)'
  <2>1. CASE By(c) = o
    BY <1>3, <1>4, <1>5, <2>1 DEF ClientInv, At
  <2>2. CASE By(c) # o
    <3>1. ClientInv(c) /\ By(c) \in Op /\ client'[c] = client[c]
      BY <1>1, <1>4, <2>2, ClientParts
    <3>2. InProgress(c)' => run'[By(c)] = "discovering"
      BY <1>3, <2>2, <3>1 DEF ClientInv, InProgress
    <3>3. ASSUME client'[c].status = "disconnecting"
          PROVE  \E p \in All : run'[p] = "stopping" /\ c \in closing'[p]
      <4>1. PICK p \in All : run[p] = "stopping" /\ c \in closing[p]
        BY <3>1, <3>3 DEF ClientInv
      <4> QED BY <1>2, <1>3, <4>1, Operations
    <3> QED BY <3>1, <3>2, <3>3 DEF ClientInv, At
  <2> QED BY <2>1, <2>2
<1>8. ASSUME NEW s \in Server PROVE Served(s)' /\ StatusInv(s)'
  <2>1. <<o, s>> \in Client /\ By(<<o, s>>) = o /\ Of(<<o, s>>) = s
    BY <1>2, ClientParts
  <2>2. At(<<o, s>>, "connecting")' /\ InProgress(<<o, s>>)'
    BY <1>4, <1>5, <2>1 DEF At, InProgress
  <2> QED BY <2>1, <2>2 DEF Served, StatusInv
<1>9. \A s \in Discovered' : s \in Server
  BY DEF Discovered
<1>10. ASSUME ~May("overlap") PROVE Alone'
  <2>1. Alone /\ registry = {}
    BY <1>2, <1>10 DEF McpInv, Alone, Renews
  <2>2. \A p \in Op : IsRunning(p)' <=> IsRunning(p)
    BY <1>2, <1>3 DEF IsRunning
  <2>3. ASSUME NEW c \in Client, (At(c, "prompts") \/ At(c, "tools"))' PROVE FALSE
    <3>1. client'[c] = client[c]
      BY <1>4, <1>5, <2>3 DEF At
    <3>2. InProgress(c) /\ Renews
      BY <1>2, <2>3, <3>1 DEF InProgress, At, Renews
    <3> QED BY <1>10, <3>2, RenewsAlone
  <2> QED BY <1>2, <2>1, <2>2, <2>3 DEF Alone
<1>11. NamesInv' /\ (~May("overlap")' <=> ~May("overlap"))
  BY <1>1, <1>2 DEF NamesInv, May
<1> QED BY <1>6, <1>7, <1>8, <1>9, <1>10, <1>11 DEF McpInv

LEMMA DiscoverKeeps ==
    ASSUME McpInv, NEW s \in Server, DiscoverForServer(s)
    PROVE  McpInv'
<1>1. McpTypes /\ NamesInv /\ \A c \in Client : ClientInv(c)
  BY DEF McpInv
<1>2. PICK me \in Client : me = <<"auth", s>> /\ By(me) = "auth" /\ Of(me) = s
  BY ClientParts, Operations
<1>3. PICK quiet \in [Client -> ClientState] :
        /\ quiet = WithoutPrompts(client, {s})
        /\ \A c \in Client :
             /\ quiet[c].at = client[c].at /\ quiet[c].status = client[c].status
             /\ quiet[c].open = client[c].open /\ quiet[c].faulty = client[c].faulty
  BY <1>1, PromptsOff
<1>4. /\ MayStart("auth") /\ run["auth"] = "idle"
      /\ run' = [run EXCEPT !["auth"] = "discovering"]
      /\ registry' = Removed({s})
      /\ client' = [quiet EXCEPT ![me] = Connecting(me)]
      /\ serverStatus' = [serverStatus EXCEPT ![s] = "connecting"]
      /\ UNCHANGED <<mcpWorld, closing, managed>>
  BY <1>2, <1>3 DEF DiscoverForServer, MayStart
<1>5. run'["auth"] = "discovering" /\ \A p \in Op \ {"auth"} : run'[p] = run[p]
  BY <1>1, <1>4, Operations DEF McpTypes
<1>6. /\ Connecting(me) \in ClientState /\ Connecting(me).at = "connecting"
      /\ Connecting(me).status = "connecting" /\ ~Connecting(me).open
      /\ ~Connecting(me).faulty
  BY DEF Connecting, NoClient, ClientState, ServerStatus
<1>7. client'[me] = Connecting(me) /\ \A c \in Client \ {me} : client'[c] = quiet[c]
  BY <1>3, <1>4
<1>8. McpTypes'
  <2>1. client' \in [Client -> ClientState]
    BY <1>3, <1>4, <1>6
  <2>2. run' \in [Op -> RunState] /\ registry' \subseteq Tool
    BY <1>1, <1>4 DEF McpTypes, RunState, Removed
  <2> QED BY <1>1, <1>4, <2>1, <2>2 DEF McpTypes, ServerStatus
<1>9. ~InProgress(me)
  BY <1>1, <1>2, <1>4 DEF ClientInv
<1>10. ASSUME NEW c \in Client PROVE ClientInv(c)'
  <2>1. CASE c = me
    BY <1>2, <1>5, <1>6, <1>7, <2>1 DEF ClientInv, At
  <2>2. CASE c # me
    <3>1. /\ ClientInv(c) /\ By(c) \in Op /\ client'[c].at = client[c].at
          /\ client'[c].status = client[c].status /\ client'[c].open = client[c].open
          /\ client'[c].faulty = client[c].faulty
      BY <1>1, <1>3, <1>7, <2>2, ClientParts
    <3>2. InProgress(c)' => run'[By(c)] = "discovering"
      BY <1>4, <1>5, <3>1 DEF ClientInv, InProgress
    <3>3. ASSUME client'[c].status = "disconnecting"
          PROVE  \E p \in All : run'[p] = "stopping" /\ c \in closing'[p]
      <4>1. PICK p \in All : run[p] = "stopping" /\ c \in closing[p]
        BY <3>1, <3>3 DEF ClientInv
      <4> QED BY <1>4, <1>5, <4>1, Operations
    <3> QED BY <3>1, <3>2, <3>3 DEF ClientInv, At
  <2> QED BY <2>1, <2>2
<1>11. NamesInv'
  BY <1>1, <1>4 DEF NamesInv, Removed
<1>12. (At(me, "connecting") /\ InProgress(me))'
  BY <1>6, <1>7 DEF At, InProgress
<1>13. Served(s)' /\ StatusInv(s)'
  BY <1>2, <1>12 DEF Served, StatusInv
<1>14. Renews' <=> Renews
  BY <1>4, <1>5, Operations DEF Renews
<1>15. \A c \in Client : Of(c) # s =>
         /\ client'[c].at = client[c].at /\ client'[c].status = client[c].status
         /\ client'[c].open = client[c].open /\ client'[c].faulty = client[c].faulty
  BY <1>2, <1>3, <1>7
<1>16. \A q \in Discovered' : q \in Server /\ (q # s => q \in Discovered /\ (Sound(q)' => Sound(q)))
  BY <1>15 DEF Discovered, Sound, At
<1>17. ASSUME NEW q \in Discovered', Sound(q)', q # s PROVE Served(q)'
  <2>1. Served(q)
    BY <1>16, <1>17 DEF McpInv
  <2>2. CASE Renews
    BY <1>14, <2>2 DEF Served
  <2>3. ASSUME NEW c \in Client, Of(c) = q, At(c, "connecting") \/ (InProgress(c) /\ Useful(c))
        PROVE  Served(q)'
    <3>1. (At(c, "connecting") \/ (InProgress(c) /\ Useful(c)))'
      BY <1>15, <1>17, <2>3 DEF At, InProgress, Useful
    <3> QED BY <2>3, <3>1 DEF Served
  <2>4. ASSUME NEW t \in registry, Of(t.client) = q, Useful(t.client) PROVE Served(q)'
    <3>1. t \in registry' /\ t.client \in Client
      BY <1>1, <1>4, <1>17, <2>4 DEF Removed, McpTypes, Tool
    <3>2. Useful(t.client)'
      BY <1>15, <1>17, <2>4, <3>1 DEF Useful
    <3> QED BY <2>4, <3>1, <3>2 DEF Served
  <2> QED BY <2>1, <2>2, <2>3, <2>4 DEF Served
<1>18. ASSUME ~May("overlap")
       PROVE  Alone' /\ \A q \in Discovered' : Sound(q)' /\ q # s => StatusInv(q)'
  <2>1. \A p \in Op : ~IsRunning(p)
    BY <1>4, <1>18, StartsAlone, Operations
  <2>2. \A c \in Client : ~InProgress(c)
    BY <2>1, ProgressRuns
  <2>3. \A p \in Op : IsRunning(p)' => p = "auth"
    BY <1>5, <2>1 DEF IsRunning
  <2>4. ~Renews
    BY <2>1, Operations DEF Renews, IsRunning
  <2>5. \A c \in Client : InProgress(c)' => c = me
    BY <1>3, <1>7, <2>2 DEF InProgress
  <2>6. \A c \in Client : ~(At(c, "prompts") \/ At(c, "tools"))'
    BY <1>6, <1>7, <2>5 DEF InProgress, At
  <2>7. registry' \subseteq registry /\ \A t \in registry' : Of(t.client) # s
    BY <1>4 DEF Removed
  <2>8. Alone
    BY <1>18 DEF McpInv
  <2>9. Alone'
    BY <1>2, <1>14, <2>3, <2>4, <2>5, <2>6, <2>7, <2>8 DEF Alone
  <2>10. ASSUME NEW q \in Discovered', Sound(q)', q # s PROVE StatusInv(q)'
    <3>1. StatusInv(q) /\ q \in Server
      BY <1>16, <1>18, <2>10 DEF McpInv
    <3>2. serverStatus[q] = "connected"
      BY <2>2, <2>4, <3>1 DEF StatusInv
    <3> QED BY <1>1, <1>4, <2>10, <3>1, <3>2 DEF McpTypes, StatusInv
  <2> QED BY <2>9, <2>10
<1>19. ~May("overlap")' <=> ~May("overlap")
  BY <1>4 DEF May
<1> QED BY <1>8, <1>10, <1>11, <1>13, <1>17, <1>18, <1>19 DEF McpInv

LEMMA RunEndsKeeps ==
    ASSUME McpInv, NEW o \in Op, RunEnds(o)
    PROVE  McpInv'
<1>1. McpTypes /\ NamesInv /\ \A c \in Client : ClientInv(c)
  BY DEF McpInv
<1>2. /\ run[o] = "discovering" /\ run' = [run EXCEPT ![o] = "done"]
      /\ \A s \in Server : ~InProgress(<<o, s>>)
      /\ UNCHANGED <<mcpWorld, closing, managed, client, serverStatus, registry>>
  BY DEF RunEnds
<1>3. run'[o] = "done" /\ \A p \in Op \ {o} : run'[p] = run[p]
  BY <1>1, <1>2 DEF McpTypes
<1>4. McpTypes'
  BY <1>1, <1>2 DEF McpTypes, RunState
<1>5. \A c \in Client : InProgress(c)' = InProgress(c) /\ Useful(c)' = Useful(c)
  BY <1>2 DEF InProgress, Useful
<1>6. ASSUME NEW c \in Client PROVE ClientInv(c)'
  <2>1. ClientInv(c) /\ By(c) \in Op /\ Of(c) \in Server
    BY <1>1, ClientParts
  <2>2. By(c) = o => ~InProgress(c)
    <3>1. SUFFICES ASSUME By(c) = o PROVE ~InProgress(c)
      OBVIOUS
    <3>2. <<o, Of(c)>> \in Client /\ By(<<o, Of(c)>>) = o /\ Of(<<o, Of(c)>>) = Of(c)
      BY <2>1, ClientParts
    <3>3. c = <<o, Of(c)>>
      BY <3>1, <3>2, ClientParts
    <3> QED BY <1>2, <2>1, <3>3
  <2>3. InProgress(c)' => run'[By(c)] = "discovering"
    BY <1>3, <1>5, <2>1, <2>2 DEF ClientInv
  <2>4. ASSUME client'[c].status = "disconnecting"
        PROVE  \E p \in All : run'[p] = "stopping" /\ c \in closing'[p]
    <3>1. PICK p \in All : run[p] = "stopping" /\ c \in closing[p]
      BY <1>2, <2>1, <2>4 DEF ClientInv
    <3> QED BY <1>2, <1>3, <3>1, Operations
  <2> QED BY <1>2, <2>1, <2>3, <2>4 DEF ClientInv, At
<1>7. Renews' <=> Renews
  BY <1>2, <1>3, Operations DEF Renews
<1>8. \A p \in Op : IsRunning(p)' => IsRunning(p)
  BY <1>2, <1>3 DEF IsRunning
<1>9. Discovered' = Discovered /\ \A s : Sound(s)' = Sound(s)
  BY <1>2 DEF Discovered, Sound, At
<1>10. ASSUME NEW s PROVE (Served(s) => Served(s)') /\ (StatusInv(s) => StatusInv(s)')
  <2>1. Served(s) => Served(s)'
    BY <1>2, <1>7 DEF Served, At, InProgress, Useful
  <2>2. StatusInv(s) => StatusInv(s)'
    BY <1>2, <1>7 DEF StatusInv, InProgress
  <2> QED BY <2>1, <2>2
<1>11. Alone => Alone'
  BY <1>2, <1>5, <1>7, <1>8, <1>9 DEF Alone, At
<1>12. NamesInv' /\ (~May("overlap")' <=> ~May("overlap"))
  BY <1>1, <1>2 DEF NamesInv, May
<1> QED BY <1>4, <1>6, <1>9, <1>10, <1>11, <1>12 DEF McpInv
-----------------------------------------------------------------------------
LEMMA McpInitHolds == McpInit => McpInv
<1> SUFFICES ASSUME McpInit PROVE McpInv
  OBVIOUS
<1>1. /\ run = [o \in Op |-> "idle"] /\ closing = [o \in All |-> {}]
      /\ managed = [s \in Server |-> "none"] /\ client = [c \in Client |-> NoClient]
      /\ serverStatus = [s \in Server |-> "disconnected"] /\ registry = {}
  BY DEF McpInit
<1>2. NoClient \in ClientState /\ NoClient.at = "none" /\ NoClient.status = "disconnected" /\ ~NoClient.open
  BY DEF NoClient, ClientState, ServerStatus
<1>3. McpTypes
  BY <1>1, <1>2 DEF McpTypes, RunState, ServerStatus
<1>4. \A c \in Client : ClientInv(c) /\ ~InProgress(c) /\ At(c, "none")
  BY <1>1, <1>2 DEF ClientInv, InProgress, At
<1>5. NamesInv /\ Discovered = {}
  BY <1>1, <1>4 DEF NamesInv, Discovered
<1>6. Alone
  BY <1>1, <1>2 DEF Alone, IsRunning, At
<1> QED BY <1>3, <1>4, <1>5, <1>6 DEF McpInv

LEMMA McpStepKeeps == McpConstants /\ McpInv /\ [McpNext]_mcpVars => McpInv'
<1> SUFFICES ASSUME McpConstants, McpInv, [McpNext]_mcpVars PROVE McpInv'
  OBVIOUS
<1>1. CASE Startup
  BY <1>1, StartupKeeps
<1>2. CASE CommandEnds
  BY <1>2, CommandEndsKeeps
<1>3. CASE Refresh
  BY <1>3, RefreshKeeps
<1>4. ASSUME NEW s \in Server, DiscoverForServer(s) PROVE McpInv'
  BY <1>4, DiscoverKeeps
<1>5. ASSUME NEW o \in All, EndStop(o) PROVE McpInv'
  BY <1>5, EndStopKeeps
<1>6. ASSUME NEW o \in Op, RunEnds(o) PROVE McpInv'
  BY <1>6, RunEndsKeeps
<1>7. ASSUME NEW c \in Client, Disconnected(c) \/ Discovery(c) \/ ClientErrs(c) PROVE McpInv'
  BY <1>7, DisconnectedKeeps, ConnectedKeeps, ConnectFailsKeeps, PromptsKeeps, ToolsFoundKeeps,
     NoToolsKeeps, ClientErrsKeeps DEF Discovery
<1>8. CASE UNCHANGED mcpVars
  <2>1. UNCHANGED <<mcpWorld, run, closing, managed, client, serverStatus, registry>>
    BY <1>8 DEF mcpVars
  <2>2. \A c : /\ ClientInv(c)' = ClientInv(c) /\ InProgress(c)' = InProgress(c)
               /\ Useful(c)' = Useful(c)
    BY <2>1 DEF ClientInv, InProgress, Useful, At
  <2>3. /\ McpTypes' = McpTypes /\ NamesInv' = NamesInv /\ Renews' = Renews
        /\ Discovered' = Discovered /\ \A s : Sound(s)' = Sound(s)
    BY <2>1 DEF McpTypes, NamesInv, Renews, Discovered, Sound, At
  <2>4. \A s : Served(s)' = Served(s) /\ StatusInv(s)' = StatusInv(s)
    BY <2>1, <2>2, <2>3 DEF Served, StatusInv, At
  <2>5. Alone' <=> Alone
    BY <2>1, <2>2, <2>3 DEF Alone, IsRunning, At
  <2> QED BY <2>1, <2>2, <2>3, <2>4, <2>5 DEF McpInv, May
<1> QED BY <1>1, <1>2, <1>3, <1>4, <1>5, <1>6, <1>7, <1>8 DEF McpNext

\* What the invariant says once the operations have ended.
LEMMA McpInvServes == McpInv => EveryServerServes
<1> SUFFICES ASSUME McpInv, Quiescent, NEW s \in Discovered, Sound(s)
             PROVE  /\ \E t \in ToolsOf(s) : client[t.client].open
                    /\ May("overlap")
                         \/ (Cardinality(ToolsOf(s)) = 1 /\ serverStatus[s] = "connected")
  BY DEF EveryServerServes
<1>1. ~Renews
  BY Operations DEF Quiescent, Renews, IsRunning
<1>2. \A c \in Client : ~InProgress(c)
  BY ProgressRuns DEF Quiescent
<1>3. PICK t \in ToolsOf(s) : client[t.client].open
  BY <1>1, <1>2 DEF McpInv, Served, ToolsOf, Useful, InProgress, At
<1>4. ASSUME ~May("overlap") PROVE Cardinality(ToolsOf(s)) = 1 /\ serverStatus[s] = "connected"
  <2>1. ToolsOf(s) = {t}
    BY <1>3, <1>4 DEF McpInv, Alone, ToolsOf
  <2>2. StatusInv(s)
    BY <1>4 DEF McpInv
  <2> QED BY <1>1, <1>2, <2>1, <2>2, FS_Singleton DEF StatusInv
<1> QED BY <1>3, <1>4

(* However startup, a refresh and the discovery after a login overlap, once *)
(* they have ended every server that never failed has a tool that a call    *)
(* can reach, and it is the server's only one when they do not overlap      *)
(* (McpClientManager, connectAndDiscover and ToolRegistry).                 *)
THEOREM ServersAreServed ==
    ASSUME McpConstants
    PROVE  McpSpec => []EveryServerServes
<1>1. McpInit => McpInv
  BY McpInitHolds
<1>2. McpInv /\ [McpNext]_mcpVars => McpInv'
  BY McpStepKeeps
<1>3. McpInv => EveryServerServes
  BY McpInvServes
<1> QED BY <1>1, <1>2, <1>3, PTL DEF McpSpec
-----------------------------------------------------------------------------
\* The logins (McpLogin).  Nobody is no server, and tokens are stored at the start.
LoginConstants ==
    /\ NoOwner \notin OAuthServer
    /\ \A w \in LoginWorld : w.stored \in [OAuthServer -> Login!Credential]

\* A write under way is that of a connection that has read the file; while none has
\* overlapped with another, there is one such connection at most, its copy has the
\* credentials that the file has (some may have expired since), and what was saved is there.
LoginInv ==
    /\ login \in [OAuthServer -> Login!LoginState]
    /\ tokenFile \in [OAuthServer -> Login!Credential]
    /\ saved \subseteq OAuthServer
    /\ overlapped \in BOOLEAN
    /\ torn # NoOwner => torn \in OAuthServer /\ Login!Between(torn)
    /\ ~overlapped =>
         /\ \A s \in saved : tokenFile[s] # "none"
         /\ \A s, o \in OAuthServer : Login!Between(s) /\ Login!Between(o) => s = o
         /\ \A s \in OAuthServer : Login!Between(s) =>
              \A o \in OAuthServer : login[s].copy[o] = "none" <=> tokenFile[o] = "none"

LEMMA LoginTypes ==
    ASSUME LoginInv, NEW s \in OAuthServer
    PROVE  /\ login[s] \in Login!LoginState /\ login[s].copy \in [OAuthServer -> Login!Credential]
           /\ Login!Nothing \in [OAuthServer -> Login!Credential]
           /\ Login!Contents \in [OAuthServer -> Login!Credential]
BY DEF LoginInv, Login!LoginState, Login!Nothing, Login!Contents, Login!Credential

LEMMA AfterWriteType ==
    ASSUME NEW l \in Login!LoginState
    PROVE  /\ Login!AfterWrite(l) \in Login!LoginState
           /\ Login!AfterWrite(l).at \notin {"writing", "filling"}
<1>1. CASE l.goal = "login"
  BY <1>1 DEF Login!AfterWrite, Login!LoginState
<1>2. CASE l.goal = "refresh"
  BY <1>2 DEF Login!AfterWrite, Login!LoginState
<1>3. CASE l.goal = "delete"
  <2>1. PICK at \in {"failed", "connecting"} : at = IF l.again THEN "failed" ELSE "connecting"
    OBVIOUS
  <2>2. Login!AfterWrite(l) = [l EXCEPT !.at = at, !.token = FALSE]
    BY <1>3, <2>1 DEF Login!AfterWrite
  <2> QED BY <2>2 DEF Login!LoginState
<1> QED BY <1>1, <1>2, <1>3 DEF Login!LoginState

\* A step of a connection that is not between a read and its write.
LEMMA ConnectionKeeps ==
    ASSUME LoginInv, NEW s \in OAuthServer, NEW k \in Login!LoginState,
           login' = [login EXCEPT ![s] = k], ~Login!Between(s), k.at \notin {"writing", "filling"},
           UNCHANGED <<tokenFile, torn, saved>>,
           overlapped' \in BOOLEAN, overlapped => overlapped'
    PROVE  LoginInv'
<1>1. login' \in [OAuthServer -> Login!LoginState]
  BY DEF LoginInv
<1>2. \A o \in OAuthServer : Login!Between(o)' => o # s /\ Login!Between(o) /\ login'[o] = login[o]
  BY DEF LoginInv, Login!Between
<1>3. \A o \in OAuthServer : Login!Between(o) => Login!Between(o)'
  BY DEF LoginInv, Login!Between
<1>4. torn' # NoOwner => torn' \in OAuthServer /\ Login!Between(torn)'
  BY <1>3 DEF LoginInv
<1> QED BY <1>1, <1>2, <1>4 DEF LoginInv

LEMMA LookKeeps ==
    ASSUME LoginInv, NEW s \in OAuthServer, Login!Look(s)
    PROVE  LoginInv'
<1>1. login[s] \in Login!LoginState
  BY LoginTypes
<1>2. PICK at \in {"failed", "refreshing", "connecting"} :
        at = IF Login!Throws THEN "failed"
             ELSE IF Login!Stored(s) = "expired" THEN "refreshing"
             ELSE IF Login!Stored(s) = "none" /\ login[s].again THEN "failed"
             ELSE "connecting"
  OBVIOUS
<1>3. PICK token \in BOOLEAN : token = (Login!Stored(s) = "fresh")
  OBVIOUS
<1>4. PICK k : k = [login[s] EXCEPT !.at = at, !.token = token]
  OBVIOUS
<1>5. k \in Login!LoginState /\ k.at = at
  BY <1>1, <1>4 DEF Login!LoginState
<1>6. login' = [login EXCEPT ![s].at = at, ![s].token = token]
  BY <1>2, <1>3 DEF Login!Look
<1>7. login' = [login EXCEPT ![s] = k]
  BY <1>4, <1>6
<1>8. /\ ~Login!Between(s) /\ UNCHANGED <<tokenFile, torn, saved>>
      /\ overlapped' = (overlapped \/ torn # NoOwner)
  BY DEF Login!Look, Login!At, Login!Between
<1>9. overlapped \in BOOLEAN
  BY DEF LoginInv
<1> QED BY <1>5, <1>7, <1>8, <1>9, ConnectionKeeps

LEMMA GoKeeps ==
    ASSUME LoginInv, NEW s \in OAuthServer, NEW where, Login!Go(s, where),
           where \in {"looking", "connected", "denied", "failed", "browser", "exchanging"},
           ~Login!Between(s), UNCHANGED <<tokenFile, torn, saved, overlapped>>
    PROVE  LoginInv'
<1>1. login[s] \in Login!LoginState
  BY LoginTypes
<1>2. PICK k : k = [login[s] EXCEPT !.at = where]
  OBVIOUS
<1>3. k \in Login!LoginState /\ k.at = where
  BY <1>1, <1>2 DEF Login!LoginState
<1>4. login' = [login EXCEPT ![s] = k]
  BY <1>2 DEF Login!Go
<1>5. overlapped \in BOOLEAN
  BY DEF LoginInv
<1> QED BY <1>3, <1>4, <1>5, ConnectionKeeps

LEMMA ChangeKeeps ==
    ASSUME LoginInv, NEW s \in OAuthServer, NEW goal \in {"refresh", "delete", "login"},
           Login!Change(s, goal), ~Login!Between(s), UNCHANGED <<tokenFile, torn, saved, overlapped>>
    PROVE  LoginInv'
<1>1. login[s] \in Login!LoginState
  BY LoginTypes
<1>2. PICK k : k = [login[s] EXCEPT !.at = "reading", !.goal = goal]
  OBVIOUS
<1>3. k \in Login!LoginState /\ k.at = "reading"
  BY <1>1, <1>2 DEF Login!LoginState
<1>4. login' = [login EXCEPT ![s] = k]
  BY <1>2 DEF Login!Change
<1>5. overlapped \in BOOLEAN
  BY DEF LoginInv
<1> QED BY <1>3, <1>4, <1>5, ConnectionKeeps

\* Who reads the whole file to change it finds it as it is, when nobody else does.
LEMMA ReadKeeps ==
    ASSUME LoginInv, NEW s \in OAuthServer, Login!ReadForChange(s)
    PROVE  LoginInv'
<1>1. login[s] \in Login!LoginState /\ Login!Contents \in [OAuthServer -> Login!Credential]
  BY LoginTypes
<1>2. /\ login[s].at = "reading" /\ ~Login!Between(s) /\ UNCHANGED <<tokenFile, torn, saved>>
      /\ overlapped' = (overlapped \/ Login!Crosses(s) \/ torn # NoOwner)
      /\ overlapped' \in BOOLEAN /\ (overlapped => overlapped')
  BY DEF Login!ReadForChange, Login!At, Login!Between, LoginInv, Login!Crosses
<1>3. PICK k :
        /\ login' = [login EXCEPT ![s] = k]
        /\ \/ k = [login[s] EXCEPT !.goal = "delete"]
           \/ k = [login[s] EXCEPT !.at = "failed"]
           \/ k = Login!AfterWrite(login[s])
           \/ k = [login[s] EXCEPT !.at = "writing", !.copy = Login!Contents]
  BY DEF Login!ReadForChange
<1>4. CASE k = [login[s] EXCEPT !.at = "writing", !.copy = Login!Contents]
  <2>1. k \in Login!LoginState /\ k.at = "writing" /\ k.copy = Login!Contents
    BY <1>1, <1>4 DEF Login!LoginState
  <2>2. login' \in [OAuthServer -> Login!LoginState] /\ login'[s] = k
    BY <1>3, <2>1 DEF LoginInv
  <2>3. \A o \in OAuthServer \ {s} : login'[o] = login[o] /\ (Login!Between(o)' <=> Login!Between(o))
    BY <1>3 DEF LoginInv, Login!Between
  <2>4. torn' # NoOwner => torn' \in OAuthServer /\ Login!Between(torn)'
    BY <1>2, <2>1, <2>2, <2>3 DEF LoginInv
  <2>5. ASSUME ~overlapped'
        PROVE  /\ \A o \in OAuthServer : Login!Between(o)' => o = s
               /\ login'[s].copy = tokenFile'
    <3>1. ~Login!Crosses(s) /\ torn = NoOwner
      BY <1>2, <2>5
    <3>2. Login!Contents = tokenFile
      BY <3>1 DEF Login!Contents
    <3>3. \A o \in OAuthServer \ {s} : ~Login!Between(o)
      BY <3>1 DEF Login!Crosses
    <3> QED BY <1>2, <2>1, <2>2, <2>3, <3>2, <3>3
  <2>6. ~overlapped' => \A o \in saved' : tokenFile'[o] # "none"
    BY <1>2 DEF LoginInv
  <2> QED BY <1>2, <2>2, <2>4, <2>5, <2>6 DEF LoginInv
<1>5. CASE k # [login[s] EXCEPT !.at = "writing", !.copy = Login!Contents]
  <2>1. k \in Login!LoginState /\ k.at \notin {"writing", "filling"}
    BY <1>1, <1>2, <1>3, <1>5, AfterWriteType DEF Login!LoginState
  <2> QED BY <1>2, <1>3, <2>1, ConnectionKeeps
<1> QED BY <1>4, <1>5

LEMMA WriteBeginsKeeps ==
    ASSUME LoginInv, NEW s \in OAuthServer, Login!WriteBegins(s)
    PROVE  LoginInv'
<1>1. login[s] \in Login!LoginState
  BY LoginTypes
<1>2. PICK k : k = [login[s] EXCEPT !.at = "filling"]
  OBVIOUS
<1>3. k \in Login!LoginState /\ k.at = "filling" /\ k.copy = login[s].copy
  BY <1>1, <1>2 DEF Login!LoginState
<1>4. login' = [login EXCEPT ![s] = k]
  BY <1>2 DEF Login!WriteBegins, Login!Go
<1>5. /\ Login!Between(s) /\ torn' \in {torn, s} /\ UNCHANGED <<tokenFile, saved>>
      /\ overlapped' \in BOOLEAN /\ (overlapped => overlapped')
  BY DEF Login!WriteBegins, Login!At, Login!Between, LoginInv, Login!Crosses
<1>6. \A o \in OAuthServer : (Login!Between(o)' <=> Login!Between(o)) /\ login'[o].copy = login[o].copy
  BY <1>3, <1>4, <1>5 DEF LoginInv, Login!Between
<1>7. login' \in [OAuthServer -> Login!LoginState]
  BY <1>3, <1>4 DEF LoginInv
<1>8. torn' # NoOwner => torn' \in OAuthServer /\ Login!Between(torn)'
  BY <1>5, <1>6 DEF LoginInv
<1>9. ASSUME ~overlapped'
      PROVE  /\ \A o \in saved' : tokenFile'[o] # "none"
             /\ \A o, q \in OAuthServer : Login!Between(o)' /\ Login!Between(q)' => o = q
             /\ \A o \in OAuthServer : Login!Between(o)' =>
                  \A q \in OAuthServer : login'[o].copy[q] = "none" <=> tokenFile'[q] = "none"
  BY <1>5, <1>6, <1>9 DEF LoginInv
<1> QED BY <1>5, <1>7, <1>8, <1>9 DEF LoginInv

LEMMA WriteEndsKeeps ==
    ASSUME LoginInv, NEW s \in OAuthServer, NoOwner \notin OAuthServer, Login!WriteEnds(s)
    PROVE  LoginInv'
<1>1. login[s] \in Login!LoginState /\ Login!Nothing \in [OAuthServer -> Login!Credential]
      /\ login[s].copy \in [OAuthServer -> Login!Credential]
  BY LoginTypes
<1>2. PICK k : k = [Login!AfterWrite(login[s]) EXCEPT !.copy = Login!Nothing]
  OBVIOUS
<1>3. k \in Login!LoginState /\ k.at \notin {"writing", "filling"}
  BY <1>1, <1>2, AfterWriteType DEF Login!LoginState
<1>4. /\ login' = [login EXCEPT ![s] = k] /\ Login!Between(s)
      /\ tokenFile' = [login[s].copy EXCEPT ![s] = IF login[s].goal = "delete" THEN "none" ELSE "fresh"]
      /\ torn' = IF torn = s THEN NoOwner ELSE torn
      /\ saved' = IF login[s].goal = "delete" THEN saved \ {s} ELSE saved \cup {s}
      /\ overlapped' = (overlapped \/ Login!Crosses(s)) /\ overlapped' \in BOOLEAN
  BY <1>2 DEF Login!WriteEnds, Login!Changed, Login!At, Login!Between, LoginInv, Login!Crosses
<1>5. login' \in [OAuthServer -> Login!LoginState] /\ ~Login!Between(s)'
  BY <1>3, <1>4 DEF LoginInv, Login!Between
<1>6. \A o \in OAuthServer \ {s} : Login!Between(o)' <=> Login!Between(o)
  BY <1>4 DEF LoginInv, Login!Between
<1>7. tokenFile' \in [OAuthServer -> Login!Credential] /\ saved' \subseteq OAuthServer
  BY <1>1, <1>4 DEF Login!Credential, LoginInv
<1>8. torn' # NoOwner => torn' \in OAuthServer /\ Login!Between(torn)'
  BY <1>4, <1>6 DEF LoginInv
<1>9. ASSUME ~overlapped'
      PROVE  /\ \A o \in saved' : tokenFile'[o] # "none"
             /\ \A o \in OAuthServer : ~Login!Between(o)'
  <2>1. \A o \in OAuthServer : ~Login!Between(o)'
    BY <1>4, <1>5, <1>6, <1>9 DEF Login!Crosses
  <2>2. ~overlapped /\ \A o \in OAuthServer : login[s].copy[o] = "none" <=> tokenFile[o] = "none"
    BY <1>4, <1>9 DEF LoginInv
  <2>3. ASSUME NEW o \in saved', o # s PROVE tokenFile'[o] # "none"
    <3>1. o \in saved /\ o \in OAuthServer
      BY <1>4, <2>3 DEF LoginInv
    <3> QED BY <1>1, <1>4, <2>2, <2>3, <3>1 DEF LoginInv
  <2>4. s \in saved' => tokenFile'[s] # "none"
    BY <1>1, <1>4
  <2> QED BY <2>1, <2>3, <2>4
<1> QED BY <1>4, <1>5, <1>7, <1>8, <1>9 DEF LoginInv

LEMMA ExpireKeeps ==
    ASSUME LoginInv, NEW s \in OAuthServer, Login!Expire(s)
    PROVE  LoginInv'
<1>1. /\ tokenFile' = [tokenFile EXCEPT ![s] = "expired"] /\ tokenFile[s] = "fresh"
      /\ UNCHANGED <<login, torn, saved, overlapped>>
  BY DEF Login!Expire
<1>2. tokenFile' \in [OAuthServer -> Login!Credential]
  BY <1>1 DEF LoginInv, Login!Credential
<1>3. \A o \in OAuthServer : tokenFile'[o] = "none" <=> tokenFile[o] = "none"
  BY <1>1 DEF LoginInv
<1>4. \A o : Login!Between(o)' <=> Login!Between(o)
  BY <1>1 DEF Login!Between
<1> QED BY <1>1, <1>2, <1>3, <1>4 DEF LoginInv

LEMMA LoginInitHolds == LoginConstants /\ Login!LoginInit => LoginInv
<1> SUFFICES ASSUME LoginConstants, Login!LoginInit PROVE LoginInv
  OBVIOUS
<1>1. Login!NoLogin \in Login!LoginState /\ Login!NoLogin.at = "idle"
  BY DEF Login!NoLogin, Login!LoginState, Login!Nothing, Login!Credential
<1>2. /\ login = [s \in OAuthServer |-> Login!NoLogin] /\ tokenFile = loginWorld.stored
      /\ loginWorld \in LoginWorld /\ torn = NoOwner /\ overlapped = FALSE
      /\ saved = {s \in OAuthServer : tokenFile[s] # "none"}
  BY DEF Login!LoginInit
<1>3. tokenFile \in [OAuthServer -> Login!Credential]
  BY <1>2 DEF LoginConstants
<1>4. \A s \in OAuthServer : ~Login!Between(s)
  BY <1>1, <1>2 DEF Login!Between
<1> QED BY <1>1, <1>2, <1>3, <1>4 DEF LoginInv

LEMMA LoginStepKeeps == LoginConstants /\ LoginInv /\ [Login!LoginNext]_(Login!loginVars) => LoginInv'
<1> SUFFICES ASSUME LoginConstants, LoginInv, [Login!LoginNext]_(Login!loginVars) PROVE LoginInv'
  OBVIOUS
<1>1. ASSUME NEW s \in OAuthServer, Login!LoginStep(s) PROVE LoginInv'
  <2>1. CASE \/ Login!Connect(s) \/ Login!Connected(s) \/ Login!Unauthorized(s)
             \/ Login!Authenticate(s) \/ Login!DiscoveryFails(s)
    <3>1. PICK where \in {"looking", "connected", "denied", "failed", "browser"} : Login!Go(s, where)
      BY <2>1 DEF Login!Connect, Login!Connected, Login!Unauthorized, Login!Authenticate,
             Login!DiscoveryFails
    <3>2. ~Login!Between(s) /\ UNCHANGED <<tokenFile, torn, saved, overlapped>>
      BY <2>1 DEF Login!Connect, Login!Connected, Login!Unauthorized, Login!Authenticate,
             Login!DiscoveryFails, Login!At, Login!Between
    <3> QED BY <3>1, <3>2, GoKeeps
  <2>2. CASE Login!Callback(s)
    <3>1. PICK where \in {"exchanging", "failed"} : Login!Go(s, where)
      BY <2>2 DEF Login!Callback
    <3>2. ~Login!Between(s) /\ UNCHANGED <<tokenFile, torn, saved, overlapped>>
      BY <2>2 DEF Login!Callback, Login!At, Login!Between
    <3> QED BY <3>1, <3>2, GoKeeps
  <2>3. CASE Login!Refresh(s)
    <3>1. PICK goal \in {"refresh", "delete"} : Login!Change(s, goal)
      BY <2>3 DEF Login!Refresh
    <3>2. ~Login!Between(s) /\ UNCHANGED <<tokenFile, torn, saved, overlapped>>
      BY <2>3 DEF Login!Refresh, Login!At, Login!Between
    <3> QED BY <3>1, <3>2, ChangeKeeps
  <2>4. CASE Login!Exchange(s)
    <3>1. ~Login!Between(s) /\ UNCHANGED <<tokenFile, torn, saved, overlapped>>
      BY <2>4 DEF Login!Exchange, Login!At, Login!Between
    <3>2. Login!Change(s, "login") \/ Login!Go(s, "failed")
      BY <2>4 DEF Login!Exchange
    <3> QED BY <3>1, <3>2, ChangeKeeps, GoKeeps
  <2> QED
    BY <1>1, <2>1, <2>2, <2>3, <2>4, LookKeeps, ReadKeeps, WriteBeginsKeeps, WriteEndsKeeps
       DEF Login!LoginStep, LoginConstants
<1>2. ASSUME NEW s \in OAuthServer, Login!Expire(s) PROVE LoginInv'
  BY <1>2, ExpireKeeps
<1>3. CASE UNCHANGED Login!loginVars
  BY <1>3 DEF Login!loginVars, LoginInv, Login!Between
<1> QED BY <1>1, <1>2, <1>3 DEF Login!LoginNext

LEMMA LoginInvSurvives == LoginInv => Login!LoginsSurvive
BY DEF LoginInv, Login!LoginsSurvive

(* Whatever the servers refresh, delete or fail to do in between, every one *)
(* whose credentials were written and not deleted finds them, unless reads  *)
(* and writes of the one file overlap (MCPOAuthProvider and the token       *)
(* storage).                                                                *)
THEOREM LoginsAreKept ==
    ASSUME LoginConstants
    PROVE  Login!LoginSpec => []Login!LoginsSurvive
<1>1. Login!LoginInit => LoginInv
  BY LoginInitHolds
<1>2. LoginInv /\ [Login!LoginNext]_(Login!loginVars) => LoginInv'
  BY LoginStepKeeps
<1>3. LoginInv => Login!LoginsSurvive
  BY LoginInvSurvives
<1> QED BY <1>1, <1>2, <1>3, PTL DEF Login!LoginSpec
=============================================================================
