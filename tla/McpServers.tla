----------------------------- MODULE McpServers -----------------------------
(***************************************************************************)
(* Discovery of MCP servers: McpClient, connectAndDiscover and the status  *)
(* map (packages/core/src/tools/mcp-client.ts), McpClientManager           *)
(* (mcp-client-manager.ts) and the tools of ToolRegistry                   *)
(* (tool-registry.ts).                                                     *)
(*                                                                         *)
(* A client is named by the operation that made it and its server.  The    *)
(* operations are "startup" (discoverAllTools), "refresh"                  *)
(* (restartMcpServers) and "auth" (discoverToolsForServer after a login);  *)
(* each happens once at most.  They are cut at their awaits: the discovery *)
(* command, the closing of the old clients, the connection, and the        *)
(* requests for prompts and for tools.                                     *)
(***************************************************************************)
EXTENDS Naturals, FiniteSets

CONSTANTS
    Server,    \* configured servers; every server offers a tool of one name
    McpWorld   \* what may happen: subsets of Mishap

Mishap == {"overlap",   \* an operation starts while another one runs
           "fail",      \* a connection fails, or the server offers nothing
           "drop"}      \* an error on a connection

VARIABLES
    mcpWorld,      \* the member of McpWorld this session is in
    run,           \* how far each operation is
    closing,       \* the clients whose disconnect() an operation awaits
    managed,       \* McpClientManager.clients: the operation that made the client
    client,        \* the clients
    serverStatus,  \* serverStatuses
    registry       \* ToolRegistry.tools: [full, client]

mcpVars == <<mcpWorld, run, closing, managed, client, serverStatus, registry>>

All == {"startup", "refresh"}
Op == All \cup {"auth"}
Client == Op \X Server
By(c) == c[1]
Of(c) == c[2]

ServerStatus == {"disconnected", "connecting", "connected", "disconnecting"}
\* at: where the function that discovers the client's tools awaits; prompts:
\* whether prompts of this client are registered.
ClientState == [at : {"none", "connecting", "prompts", "tools", "done", "failed"},
                status : ServerStatus, open : BOOLEAN, prompts : BOOLEAN, faulty : BOOLEAN]
NoClient == [at |-> "none", status |-> "disconnected", open |-> FALSE, prompts |-> FALSE,
             faulty |-> FALSE]

\* A tool is registered under its name, or under the server's and its name.
Tool == [full : {"plain"} \cup Server, client : Client]

May(mishap) == mishap \in mcpWorld

McpInit ==
    /\ mcpWorld \in McpWorld
    /\ run = [o \in Op |-> "idle"]
    /\ closing = [o \in All |-> {}]
    /\ managed = [s \in Server |-> "none"]
    /\ client = [c \in Client |-> NoClient]
    /\ serverStatus = [s \in Server |-> "disconnected"]
    /\ registry = {}

At(c, where) == client[c].at = where
InProgress(c) == client[c].at \in {"connecting", "prompts", "tools"}
IsRunning(o) == run[o] \notin {"idle", "done"}
Quiescent == \A o \in Op : ~IsRunning(o)
\* One at a time, unless operations may overlap: then two (bound).
MayStart(o) ==
    /\ run[o] = "idle"
    /\ Cardinality({p \in Op : IsRunning(p)}) < (IF May("overlap") THEN 2 ELSE 1)

-----------------------------------------------------------------------------
(* What the operations do to the registry.                                  *)

\* removeDiscoveredTools, and the loop of discoverToolsForServer
Removed(servers) == {t \in registry : Of(t.client) \notin servers}

NameFor(c) == IF \E t \in registry : t.full = "plain" THEN Of(c) ELSE "plain"
\* The tools of a server replace each other: a mistake the runs must notice.
Overwrites(c) == {t \in registry : t.full # "plain"} \cup {[full |-> "plain", client |-> c]}
\* registerTool: a name that is taken is qualified; a qualified name is replaced.
Registered(c) ==
    {t \in registry : t.full # NameFor(c)} \cup {[full |-> NameFor(c), client |-> c]}

WithoutPrompts(clients, servers) ==
    [c \in Client |-> [clients[c] EXCEPT !.prompts = @ /\ Of(c) \notin servers]]

-----------------------------------------------------------------------------
(* The operations.                                                          *)

\* stop() disconnects the clients that are connected; the others return at once.
Stopped == {c \in Client : managed[Of(c)] = By(c) /\ client[c].status = "connected"}

\* stop(), up to the awaited close of every client
BeginStop(o, clients) ==
    /\ run' = [run EXCEPT ![o] = "stopping"]
    /\ closing' = [closing EXCEPT ![o] = Stopped]
    /\ client' = [c \in Client |->
         IF c \in Stopped THEN [clients[c] EXCEPT !.status = "disconnecting"] ELSE clients[c]]
    /\ serverStatus' = [s \in Server |->
         IF \E c \in Stopped : Of(c) = s THEN "disconnecting" ELSE serverStatus[s]]

\* discoverAllTools: the discovery command is run first.
Startup ==
    /\ MayStart("startup")
    /\ registry' = Removed(Server)
    /\ client' = WithoutPrompts(client, Server)
    /\ run' = [run EXCEPT !["startup"] = "command"]
    /\ UNCHANGED <<mcpWorld, closing, managed, serverStatus>>

CommandEnds ==
    /\ run["startup"] = "command"
    /\ BeginStop("startup", client)
    /\ UNCHANGED <<mcpWorld, managed, registry>>

\* restartMcpServers: discoverMcpTools
Refresh ==
    /\ MayStart("refresh")
    /\ registry' = Removed(Server)
    /\ BeginStop("refresh", WithoutPrompts(client, Server))
    /\ UNCHANGED <<mcpWorld, managed>>

\* client.close() returns.
Disconnected(c) ==
    /\ client[c].status = "disconnecting"
    /\ client' = [client EXCEPT ![c].status = "disconnected", ![c].open = FALSE]
    /\ serverStatus' = [serverStatus EXCEPT ![Of(c)] = "disconnected"]
    /\ closing' = [o \in All |-> closing[o] \ {c}]
    /\ UNCHANGED <<mcpWorld, run, managed, registry>>

Connecting(c) == [NoClient EXCEPT !.at = "connecting", !.status = "connecting"]

\* The clients are forgotten, and made and connected anew.
EndStop(o) ==
    /\ run[o] = "stopping" /\ closing[o] = {}
    /\ run' = [run EXCEPT ![o] = "discovering"]
    /\ managed' = [s \in Server |-> o]
    /\ client' = [c \in Client |-> IF By(c) = o THEN Connecting(c) ELSE client[c]]
    /\ serverStatus' = [s \in Server |-> "connecting"]
    /\ UNCHANGED <<mcpWorld, closing, registry>>

\* discoverToolsForServer
DiscoverForServer(s) ==
    /\ MayStart("auth")
    /\ run' = [run EXCEPT !["auth"] = "discovering"]
    /\ registry' = Removed({s})
    /\ client' = [WithoutPrompts(client, {s}) EXCEPT ![<<"auth", s>>] = Connecting(<<"auth", s>>)]
    /\ serverStatus' = [serverStatus EXCEPT ![s] = "connecting"]
    /\ UNCHANGED <<mcpWorld, closing, managed>>

\* Promise.all: every client's discovery has ended.
RunEnds(o) ==
    /\ run[o] = "discovering"
    /\ \A s \in Server : ~InProgress(<<o, s>>)
    /\ run' = [run EXCEPT ![o] = "done"]
    /\ UNCHANGED <<mcpWorld, closing, managed, client, serverStatus, registry>>

-----------------------------------------------------------------------------
(* The discovery of one client.                                             *)

\* connectToMcpServer returns; connectAndDiscover does not say so yet.
Connected(c) ==
    /\ At(c, "connecting")
    /\ client' = [client EXCEPT ![c].at = "prompts", ![c].open = TRUE, ![c].status = "connected"]
    /\ serverStatus' = IF By(c) = "auth" THEN serverStatus
                       ELSE [serverStatus EXCEPT ![Of(c)] = "connected"]
    /\ UNCHANGED <<mcpWorld, run, closing, managed, registry>>

ConnectFails(c) ==
    /\ May("fail") /\ At(c, "connecting")
    /\ client' = [client EXCEPT ![c].at = "failed", ![c].status = "disconnected",
                                ![c].faulty = TRUE]
    /\ serverStatus' = [serverStatus EXCEPT ![Of(c)] = "disconnected"]
    /\ UNCHANGED <<mcpWorld, run, closing, managed, registry>>

\* discoverPrompts returns; McpClient.discoverTools asserts that the client is
\* still connected, connectAndDiscover does not.  A closed connection rejects
\* the request, which counts as no prompts.  A server that is well has prompts.
PromptsFound(c) == {client[c].open} \cup (IF May("fail") THEN {FALSE} ELSE {})
Prompts(c) ==
    /\ At(c, "prompts")
    /\ \E found \in PromptsFound(c) :
         client' = [client EXCEPT
           ![c].prompts = found,
           ![c].at = IF By(c) # "auth" /\ client[c].status # "connected" THEN "failed" ELSE "tools"]
    /\ UNCHANGED <<mcpWorld, run, closing, managed, serverStatus, registry>>

\* discoverTools returns tools, and they are registered.
ToolsFound(c) ==
    /\ At(c, "tools") /\ client[c].open
    /\ registry' = Registered(c)
    /\ client' = [client EXCEPT ![c].at = "done"]
    /\ serverStatus' = IF By(c) = "auth" THEN [serverStatus EXCEPT ![Of(c)] = "connected"]
                       ELSE serverStatus
    /\ UNCHANGED <<mcpWorld, run, closing, managed>>

\* The server has no tools, or the connection is closed.  Without prompts either
\* it is an error: connectAndDiscover closes its client, McpClient does not.
NoTools(c) ==
    /\ At(c, "tools") /\ (client[c].open => May("fail"))
    /\ LET k == client[c]
           single == By(c) = "auth"
       IN
       /\ client' = [client EXCEPT ![c].at = IF k.prompts THEN "done" ELSE "failed",
                                   ![c].faulty = @ \/ k.open,
                                   ![c].open = @ /\ (single => k.prompts)]
       /\ serverStatus' = IF ~single THEN serverStatus
                          ELSE [serverStatus EXCEPT
                                  ![Of(c)] = IF k.prompts THEN "connected" ELSE "disconnected"]
    /\ UNCHANGED <<mcpWorld, run, closing, managed, registry>>

\* onerror, with or without the end of the connection, once for a server (bound).
\* McpClient looks at its own status; connectAndDiscover's handler at nothing.
ClientErrs(c) ==
    /\ May("drop") /\ client[c].open
    /\ \A d \in Client : Of(d) = Of(c) => ~client[d].faulty
    /\ \E stays \in BOOLEAN :
         LET heeds == By(c) = "auth" \/ client[c].status = "connected" IN
         /\ client' = [client EXCEPT ![c].open = stays, ![c].faulty = TRUE,
                                     ![c].status = IF heeds /\ By(c) # "auth"
                                                     THEN "disconnected" ELSE @]
         /\ serverStatus' = IF heeds THEN [serverStatus EXCEPT ![Of(c)] = "disconnected"]
                            ELSE serverStatus
    /\ UNCHANGED <<mcpWorld, run, closing, managed, registry>>

Discovery(c) ==
    \/ Connected(c) \/ ConnectFails(c) \/ Prompts(c) \/ ToolsFound(c) \/ NoTools(c)

McpNext ==
    \/ Startup \/ CommandEnds \/ Refresh
    \/ \E s \in Server : DiscoverForServer(s)
    \/ \E o \in All : EndStop(o)
    \/ \E o \in Op : RunEnds(o)
    \/ \E c \in Client : Disconnected(c) \/ Discovery(c) \/ ClientErrs(c)

McpSpec == McpInit /\ [][McpNext]_mcpVars

-----------------------------------------------------------------------------
McpTypeOK ==
    /\ mcpWorld \subseteq Mishap
    /\ run \in [Op -> {"idle", "command", "stopping", "discovering", "done"}]
    /\ closing \in [All -> SUBSET Client]
    /\ managed \in [Server -> All \cup {"none"}]
    /\ client \in [Client -> ClientState]
    /\ serverStatus \in [Server -> ServerStatus]
    /\ registry \subseteq Tool

Discovered == {s \in Server : \E c \in Client : Of(c) = s /\ ~At(c, "none")}
Sound(s) == \A c \in Client : Of(c) = s => ~client[c].faulty
ToolsOf(s) == {t \in registry : Of(t.client) = s}

(* However startup, a refresh and the discovery after a login overlap, once  *)
(* they have ended every server that never failed has a tool a call can      *)
(* reach: no removal comes after the registration it was not meant for, and  *)
(* a client that was stopped is replaced.  When they do not overlap, it is   *)
(* the server's only one, and its status says that it is connected.          *)
(* Overlapping operations leave tools of closed clients and second           *)
(* registrations (README).                                                   *)
EveryServerServes ==
    Quiescent =>
      \A s \in Discovered : Sound(s) =>
          /\ \E t \in ToolsOf(s) : client[t.client].open
          /\ May("overlap") \/ (Cardinality(ToolsOf(s)) = 1 /\ serverStatus[s] = "connected")
=============================================================================
