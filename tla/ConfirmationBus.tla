--------------------------- MODULE ConfirmationBus ---------------------------
(***************************************************************************)
(* Confirmations over the message bus, behind the setting                  *)
(* tools.enableMessageBusIntegration: the rules a session's settings make  *)
(* (cli config/policy.ts), the decisions of PolicyEngine                   *)
(* (packages/core/src/policy/policy-engine.ts), what MessageBus            *)
(* (confirmation-bus/message-bus.ts) emits, and the promise of a call that *)
(* waits for it (handleMessageBusConfirmation, tools/tools.ts).  Rules     *)
(* that are added or removed later, and an engine without a user, belong   *)
(* to PolicyEngine's interface; only its tests use them.                   *)
(***************************************************************************)
EXTENDS Naturals, Sequences, SequencesExt, FiniteSets

CONSTANTS
    BusTool,      \* [name, class, server, kind]: what a call may be of, see Tool
    NoServer,
    BusCall,      \* calls, one of each tool
    PolicyWorld,  \* [settings, asks, rules, changes], see below
    MaxAnswers    \* bound: responses that are published

VARIABLES
    \* settings: the sets allowedServers, trusted, allowed, excluded and excludedServers,
    \* autoAccept, nonInteractive, and the mode; asks: the calls that ask; rules: those that
    \* may be added later; changes: a bound of the rules that are added or removed
    policyWorld,
    rules,        \* PolicyEngine.rules
    added,        \* ghost: the rules that were made or added, and not removed
    changes,      \* how many rules were added or removed later
    confirmation, \* the promise of each call
    listeners,    \* the calls whose responseHandler is subscribed
    timers,       \* the calls whose timer of 30 s runs
    asking,       \* the requests that were passed on to the user
    answers,      \* how many responses were published
    fired,        \* the calls whose signal fired
    given         \* ghost: the responses that each call may rest on

busVars == <<policyWorld, rules, added, changes, confirmation, listeners, timers, asking, answers, fired, given>>

\* A call tells the bus the class of its invocation, which is not the name its tool is
\* registered by.
Tool(c) == BusTool[c]

\* A rule names a tool, all tools of a server ("server__*"), or nothing.  Ghost: the change
\* it came with.
Rule(kind, name, decision, priority) ==
    [kind |-> kind, name |-> name, decision |-> decision, priority |-> priority, since |-> 0]
Matches(r, name, server) ==
    \/ r.kind = "any"
    \/ r.kind = "tool" /\ r.name = name
    \/ r.kind = "server" /\ server # NoServer /\ r.name = server
NamesOf(kinds) == {Tool(c).name : c \in {d \in BusCall : Tool(d).kind \in kinds}}
Write == {"edit", "write"}

\* createPolicyEngineConfig
RulesOf(s) ==
    {Rule("server", n, "allow", 85) : n \in s.allowedServers}
    \cup {Rule("server", n, "allow", 90) : n \in s.trusted}
    \cup {Rule("tool", n, "allow", 100) : n \in s.allowed}
    \cup {Rule("tool", n, "deny", 200) : n \in s.excluded}
    \cup {Rule("server", n, "deny", 195) : n \in s.excludedServers}
    \cup {Rule("tool", n, "allow", 50) : n \in IF s.autoAccept THEN NamesOf({"read"}) ELSE {}}
    \cup IF s.mode = "yolo"
           THEN {Rule("any", "", "allow", 0)}
           ELSE {Rule("tool", n, "ask", 10) : n \in NamesOf(Write)}
                \cup {Rule("tool", n, "allow", 15) : n \in IF s.mode = "auto_edit" THEN NamesOf({"edit"}) ELSE {}}

\* The rules of the settings, sorted by priority
OfPriority(s, p) == SetToSeq({r \in RulesOf(s) : r.priority = p})
SortedRules(s) ==
    OfPriority(s, 200) \o OfPriority(s, 195) \o OfPriority(s, 100) \o OfPriority(s, 90)
        \o OfPriority(s, 85) \o OfPriority(s, 50) \o OfPriority(s, 15) \o OfPriority(s, 10)
        \o OfPriority(s, 0)

\* A rule that is added goes before its equals: a mistake the runs must notice.
NewestFirst(rs, r) ==
    InsertAt(rs, CHOOSE i \in 1 .. Len(rs) + 1 :
                   \A j \in DOMAIN rs : j < i <=> rs[j].priority > r.priority, r)
\* addRule: sorted by priority, and the sort is stable.
Inserted(rs, r) ==
    InsertAt(rs, CHOOSE i \in 1 .. Len(rs) + 1 :
                   \A j \in DOMAIN rs : j < i <=> rs[j].priority >= r.priority, r)

\* removeRulesForTool: the others stay, in their order.
Stays(r, q) == r.kind # q.kind \/ r.name # q.name
Remaining(rs, q) ==
    LET kept == {i \in DOMAIN rs : Stays(rs[i], q)}
    IN [k \in 1 .. Cardinality(kept) |->
          rs[CHOOSE i \in kept : Cardinality({j \in kept : j < i}) = k - 1]]

\* check: the first rule that matches; nobody can be asked in a session without a user.
Check(name, server) ==
    LET found == SelectInSeq(rules, LAMBDA r : Matches(r, name, server))
        decision == IF found = 0 THEN "ask" ELSE rules[found].decision
    IN IF decision = "ask" /\ policyWorld.settings.nonInteractive THEN "deny" ELSE decision

BusInit ==
    /\ policyWorld \in PolicyWorld
    /\ rules = SortedRules(policyWorld.settings)
    /\ added = RulesOf(policyWorld.settings) /\ changes = 0
    /\ confirmation = [c \in BusCall |-> "new"]
    /\ listeners = {} /\ timers = {} /\ asking = {} /\ fired = {}
    /\ answers = 0
    /\ given = [c \in BusCall |-> {}]

promises == <<confirmation, listeners, timers, asking, answers, fired, given>>

AddRule ==
    /\ changes < policyWorld.changes /\ changes' = changes + 1
    /\ \E r \in policyWorld.rules :
         LET rule == [r EXCEPT !.since = changes + 1]
         IN rules' = Inserted(rules, rule) /\ added' = added \cup {rule}
    /\ UNCHANGED <<policyWorld, promises>>
RemoveRulesForTool ==
    /\ changes < policyWorld.changes /\ changes' = changes + 1
    /\ \E q \in {r \in ToSet(rules) : r.kind # "any"} :
         rules' = Remaining(rules, q) /\ added' = {r \in added : Stays(r, q)}
    /\ UNCHANGED <<policyWorld, promises>>

-----------------------------------------------------------------------------
\* Every waiting call hears the response: a mistake the runs must notice.
AllHear(c) == listeners
\* The responseHandlers that take a response for their own, by its correlationId
Hears(c) == {d \in listeners : d = c}

\* The promises of cs are settled, with cleanup.
Settled(cs, how) ==
    /\ confirmation' = [c \in BusCall |-> IF c \in cs THEN how ELSE confirmation[c]]
    /\ listeners' = listeners \ cs /\ timers' = timers \ cs
\* A TOOL_CONFIRMATION_RESPONSE is emitted.
Respond(c, confirmed) ==
    /\ Settled(Hears(c), IF confirmed THEN "allowed" ELSE "denied")
    /\ given' = [given EXCEPT ![c] = @ \cup {confirmed}]

\* handleMessageBusConfirmation, with the publish of its request: the rules answer at
\* once, or the request is passed on.
Ask(c) ==
    /\ c \in policyWorld.asks /\ confirmation[c] = "new"
    /\ LET decision == Check(Tool(c).class, NoServer)
       IN IF c \in fired
            THEN /\ confirmation' = [confirmation EXCEPT ![c] = "aborted"]
                 /\ UNCHANGED <<listeners, timers, asking, given>>
            ELSE IF decision = "ask"
            THEN /\ confirmation' = [confirmation EXCEPT ![c] = "waiting"]
                 /\ listeners' = listeners \cup {c} /\ timers' = timers \cup {c}
                 /\ asking' = asking \cup {c}
                 /\ UNCHANGED given
            ELSE /\ confirmation' = [confirmation EXCEPT ![c] = IF decision = "allow" THEN "allowed" ELSE "denied"]
                 /\ given' = [given EXCEPT ![c] = @ \cup {decision = "allow"}]
                 /\ UNCHANGED <<listeners, timers, asking>>
    /\ UNCHANGED <<policyWorld, rules, added, changes, answers, fired>>

\* Somebody answers a request, perhaps once more, perhaps too late.
Answer ==
    /\ answers < MaxAnswers /\ answers' = answers + 1
    /\ \E c \in asking, confirmed \in BOOLEAN : Respond(c, confirmed)
    /\ UNCHANGED <<policyWorld, rules, added, changes, asking, fired>>

\* After 30 s the call goes on as if it need not be confirmed.
Timeout(c) ==
    /\ c \in timers
    /\ Settled({c}, "unanswered")
    /\ UNCHANGED <<policyWorld, rules, added, changes, asking, answers, fired, given>>

\* The signal; its listener is there while the call waits.
Abort(c) ==
    /\ c \in policyWorld.asks \ fired /\ fired' = fired \cup {c}
    /\ Settled({c} \cap listeners, "aborted")
    /\ UNCHANGED <<policyWorld, rules, added, changes, asking, answers, given>>

BusNext ==
    \/ AddRule \/ RemoveRulesForTool \/ Answer
    \/ \E c \in BusCall : Ask(c) \/ Timeout(c) \/ Abort(c)
BusSpec == BusInit /\ [][BusNext]_busVars

-----------------------------------------------------------------------------
Outcomes == {"new", "waiting", "allowed", "denied", "unanswered", "aborted"}
BusTypeOK ==
    /\ IsInjective(rules) /\ ToSet(rules) = added
    /\ changes \in 0 .. policyWorld.changes /\ answers \in 0 .. MaxAnswers
    /\ confirmation \in [BusCall -> Outcomes]
    /\ {listeners, timers, asking, fired} \subseteq SUBSET BusCall
    /\ given \in [BusCall -> SUBSET BOOLEAN]

\* What the comments of createPolicyEngineConfig and the settings promise of a tool
Promised(s, t) ==
    IF t.name \in s.excluded \/ t.server \in s.excludedServers THEN "deny"
    ELSE IF \/ t.name \in s.allowed \/ t.server \in s.trusted \cup s.allowedServers
            \/ s.mode = "yolo" \/ (s.autoAccept /\ t.kind = "read")
            \/ (s.mode = "auto_edit" /\ t.kind = "edit") THEN "allow"
    ELSE IF s.nonInteractive THEN "deny" ELSE "ask"

(* The rules that the settings make say what the settings promise: exclusions *)
(* win over permissions, those over the modes, and nobody is asked in a       *)
(* session without a user.                                                    *)
SettingsDecide ==
    changes = 0 => \A c \in BusCall :
      Check(Tool(c).name, Tool(c).server) = Promised(policyWorld.settings, Tool(c))

(* However rules are added and removed, the rule that decides is one of the   *)
(* highest priority among those that match, the oldest of them.               *)
Decides(r, matching) ==
    /\ r \in matching
    /\ \A q \in matching : r.priority > q.priority \/ (r.priority = q.priority /\ r.since <= q.since)
RulesDecide ==
    \A c \in BusCall :
      LET Fits(r) == Matches(r, Tool(c).name, Tool(c).server)
          matching == {r \in added : Fits(r)}
          found == SelectInSeq(rules, Fits)
      IN IF found = 0 THEN matching = {} ELSE Decides(rules[found], matching)

(* A call is allowed or denied by a response to its own request only, and     *)
(* whatever settles it first, nothing of it is left on the bus.               *)
AnswersAreOwn ==
    \A c \in BusCall :
      /\ confirmation[c] = "allowed" => TRUE \in given[c]
      /\ confirmation[c] = "denied" => FALSE \in given[c]
      /\ confirmation[c] = "aborted" => c \in fired
      /\ c \in listeners <=> confirmation[c] = "waiting"
      /\ c \in timers <=> confirmation[c] = "waiting"
ConfirmationsAreOwn == SettingsDecide /\ RulesDecide /\ AnswersAreOwn
=============================================================================
