--------------------------- MODULE DesktopSystem ---------------------------
(***************************************************************************)
(* Desktop with the credentials: the backend probes them once, when it     *)
(* starts (runtime/backend/check-auth.js), while commands and status       *)
(* requests already come in; every tab polls the status and shows the last *)
(* reply that arrived (refreshStatus in runtime/frontend/src/App.tsx).     *)
(***************************************************************************)
EXTENDS Desktop

CONSTANT MaxInFlight  \* bound: status replies of one content on their way to a tab

ASSUME StatusAssumption == MaxInFlight \in Nat \ {0}

AuthStatus == {"null", "authenticated", "failed"}
Shown == {"loading", "authenticated", "unauthenticated"}
Report == Shown \ {"loading"}

VARIABLES
    authStatus,  \* result of the probe, "null" before it
    probe,       \* checkGeminiAuth is under way
    shown,       \* agentStatus of a tab
    inFlight     \* replies to GET /api/status that a tab awaits, by content

statusVars == <<authStatus, probe, shown, inFlight>>
systemVars == <<vars, statusVars>>

StatusTypeOK ==
    /\ authStatus \in AuthStatus
    /\ probe \in BOOLEAN
    /\ shown \in [Tab -> Shown]
    /\ inFlight \in [Tab -> [Report -> 0 .. MaxInFlight]]

\* what GET /api/status says of the credentials; a request that fails is shown alike
Reported == IF authStatus = "authenticated" THEN "authenticated" ELSE "unauthenticated"

NoReplies == [r \in Report |-> 0]
Sent(counts, r) == [counts EXCEPT ![r] = IF @ < MaxInFlight THEN @ + 1 ELSE @]

SystemInit ==
    /\ Init
    /\ authStatus = "null"
    /\ probe = useRealAgent
    /\ shown = [t \in Tab |-> "loading"]
    /\ inFlight = [t \in Tab |-> Sent(NoReplies, "unauthenticated")]

-----------------------------------------------------------------------------
\* AUTH_OK from the CLI, or credentials on disk
ProbeSucceeds ==
    /\ probe
    /\ probe' = FALSE
    /\ authStatus' = "authenticated"
    /\ UNCHANGED <<shown, inFlight>>

\* the CLI cannot be started, ends without credentials, or takes 20 s
ProbeFails ==
    /\ probe
    /\ probe' = FALSE
    /\ authStatus' = "failed"
    /\ UNCHANGED <<shown, inFlight>>

\* A mistake the runs must notice: without the interval the tab asks when it is loaded.
PollsOnce(t) ==
    /\ shown[t] = "loading"
    /\ inFlight' = [inFlight EXCEPT ![t] = Sent(@, Reported)]
    /\ UNCHANGED <<authStatus, probe, shown>>

\* the interval of 30 s
Poll(t) ==
    /\ inFlight[t][Reported] < MaxInFlight
    /\ inFlight' = [inFlight EXCEPT ![t] = Sent(@, Reported)]
    /\ UNCHANGED <<authStatus, probe, shown>>

\* Replies arrive in any order.
StatusArrives(t, r) ==
    /\ inFlight[t][r] > 0
    /\ inFlight' = [inFlight EXCEPT ![t][r] = @ - 1]
    /\ shown' = [shown EXCEPT ![t] = r]
    /\ UNCHANGED <<authStatus, probe>>

\* refreshStatus in handleCommand's finally block
ReplyRefreshes(t) ==
    /\ ReplyArrives(t)
    /\ inFlight' = [inFlight EXCEPT ![t] = Sent(@, Reported)]
    /\ UNCHANGED <<authStatus, probe, shown>>

\* A reloaded tab starts again; replies to the old page are dropped.
Remount(t) ==
    /\ Reload(t)
    /\ shown' = [shown EXCEPT ![t] = "loading"]
    /\ inFlight' = [inFlight EXCEPT ![t] = Sent(NoReplies, Reported)]
    /\ UNCHANGED <<authStatus, probe>>

\* The probe starts over; a status request that was under way may fail.
Reboot(survivors) ==
    /\ Restart(survivors)
    /\ authStatus' = "null"
    /\ probe' = useRealAgent
    /\ inFlight' = [t \in Tab |-> IF inFlight[t] = NoReplies THEN NoReplies
                                  ELSE Sent(inFlight[t], "unauthenticated")]
    /\ UNCHANGED shown

Status ==
    \/ ProbeSucceeds \/ ProbeFails
    \/ \E t \in Tab : Poll(t) \/ \E r \in Report : StatusArrives(t, r)

Commands ==
    \/ \E t \in Tab, c \in Command : Submit(t, c)
    \/ \E c \in Command : Invoking(c) \/ Simulating(c) \/ Working(c)

SystemNext ==
    \/ Status /\ UNCHANGED vars
    \/ Commands /\ UNCHANGED statusVars
    \/ \E t \in Tab : ReplyRefreshes(t) \/ Remount(t)
    \/ \E survivors \in SUBSET Command : Reboot(survivors)

SystemSpec == SystemInit /\ [][SystemNext]_systemVars

\* The probe ends within its timeout, the interval fires, replies arrive.
SystemFairness ==
    /\ WF_systemVars((ProbeSucceeds \/ ProbeFails) /\ UNCHANGED vars)
    /\ \A t \in Tab : /\ WF_systemVars(Poll(t) /\ UNCHANGED vars)
                      /\ \A r \in Report : WF_systemVars(StatusArrives(t, r) /\ UNCHANGED vars)

FairSystemSpec == SystemSpec /\ SystemFairness /\ Fairness

-----------------------------------------------------------------------------
\* In the end every tab shows what the backend knows of the credentials, though
\* tabs ask before the probe has ended and replies overtake each other.
StatusSettles == <>[](\A t \in Tab : shown[t] = Reported)
=============================================================================
