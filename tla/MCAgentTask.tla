---------------------------- MODULE MCAgentTask ----------------------------
(* Small instances of AgentTask for TLC: one kind of trouble at a time.    *)
EXTENDS AgentTask
MCWorld == {{}, {"mixed", "race"}, {"disconnect"}, {"cancel", "brief"}, {"broken"},
            {"badEdit"}, {"crash", "bucket", "brief"}}
MCCancel == {{"cancel"}}
=============================================================================
