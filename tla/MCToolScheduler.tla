-------------------------- MODULE MCToolScheduler --------------------------
(* Small instances of ToolScheduler for TLC.                               *)
EXTENDS ToolScheduler, TLC

CONSTANTS b1, b2, b3

OneBatchOf == 1 :> b1
TwoBatchOf == (1 :> b1) @@ (2 :> b1) @@ (3 :> b2)
TwoKindOf == (1 :> "edit") @@ (2 :> "git") @@ (3 :> "ls")
LiveKindOf == (1 :> "git") @@ (2 :> "edit") @@ (3 :> "ls")

QueueBatchOf == (1 :> b1) @@ (2 :> b1) @@ (3 :> b2) @@ (4 :> b3)
QueueKindOf == (1 :> "git") @@ (2 :> "edit") @@ (3 :> "ls") @@ (4 :> "ls")
=============================================================================
