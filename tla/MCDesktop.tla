----------------------------- MODULE MCDesktop -----------------------------
(* Small instances of Desktop for TLC.                                     *)
EXTENDS Desktop, TLC

Symmetry == Permutations(Command) \cup Permutations(Tab)

VARIABLE tabs   \* the tabs that are used: all, or one that is not reloaded

TabsInit == Init /\ tabs \in {Tab} \cup {{t} : t \in Tab}
TabsNext ==
    /\ Next /\ UNCHANGED tabs
    /\ tabs # Tab => reloads' = 0 /\ \A t \in Tab \ tabs : pending'[t] = Nothing
TabsSpec == TabsInit /\ [][TabsNext]_<<vars, tabs>>

(* With one tab the page is that of the answer: a file operation, a reply   *)
(* or a restart never lets two commands write it at once, except for an     *)
(* agent that was given up (server.js, smart-simulator.js).                 *)
PageIsKept == tabs # Tab => OnlyStraysGarble /\ SimulatedAnswersShow
=============================================================================
