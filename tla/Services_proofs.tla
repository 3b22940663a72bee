--------------------------- MODULE Services_proofs ---------------------------
(***************************************************************************)
(* Proofs about Services: what is proved of one service holds of all of    *)
(* them together, because each service changes its own variables only.     *)
(* The diffs and the confirmations over the message bus are proved about   *)
(* in IdeDiff_proofs, the MCP servers and the logins to them in            *)
(* McpServers_proofs, the sub-agents, the telemetry queue, a shell         *)
(* command, the recordings, the log and the edits of files in              *)
(* ServiceParts_proofs, the extensions here.                               *)
(***************************************************************************)
EXTENDS Services, Integers, TLAPS

IdeProofs == INSTANCE IdeDiff_proofs

LEMMA DiffsAreConstant == IdeProofs!IdeConstants
BY NoEditIsNone, DiffsAreOfFiles DEF IdeProofs!IdeConstants

LEMMA DiffsStart == Init => IdeProofs!IdeInit
BY DEF Init, Ide!IdeInit, IdeProofs!IdeInit, Ide!NoAnswer, IdeProofs!NoAnswer

LEMMA DiffsNext == Ide!IdeNext => IdeProofs!IdeNext
<1>1. ASSUME NEW e PROVE Ide!OpenDiff(e) => IdeProofs!OpenDiff(e)
  BY DEF Ide!OpenDiff, IdeProofs!OpenDiff, Ide!Up, IdeProofs!Up
<1>2. ASSUME NEW e PROVE Ide!CliAnswers(e) => IdeProofs!CliAnswers(e)
  BY DEF Ide!CliAnswers, IdeProofs!CliAnswers, Ide!Up, IdeProofs!Up, Ide!Verdict,
         IdeProofs!Verdict, Ide!ResolverOf, IdeProofs!ResolverOf, Ide!FileOf,
         IdeProofs!FileOf
<1>3. ASSUME NEW e PROVE Ide!Ask(e) => IdeProofs!Ask(e)
  BY DEF Ide!Ask, IdeProofs!Ask, Ide!Locked, IdeProofs!Locked, Ide!FileOf,
         IdeProofs!FileOf
<1>4. ASSUME NEW e PROVE Ide!OpenFails(e) => IdeProofs!OpenFails(e)
  BY DEF Ide!OpenFails, IdeProofs!OpenFails, Ide!Connected, IdeProofs!Connected,
         Ide!Up, IdeProofs!Up, Ide!May, IdeProofs!May, Ide!FileOf, IdeProofs!FileOf,
         Ide!Settle, IdeProofs!Settle
<1>5. ASSUME NEW e PROVE Ide!ResolveFromCli(e) => IdeProofs!ResolveFromCli(e)
  BY DEF Ide!ResolveFromCli, IdeProofs!ResolveFromCli, Ide!Settle, IdeProofs!Settle,
         Ide!FileOf, IdeProofs!FileOf, Ide!NoAnswer, IdeProofs!NoAnswer
<1>6. ASSUME NEW e PROVE Ide!CloseFails(e) => IdeProofs!CloseFails(e)
  BY DEF Ide!CloseFails, IdeProofs!CloseFails, Ide!Connected, IdeProofs!Connected,
         Ide!Up, IdeProofs!Up, Ide!May, IdeProofs!May
<1>7. ASSUME NEW e PROVE Ide!ShowDiff(e) => IdeProofs!ShowDiff(e)
  BY DEF Ide!ShowDiff, IdeProofs!ShowDiff, Ide!Connected, IdeProofs!Connected,
         Ide!Up, IdeProofs!Up
<1>8. ASSUME NEW e PROVE Ide!CloseDiff(e) => IdeProofs!CloseDiff(e)
  BY DEF Ide!CloseDiff, IdeProofs!CloseDiff, Ide!Connected, IdeProofs!Connected,
         Ide!Up, IdeProofs!Up, Ide!Served, IdeProofs!Served, Ide!FileOf,
         IdeProofs!FileOf, Ide!FirstOf, IdeProofs!FirstOf, Ide!Shows,
         IdeProofs!Shows, Ide!Closed, IdeProofs!Closed, Ide!Without,
         IdeProofs!Without, Ide!Contains, IdeProofs!Contains
<1>9. ASSUME NEW d PROVE Ide!Decides(d) => IdeProofs!Decides(d)
  BY DEF Ide!Decides, IdeProofs!Decides, Ide!Contains, IdeProofs!Contains, Ide!May,
         IdeProofs!May
<1>10. ASSUME NEW d PROVE Ide!Decided(d) => IdeProofs!Decided(d)
  BY DEF Ide!Decided, IdeProofs!Decided, Ide!Closed, IdeProofs!Closed, Ide!Without,
         IdeProofs!Without, Ide!Contains, IdeProofs!Contains, Ide!Connected,
         IdeProofs!Connected, Ide!Up, IdeProofs!Up
<1>11. Ide!Notified => IdeProofs!Notified
  BY DEF Ide!Notified, IdeProofs!Notified, Ide!Connected, IdeProofs!Connected,
         Ide!Up, IdeProofs!Up, Ide!FileOf, IdeProofs!FileOf, Ide!Settle,
         IdeProofs!Settle, Ide!ResolverOf, IdeProofs!ResolverOf
<1>12. Ide!CloseForDisconnect => IdeProofs!CloseForDisconnect
  BY DEF Ide!CloseForDisconnect, IdeProofs!CloseForDisconnect, Ide!FileOf,
         IdeProofs!FileOf, Ide!Contains, IdeProofs!Contains, Ide!FirstOf,
         IdeProofs!FirstOf, Ide!Shows, IdeProofs!Shows, Ide!Closed,
         IdeProofs!Closed, Ide!Without, IdeProofs!Without
<1>13. Ide!Disconnect => IdeProofs!Disconnect
  BY DEF Ide!Disconnect, IdeProofs!Disconnect, Ide!May, IdeProofs!May
<1>14. Ide!DisconnectEnds => IdeProofs!DisconnectEnds
  BY DEF Ide!DisconnectEnds, IdeProofs!DisconnectEnds, Ide!FileOf, IdeProofs!FileOf,
         Ide!Contains, IdeProofs!Contains
<1>15. Ide!LoseConnection => IdeProofs!LoseConnection
  BY DEF Ide!LoseConnection, IdeProofs!LoseConnection, Ide!May, IdeProofs!May
<1>16. Ide!Reconnect => IdeProofs!Reconnect
  BY DEF Ide!Reconnect, IdeProofs!Reconnect
<1>17. Ide!Decision = IdeProofs!Decision
  BY DEF Ide!Decision, IdeProofs!Decision, Ide!Verdict, IdeProofs!Verdict
<1>18. Ide!IdeClientStep => IdeProofs!IdeClientStep
  BY <1>3, <1>4, <1>5, <1>6, <1>11, <1>12, <1>14 DEF Ide!IdeClientStep, IdeProofs!IdeClientStep
<1>19. Ide!IdeCompanion => IdeProofs!IdeCompanion
  BY <1>7, <1>8, <1>10, <1>17 DEF Ide!IdeCompanion, IdeProofs!IdeCompanion
<1> QED
  BY <1>1, <1>2, <1>9, <1>13, <1>15, <1>16, <1>17, <1>18, <1>19 DEF Ide!IdeNext, IdeProofs!IdeNext

\* A step of the services is one of the diffs, or leaves them alone.
LEMMA DiffsStep == [Next]_vars => [IdeProofs!IdeNext]_(IdeProofs!ideVars)
<1>1. Next => Ide!IdeNext \/ UNCHANGED ideVars
  BY DEF Next, Step
<1>2. UNCHANGED vars => UNCHANGED ideVars
  BY DEF vars
<1> QED
  BY <1>1, <1>2, DiffsNext DEF ideVars, IdeProofs!ideVars

(* Whatever the other services do, the diffs do not mix: one view is open   *)
(* at a time, by the mutex of IdeClient and the DiffManager of the          *)
(* companion, and an edit is accepted with the text of its own view.        *)
THEOREM DiffsAreApart == Spec => []DiffsStayApart
<1>1. Init => IdeProofs!IdeInv
  BY DiffsStart, DiffsAreConstant, IdeProofs!IdeInitHolds
<1>2. IdeProofs!IdeInv /\ [Next]_vars => IdeProofs!IdeInv'
  BY DiffsStep, IdeProofs!IdeStepKeeps
<1>3. IdeProofs!IdeInv => DiffsStayApart
  <2>1. Ide!Quiet <=> IdeProofs!Quiet
    BY DEF Ide!Quiet, IdeProofs!Quiet
  <2>2. Ide!Separate <=> IdeProofs!Separate
    BY DEF Ide!Separate, IdeProofs!Separate, Ide!Quiet, IdeProofs!Quiet, Ide!SameFile,
           IdeProofs!SameFile, Ide!FileOf, IdeProofs!FileOf, Ide!Cardinality, IdeProofs!Cardinality
  <2>3. IdeProofs!OneViewAtATime => Ide!OneViewAtATime
    BY <2>1, <2>2, Zenon DEF IdeProofs!OneViewAtATime, Ide!OneViewAtATime
  <2>4. IdeProofs!AcceptedTextIsOwn => Ide!AcceptedTextIsOwn
    <3> SUFFICES ASSUME IdeProofs!AcceptedTextIsOwn, Ide!Separate, NEW e \in Edit,
                        edit[e].at = "accepted"
                 PROVE  edit[e].content \in {e, NoEdit}
      BY DEF Ide!AcceptedTextIsOwn
    <3>1. IdeProofs!Separate
      BY <2>2
    <3> QED
      BY <3>1 DEF IdeProofs!AcceptedTextIsOwn
  <2> QED
    BY <2>3, <2>4, IdeProofs!OneView, IdeProofs!OwnText DEF DiffsStayApart
<1> QED
  BY <1>1, <1>2, <1>3, PTL DEF Spec
-----------------------------------------------------------------------------
\* The extensions (Extensions): what the updates, their files, and the command that
\* waits for them look like at each await of updateExtension.
UpdateStates == {"unset", "checking", "available", "up to date", "error", "updating", "updated"}
UpdatesType ==
    [status : [Extension -> UpdateStates], checks : Int,
     scheduled : [all : BOOLEAN, names : SUBSET Extension, on : BOOLEAN]]
UpdateTypes ==
    /\ updates \in UpdatesType /\ shown \in UpdatesType
    /\ checking \subseteq Extension
    /\ updateAt \in [Extension -> Extend!Working \cup {"rest", "restoring", "tidying"}]
    /\ disk \in [Extension -> [Extend!Part -> {"none", "old", "new"}]]
    /\ backup \in [Extension -> [Extend!Part -> {"none", "old"}]]
    /\ awaited \in [updates : SUBSET Extension, failed : BOOLEAN]
    /\ commandProcessing \in BOOLEAN

\* The state of an extension says where its update is, and the effects of a render
\* find what the render has seen.
StateInv(e) ==
    /\ updateAt[e] \in Extend!Working => updates.status[e] = "updating"
    /\ updates.status[e] = "updating" =>
         \/ updateAt[e] \in Extend!Working
         \/ Extend!May("backup") /\ updateAt[e] = "rest"
            /\ disk[e] = Extend!OldFiles /\ backup[e] = Extend!NoFiles
    /\ updateAt[e] = "restoring" => updates.status[e] = "error"
    /\ updateAt[e] = "tidying" => updates.status[e] \in {"error", "updated"}
    /\ e \in checking => updates.status[e] = "checking"
    /\ effectsDue /\ shown.status[e] \in {"unset", "available"}
         => updates.status[e] = shown.status[e]

\* What the directory and its copy hold at each await, so that either can be whole again.
FilesInv(e) ==
    /\ \/ updateAt[e] = "rest" /\ updates.status[e] \notin {"updated", "error"}
       \/ updateAt[e] = "making"
       => disk[e] = Extend!OldFiles /\ backup[e] = Extend!NoFiles
    /\ updateAt[e] \in {"copying", "removing"} => disk[e] = Extend!OldFiles
    /\ updateAt[e] \in {"installing", "asking", "placing"} => disk[e] = Extend!NoFiles
    /\ updateAt[e] \in {"removing", "installing", "asking", "placing"} => backup[e] = Extend!OldFiles
    /\ updateAt[e] = "restoring" =>
         \A f \in {"config", "code"} :
            backup[e][f] = "old" \/ (backup[e][f] = "none" /\ disk[e][f] = "old")
    /\ updateAt[e] \in {"rest", "tidying"} =>
         \/ updates.status[e] = "updated" /\ disk[e] = Extend!NewFiles
         \/ updates.status[e] # "updated" /\ disk[e].config = "old" /\ disk[e].code = "old"
         \/ Extend!May("restore") /\ updates.status[e] = "error"

\* A command waits for updates that are under way.
CommandInv == Extend!CommandsEnd /\ \A e \in awaited.updates : updateAt[e] # "rest"

UpdateInv == UpdateTypes /\ CommandInv /\ \A e \in Extension : StateInv(e) /\ FilesInv(e)

LEMMA UpdateInvHolds == UpdateInv => Extend!ExtensionsSurvive
BY DEF UpdateInv, CommandInv, StateInv, FilesInv, UpdateTypes, Extend!ExtensionsSurvive,
       Extend!UpdatesAreWhole, Extend!StatesAreTrue, Extend!Working

LEMMA FilesTypes ==
    /\ Extend!OldFiles \in [Extend!Part -> {"none", "old"}]
    /\ Extend!NoFiles \in [Extend!Part -> {"none", "old"}]
    /\ Extend!NewFiles \in [Extend!Part -> {"none", "old", "new"}]
    /\ Extend!OldFiles["config"] = "old" /\ Extend!OldFiles["code"] = "old"
    /\ "config" \in Extend!Part /\ "code" \in Extend!Part
BY DEF Extend!OldFiles, Extend!NoFiles, Extend!NewFiles, Extend!Part

LEMMA StateNames ==
    /\ "unset" \in UpdateStates /\ "checking" \in UpdateStates /\ "available" \in UpdateStates
    /\ "up to date" \in UpdateStates /\ "error" \in UpdateStates /\ "updating" \in UpdateStates
    /\ "updated" \in UpdateStates
BY DEF UpdateStates

LEMMA UpdateInit == Extend!ExtensionInit => UpdateInv
<1> SUFFICES ASSUME Extend!ExtensionInit PROVE UpdateInv
  OBVIOUS
<1>1. \A e \in Extension :
        /\ updates.status[e] = "unset" /\ updateAt[e] = "rest"
        /\ disk[e] = Extend!OldFiles /\ backup[e] = Extend!NoFiles
  BY DEF Extend!ExtensionInit
<1>2. UpdateTypes
  <2>1. updates \in UpdatesType /\ shown \in UpdatesType
    <3>1. [e \in Extension |-> "unset"] \in [Extension -> UpdateStates]
      BY StateNames
    <3>2. Extend!NoSchedule \in [all : BOOLEAN, names : SUBSET Extension, on : BOOLEAN]
      BY DEF Extend!NoSchedule
    <3> QED BY <3>1, <3>2 DEF Extend!ExtensionInit, UpdatesType
  <2>2. /\ disk \in [Extension -> [Extend!Part -> {"none", "old", "new"}]]
        /\ backup \in [Extension -> [Extend!Part -> {"none", "old"}]]
    <3>1. Extend!OldFiles \in [Extend!Part -> {"none", "old", "new"}]
      BY DEF Extend!OldFiles
    <3> QED BY <3>1, FilesTypes DEF Extend!ExtensionInit
  <2> QED BY <2>1, <2>2 DEF Extend!ExtensionInit, UpdateTypes
<1>3. CommandInv
  BY DEF Extend!ExtensionInit, CommandInv, Extend!CommandsEnd
<1>4. \A e \in Extension : StateInv(e)
  BY <1>1 DEF Extend!ExtensionInit, StateInv, Extend!Working
<1>5. \A e \in Extension : FilesInv(e)
  BY <1>1, FilesTypes DEF FilesInv, Extend!OldFiles, Extend!Part
<1> QED BY <1>2, <1>3, <1>4, <1>5 DEF UpdateInv

\* The state that some extensions are given.
\* v is us with the state s for the extensions of es.
HasStateSet(v, us, es, s) ==
    /\ v \in UpdatesType /\ v.scheduled = us.scheduled
    /\ \A e \in Extension : v.status[e] = IF e \in es THEN s ELSE us.status[e]

LEMMA SetStateType ==
    ASSUME NEW us \in UpdatesType, NEW es \in SUBSET Extension, NEW s \in UpdateStates
    PROVE  HasStateSet(Extend!SetState(us, es, s), us, es, s)
<1> DEFINE status == [e \in Extension |-> IF e \in es THEN s ELSE us.status[e]]
<1>1. status \in [Extension -> UpdateStates]
  BY DEF UpdatesType
<1>2. Extend!SetState(us, es, s) = [us EXCEPT !.status = status]
  BY DEF Extend!SetState, UpdatesType
<1>3. \A e \in Extension : status[e] = IF e \in es THEN s ELSE us.status[e]
  OBVIOUS
<1> HIDE DEF status
<1>4. PICK T : UpdatesType = [status : [Extension -> UpdateStates], checks : Int, scheduled : T]
  BY DEF UpdatesType
<1>5. Extend!SetState(us, es, s) \in UpdatesType
  BY <1>1, <1>2, <1>4
<1>6. Extend!SetState(us, es, s).scheduled = us.scheduled /\ Extend!SetState(us, es, s).status = status
  BY <1>2, <1>4
<1> QED BY <1>3, <1>5, <1>6 DEF HasStateSet

LEMMA SetOneState ==
    ASSUME UpdateInv, NEW e \in Extension, NEW s \in UpdateStates
    PROVE  /\ Extend!SetState(updates, {e}, s) \in UpdatesType
           /\ Extend!SetState(updates, {e}, s).scheduled = updates.scheduled
           /\ Extend!SetState(updates, {e}, s).status[e] = s
           /\ \A q \in Extension \ {e} :
                Extend!SetState(updates, {e}, s).status[q] = updates.status[q]
<1>1. updates \in UpdatesType /\ {e} \in SUBSET Extension
  BY DEF UpdateInv, UpdateTypes
<1>2. HasStateSet(Extend!SetState(updates, {e}, s), updates, {e}, s)
  BY <1>1, SetStateType
<1> QED BY <1>2 DEF HasStateSet

\* The other parts of the state.
LEMMA CountsAreInt == \A us \in UpdatesType : us.checks \in Int /\ us.checks - 1 \in Int
BY DEF UpdatesType

LEMMA CountType ==
    ASSUME NEW us \in UpdatesType, NEW n \in Int
    PROVE  /\ [us EXCEPT !.checks = n] \in UpdatesType
           /\ [us EXCEPT !.checks = n].status = us.status
           /\ [us EXCEPT !.checks = n].scheduled = us.scheduled
<1>1. PICK S, T : UpdatesType = [status : S, checks : Int, scheduled : T]
  BY DEF UpdatesType
<1> QED BY <1>1

\* A step of one extension.
LEMMA OthersKeep ==
    ASSUME UpdateInv, NEW e \in Extension,
           UNCHANGED <<extensionWorld, shown, effectsDue, checking>>,
           \A q \in Extension \ {e} : /\ updates'.status[q] = updates.status[q]
                                      /\ updateAt'[q] = updateAt[q]
                                      /\ disk'[q] = disk[q] /\ backup'[q] = backup[q]
    PROVE  \A q \in Extension \ {e} : StateInv(q)' /\ FilesInv(q)'
<1> SUFFICES ASSUME NEW q \in Extension \ {e} PROVE StateInv(q)' /\ FilesInv(q)'
  OBVIOUS
<1>1. StateInv(q) /\ FilesInv(q)
  BY DEF UpdateInv
<1>2. StateInv(q)'
  BY <1>1 DEF StateInv, Extend!May
<1>3. FilesInv(q)'
  BY <1>1 DEF FilesInv, Extend!May
<1> QED BY <1>2, <1>3

\* updateExtension goes on to its next await.
LEMMA GoesOnKeeps ==
    ASSUME UpdateInv, NEW e \in Extension, NEW at \in Extend!Working \ {"making"}, Extend!GoesOn(e, at),
           updateAt[e] \in Extend!Working,
           disk' \in [Extension -> [Extend!Part -> {"none", "old", "new"}]],
           backup' \in [Extension -> [Extend!Part -> {"none", "old"}]],
           \A q \in Extension \ {e} : disk'[q] = disk[q] /\ backup'[q] = backup[q],
           at \in {"copying", "removing"} => disk'[e] = Extend!OldFiles,
           at \in {"installing", "asking", "placing"} => disk'[e] = Extend!NoFiles,
           at # "copying" => backup'[e] = Extend!OldFiles
    PROVE  UpdateInv'
<1>1. /\ updateAt' = [updateAt EXCEPT ![e] = at]
      /\ UNCHANGED <<extensionWorld, shown, effectsDue, checking, updates, awaited, commandProcessing>>
  BY DEF Extend!GoesOn, Extend!unrelated
<1>2. updateAt'[e] = at /\ \A q \in Extension \ {e} : updateAt'[q] = updateAt[q]
  BY <1>1 DEF UpdateInv, UpdateTypes
<1>3. UpdateTypes'
  BY <1>1 DEF UpdateInv, UpdateTypes
<1>4. CommandInv'
  BY <1>1, <1>2 DEF UpdateInv, UpdateTypes, CommandInv, Extend!CommandsEnd, Extend!Working
<1>5. StateInv(e)'
  BY <1>1, <1>2 DEF UpdateInv, StateInv, Extend!Working
<1>6. FilesInv(e)'
  BY <1>2 DEF FilesInv, Extend!Working
<1> QED BY <1>1, <1>2, <1>3, <1>4, <1>5, <1>6, OthersKeep DEF UpdateInv

\* The catch clause finds a copy, or a directory, with every file of the old version.
LEMMA FailsKeeps ==
    ASSUME UpdateInv, NEW e \in Extension, Extend!Fails(e), updateAt[e] \in Extend!Working,
           disk' \in [Extension -> [Extend!Part -> {"none", "old", "new"}]],
           backup' \in [Extension -> [Extend!Part -> {"none", "old"}]],
           \A q \in Extension \ {e} : disk'[q] = disk[q] /\ backup'[q] = backup[q],
           \A f \in {"config", "code"} :
              backup'[e][f] = "old" \/ (backup'[e][f] = "none" /\ disk'[e][f] = "old")
    PROVE  UpdateInv'
<1>1. /\ updateAt' = [updateAt EXCEPT ![e] = "restoring"]
      /\ updates' = Extend!SetState(updates, {e}, "error")
      /\ UNCHANGED <<extensionWorld, shown, effectsDue, checking, awaited, commandProcessing>>
  BY DEF Extend!Fails, Extend!unrelated
<1>2. updateAt'[e] = "restoring" /\ \A q \in Extension \ {e} : updateAt'[q] = updateAt[q]
  BY <1>1 DEF UpdateInv, UpdateTypes
<1>3. /\ updates' \in UpdatesType /\ updates'.scheduled = updates.scheduled
      /\ updates'.status[e] = "error"
      /\ \A q \in Extension \ {e} : updates'.status[q] = updates.status[q]
  <2>1. PICK s \in UpdateStates : s = "error"
    BY StateNames
  <2>2. updates' = Extend!SetState(updates, {e}, s)
    BY <1>1, <2>1
  <2>3. /\ Extend!SetState(updates, {e}, s) \in UpdatesType
        /\ Extend!SetState(updates, {e}, s).scheduled = updates.scheduled
        /\ Extend!SetState(updates, {e}, s).status[e] = s
        /\ \A q \in Extension \ {e} :
             Extend!SetState(updates, {e}, s).status[q] = updates.status[q]
    BY SetOneState
  <2> QED BY <2>1, <2>2, <2>3
<1>4. UpdateTypes'
  BY <1>1, <1>3 DEF UpdateInv, UpdateTypes
<1>5. CommandInv'
  BY <1>1, <1>2, <1>3 DEF UpdateInv, UpdateTypes, CommandInv, Extend!CommandsEnd, Extend!Working
<1>6. StateInv(e)'
  BY <1>1, <1>2, <1>3 DEF UpdateInv, StateInv, Extend!Working
<1>7. FilesInv(e)'
  BY <1>2 DEF FilesInv
<1> QED BY <1>1, <1>2, <1>3, <1>4, <1>5, <1>6, <1>7, OthersKeep DEF UpdateInv

\* Only the removal of the copy is left.
LEMMA TidiesKeeps ==
    ASSUME UpdateInv, NEW e \in Extension, Extend!Tidies(e),
           disk' \in [Extension -> [Extend!Part -> {"none", "old", "new"}]], backup' = backup,
           \A q \in Extension \ {e} : disk'[q] = disk[q] /\ updates'.status[q] = updates.status[q],
           updates' \in UpdatesType, updates'.scheduled = updates.scheduled,
           \/ updates'.status[e] = "updated" /\ disk'[e] = Extend!NewFiles
           \/ /\ updates'.status[e] = "error"
              /\ (disk'[e].config = "old" /\ disk'[e].code = "old") \/ Extend!May("restore"),
           updateAt[e] \in {"placing", "restoring"}
    PROVE  UpdateInv'
<1>1. /\ updateAt' = [updateAt EXCEPT ![e] = "tidying"]
      /\ UNCHANGED <<extensionWorld, shown, effectsDue, checking, awaited, commandProcessing>>
  BY DEF Extend!Tidies, Extend!unrelated
<1>2. updateAt'[e] = "tidying" /\ \A q \in Extension \ {e} : updateAt'[q] = updateAt[q]
  BY <1>1 DEF UpdateInv, UpdateTypes
<1>3. UpdateTypes'
  BY <1>1 DEF UpdateInv, UpdateTypes
<1>4. CommandInv'
  BY <1>1, <1>2 DEF UpdateInv, UpdateTypes, CommandInv, Extend!CommandsEnd
<1>5. StateInv(e)'
  BY <1>1, <1>2 DEF UpdateInv, UpdateTypes, StateInv, Extend!Working
<1>6. FilesInv(e)'
  BY <1>1, <1>2 DEF FilesInv, Extend!May
<1> QED BY <1>1, <1>2, <1>3, <1>4, <1>5, <1>6, OthersKeep DEF UpdateInv

\* An update ends, and perhaps the command that waits for it.
LEMMA EndsKeeps ==
    ASSUME UpdateInv, NEW e \in Extension, NEW ok \in BOOLEAN, Extend!Ends(e, ok),
           UNCHANGED <<updates, disk, backup>>,
           updateAt[e] = "tidying" \/ (updateAt[e] = "making" /\ Extend!May("backup"))
    PROVE  UpdateInv'
<1>1. /\ updateAt' = [updateAt EXCEPT ![e] = "rest"]
      /\ awaited' = IF e \in awaited.updates
                      THEN [updates |-> awaited.updates \ {e}, failed |-> awaited.failed \/ ~ok]
                      ELSE awaited
      /\ commandProcessing' = (commandProcessing /\ ~(awaited.updates = {e} /\ ~awaited'.failed))
      /\ UNCHANGED <<extensionWorld, shown, effectsDue, checking>>
  BY DEF Extend!Ends, Extend!unrelated
<1>2. updateAt'[e] = "rest" /\ \A q \in Extension \ {e} : updateAt'[q] = updateAt[q]
  BY <1>1 DEF UpdateInv, UpdateTypes
<1>3. UpdateTypes'
  BY <1>1 DEF UpdateInv, UpdateTypes
<1>4. /\ awaited'.updates = awaited.updates \ {e}
      /\ awaited.failed => awaited'.failed
      /\ commandProcessing' => commandProcessing /\ (awaited.updates # {e} \/ awaited'.failed)
  BY <1>1 DEF UpdateInv, UpdateTypes
<1>5. CommandInv'
  <2>1. \A q \in awaited'.updates : updateAt'[q] # "rest"
    BY <1>2, <1>4 DEF UpdateInv, UpdateTypes, CommandInv
  <2>2. ASSUME commandProcessing', ~updates'.scheduled.on, ~awaited'.failed
        PROVE  \E q \in awaited'.updates : updateAt'[q] # "rest"
    <3>1. PICK q \in awaited.updates : TRUE
      BY <1>4, <2>2 DEF UpdateInv, CommandInv, Extend!CommandsEnd
    <3> QED BY <1>4, <2>1, <2>2
  <2> QED BY <2>1, <2>2 DEF CommandInv, Extend!CommandsEnd
<1>6. StateInv(e) /\ FilesInv(e)
  BY DEF UpdateInv
<1>7. CASE updateAt[e] = "tidying"
  <2>1. StateInv(e)'
    BY <1>1, <1>2, <1>6, <1>7 DEF StateInv, Extend!Working
  <2>2. FilesInv(e)'
    BY <1>1, <1>2, <1>6, <1>7 DEF StateInv, FilesInv, Extend!May
  <2> QED BY <1>1, <1>2, <1>3, <1>5, <2>1, <2>2, OthersKeep DEF UpdateInv
<1>8. CASE updateAt[e] = "making" /\ Extend!May("backup")
  <2>1. updates.status[e] = "updating" /\ disk[e] = Extend!OldFiles /\ backup[e] = Extend!NoFiles
    BY <1>6, <1>8 DEF StateInv, FilesInv, Extend!Working
  <2>2. StateInv(e)'
    BY <1>1, <1>2, <1>6, <1>8, <2>1 DEF StateInv, Extend!Working, Extend!May
  <2>3. FilesInv(e)'
    BY <1>2, <2>1, FilesTypes DEF FilesInv
  <2> QED BY <1>1, <1>2, <1>3, <1>5, <2>2, <2>3, OthersKeep DEF UpdateInv
<1> QED BY <1>7, <1>8

LEMMA MakeBackUpKeeps ==
    ASSUME UpdateInv, NEW e \in Extension, Extend!MakeBackUp(e)
    PROVE  UpdateInv'
<1>1. /\ updateAt[e] = "making" /\ disk[e] = Extend!OldFiles /\ disk' = disk /\ backup' = backup
      /\ disk \in [Extension -> [Extend!Part -> {"none", "old", "new"}]]
      /\ backup \in [Extension -> [Extend!Part -> {"none", "old"}]]
  BY DEF Extend!MakeBackUp, Extend!At, Extend!untouchedDisk, UpdateInv, UpdateTypes, FilesInv
<1>2. CASE Extend!GoesOn(e, "copying")
  BY <1>1, <1>2, GoesOnKeeps DEF Extend!Working
<1>3. CASE Extend!May("backup") /\ UNCHANGED updates /\ Extend!Ends(e, FALSE)
  BY <1>1, <1>3, EndsKeeps
<1> QED BY <1>2, <1>3 DEF Extend!MakeBackUp

LEMMA TidyKeeps ==
    ASSUME UpdateInv, NEW e \in Extension, Extend!Tidy(e)
    PROVE  UpdateInv'
<1>1. /\ updateAt[e] = "tidying" /\ UNCHANGED <<updates, disk, backup>>
      /\ Extend!Ends(e, updates.status[e] = "updated") \/ Extend!Ends(e, FALSE)
  BY DEF Extend!Tidy, Extend!At, Extend!untouchedDisk
<1>2. PICK ok \in BOOLEAN : Extend!Ends(e, ok)
  BY <1>1
<1> QED BY <1>1, <1>2, EndsKeeps

LEMMA BackUpKeeps ==
    ASSUME UpdateInv, NEW e \in Extension, Extend!BackUp(e)
    PROVE  UpdateInv'
<1>1. /\ updateAt[e] = "copying" /\ disk[e] = Extend!OldFiles /\ disk' = disk
      /\ disk \in [Extension -> [Extend!Part -> {"none", "old", "new"}]]
      /\ backup \in [Extension -> [Extend!Part -> {"none", "old"}]]
  BY DEF Extend!BackUp, Extend!At, UpdateInv, UpdateTypes, FilesInv
<1>2. CASE Extend!Saved(e) /\ Extend!GoesOn(e, "removing")
  BY <1>1, <1>2, FilesTypes, GoesOnKeeps DEF Extend!Saved, Extend!Working
<1>3. ASSUME NEW b \in Extend!Partly(disk[e], Extend!NoFiles), backup' = [backup EXCEPT ![e] = b],
             Extend!Fails(e)
      PROVE  UpdateInv'
  <2>1. b \in [Extend!Part -> {"none", "old"}]
    BY <1>1, <1>3, FilesTypes DEF Extend!Partly, Extend!Copied
  <2> QED BY <1>1, <1>3, <2>1, FilesTypes, FailsKeeps DEF Extend!Working
<1> QED BY <1>2, <1>3 DEF Extend!BackUp

LEMMA UninstallKeeps ==
    ASSUME UpdateInv, NEW e \in Extension, Extend!Uninstall(e)
    PROVE  UpdateInv'
<1>1. /\ updateAt[e] = "removing" /\ disk[e] = Extend!OldFiles
      /\ backup[e] = Extend!OldFiles /\ backup' = backup
      /\ disk \in [Extension -> [Extend!Part -> {"none", "old", "new"}]]
      /\ backup \in [Extension -> [Extend!Part -> {"none", "old"}]]
  BY DEF Extend!Uninstall, Extend!At, UpdateInv, UpdateTypes, FilesInv
<1>2. CASE disk' = [disk EXCEPT ![e] = Extend!NoFiles] /\ Extend!GoesOn(e, "installing")
  BY <1>1, <1>2, FilesTypes, GoesOnKeeps DEF Extend!Working
<1>3. ASSUME NEW d \in Extend!PartlyRemoved(disk[e]), disk' = [disk EXCEPT ![e] = d],
             Extend!Fails(e)
      PROVE  UpdateInv'
  <2>1. d \in [Extend!Part -> {"none", "old", "new"}]
    BY <1>1, <1>3 DEF Extend!PartlyRemoved
  <2> QED BY <1>1, <1>3, <2>1, FilesTypes, FailsKeeps DEF Extend!Working
<1> QED BY <1>2, <1>3 DEF Extend!Uninstall

LEMMA DownloadKeeps ==
    ASSUME UpdateInv, NEW e \in Extension, Extend!Download(e) \/ Extend!Consent(e)
    PROVE  UpdateInv'
<1>1. /\ updateAt[e] \in {"installing", "asking"} /\ disk[e] = Extend!NoFiles
      /\ backup[e] = Extend!OldFiles
      /\ backup' = backup /\ disk' = disk
      /\ disk \in [Extension -> [Extend!Part -> {"none", "old", "new"}]]
      /\ backup \in [Extension -> [Extend!Part -> {"none", "old"}]]
  BY DEF Extend!Download, Extend!Consent, Extend!untouchedDisk, Extend!At, UpdateInv,
         UpdateTypes, FilesInv
<1>2. ASSUME NEW at \in {"placing", "asking"}, Extend!GoesOn(e, at) PROVE UpdateInv'
  BY <1>1, <1>2, GoesOnKeeps DEF Extend!Working
<1>3. CASE Extend!Fails(e)
  BY <1>1, <1>3, FilesTypes, FailsKeeps DEF Extend!Working
<1> QED BY <1>2, <1>3 DEF Extend!Download, Extend!Consent

LEMMA PlaceKeeps ==
    ASSUME UpdateInv, NEW e \in Extension, Extend!Place(e)
    PROVE  UpdateInv'
<1>1. /\ updateAt[e] = "placing" /\ disk[e] = Extend!NoFiles
      /\ backup[e] = Extend!OldFiles /\ backup' = backup
      /\ disk \in [Extension -> [Extend!Part -> {"none", "old", "new"}]]
      /\ backup \in [Extension -> [Extend!Part -> {"none", "old"}]]
  BY DEF Extend!Place, Extend!At, UpdateInv, UpdateTypes, FilesInv
<1>2. CASE /\ disk' = [disk EXCEPT ![e] = Extend!Copied(Extend!NewFiles, disk[e])]
           /\ updates' = Extend!SetState(updates, {e}, "updated")
           /\ Extend!Tidies(e)
  <2>1. Extend!Copied(Extend!NewFiles, disk[e]) = Extend!NewFiles
    BY <1>1 DEF Extend!Copied, Extend!NewFiles, Extend!NoFiles
  <2>2. /\ disk'[e] = Extend!NewFiles /\ \A q \in Extension \ {e} : disk'[q] = disk[q]
        /\ disk' \in [Extension -> [Extend!Part -> {"none", "old", "new"}]]
    BY <1>1, <1>2, <2>1, FilesTypes
  <2>3. /\ updates' \in UpdatesType /\ updates'.scheduled = updates.scheduled
        /\ updates'.status[e] = "updated"
        /\ \A q \in Extension \ {e} : updates'.status[q] = updates.status[q]
    <3>1. PICK s \in UpdateStates : s = "updated"
      BY StateNames
    <3>2. updates' = Extend!SetState(updates, {e}, s)
      BY <1>2, <3>1
    <3> QED BY <3>1, <3>2, SetOneState
  <2> QED BY <1>1, <1>2, <2>2, <2>3, TidiesKeeps
<1>3. ASSUME NEW d \in Extend!Partly(Extend!NewFiles, disk[e]), disk' = [disk EXCEPT ![e] = d],
             Extend!Fails(e)
      PROVE  UpdateInv'
  <2>1. d \in [Extend!Part -> {"none", "old", "new"}]
    BY <1>1, <1>3, FilesTypes DEF Extend!Partly, Extend!Copied
  <2> QED BY <1>1, <1>3, <2>1, FilesTypes, FailsKeeps DEF Extend!Working
<1>4. CASE UNCHANGED disk /\ Extend!Fails(e)
  BY <1>1, <1>4, FilesTypes, FailsKeeps DEF Extend!Working
<1> QED BY <1>2, <1>3, <1>4 DEF Extend!Place

LEMMA RestoreKeeps ==
    ASSUME UpdateInv, NEW e \in Extension, Extend!Restore(e)
    PROVE  UpdateInv'
<1>1. /\ updateAt[e] = "restoring" /\ updates.status[e] = "error"
      /\ backup' = backup /\ updates' = updates /\ Extend!Tidies(e)
      /\ disk \in [Extension -> [Extend!Part -> {"none", "old", "new"}]]
      /\ backup \in [Extension -> [Extend!Part -> {"none", "old"}]]
      /\ updates \in UpdatesType
      /\ \A f \in {"config", "code"} :
            backup[e][f] = "old" \/ (backup[e][f] = "none" /\ disk[e][f] = "old")
  BY DEF Extend!Restore, Extend!At, UpdateInv, UpdateTypes, FilesInv, StateInv
<1>2. ASSUME NEW d \in [Extend!Part -> {"none", "old", "new"}], disk' = [disk EXCEPT ![e] = d],
             (d.config = "old" /\ d.code = "old") \/ Extend!May("restore")
      PROVE  UpdateInv'
  BY <1>1, <1>2, TidiesKeeps
<1>3. CASE disk' = [disk EXCEPT ![e] = Extend!Copied(backup[e], disk[e])]
  <2> DEFINE d == Extend!Copied(backup[e], disk[e])
  <2>1. d \in [Extend!Part -> {"none", "old", "new"}] /\ d["config"] = "old" /\ d["code"] = "old"
    BY <1>1, FilesTypes DEF Extend!Copied
  <2> HIDE DEF d
  <2>2. disk' = [disk EXCEPT ![e] = d]
    BY <1>3 DEF d
  <2> QED BY <1>2, <2>1, <2>2
<1>4. ASSUME NEW d \in Extend!Partly(backup[e], disk[e]), disk' = [disk EXCEPT ![e] = d],
             Extend!May("restore")
      PROVE  UpdateInv'
  <2>1. d \in [Extend!Part -> {"none", "old", "new"}]
    BY <1>1, <1>4 DEF Extend!Partly, Extend!Copied
  <2> QED BY <1>2, <1>4, <2>1
<1> QED BY <1>3, <1>4 DEF Extend!Restore

\* A step of the whole session, which leaves the files alone.
LEMMA CommandKeeps ==
    ASSUME UpdateInv, Extend!UpdateCommand
    PROVE  UpdateInv'
<1>1. /\ updates' \in UpdatesType /\ updates'.scheduled.on
      /\ updates'.status = updates.status
      /\ UNCHANGED <<extensionWorld, shown, effectsDue, checking, updateAt, disk, backup, awaited>>
      /\ commandProcessing' = TRUE
  <2>1. PICK names \in SUBSET Extension :
          updates' = [updates EXCEPT !.scheduled = [all |-> names = {}, names |-> names, on |-> TRUE]]
    BY DEF Extend!UpdateCommand
  <2> QED BY <2>1 DEF Extend!UpdateCommand, Extend!untouchedDisk, UpdateInv, UpdateTypes, UpdatesType
<1>2. UpdateTypes'
  BY <1>1 DEF UpdateInv, UpdateTypes
<1>3. CommandInv'
  BY <1>1 DEF UpdateInv, CommandInv, Extend!CommandsEnd
<1>4. ASSUME NEW e \in Extension PROVE StateInv(e)' /\ FilesInv(e)'
  <2>1. StateInv(e) /\ FilesInv(e)
    BY DEF UpdateInv
  <2> QED BY <1>1, <2>1 DEF StateInv, FilesInv, Extend!May
<1> QED BY <1>2, <1>3, <1>4 DEF UpdateInv

LEMMA RenderKeeps ==
    ASSUME UpdateInv, Extend!Render
    PROVE  UpdateInv'
<1>1. /\ shown' = updates
      /\ UNCHANGED <<extensionWorld, updates, checking, updateAt, disk, backup, awaited,
                     commandProcessing>>
  BY DEF Extend!Render, Extend!untouchedDisk, Extend!untouchedCommand
<1>2. UpdateTypes'
  BY <1>1 DEF UpdateInv, UpdateTypes
<1>3. CommandInv'
  BY <1>1 DEF UpdateInv, CommandInv, Extend!CommandsEnd
<1>4. ASSUME NEW e \in Extension PROVE StateInv(e)' /\ FilesInv(e)'
  <2>1. StateInv(e) /\ FilesInv(e)
    BY DEF UpdateInv
  <2> QED BY <1>1, <2>1 DEF StateInv, FilesInv, Extend!May
<1> QED BY <1>2, <1>3, <1>4 DEF UpdateInv

\* What has not been checked is: nothing else has happened to it since the render.
LEMMA CheckedStates ==
    ASSUME UpdateInv
    PROVE  /\ Extend!Unchecked \subseteq Extension
           /\ Extend!Checked(updates) \in UpdatesType
           /\ Extend!Checked(updates).scheduled = updates.scheduled
           /\ \A e \in Extension : Extend!Checked(updates).status[e] =
                IF e \in Extend!Unchecked THEN "checking" ELSE updates.status[e]
<1>1. updates \in UpdatesType /\ Extend!Unchecked \in SUBSET Extension
  BY DEF UpdateInv, UpdateTypes, Extend!Unchecked
<1>2. CASE Extend!Unchecked = {}
  BY <1>1, <1>2 DEF Extend!Checked
<1>3. CASE Extend!Unchecked # {}
  <2>1. PICK us : us = [updates EXCEPT !.checks = updates.checks + 1]
    OBVIOUS
  <2>2. updates.checks + 1 \in Int
    BY <1>1 DEF UpdatesType
  <2>3. us \in UpdatesType /\ us.scheduled = updates.scheduled /\ us.status = updates.status
    BY <1>1, <2>1, <2>2, CountType
  <2>4. Extend!Checked(updates) = Extend!SetState(us, Extend!Unchecked, "checking")
    BY <1>3, <2>1 DEF Extend!Checked
  <2>5. /\ Extend!SetState(us, Extend!Unchecked, "checking") \in UpdatesType
        /\ Extend!SetState(us, Extend!Unchecked, "checking").scheduled = us.scheduled
        /\ \A e \in Extension : Extend!SetState(us, Extend!Unchecked, "checking").status[e] =
             IF e \in Extend!Unchecked THEN "checking" ELSE us.status[e]
    <3>1. PICK s \in UpdateStates : s = "checking"
      BY StateNames
    <3>2. HasStateSet(Extend!SetState(us, Extend!Unchecked, s), us, Extend!Unchecked, s)
      BY <1>1, <2>3, SetStateType
    <3> QED BY <3>1, <3>2 DEF HasStateSet
  <2> QED BY <1>1, <2>3, <2>4, <2>5
<1> QED BY <1>2, <1>3

\* An effect that checks, and updates nothing.
LEMMA ChecksKeep ==
    ASSUME UpdateInv, Extend!Effects, shown.checks > 0
    PROVE  UpdateInv'
<1>1. /\ updates' = Extend!Checked(updates) /\ effectsDue /\ effectsDue' = FALSE
      /\ checking' = checking \cup Extend!Unchecked
      /\ UNCHANGED <<extensionWorld, shown, updateAt, disk, backup, awaited, commandProcessing>>
  BY DEF Extend!Effects, Extend!untouchedDisk
<1>2. /\ updates' \in UpdatesType /\ updates'.scheduled = updates.scheduled
      /\ Extend!Unchecked \subseteq Extension
      /\ \A e \in Extension : updates'.status[e] =
           IF e \in Extend!Unchecked THEN "checking" ELSE updates.status[e]
  BY <1>1, CheckedStates
<1>3. UpdateTypes'
  BY <1>1, <1>2 DEF UpdateInv, UpdateTypes
<1>4. CommandInv'
  BY <1>1, <1>2 DEF UpdateInv, CommandInv, Extend!CommandsEnd
<1>5. ASSUME NEW e \in Extension PROVE StateInv(e)' /\ FilesInv(e)'
  <2>1. StateInv(e) /\ FilesInv(e) /\ updateAt[e] \in Extend!Working \cup {"rest", "restoring", "tidying"}
    BY DEF UpdateInv, UpdateTypes
  <2>2. e \in Extend!Unchecked => updates.status[e] = "unset" /\ updateAt[e] = "rest"
    BY <1>1, <2>1 DEF Extend!Unchecked, StateInv
  <2>3. StateInv(e)'
    BY <1>1, <1>2, <2>1, <2>2 DEF StateInv, Extend!Working, Extend!May
  <2>4. FilesInv(e)'
    BY <1>1, <1>2, <2>1, <2>2 DEF FilesInv, Extend!May
  <2> QED BY <2>3, <2>4
<1> QED BY <1>3, <1>4, <1>5 DEF UpdateInv

\* The states of what is to be updated, and of what turns out not to be.
HasBegun(v, us, lost, linked) ==
    /\ v \in UpdatesType /\ v.scheduled = us.scheduled
    /\ \A e \in Extension : v.status[e] =
         IF e \in linked THEN "up to date" ELSE IF e \in lost THEN "error"
           ELSE IF e \in Extend!ToUpdate THEN "updating" ELSE us.status[e]

LEMMA BegunStates ==
    ASSUME NEW us \in UpdatesType, Extend!ToUpdate \in SUBSET Extension,
           NEW lost \in SUBSET Extension, NEW linked \in SUBSET Extension
    PROVE  HasBegun(Extend!Begun(us, lost, linked), us, lost, linked)
<1>1. PICK s1 \in UpdateStates : s1 = "updating"
  BY StateNames
<1>2. PICK s2 \in UpdateStates : s2 = "error"
  BY StateNames
<1>3. PICK s3 \in UpdateStates : s3 = "up to date"
  BY StateNames
<1>4. PICK es \in SUBSET Extension : es = Extend!ToUpdate
  OBVIOUS
<1>5. PICK u1 : u1 = Extend!SetState(us, es, s1)
  OBVIOUS
<1>6. HasStateSet(u1, us, es, s1) /\ u1 \in UpdatesType
  <2>1. HasStateSet(Extend!SetState(us, es, s1), us, es, s1)
    BY SetStateType
  <2> QED BY <1>5, <2>1 DEF HasStateSet
<1>7. PICK u2 : u2 = Extend!SetState(u1, lost, s2)
  OBVIOUS
<1>8. HasStateSet(u2, u1, lost, s2) /\ u2 \in UpdatesType
  <2>1. HasStateSet(Extend!SetState(u1, lost, s2), u1, lost, s2)
    BY <1>6, SetStateType
  <2> QED BY <1>7, <2>1 DEF HasStateSet
<1>9. PICK u3 : u3 = Extend!SetState(u2, linked, s3)
  OBVIOUS
<1>10. HasStateSet(u3, u2, linked, s3)
  <2>1. HasStateSet(Extend!SetState(u2, linked, s3), u2, linked, s3)
    BY <1>8, SetStateType
  <2> QED BY <1>9, <2>1
<1>11. Extend!Begun(us, lost, linked) = u3
  BY <1>1, <1>2, <1>3, <1>4, <1>5, <1>7, <1>9 DEF Extend!Begun
<1>12. HasBegun(u3, us, lost, linked)
  BY <1>1, <1>2, <1>3, <1>4, <1>6, <1>8, <1>10 DEF HasStateSet, HasBegun
<1> QED BY <1>11, <1>12

\* What is updated is available and at rest, whoever asked for it.
LEMMA UpdatesKeep ==
    ASSUME UpdateInv, Extend!Effects, ~(shown.checks > 0)
    PROVE  UpdateInv'
<1>1. /\ effectsDue /\ effectsDue' = FALSE /\ checking' = checking \cup Extend!Unchecked
      /\ commandProcessing' = (commandProcessing /\ ~(shown.scheduled.on /\ Extend!ToUpdate = {}))
      /\ UNCHANGED <<extensionWorld, shown, disk, backup>>
  BY DEF Extend!Effects, Extend!untouchedDisk
<1>2. Extend!ToUpdate \in SUBSET Extension
  BY DEF Extend!ToUpdate
<1>3. PICK lost \in SUBSET Extend!ToUpdate, linked \in SUBSET Extend!ToUpdate :
        /\ lost \cap linked = {}
        /\ updates' = Extend!Begun(
             [Extend!Checked(updates) EXCEPT
               !.scheduled = IF shown.scheduled.on THEN Extend!NoSchedule ELSE @],
             lost, linked)
        /\ updateAt' = [e \in Extension |-> IF e \in Extend!ToUpdate \ (lost \cup linked)
                                              THEN "making" ELSE updateAt[e]]
        /\ awaited' = IF shown.scheduled.on
                        THEN [updates |-> Extend!ToUpdate \ (lost \cup linked),
                              failed |-> Extend!ToUpdate \ (lost \cup linked) # Extend!ToUpdate]
                        ELSE awaited
  BY DEF Extend!Effects, Extend!Turned
<1> DEFINE begun == Extend!ToUpdate \ (lost \cup linked)
<1>4. /\ updates' \in UpdatesType
      /\ ~shown.scheduled.on => updates'.scheduled = updates.scheduled
      /\ \A e \in Extension : updates'.status[e] =
           IF e \in begun THEN "updating" ELSE IF e \in lost THEN "error"
             ELSE IF e \in linked THEN "up to date"
             ELSE IF e \in Extend!Unchecked THEN "checking" ELSE updates.status[e]
  <2>1. PICK us : us = [Extend!Checked(updates) EXCEPT
                         !.scheduled = IF shown.scheduled.on THEN Extend!NoSchedule ELSE @]
    OBVIOUS
  <2>2. Extend!NoSchedule \in [all : BOOLEAN, names : SUBSET Extension, on : BOOLEAN]
    BY DEF Extend!NoSchedule
  <2>3. /\ us \in UpdatesType /\ us.status = Extend!Checked(updates).status
        /\ ~shown.scheduled.on => us.scheduled = Extend!Checked(updates).scheduled
    BY <2>1, <2>2, CheckedStates DEF UpdatesType
  <2>4. updates' = Extend!Begun(us, lost, linked)
    BY <1>3, <2>1
  <2>5. HasBegun(Extend!Begun(us, lost, linked), us, lost, linked)
    <3>1. lost \in SUBSET Extension /\ linked \in SUBSET Extension
      BY <1>2, <1>3
    <3>2. us \in UpdatesType
      BY <2>3
    <3> QED BY <1>2, <3>1, <3>2, BegunStates
  <2>6. /\ updates' \in UpdatesType /\ updates'.scheduled = us.scheduled
        /\ \A e \in Extension : updates'.status[e] =
             IF e \in linked THEN "up to date" ELSE IF e \in lost THEN "error"
               ELSE IF e \in Extend!ToUpdate THEN "updating" ELSE us.status[e]
    BY <2>4, <2>5 DEF HasBegun
  <2> QED BY <1>2, <1>3, <2>3, <2>6, CheckedStates
<1>5. UpdateTypes'
  <2>1. updateAt' \in [Extension -> Extend!Working \cup {"rest", "restoring", "tidying"}]
    BY <1>3 DEF UpdateInv, UpdateTypes, Extend!Working
  <2>2. awaited' \in [updates : SUBSET Extension, failed : BOOLEAN]
    BY <1>2, <1>3 DEF UpdateInv, UpdateTypes
  <2> QED BY <1>1, <1>4, <2>1, <2>2, CheckedStates DEF UpdateInv, UpdateTypes
<1>6. CommandInv'
  <2>1. \A e \in Extension : updateAt[e] # "rest" \/ e \in begun => updateAt'[e] # "rest"
    BY <1>3
  <2>2. \A e \in awaited'.updates : updateAt'[e] # "rest"
    BY <1>2, <1>3, <2>1 DEF UpdateInv, UpdateTypes, CommandInv
  <2>3. CASE shown.scheduled.on
    <3>1. awaited'.updates = begun /\ awaited'.failed = (begun # Extend!ToUpdate)
      BY <1>3, <2>3
    <3> QED BY <1>1, <2>2, <2>3, <3>1 DEF CommandInv, Extend!CommandsEnd
  <2>4. CASE ~shown.scheduled.on
    <3>1. awaited' = awaited
      BY <1>3, <2>4
    <3> QED BY <1>1, <1>4, <2>1, <2>2, <2>4, <3>1
            DEF UpdateInv, UpdateTypes, CommandInv, Extend!CommandsEnd
  <2> QED BY <2>3, <2>4
<1>7. ASSUME NEW e \in Extension PROVE StateInv(e)' /\ FilesInv(e)'
  <2>1. /\ StateInv(e) /\ FilesInv(e)
        /\ updateAt[e] \in Extend!Working \cup {"rest", "restoring", "tidying"}
    BY DEF UpdateInv, UpdateTypes
  <2>2. e \in Extend!Unchecked => updates.status[e] = "unset" /\ updateAt[e] = "rest"
    BY <1>1, <2>1 DEF Extend!Unchecked, StateInv
  <2>3. e \in Extend!ToUpdate =>
          updates.status[e] = "available" /\ updateAt[e] = "rest" /\ e \notin Extend!Unchecked
    BY <1>1, <2>1 DEF Extend!Unchecked, Extend!ToUpdate, StateInv
  <2>4. updateAt'[e] = IF e \in begun THEN "making" ELSE updateAt[e]
    BY <1>3
  <2>5. updates'.status[e] =
           IF e \in begun THEN "updating" ELSE IF e \in lost THEN "error"
             ELSE IF e \in linked THEN "up to date"
             ELSE IF e \in Extend!Unchecked THEN "checking" ELSE updates.status[e]
    BY <1>4
  <2>6. CASE e \notin Extend!ToUpdate
    <3>1. /\ updateAt'[e] = updateAt[e]
          /\ updates'.status[e] = IF e \in Extend!Unchecked THEN "checking" ELSE updates.status[e]
      BY <1>3, <2>4, <2>5, <2>6
    <3>2. StateInv(e)'
      BY <1>1, <2>1, <2>2, <3>1 DEF StateInv, Extend!Working, Extend!May
    <3>3. FilesInv(e)'
      BY <1>1, <2>1, <2>2, <3>1 DEF FilesInv, Extend!May
    <3> QED BY <3>2, <3>3
  <2>7. CASE e \in Extend!ToUpdate
    <3>1. disk[e] = Extend!OldFiles /\ backup[e] = Extend!NoFiles /\ e \notin checking
      BY <2>1, <2>3, <2>7 DEF FilesInv, StateInv
    <3>2. \/ updateAt'[e] = "making" /\ updates'.status[e] = "updating"
          \/ updateAt'[e] = "rest" /\ updates'.status[e] \in {"error", "up to date"}
      BY <2>3, <2>4, <2>5, <2>7
    <3>3. StateInv(e)'
      BY <1>1, <2>3, <2>7, <3>1, <3>2 DEF StateInv, Extend!Working
    <3>4. FilesInv(e)'
      BY <1>1, <3>1, <3>2, FilesTypes DEF FilesInv
    <3> QED BY <3>3, <3>4
  <2> QED BY <2>6, <2>7
<1> QED BY <1>5, <1>6, <1>7 DEF UpdateInv

\* The answer of a check finds its extension still being checked.
LEMMA AnswersKeep ==
    ASSUME UpdateInv, Extend!CheckAnswers
    PROVE  UpdateInv'
<1>1. PICK e \in checking :
         /\ checking' = checking \ {e}
         /\ \/ \E s \in {"available", "up to date", "error"} :
                 updates' = [Extend!SetState(updates, {e}, s) EXCEPT
                               !.checks = IF checking' = {} /\ ~checkBroke THEN @ - 1 ELSE @]
            \/ UNCHANGED updates
  BY DEF Extend!CheckAnswers
<1>2. UNCHANGED <<extensionWorld, shown, effectsDue, updateAt, disk, backup, awaited,
                  commandProcessing>>
  BY DEF Extend!CheckAnswers, Extend!untouchedDisk, Extend!untouchedCommand
<1>3. e \in Extension /\ updates \in UpdatesType
  BY DEF UpdateInv, UpdateTypes
<1>4. /\ updates' \in UpdatesType /\ updates'.scheduled = updates.scheduled
      /\ updates'.status[e] \in {"available", "up to date", "error", updates.status[e]}
      /\ \A q \in Extension \ {e} : updates'.status[q] = updates.status[q]
  <2>1. ASSUME NEW s \in {"available", "up to date", "error"},
               updates' = [Extend!SetState(updates, {e}, s) EXCEPT
                             !.checks = IF checking' = {} /\ ~checkBroke THEN @ - 1 ELSE @]
        PROVE  <1>4
    <3>1. PICK us : us = Extend!SetState(updates, {e}, s)
      OBVIOUS
    <3>2. /\ us \in UpdatesType /\ us.scheduled = updates.scheduled /\ us.status[e] = s
          /\ \A q \in Extension \ {e} : us.status[q] = updates.status[q]
      <4>1. PICK t \in UpdateStates : t = s
        BY StateNames
      <4>2. /\ Extend!SetState(updates, {e}, t) \in UpdatesType
            /\ Extend!SetState(updates, {e}, t).scheduled = updates.scheduled
            /\ Extend!SetState(updates, {e}, t).status[e] = t
            /\ \A q \in Extension \ {e} :
                 Extend!SetState(updates, {e}, t).status[q] = updates.status[q]
        BY <1>3, SetOneState
      <4> QED BY <3>1, <4>1, <4>2
    <3>3. us.checks \in Int /\ us.checks - 1 \in Int
      BY <3>2, CountsAreInt
    <3>4. PICK n \in Int : updates' = [us EXCEPT !.checks = n]
      BY <2>1, <3>1, <3>3
    <3>5. updates' \in UpdatesType /\ updates'.scheduled = us.scheduled /\ updates'.status = us.status
      BY <3>2, <3>4, CountType
    <3> QED BY <3>2, <3>5
  <2> QED BY <1>1, <1>3, <2>1
<1>5. UpdateTypes'
  BY <1>1, <1>2, <1>4 DEF UpdateInv, UpdateTypes
<1>6. CommandInv'
  BY <1>2, <1>4 DEF UpdateInv, CommandInv, Extend!CommandsEnd
<1>7. StateInv(e) /\ FilesInv(e) /\ updates.status[e] = "checking" /\ updateAt[e] = "rest"
  BY <1>1, <1>3 DEF UpdateInv, UpdateTypes, StateInv
<1>8. StateInv(e)' /\ FilesInv(e)'
  <2>1. StateInv(e)'
    BY <1>1, <1>2, <1>4, <1>7 DEF StateInv, Extend!Working
  <2>2. disk[e] = Extend!OldFiles /\ backup[e] = Extend!NoFiles
    BY <1>7 DEF FilesInv
  <2>3. updates'.status[e] # "updated"
    BY <1>4, <1>7
  <2>4. FilesInv(e)'
    BY <1>2, <1>7, <2>2, <2>3, FilesTypes DEF FilesInv
  <2> QED BY <2>1, <2>4
<1>9. ASSUME NEW q \in Extension \ {e} PROVE StateInv(q)' /\ FilesInv(q)'
  <2>1. StateInv(q) /\ FilesInv(q)
    BY DEF UpdateInv
  <2> QED BY <1>1, <1>2, <1>4, <2>1 DEF StateInv, FilesInv, Extend!May
<1> QED BY <1>5, <1>6, <1>8, <1>9 DEF UpdateInv

\* Nothing that the invariant looks at changes.
LEMMA RestKeeps ==
    ASSUME UpdateInv,
           UNCHANGED <<extensionWorld, updates, shown, effectsDue, checking, updateAt, disk, backup,
                       awaited, commandProcessing>>
    PROVE  UpdateInv'
<1>1. UpdateTypes' /\ CommandInv'
  BY DEF UpdateInv, UpdateTypes, CommandInv, Extend!CommandsEnd
<1>2. ASSUME NEW e \in Extension PROVE StateInv(e)' /\ FilesInv(e)'
  <2>1. StateInv(e) /\ FilesInv(e)
    BY DEF UpdateInv
  <2> QED BY <2>1 DEF StateInv, FilesInv, Extend!May
<1> QED BY <1>1, <1>2 DEF UpdateInv

LEMMA UpdateStep == UpdateInv /\ [Extend!ExtensionNext]_extensionVars => UpdateInv'
<1> SUFFICES ASSUME UpdateInv, [Extend!ExtensionNext]_extensionVars PROVE UpdateInv'
  OBVIOUS
<1>1. CASE Extend!UpdateCommand
  BY <1>1, CommandKeeps
<1>2. CASE Extend!Render
  BY <1>2, RenderKeeps
<1>3. CASE Extend!Effects
  BY <1>3, ChecksKeep, UpdatesKeep
<1>4. CASE Extend!CheckAnswers
  BY <1>4, AnswersKeep
<1>5. ASSUME NEW e \in Extension,
             \/ Extend!MakeBackUp(e) \/ Extend!BackUp(e) \/ Extend!Uninstall(e)
             \/ Extend!Download(e) \/ Extend!Consent(e) \/ Extend!Place(e)
             \/ Extend!Restore(e) \/ Extend!Tidy(e)
      PROVE  UpdateInv'
  BY <1>5, MakeBackUpKeeps, BackUpKeeps, UninstallKeeps, DownloadKeeps, PlaceKeeps,
     RestoreKeeps, TidyKeeps
<1>6. CASE Extend!Quit
  BY <1>6, RestKeeps DEF Extend!Quit, Extend!untouchedDisk, Extend!untouchedCommand
<1>7. CASE UNCHANGED extensionVars
  BY <1>7, RestKeeps DEF extensionVars
<1> QED BY <1>1, <1>2, <1>3, <1>4, <1>5, <1>6, <1>7 DEF Extend!ExtensionNext

\* A step of the services is one of the extensions, or leaves them alone.
LEMMA ExtensionsStep == [Next]_vars => [Extend!ExtensionNext]_extensionVars
<1>1. Next => Extend!ExtensionNext \/ UNCHANGED extensionVars
  BY DEF Next, Step
<1>2. UNCHANGED vars => UNCHANGED extensionVars
  BY DEF vars
<1> QED BY <1>1, <1>2

(* Whatever goes wrong in an update, and whenever the application ends, the *)
(* directory of an extension is whole when the update is over, unless       *)
(* copying it back fails; an extension is shown as updating while it is,    *)
(* and stays shown so with its old files when the directory for its copy    *)
(* could not be made; and /extensions update ends with the updates that it  *)
(* waits for, unless one has failed (updateExtension, useExtensionUpdates). *)
THEOREM ExtensionsStayWhole == Spec => []ExtensionsSurvive
<1>1. Init => UpdateInv
  BY UpdateInit DEF Init
<1>2. UpdateInv /\ [Next]_vars => UpdateInv'
  BY ExtensionsStep, UpdateStep
<1>3. UpdateInv => ExtensionsSurvive
  BY UpdateInvHolds DEF ExtensionsSurvive
<1> QED BY <1>1, <1>2, <1>3, PTL DEF Spec
-----------------------------------------------------------------------------
\* The MCP servers and the logins to them (McpServers, McpLogin).
McpProofs == INSTANCE McpServers_proofs

LEMMA McpAreConstant == McpProofs!McpConstants /\ McpProofs!LoginConstants
BY PlainIsNoServer, NobodyIsNone, StoredAreTokens
   DEF McpProofs!McpConstants, McpProofs!LoginConstants, McpProofs!Login!Credential

LEMMA McpStarts == Mcp!McpInit => McpProofs!McpInit
BY DEF Mcp!McpInit, McpProofs!McpInit, Mcp!Op, McpProofs!Op, Mcp!All, McpProofs!All,
       Mcp!Client, McpProofs!Client, Mcp!NoClient, McpProofs!NoClient

LEMMA LoginStarts == Login!LoginInit => McpProofs!Login!LoginInit
BY DEF Login!LoginInit, McpProofs!Login!LoginInit, Login!NoLogin, McpProofs!Login!NoLogin,
       Login!Nothing, McpProofs!Login!Nothing

LEMMA McpNextLifts == Mcp!McpNext => McpProofs!McpNext
<1>1. ASSUME NEW o PROVE Mcp!MayStart(o) <=> McpProofs!MayStart(o)
  BY DEF Mcp!MayStart, McpProofs!MayStart, Mcp!Op, McpProofs!Op, Mcp!IsRunning,
         McpProofs!IsRunning, Mcp!May, McpProofs!May, Mcp!All, McpProofs!All, Mcp!Cardinality,
         McpProofs!Cardinality
<1>2. Mcp!Startup => McpProofs!Startup
  BY <1>1 DEF Mcp!Startup, McpProofs!Startup, Mcp!Removed, McpProofs!Removed,
         Mcp!WithoutPrompts, McpProofs!WithoutPrompts, Mcp!Of, McpProofs!Of, Mcp!Client,
         McpProofs!Client, Mcp!Op, McpProofs!Op, Mcp!All, McpProofs!All
<1>3. Mcp!CommandEnds => McpProofs!CommandEnds
  BY DEF Mcp!CommandEnds, McpProofs!CommandEnds, Mcp!BeginStop, McpProofs!BeginStop,
         Mcp!Stopped, McpProofs!Stopped, Mcp!Client, McpProofs!Client, Mcp!Of, McpProofs!Of,
         Mcp!By, McpProofs!By, Mcp!Op, McpProofs!Op, Mcp!All, McpProofs!All
<1>4. Mcp!Refresh => McpProofs!Refresh
  BY <1>1 DEF Mcp!Refresh, McpProofs!Refresh, Mcp!Removed, McpProofs!Removed, Mcp!BeginStop,
         McpProofs!BeginStop, Mcp!WithoutPrompts, McpProofs!WithoutPrompts, Mcp!Of,
         McpProofs!Of, Mcp!Stopped, McpProofs!Stopped, Mcp!Client, McpProofs!Client, Mcp!By,
         McpProofs!By, Mcp!Op, McpProofs!Op, Mcp!All, McpProofs!All
<1>5. ASSUME NEW s PROVE Mcp!DiscoverForServer(s) => McpProofs!DiscoverForServer(s)
  BY <1>1 DEF Mcp!DiscoverForServer, McpProofs!DiscoverForServer, Mcp!Removed,
         McpProofs!Removed, Mcp!WithoutPrompts, McpProofs!WithoutPrompts, Mcp!Connecting,
         McpProofs!Connecting, Mcp!Of, McpProofs!Of, Mcp!Client, McpProofs!Client,
         Mcp!NoClient, McpProofs!NoClient, Mcp!Op, McpProofs!Op, Mcp!All, McpProofs!All
<1>6. ASSUME NEW o PROVE Mcp!EndStop(o) => McpProofs!EndStop(o)
  BY DEF Mcp!EndStop, McpProofs!EndStop, Mcp!Client, McpProofs!Client, Mcp!By, McpProofs!By,
         Mcp!Connecting, McpProofs!Connecting, Mcp!Op, McpProofs!Op, Mcp!NoClient,
         McpProofs!NoClient, Mcp!All, McpProofs!All
<1>7. ASSUME NEW o PROVE Mcp!RunEnds(o) => McpProofs!RunEnds(o)
  BY DEF Mcp!RunEnds, McpProofs!RunEnds, Mcp!InProgress, McpProofs!InProgress
<1>8. ASSUME NEW c PROVE Mcp!Disconnected(c) => McpProofs!Disconnected(c)
  BY DEF Mcp!Disconnected, McpProofs!Disconnected, Mcp!Of, McpProofs!Of, Mcp!All, McpProofs!All
<1>9. ASSUME NEW c PROVE Mcp!Discovery(c) => McpProofs!Discovery(c)
  BY DEF Mcp!Discovery, McpProofs!Discovery, Mcp!Connected, McpProofs!Connected,
         Mcp!ConnectFails, McpProofs!ConnectFails, Mcp!Prompts, McpProofs!Prompts,
         Mcp!ToolsFound, McpProofs!ToolsFound, Mcp!NoTools, McpProofs!NoTools, Mcp!At,
         McpProofs!At, Mcp!By, McpProofs!By, Mcp!Of, McpProofs!Of, Mcp!May, McpProofs!May,
         Mcp!PromptsFound, McpProofs!PromptsFound, Mcp!Registered, McpProofs!Registered,
         Mcp!NameFor, McpProofs!NameFor
<1>10. ASSUME NEW c PROVE Mcp!ClientErrs(c) => McpProofs!ClientErrs(c)
  BY DEF Mcp!ClientErrs, McpProofs!ClientErrs, Mcp!May, McpProofs!May, Mcp!Client,
         McpProofs!Client, Mcp!Of, McpProofs!Of, Mcp!By, McpProofs!By, Mcp!Op, McpProofs!Op,
         Mcp!All, McpProofs!All
<1> QED
  BY <1>2, <1>3, <1>4, <1>5, <1>6, <1>7, <1>8, <1>9, <1>10 DEF Mcp!McpNext, McpProofs!McpNext,
         Mcp!Op, McpProofs!Op, Mcp!All, McpProofs!All, Mcp!Client, McpProofs!Client

LEMMA LoginNextLifts == Login!LoginNext => McpProofs!Login!LoginNext
<1>1. ASSUME NEW s PROVE Login!Connect(s) => McpProofs!Login!Connect(s)
  BY DEF Login!Connect, McpProofs!Login!Connect, Login!At, McpProofs!Login!At, Login!Go,
         McpProofs!Login!Go
<1>2. ASSUME NEW s PROVE Login!Connected(s) => McpProofs!Login!Connected(s)
  BY DEF Login!Connected, McpProofs!Login!Connected, Login!At, McpProofs!Login!At, Login!Go,
         McpProofs!Login!Go
<1>3. ASSUME NEW s PROVE Login!Unauthorized(s) => McpProofs!Login!Unauthorized(s)
  BY DEF Login!Unauthorized, McpProofs!Login!Unauthorized, Login!At, McpProofs!Login!At,
         Login!May, McpProofs!Login!May, Login!Go, McpProofs!Login!Go
<1>4. ASSUME NEW s PROVE Login!Authenticate(s) => McpProofs!Login!Authenticate(s)
  BY DEF Login!Authenticate, McpProofs!Login!Authenticate, Login!At, McpProofs!Login!At,
         Login!Go, McpProofs!Login!Go
<1>5. ASSUME NEW s PROVE Login!DiscoveryFails(s) => McpProofs!Login!DiscoveryFails(s)
  BY DEF Login!DiscoveryFails, McpProofs!Login!DiscoveryFails, Login!May, McpProofs!Login!May,
         Login!At, McpProofs!Login!At, Login!Go, McpProofs!Login!Go
<1>6. ASSUME NEW s PROVE Login!Callback(s) => McpProofs!Login!Callback(s)
  BY DEF Login!Callback, McpProofs!Login!Callback, Login!At, McpProofs!Login!At, Login!Go,
         McpProofs!Login!Go, Login!May, McpProofs!Login!May
<1>7. ASSUME NEW s PROVE Login!Look(s) => McpProofs!Login!Look(s)
  BY DEF Login!Look, McpProofs!Login!Look, Login!At, McpProofs!Login!At, Login!Stored,
         McpProofs!Login!Stored, Login!Throws, McpProofs!Login!Throws, Login!Encrypted,
         McpProofs!Login!Encrypted, Login!Contents, McpProofs!Login!Contents, Login!Exists,
         McpProofs!Login!Exists, Login!Nothing, McpProofs!Login!Nothing
<1>8. ASSUME NEW s PROVE Login!Refresh(s) => McpProofs!Login!Refresh(s)
  BY DEF Login!Refresh, McpProofs!Login!Refresh, Login!At, McpProofs!Login!At, Login!Change,
         McpProofs!Login!Change, Login!May, McpProofs!Login!May
<1>9. ASSUME NEW s PROVE Login!Exchange(s) => McpProofs!Login!Exchange(s)
  BY DEF Login!Exchange, McpProofs!Login!Exchange, Login!At, McpProofs!Login!At, Login!Change,
         McpProofs!Login!Change, Login!May, McpProofs!Login!May, Login!Go, McpProofs!Login!Go
<1>10. ASSUME NEW s PROVE Login!ReadForChange(s) => McpProofs!Login!ReadForChange(s)
  BY DEF Login!ReadForChange, McpProofs!Login!ReadForChange, Login!At, McpProofs!Login!At,
         Login!Throws, McpProofs!Login!Throws, Login!Contents, McpProofs!Login!Contents,
         Login!Encrypted, McpProofs!Login!Encrypted, Login!AfterWrite,
         McpProofs!Login!AfterWrite, Login!Crosses, McpProofs!Login!Crosses, Login!Exists,
         McpProofs!Login!Exists, Login!Nothing, McpProofs!Login!Nothing, Login!Between,
         McpProofs!Login!Between
<1>11. ASSUME NEW s PROVE Login!WriteBegins(s) => McpProofs!Login!WriteBegins(s)
  BY DEF Login!WriteBegins, McpProofs!Login!WriteBegins, Login!At, McpProofs!Login!At,
         Login!Go, McpProofs!Login!Go, Login!Changed, McpProofs!Login!Changed, Login!Nothing,
         McpProofs!Login!Nothing, Login!Crosses, McpProofs!Login!Crosses, Login!Between,
         McpProofs!Login!Between
<1>12. ASSUME NEW s PROVE Login!WriteEnds(s) => McpProofs!Login!WriteEnds(s)
  BY DEF Login!WriteEnds, McpProofs!Login!WriteEnds, Login!At, McpProofs!Login!At,
         Login!Changed, McpProofs!Login!Changed, Login!AfterWrite, McpProofs!Login!AfterWrite,
         Login!Nothing, McpProofs!Login!Nothing, Login!Crosses, McpProofs!Login!Crosses,
         Login!Between, McpProofs!Login!Between
<1>13. ASSUME NEW s PROVE Login!Expire(s) => McpProofs!Login!Expire(s)
  BY DEF Login!Expire, McpProofs!Login!Expire, Login!May, McpProofs!Login!May
<1> QED
  BY <1>1, <1>2, <1>3, <1>4, <1>5, <1>6, <1>7, <1>8, <1>9, <1>10, <1>11, <1>12, <1>13 DEF
         Login!LoginNext, McpProofs!Login!LoginNext, Login!LoginStep, McpProofs!Login!LoginStep

LEMMA ServersStep == [Next]_vars => [McpProofs!McpNext]_(McpProofs!mcpVars)
<1>1. Next => Mcp!McpNext \/ UNCHANGED mcpVars
  BY DEF Next, Step
<1>2. UNCHANGED vars => UNCHANGED mcpVars
  BY DEF vars
<1> QED BY <1>1, <1>2, McpNextLifts DEF mcpVars, McpProofs!mcpVars

LEMMA LoginsStep == [Next]_vars => [McpProofs!Login!LoginNext]_(McpProofs!Login!loginVars)
<1>1. Next => Login!LoginNext \/ UNCHANGED loginVars
  BY DEF Next, Step
<1>2. UNCHANGED vars => UNCHANGED loginVars
  BY DEF vars
<1> QED BY <1>1, <1>2, LoginNextLifts DEF loginVars, McpProofs!Login!loginVars

(* Whatever the other services do, overlapping discoveries leave every      *)
(* server that never failed a tool that a call can reach, and those that do *)
(* not overlap just one; and a login is not lost unless writes of the file  *)
(* of credentials overlap (McpClientManager, MCPOAuthProvider).             *)
THEOREM EveryServerIsServed == Spec => []ServersServe
<1>1. Init => McpProofs!McpInv /\ McpProofs!LoginInv
  BY McpStarts, LoginStarts, McpAreConstant, McpProofs!McpInitHolds, McpProofs!LoginInitHolds DEF Init
<1>2. McpProofs!McpInv /\ [Next]_vars => McpProofs!McpInv'
  BY ServersStep, McpAreConstant, McpProofs!McpStepKeeps
<1>3. McpProofs!LoginInv /\ [Next]_vars => McpProofs!LoginInv'
  BY LoginsStep, McpAreConstant, McpProofs!LoginStepKeeps
<1>4. McpProofs!EveryServerServes => Mcp!EveryServerServes
  BY DEF Mcp!EveryServerServes, McpProofs!EveryServerServes, Mcp!Quiescent,
         McpProofs!Quiescent, Mcp!Discovered, McpProofs!Discovered, Mcp!Sound, McpProofs!Sound,
         Mcp!ToolsOf, McpProofs!ToolsOf, Mcp!May, McpProofs!May, Mcp!Op, McpProofs!Op,
         Mcp!IsRunning, McpProofs!IsRunning, Mcp!Client, McpProofs!Client, Mcp!Of,
         McpProofs!Of, Mcp!At, McpProofs!At, Mcp!All, McpProofs!All, Mcp!Cardinality,
         McpProofs!Cardinality
<1>5. McpProofs!Login!LoginsSurvive => Login!LoginsSurvive
  BY DEF Login!LoginsSurvive, McpProofs!Login!LoginsSurvive, Login!At, McpProofs!Login!At
<1>6. McpProofs!McpInv /\ McpProofs!LoginInv => ServersServe
  BY <1>4, <1>5, McpProofs!McpInvServes, McpProofs!LoginInvSurvives DEF ServersServe
<1> QED BY <1>1, <1>2, <1>3, <1>6, PTL DEF Spec

-----------------------------------------------------------------------------
\* The sub-agents, the telemetry queue, a shell command, the recordings of conversations,
\* the message log, the checkpoints and the edits of files (SubAgent, Telemetry,
\* ShellExecution, ChatRecording, SessionLog, FileEdits).
PartProofs == INSTANCE ServiceParts_proofs

LEMMA PartsAreConstant ==
    /\ PartProofs!AgentConstants /\ PartProofs!TelemetryConstants /\ PartProofs!RecordingConstants
    /\ PartProofs!FileConstants
BY BoundsAreNumbers, FilesAreOfChats, EditsAreOfTexts
   DEF PartProofs!AgentConstants, PartProofs!TelemetryConstants, PartProofs!RecordingConstants,
       PartProofs!FileConstants, PartProofs!Job, PartProofs!Files!Region

LEMMA AgentStarts == Agent!AgentInit => PartProofs!Agent!AgentInit
BY DEF Agent!AgentInit, PartProofs!Agent!AgentInit

LEMMA TelemetryStarts == Clearcut!TelemetryInit => PartProofs!Clearcut!TelemetryInit
BY DEF Clearcut!TelemetryInit, PartProofs!Clearcut!TelemetryInit

LEMMA ShellStarts == Shell!ShellInit => PartProofs!Shell!ShellInit
BY DEF Shell!ShellInit, PartProofs!Shell!ShellInit, Shell!Stream, PartProofs!Shell!Stream,
       Shell!NoText, PartProofs!Shell!NoText, Shell!NoResult, PartProofs!Shell!NoResult

LEMMA RecordingStarts == Record!RecordingInit => PartProofs!Record!RecordingInit
BY DEF Record!RecordingInit, PartProofs!Record!RecordingInit, Record!NoTokens,
       PartProofs!Record!NoTokens

LEMMA LogStarts == Log!SessionLogInit => PartProofs!Log!SessionLogInit
BY DEF Log!SessionLogInit, PartProofs!Log!SessionLogInit, Log!Path, PartProofs!Log!Path,
       Log!OldPath, PartProofs!Log!OldPath, Log!Holds, PartProofs!Log!Holds, Log!NoFile,
       PartProofs!Log!NoFile, Log!NewPath, PartProofs!Log!NewPath

LEMMA AgentNextLifts == Agent!AgentNext => PartProofs!Agent!AgentNext
<1>1. Agent!CheckTermination => PartProofs!Agent!CheckTermination
  BY DEF Agent!CheckTermination, PartProofs!Agent!CheckTermination, Agent!Ends,
         PartProofs!Agent!Ends, Agent!Goes, PartProofs!Agent!Goes
<1>2. Agent!ModelReplies => PartProofs!Agent!ModelReplies
  BY DEF Agent!ModelReplies, PartProofs!Agent!ModelReplies, Agent!Turn, PartProofs!Agent!Turn,
         Agent!Ends, PartProofs!Agent!Ends, Agent!Goes, PartProofs!Agent!Goes, Agent!Executed,
         PartProofs!Agent!Executed, Agent!Completes, PartProofs!Agent!Completes, Agent!Oldest,
         PartProofs!Agent!Oldest, Agent!Valid, PartProofs!Agent!Valid, Agent!CallKind,
         PartProofs!Agent!CallKind
<1>3. Agent!ModelThrows => PartProofs!Agent!ModelThrows
  BY DEF Agent!ModelThrows, PartProofs!Agent!ModelThrows, Agent!Ends, PartProofs!Agent!Ends
<1>4. Agent!ProcessOutputThrows => PartProofs!Agent!ProcessOutputThrows
  BY DEF Agent!ProcessOutputThrows, PartProofs!Agent!ProcessOutputThrows, Agent!Turn,
         PartProofs!Agent!Turn, Agent!Valid, PartProofs!Agent!Valid, Agent!Executed,
         PartProofs!Agent!Executed, Agent!Oldest, PartProofs!Agent!Oldest, Agent!Ends,
         PartProofs!Agent!Ends, Agent!CallKind, PartProofs!Agent!CallKind
<1>5. Agent!ToolResolves => PartProofs!Agent!ToolResolves
  BY DEF Agent!ToolResolves, PartProofs!Agent!ToolResolves
<1>6. Agent!TurnEnds => PartProofs!Agent!TurnEnds
  BY DEF Agent!TurnEnds, PartProofs!Agent!TurnEnds, Agent!Answers, PartProofs!Agent!Answers,
         Agent!Ends, PartProofs!Agent!Ends, Agent!Goes, PartProofs!Agent!Goes, Agent!InOrder,
         PartProofs!Agent!InOrder, Agent!Executed, PartProofs!Agent!Executed,
         Agent!Cardinality, PartProofs!Agent!Cardinality
<1>7. Agent!AbortAgent => PartProofs!Agent!AbortAgent
  BY DEF Agent!AbortAgent, PartProofs!Agent!AbortAgent
<1>8. Agent!TimePasses => PartProofs!Agent!TimePasses
  BY DEF Agent!TimePasses, PartProofs!Agent!TimePasses
<1> QED
  BY <1>1, <1>2, <1>3, <1>4, <1>5, <1>6, <1>7, <1>8 DEF Agent!AgentNext,
         PartProofs!Agent!AgentNext

LEMMA TelemetryNextLifts == Clearcut!TelemetryNext => PartProofs!Clearcut!TelemetryNext
<1>1. Clearcut!Log => PartProofs!Clearcut!Log
  BY DEF Clearcut!Log, PartProofs!Clearcut!Log, Clearcut!Flush, PartProofs!Clearcut!Flush,
         Clearcut!Enqueued, PartProofs!Clearcut!Enqueued, Clearcut!Newest,
         PartProofs!Clearcut!Newest
<1>2. Clearcut!MinutePasses => PartProofs!Clearcut!MinutePasses
  BY DEF Clearcut!MinutePasses, PartProofs!Clearcut!MinutePasses
<1>3. Clearcut!FlushSucceeds => PartProofs!Clearcut!FlushSucceeds
  BY DEF Clearcut!FlushSucceeds, PartProofs!Clearcut!FlushSucceeds, Clearcut!FlushEnds,
         PartProofs!Clearcut!FlushEnds
<1>4. Clearcut!FlushFails => PartProofs!Clearcut!FlushFails
  BY DEF Clearcut!FlushFails, PartProofs!Clearcut!FlushFails, Clearcut!FlushEnds,
         PartProofs!Clearcut!FlushEnds, Clearcut!Requeued, PartProofs!Clearcut!Requeued,
         Clearcut!Requeues, PartProofs!Clearcut!Requeues, Clearcut!Newest,
         PartProofs!Clearcut!Newest, Clearcut!ToRetry, PartProofs!Clearcut!ToRetry
<1> QED
  BY <1>1, <1>2, <1>3, <1>4 DEF Clearcut!TelemetryNext, PartProofs!Clearcut!TelemetryNext

LEMMA ShellNextLifts == Shell!ShellNext => PartProofs!Shell!ShellNext
<1>1. Shell!Execute => PartProofs!Shell!Execute
  BY DEF Shell!Execute, PartProofs!Shell!Execute, Shell!NoResult, PartProofs!Shell!NoResult,
         Shell!control, PartProofs!Shell!control, Shell!terminal, PartProofs!Shell!terminal
<1>2. Shell!Spawn => PartProofs!Shell!Spawn
  BY DEF Shell!Spawn, PartProofs!Shell!Spawn, Shell!terminal, PartProofs!Shell!terminal
<1>3. Shell!SpawnFails => PartProofs!Shell!SpawnFails
  BY DEF Shell!SpawnFails, PartProofs!Shell!SpawnFails, Shell!NoResult,
         PartProofs!Shell!NoResult, Shell!control, PartProofs!Shell!control, Shell!terminal,
         PartProofs!Shell!terminal
<1>4. Shell!Outputs => PartProofs!Shell!Outputs
  BY DEF Shell!Outputs, PartProofs!Shell!Outputs, Shell!Pty, PartProofs!Shell!Pty,
         Shell!control, PartProofs!Shell!control, Shell!terminal, PartProofs!Shell!terminal
<1>5. Shell!CommandEnds => PartProofs!Shell!CommandEnds
  BY DEF Shell!CommandEnds, PartProofs!Shell!CommandEnds, Shell!control,
         PartProofs!Shell!control, Shell!terminal, PartProofs!Shell!terminal
<1>6. Shell!Data => PartProofs!Shell!Data
  BY DEF Shell!Data, PartProofs!Shell!Data, Shell!Pty, PartProofs!Shell!Pty, Shell!Sniff,
         PartProofs!Shell!Sniff, Shell!Decodes, PartProofs!Shell!Decodes, Shell!control,
         PartProofs!Shell!control
<1>7. Shell!Process => PartProofs!Shell!Process
  BY DEF Shell!Process, PartProofs!Shell!Process, Shell!Sniff, PartProofs!Shell!Sniff,
         Shell!Binary, PartProofs!Shell!Binary, Shell!control, PartProofs!Shell!control,
         Shell!input, PartProofs!Shell!input
<1>8. Shell!Written => PartProofs!Shell!Written
  BY DEF Shell!Written, PartProofs!Shell!Written, Shell!Decodes, PartProofs!Shell!Decodes,
         Shell!control, PartProofs!Shell!control, Shell!input, PartProofs!Shell!input
<1>9. Shell!Scroll => PartProofs!Shell!Scroll
  BY DEF Shell!Scroll, PartProofs!Shell!Scroll, Shell!Pty, PartProofs!Shell!Pty, Shell!control,
         PartProofs!Shell!control, Shell!input, PartProofs!Shell!input, Shell!terminal,
         PartProofs!Shell!terminal
<1>10. Shell!Render => PartProofs!Shell!Render
  BY DEF Shell!Render, PartProofs!Shell!Render, Shell!Rendered, PartProofs!Shell!Rendered,
         Shell!control, PartProofs!Shell!control, Shell!input, PartProofs!Shell!input,
         Shell!terminal, PartProofs!Shell!terminal, Shell!ShowText, PartProofs!Shell!ShowText,
         Shell!Combined, PartProofs!Shell!Combined
<1>11. Shell!Exit => PartProofs!Shell!Exit
  BY DEF Shell!Exit, PartProofs!Shell!Exit, Shell!Pty, PartProofs!Shell!Pty, Shell!ShowText,
         PartProofs!Shell!ShowText, Shell!Combined, PartProofs!Shell!Combined, Shell!Binary,
         PartProofs!Shell!Binary, Shell!terminal, PartProofs!Shell!terminal
<1>12. Shell!Finish => PartProofs!Shell!Finish
  BY DEF Shell!Finish, PartProofs!Shell!Finish, Shell!Pty, PartProofs!Shell!Pty,
         Shell!ChainIsOver, PartProofs!Shell!ChainIsOver, Shell!Rendered,
         PartProofs!Shell!Rendered, Shell!Combined, PartProofs!Shell!Combined, Shell!control,
         PartProofs!Shell!control, Shell!terminal, PartProofs!Shell!terminal, Shell!ShowText,
         PartProofs!Shell!ShowText
<1>13. Shell!Abort => PartProofs!Shell!Abort
  BY DEF Shell!Abort, PartProofs!Shell!Abort, Shell!Pty, PartProofs!Shell!Pty, Shell!terminal,
         PartProofs!Shell!terminal
<1>14. Shell!KillTimeout => PartProofs!Shell!KillTimeout
  BY DEF Shell!KillTimeout, PartProofs!Shell!KillTimeout, Shell!Killed,
         PartProofs!Shell!Killed, Shell!terminal, PartProofs!Shell!terminal
<1> QED
  BY <1>1, <1>2, <1>3, <1>4, <1>5, <1>6, <1>7, <1>8, <1>9, <1>10, <1>11, <1>12, <1>13, <1>14 DEF
         Shell!ShellNext, PartProofs!Shell!ShellNext

LEMMA RecordingNextLifts == Record!RecordingNext => PartProofs!Record!RecordingNext
<1>1. ASSUME NEW c PROVE Record!NewConversation(c) => PartProofs!Record!NewConversation(c)
  BY DEF Record!NewConversation, PartProofs!Record!NewConversation, Record!Initialized,
         PartProofs!Record!Initialized, Record!FileOf, PartProofs!Record!FileOf
<1>2. ASSUME NEW c PROVE Record!Send(c) => PartProofs!Record!Send(c)
  BY DEF Record!Send, PartProofs!Record!Send, Record!Replies, PartProofs!Record!Replies,
         Record!Recorded, PartProofs!Record!Recorded, Record!FileOf, PartProofs!Record!FileOf,
         Record!Line, PartProofs!Record!Line, Record!NoTokens, PartProofs!Record!NoTokens,
         Record!MapThenSumSet, PartProofs!Record!MapThenSumSet, Record!MapThenFoldSet,
         PartProofs!Record!MapThenFoldSet
<1>3. ASSUME NEW c PROVE Record!Thought(c) => PartProofs!Record!Thought(c)
  BY DEF Record!Thought, PartProofs!Record!Thought, Record!Thoughts,
         PartProofs!Record!Thoughts, Record!MapThenSumSet, PartProofs!Record!MapThenSumSet,
         Record!MapThenFoldSet, PartProofs!Record!MapThenFoldSet
<1>4. ASSUME NEW c PROVE Record!Text(c) => PartProofs!Record!Text(c)
  BY DEF Record!Text, PartProofs!Record!Text
<1>5. ASSUME NEW c PROVE Record!Usage(c) => PartProofs!Record!Usage(c)
  BY DEF Record!Usage, PartProofs!Record!Usage, Record!FileOf, PartProofs!Record!FileOf,
         Record!AwaitsTokens, PartProofs!Record!AwaitsTokens, Record!NoTokens,
         PartProofs!Record!NoTokens, Record!Last, PartProofs!Record!Last
<1>6. ASSUME NEW c PROVE Record!StreamEnds(c) => PartProofs!Record!StreamEnds(c)
  BY DEF Record!StreamEnds, PartProofs!Record!StreamEnds, Record!Ends, PartProofs!Record!Ends,
         Record!Recorded, PartProofs!Record!Recorded, Record!FileOf, PartProofs!Record!FileOf,
         Record!Line, PartProofs!Record!Line, Record!NoTokens, PartProofs!Record!NoTokens
<1>7. ASSUME NEW c PROVE Record!StreamBreaks(c) => PartProofs!Record!StreamBreaks(c)
  BY DEF Record!StreamBreaks, PartProofs!Record!StreamBreaks, Record!Ends,
         PartProofs!Record!Ends
<1> QED
  BY <1>1, <1>2, <1>3, <1>4, <1>5, <1>6, <1>7 DEF Record!RecordingNext,
         PartProofs!Record!RecordingNext

LEMMA SessionLogNextLifts == Log!SessionLogNext => PartProofs!Log!SessionLogNext
<1>1. Log!Overwrite => PartProofs!Log!Overwrite
  BY DEF Log!Overwrite, PartProofs!Log!Overwrite, Log!Saves, PartProofs!Log!Saves,
         Log!logFileVars, PartProofs!Log!logFileVars, Log!NewPath, PartProofs!Log!NewPath,
         Log!Holds, PartProofs!Log!Holds, Log!May, PartProofs!Log!May, Log!TornFile,
         PartProofs!Log!TornFile
<1>2. ASSUME NEW l PROVE Log!Access(l) => PartProofs!Log!Access(l)
  BY DEF Log!Access, PartProofs!Log!Access, Log!Begins, PartProofs!Log!Begins, Log!Others,
         PartProofs!Log!Others, Log!May, PartProofs!Log!May, Log!checkpointVars,
         PartProofs!Log!checkpointVars, Log!AtWork, PartProofs!Log!AtWork
<1>3. ASSUME NEW l PROVE Log!Initialize(l) => PartProofs!Log!Initialize(l)
  BY DEF Log!Initialize, PartProofs!Log!Initialize, Log!Read, PartProofs!Log!Read,
         Log!checkpointVars, PartProofs!Log!checkpointVars
<1>4. ASSUME NEW l PROVE Log!LogMessage(l) => PartProofs!Log!LogMessage(l)
  BY DEF Log!LogMessage, PartProofs!Log!LogMessage, Log!Begins, PartProofs!Log!Begins,
         Log!Others, PartProofs!Log!Others, Log!May, PartProofs!Log!May, Log!checkpointVars,
         PartProofs!Log!checkpointVars, Log!AtWork, PartProofs!Log!AtWork
<1>5. ASSUME NEW l PROVE Log!Update(l) => PartProofs!Log!Update(l)
  BY DEF Log!Update, PartProofs!Log!Update, Log!Read, PartProofs!Log!Read, Log!Added,
         PartProofs!Log!Added, Log!checkpointVars, PartProofs!Log!checkpointVars, Log!NextId,
         PartProofs!Log!NextId, Log!EntriesOf, PartProofs!Log!EntriesOf, Log!Max,
         PartProofs!Log!Max
<1>6. ASSUME NEW l PROVE Log!Backup(l) => PartProofs!Log!Backup(l)
  BY DEF Log!Backup, PartProofs!Log!Backup, Log!checkpointVars, PartProofs!Log!checkpointVars
<1>7. ASSUME NEW l PROVE Log!Open(l) => PartProofs!Log!Open(l)
  BY DEF Log!Open, PartProofs!Log!Open, Log!Torn, PartProofs!Log!Torn, Log!checkpointVars,
         PartProofs!Log!checkpointVars
<1>8. ASSUME NEW l PROVE Log!Write(l) => PartProofs!Log!Write(l)
  BY DEF Log!Write, PartProofs!Log!Write, Log!Whole, PartProofs!Log!Whole, Log!Torn,
         PartProofs!Log!Torn, Log!checkpointVars, PartProofs!Log!checkpointVars
<1>9. ASSUME NEW l PROVE Log!Crash(l) => PartProofs!Log!Crash(l)
  BY DEF Log!Crash, PartProofs!Log!Crash, Log!May, PartProofs!Log!May, Log!Goes,
         PartProofs!Log!Goes, Log!checkpointVars, PartProofs!Log!checkpointVars
<1>10. ASSUME NEW t PROVE Log!Save(t) => PartProofs!Log!Save(t)
  BY DEF Log!Save, PartProofs!Log!Save, Log!Given, PartProofs!Log!Given, Log!Exists,
         PartProofs!Log!Exists, Log!PathOf, PartProofs!Log!PathOf, Log!Saves,
         PartProofs!Log!Saves, Log!logFileVars, PartProofs!Log!logFileVars, Log!NoFile,
         PartProofs!Log!NoFile, Log!NewPath, PartProofs!Log!NewPath, Log!OldPath,
         PartProofs!Log!OldPath, Log!Holds, PartProofs!Log!Holds, Log!May, PartProofs!Log!May,
         Log!TornFile, PartProofs!Log!TornFile
<1>11. ASSUME NEW t PROVE Log!Delete(t) => PartProofs!Log!Delete(t)
  BY DEF Log!Delete, PartProofs!Log!Delete, Log!Given, PartProofs!Log!Given, Log!Deleted,
         PartProofs!Log!Deleted, Log!NoFile, PartProofs!Log!NoFile, Log!logFileVars,
         PartProofs!Log!logFileVars, Log!NewPath, PartProofs!Log!NewPath, Log!OldPath,
         PartProofs!Log!OldPath
<1> QED
  BY <1>1, <1>2, <1>3, <1>4, <1>5, <1>6, <1>7, <1>8, <1>9, <1>10, <1>11 DEF Log!SessionLogNext,
         PartProofs!Log!SessionLogNext

LEMMA AgentStep == [Next]_vars => [PartProofs!Agent!AgentNext]_(PartProofs!Agent!agentVars)
<1>1. Next => Agent!AgentNext \/ UNCHANGED agentVars
  BY DEF Next, Step
<1>2. UNCHANGED vars => UNCHANGED agentVars
  BY DEF vars
<1> QED BY <1>1, <1>2, AgentNextLifts DEF agentVars, PartProofs!Agent!agentVars

LEMMA TelemetryStep == [Next]_vars => [PartProofs!Clearcut!TelemetryNext]_(PartProofs!Clearcut!telemetryVars)
<1>1. Next => Clearcut!TelemetryNext \/ UNCHANGED telemetryVars
  BY DEF Next, Step
<1>2. UNCHANGED vars => UNCHANGED telemetryVars
  BY DEF vars
<1> QED BY <1>1, <1>2, TelemetryNextLifts DEF telemetryVars, PartProofs!Clearcut!telemetryVars

LEMMA ShellStep == [Next]_vars => [PartProofs!Shell!ShellNext]_(PartProofs!Shell!shellVars)
<1>1. Next => Shell!ShellNext \/ UNCHANGED shellVars
  BY DEF Next, Step
<1>2. UNCHANGED vars => UNCHANGED shellVars
  BY DEF vars
<1> QED BY <1>1, <1>2, ShellNextLifts DEF shellVars, PartProofs!Shell!shellVars

LEMMA RecordingStep == [Next]_vars => [PartProofs!Record!RecordingNext]_(PartProofs!Record!recordingVars)
<1>1. Next => Record!RecordingNext \/ UNCHANGED recordingVars
  BY DEF Next, Step
<1>2. UNCHANGED vars => UNCHANGED recordingVars
  BY DEF vars
<1> QED BY <1>1, <1>2, RecordingNextLifts DEF recordingVars, PartProofs!Record!recordingVars

LEMMA LogStep == [Next]_vars => [PartProofs!Log!SessionLogNext]_(PartProofs!Log!sessionLogVars)
<1>1. Next => Log!SessionLogNext \/ UNCHANGED logVars
  BY DEF Next, Step
<1>2. UNCHANGED vars => UNCHANGED logVars
  BY DEF vars
<1> QED BY <1>1, <1>2, SessionLogNextLifts DEF logVars, PartProofs!Log!sessionLogVars,
       PartProofs!Log!logFileVars, PartProofs!Log!checkpointVars

\* The two instances of FileEdits calculate the same.
LEMMA EditsSame ==
    /\ \A c, content : Files!Calculated(c, content) = PartProofs!Files!Calculated(c, content)
    /\ \A c, content : Files!Answers(c, content) = PartProofs!Files!Answers(c, content)
    /\ \A c, content : Files!Proposed(c, content) = PartProofs!Files!Proposed(c, content)
    /\ Files!Unsure = PartProofs!Files!Unsure
    /\ Files!Missing = PartProofs!Files!Missing
    /\ \A c : Files!IsWrite(c) <=> PartProofs!Files!IsWrite(c)
    /\ \A c, content, result : Files!Answered(c, content, result) = PartProofs!Files!Answered(c, content, result)
    /\ \A call, c, content, text : Files!ByUser(call, c, content, text) = PartProofs!Files!ByUser(call, c, content, text)
    /\ \A text : Files!Retyped(text) = PartProofs!Files!Retyped(text)
<1>1. \A content, p : Files!Exact(content, p) = PartProofs!Files!Exact(content, p)
  BY DEF Files!Exact, PartProofs!Files!Exact, Files!Spots, PartProofs!Files!Spots,
     Files!Region, PartProofs!Files!Region
<1>2. \A content, p : Files!Flexible(content, p) = PartProofs!Files!Flexible(content, p)
  BY DEF Files!Flexible, PartProofs!Files!Flexible, Files!Spots, PartProofs!Files!Spots,
     Files!First, PartProofs!Files!First, Files!Region, PartProofs!Files!Region
<1>3. \A content, p : Files!Occurrences(content, p) = PartProofs!Files!Occurrences(content, p)
  BY <1>1, <1>2 DEF Files!Occurrences, PartProofs!Files!Occurrences, Files!Regex,
     PartProofs!Files!Regex, Files!Spots, PartProofs!Files!Spots, Files!First,
     PartProofs!Files!First, Files!Region, PartProofs!Files!Region
<1>4. \A content, p, r : Files!Glued(content, p, r) <=> PartProofs!Files!Glued(content, p, r)
  BY <1>1, <1>2, <1>3 DEF Files!Glued, PartProofs!Files!Glued
<1>5. \A content, p : Files!Replaced(content, p) = PartProofs!Files!Replaced(content, p)
  BY <1>3, <1>4 DEF Files!Replaced, PartProofs!Files!Replaced, Files!Region,
     PartProofs!Files!Region
<1>6. \A content, p : Files!Edited(content, p) = PartProofs!Files!Edited(content, p)
  BY <1>3, <1>5 DEF Files!Edited, PartProofs!Files!Edited, Files!Missing,
     PartProofs!Files!Missing, Files!Blank, PartProofs!Files!Blank, Files!Failed,
     PartProofs!Files!Failed, Files!Unsure, PartProofs!Files!Unsure, Files!All,
     PartProofs!Files!All, Files!Region, PartProofs!Files!Region, Files!Plain,
     PartProofs!Files!Plain, Files!Cardinality, PartProofs!Files!Cardinality
<1>7. \A c, content, p : Files!Corrected(c, content, p) = PartProofs!Files!Corrected(c, content, p)
  BY DEF Files!Corrected, PartProofs!Files!Corrected, Files!Blank, PartProofs!Files!Blank,
     Files!Unsure, PartProofs!Files!Unsure, Files!LooksEscaped,
     PartProofs!Files!LooksEscaped, Files!All, PartProofs!Files!All, Files!Region,
     PartProofs!Files!Region, Files!Job, PartProofs!Files!Job, Files!NewText,
     PartProofs!Files!NewText, Files!Plain, PartProofs!Files!Plain
<1>8. \A c, content : Files!Answers(c, content) = PartProofs!Files!Answers(c, content)
  BY DEF Files!Answers, PartProofs!Files!Answers, Files!Region, PartProofs!Files!Region,
     Files!Plain, PartProofs!Files!Plain, Files!Failed, PartProofs!Files!Failed,
     Files!IsWrite, PartProofs!Files!IsWrite, Files!NewText, PartProofs!Files!NewText,
     Files!Unescaped, PartProofs!Files!Unescaped, Files!All, PartProofs!Files!All,
     Files!Job, PartProofs!Files!Job
<1>9. \A c, content : Files!Calculated(c, content) = PartProofs!Files!Calculated(c, content)
  BY <1>6, <1>7 DEF Files!Calculated, PartProofs!Files!Calculated, Files!Unsure,
     PartProofs!Files!Unsure, Files!IsWrite, PartProofs!Files!IsWrite, Files!Cached,
     PartProofs!Files!Cached, Files!OneOf, PartProofs!Files!OneOf, Files!All,
     PartProofs!Files!All, Files!Job, PartProofs!Files!Job, Files!Region,
     PartProofs!Files!Region, Files!Plain, PartProofs!Files!Plain
<1>10. \A c, content : Files!Proposed(c, content) = PartProofs!Files!Proposed(c, content)
  BY <1>1, <1>5, <1>8, <1>9 DEF Files!Proposed, PartProofs!Files!Proposed, Files!Unsure,
     PartProofs!Files!Unsure, Files!IsWrite, PartProofs!Files!IsWrite, Files!All,
     PartProofs!Files!All, Files!Job, PartProofs!Files!Job, Files!Region,
     PartProofs!Files!Region, Files!Plain, PartProofs!Files!Plain
<1>11. Files!Unsure = PartProofs!Files!Unsure
  BY DEF Files!Unsure, PartProofs!Files!Unsure, Files!All, PartProofs!Files!All,
     Files!Region, PartProofs!Files!Region, Files!Plain, PartProofs!Files!Plain
<1>12. Files!Missing = PartProofs!Files!Missing
  BY DEF Files!Missing, PartProofs!Files!Missing, Files!All, PartProofs!Files!All,
     Files!Region, PartProofs!Files!Region, Files!Plain, PartProofs!Files!Plain
<1>13. Files!Blank = PartProofs!Files!Blank
  BY DEF Files!Blank, PartProofs!Files!Blank, Files!All, PartProofs!Files!All, Files!Region,
     PartProofs!Files!Region, Files!Plain, PartProofs!Files!Plain
<1>14. \A c : Files!IsWrite(c) <=> PartProofs!Files!IsWrite(c)
  BY DEF Files!IsWrite, PartProofs!Files!IsWrite, Files!Job, PartProofs!Files!Job
<1>15. \A c, content, result : Files!Answered(c, content, result) = PartProofs!Files!Answered(c, content, result)
  BY DEF Files!Answered, PartProofs!Files!Answered
<1>16. \A call, p : Files!WithParams(call, p) = PartProofs!Files!WithParams(call, p)
  BY DEF Files!WithParams, PartProofs!Files!WithParams
<1>17. \A call, c, content, text : Files!ByUser(call, c, content, text) = PartProofs!Files!ByUser(call, c, content, text)
  <2> SUFFICES ASSUME NEW call, NEW c, NEW content, NEW text
               PROVE  Files!ByUser(call, c, content, text) = PartProofs!Files!ByUser(call, c, content, text)
    OBVIOUS
  <2>1. PICK old : old = IF Files!IsWrite(c) \/ content = Files!Missing THEN Files!Blank ELSE content
    OBVIOUS
  <2>2. old = IF PartProofs!Files!IsWrite(c) \/ content = PartProofs!Files!Missing
                THEN PartProofs!Files!Blank ELSE content
    BY <1>12, <1>13, <1>14, <2>1
  <2>3. PICK with : with = Files!WithParams(call, [whole |-> TRUE, new |-> text, old |-> old])
    OBVIOUS
  <2>4. with = PartProofs!Files!WithParams(call, [whole |-> TRUE, new |-> text, old |-> old])
    BY <1>16, <2>3
  <2>5. Files!ByUser(call, c, content, text)
          = [with EXCEPT !.asked = IF text = call.shown THEN @ ELSE "changed", !.shown = text]
    BY <2>1, <2>3 DEF Files!ByUser
  <2>6. PartProofs!Files!ByUser(call, c, content, text)
          = [with EXCEPT !.asked = IF text = call.shown THEN @ ELSE "changed", !.shown = text]
    BY <2>2, <2>4 DEF PartProofs!Files!ByUser
  <2> QED BY <2>5, <2>6
<1>18. \A text : Files!Retyped(text) = PartProofs!Files!Retyped(text)
  BY DEF Files!Retyped, PartProofs!Files!Retyped, Files!Plain, PartProofs!Files!Plain
<1> QED BY <1>9, <1>8, <1>10, <1>11, <1>12, <1>14, <1>15, <1>17, <1>18

LEMMA FileStarts == Files!FileInit => PartProofs!Files!FileInit
BY DEF Files!FileInit, PartProofs!Files!FileInit, Files!Region, PartProofs!Files!Region,
   Files!Plain, PartProofs!Files!Plain, Files!Missing, PartProofs!Files!Missing,
   Files!Failed, PartProofs!Files!Failed, Files!Calls, PartProofs!Files!Calls,
   Files!Arguments, PartProofs!Files!Arguments, Files!All, PartProofs!Files!All,
   Files!Blank, PartProofs!Files!Blank, Files!Job, PartProofs!Files!Job, Files!NewText,
   PartProofs!Files!NewText

LEMMA FileNextLifts == Files!FileNext => PartProofs!Files!FileNext
<1>1. Files!UserSaves => PartProofs!Files!UserSaves
  BY DEF Files!UserSaves, PartProofs!Files!UserSaves, Files!Region, PartProofs!Files!Region,
     Files!Plain, PartProofs!Files!Plain, Files!All, PartProofs!Files!All, Files!Missing,
     PartProofs!Files!Missing, Files!May, PartProofs!Files!May, Files!Changes,
     PartProofs!Files!Changes, Files!Executing, PartProofs!Files!Executing, Files!Calls,
     PartProofs!Files!Calls, Files!At, PartProofs!Files!At
<1>2. ASSUME NEW c PROVE Files!Look(c) => PartProofs!Files!Look(c)
  BY EditsSame DEF Files!Look, PartProofs!Files!Look, Files!Unsure, PartProofs!Files!Unsure,
     Files!At, PartProofs!Files!At, Files!Becomes, PartProofs!Files!Becomes,
     Files!untouchedFile, PartProofs!Files!untouchedFile, Files!MayLook,
     PartProofs!Files!MayLook, Files!Showing, PartProofs!Files!Showing, Files!All,
     PartProofs!Files!All, Files!Calls, PartProofs!Files!Calls, Files!Together,
     PartProofs!Files!Together, Files!Failed, PartProofs!Files!Failed, Files!Region,
     PartProofs!Files!Region, Files!Plain, PartProofs!Files!Plain
<1>3. ASSUME NEW c PROVE Files!LookFixed(c) => PartProofs!Files!LookFixed(c)
  BY EditsSame DEF Files!LookFixed, PartProofs!Files!LookFixed, Files!At,
     PartProofs!Files!At, Files!Becomes, PartProofs!Files!Becomes, Files!untouchedFile,
     PartProofs!Files!untouchedFile, Files!Showing, PartProofs!Files!Showing,
     Files!Answered, PartProofs!Files!Answered, Files!Failed, PartProofs!Files!Failed,
     Files!All, PartProofs!Files!All, Files!Region, PartProofs!Files!Region, Files!Plain,
     PartProofs!Files!Plain
<1>4. ASSUME NEW c PROVE Files!LookFalters(c) => PartProofs!Files!LookFalters(c)
  BY DEF Files!LookFalters, PartProofs!Files!LookFalters, Files!Failed,
     PartProofs!Files!Failed, Files!IsWrite, PartProofs!Files!IsWrite, Files!At,
     PartProofs!Files!At, Files!May, PartProofs!Files!May, Files!Becomes,
     PartProofs!Files!Becomes, Files!untouchedFile, PartProofs!Files!untouchedFile,
     Files!Showing, PartProofs!Files!Showing, Files!All, PartProofs!Files!All, Files!Job,
     PartProofs!Files!Job, Files!Region, PartProofs!Files!Region, Files!Plain,
     PartProofs!Files!Plain
<1>5. ASSUME NEW c PROVE Files!Proceed(c) => PartProofs!Files!Proceed(c)
  BY DEF Files!Proceed, PartProofs!Files!Proceed, Files!At, PartProofs!Files!At,
     Files!Becomes, PartProofs!Files!Becomes, Files!untouchedFile,
     PartProofs!Files!untouchedFile
<1>6. ASSUME NEW c PROVE Files!AutoApproved(c) => PartProofs!Files!AutoApproved(c)
  BY DEF Files!AutoApproved, PartProofs!Files!AutoApproved, Files!At, PartProofs!Files!At,
     Files!Becomes, PartProofs!Files!Becomes, Files!untouchedFile,
     PartProofs!Files!untouchedFile
<1>7. ASSUME NEW c PROVE Files!Refuse(c) => PartProofs!Files!Refuse(c)
  BY DEF Files!Refuse, PartProofs!Files!Refuse, Files!At, PartProofs!Files!At,
     Files!Becomes, PartProofs!Files!Becomes, Files!untouchedFile,
     PartProofs!Files!untouchedFile
<1>8. ASSUME NEW c PROVE Files!AcceptInIde(c) => PartProofs!Files!AcceptInIde(c)
  BY DEF Files!AcceptInIde, PartProofs!Files!AcceptInIde, Files!Missing,
     PartProofs!Files!Missing, Files!Blank, PartProofs!Files!Blank, Files!At,
     PartProofs!Files!At, Files!May, PartProofs!Files!May, Files!Becomes,
     PartProofs!Files!Becomes, Files!untouchedFile, PartProofs!Files!untouchedFile,
     Files!ByUser, PartProofs!Files!ByUser, Files!Retyped, PartProofs!Files!Retyped,
     Files!All, PartProofs!Files!All, Files!IsWrite, PartProofs!Files!IsWrite,
     Files!WithParams, PartProofs!Files!WithParams, Files!Plain, PartProofs!Files!Plain,
     Files!Region, PartProofs!Files!Region, Files!Job, PartProofs!Files!Job
<1>9. ASSUME NEW c PROVE Files!Modify(c) => PartProofs!Files!Modify(c)
  BY EditsSame DEF Files!Modify, PartProofs!Files!Modify, Files!At, PartProofs!Files!At,
     Files!May, PartProofs!Files!May, Files!Becomes, PartProofs!Files!Becomes,
     Files!untouchedFile, PartProofs!Files!untouchedFile
<1>10. ASSUME NEW c PROVE Files!Execute(c) => PartProofs!Files!Execute(c)
  BY EditsSame DEF Files!Execute, PartProofs!Files!Execute, Files!At, PartProofs!Files!At,
     Files!Becomes, PartProofs!Files!Becomes, Files!untouchedFile,
     PartProofs!Files!untouchedFile, Files!MayExecute, PartProofs!Files!MayExecute,
     Files!Executed, PartProofs!Files!Executed, Files!Together, PartProofs!Files!Together,
     Files!Failed, PartProofs!Files!Failed, Files!Unsure, PartProofs!Files!Unsure,
     Files!Calls, PartProofs!Files!Calls, Files!All, PartProofs!Files!All, Files!Region,
     PartProofs!Files!Region, Files!Plain, PartProofs!Files!Plain
<1>11. ASSUME NEW c PROVE Files!ExecuteFixed(c) => PartProofs!Files!ExecuteFixed(c)
  BY EditsSame DEF Files!ExecuteFixed, PartProofs!Files!ExecuteFixed, Files!At,
     PartProofs!Files!At, Files!Becomes, PartProofs!Files!Becomes, Files!untouchedFile,
     PartProofs!Files!untouchedFile, Files!Answered, PartProofs!Files!Answered,
     Files!Executed, PartProofs!Files!Executed, Files!Failed, PartProofs!Files!Failed,
     Files!Unsure, PartProofs!Files!Unsure, Files!All, PartProofs!Files!All, Files!Region,
     PartProofs!Files!Region, Files!Plain, PartProofs!Files!Plain
<1>12. ASSUME NEW c PROVE Files!ExecuteFalters(c) => PartProofs!Files!ExecuteFalters(c)
  BY DEF Files!ExecuteFalters, PartProofs!Files!ExecuteFalters, Files!Failed,
     PartProofs!Files!Failed, Files!IsWrite, PartProofs!Files!IsWrite, Files!At,
     PartProofs!Files!At, Files!May, PartProofs!Files!May, Files!Becomes,
     PartProofs!Files!Becomes, Files!untouchedFile, PartProofs!Files!untouchedFile,
     Files!Executed, PartProofs!Files!Executed, Files!All, PartProofs!Files!All, Files!Job,
     PartProofs!Files!Job, Files!Unsure, PartProofs!Files!Unsure, Files!Region,
     PartProofs!Files!Region, Files!Plain, PartProofs!Files!Plain
<1>13. ASSUME NEW c PROVE Files!Truncate(c) => PartProofs!Files!Truncate(c)
  BY DEF Files!Truncate, PartProofs!Files!Truncate, Files!Blank, PartProofs!Files!Blank,
     Files!IsWrite, PartProofs!Files!IsWrite, Files!At, PartProofs!Files!At, Files!Changes,
     PartProofs!Files!Changes, Files!Becomes, PartProofs!Files!Becomes, Files!Undoes,
     PartProofs!Files!Undoes, Files!All, PartProofs!Files!All, Files!Job,
     PartProofs!Files!Job, Files!Executing, PartProofs!Files!Executing, Files!Region,
     PartProofs!Files!Region, Files!Plain, PartProofs!Files!Plain, Files!Calls,
     PartProofs!Files!Calls
<1>14. ASSUME NEW c PROVE Files!Write(c) => PartProofs!Files!Write(c)
  BY DEF Files!Write, PartProofs!Files!Write, Files!Missing, PartProofs!Files!Missing,
     Files!Blank, PartProofs!Files!Blank, Files!At, PartProofs!Files!At, Files!Changes,
     PartProofs!Files!Changes, Files!Becomes, PartProofs!Files!Becomes, Files!All,
     PartProofs!Files!All, Files!Executing, PartProofs!Files!Executing, Files!Region,
     PartProofs!Files!Region, Files!Plain, PartProofs!Files!Plain, Files!Calls,
     PartProofs!Files!Calls
<1>15. ASSUME NEW c PROVE Files!WriteFails(c) => PartProofs!Files!WriteFails(c)
  BY DEF Files!WriteFails, PartProofs!Files!WriteFails, Files!At, PartProofs!Files!At,
     Files!May, PartProofs!Files!May, Files!Becomes, PartProofs!Files!Becomes,
     Files!untouchedFile, PartProofs!Files!untouchedFile
<1> QED
  BY <1>1, <1>2, <1>3, <1>4, <1>5, <1>6, <1>7, <1>8, <1>9, <1>10, <1>11, <1>12, <1>13,
     <1>14, <1>15 DEF Files!FileNext, PartProofs!Files!FileNext, Files!Calls,
     PartProofs!Files!Calls

LEMMA FilesStep == [Next]_vars => [PartProofs!Files!FileNext]_(PartProofs!Files!fileVars)
<1>1. Next => Files!FileNext \/ UNCHANGED fileVars
  BY DEF Next, Step
<1>2. UNCHANGED vars => UNCHANGED fileVars
  BY DEF vars
<1> QED BY <1>1, <1>2, FileNextLifts DEF fileVars, PartProofs!Files!fileVars

(* Whatever is aborted, times out or is thrown, a turn is left when all its  *)
(* tools have returned and its message answers every call once, and GOAL is  *)
(* reported with the first valid output of the turn (AgentExecutor), for     *)
(* every number of turns and of calls.                                       *)
THEOREM TurnsAreAnswered == Spec => []TurnsAreComplete
<1>1. Init => PartProofs!AgentInv
  BY AgentStarts, PartsAreConstant, PartProofs!AgentInitHolds DEF Init
<1>2. PartProofs!AgentInv /\ [Next]_vars => PartProofs!AgentInv'
  BY AgentStep, PartsAreConstant, PartProofs!AgentStepKeeps
<1>3. PartProofs!Agent!TurnsAreComplete => Agent!TurnsAreComplete
  BY DEF Agent!TurnsAreComplete, PartProofs!Agent!TurnsAreComplete, Agent!Valid,
         PartProofs!Agent!Valid, Agent!ToSet, PartProofs!Agent!ToSet, Agent!IsInjective,
         PartProofs!Agent!IsInjective
<1>4. PartProofs!AgentInv => TurnsAreComplete
  BY <1>3, PartsAreConstant, PartProofs!AgentInvImplies DEF TurnsAreComplete
<1> QED BY <1>1, <1>2, <1>4, PTL DEF Spec

(* However the output, the exit, the renders and an abort of a command meet: *)
(* its result has what was delivered before the exit, each chunk once and in *)
(* the order of its stream, the tool shows that last, and nothing is shown   *)
(* after it (ShellExecutionService), for every length of the output.         *)
THEOREM OutputArrives == Spec => []OutputIsWhole
<1>1. Init => PartProofs!ShellInv
  BY ShellStarts, PartProofs!ShellInitHolds DEF Init
<1>2. PartProofs!ShellInv /\ [Next]_vars => PartProofs!ShellInv'
  BY ShellStep, PartProofs!ShellStepKeeps
<1>3. PartProofs!Shell!OutputIsWhole => Shell!OutputIsWhole
  BY DEF Shell!OutputIsWhole, PartProofs!Shell!OutputIsWhole, Shell!IsTextOf,
         PartProofs!Shell!IsTextOf, Shell!Binary, PartProofs!Shell!Binary, Shell!NoText,
         PartProofs!Shell!NoText, Shell!Place, PartProofs!Shell!Place, Shell!Of,
         PartProofs!Shell!Of, Shell!Cardinality, PartProofs!Shell!Cardinality
<1>4. PartProofs!ShellInv => OutputIsWhole
  BY <1>3, PartProofs!ShellInvImplies DEF OutputIsWhole
<1> QED BY <1>1, <1>2, <1>4, PTL DEF Spec

(* However flushes, streams, loggers and the writes of checkpoints meet,     *)
(* fail and are repeated: the events that arrive are in order, none twice,   *)
(* and the newest are not dropped; a recording has all messages and thoughts *)
(* of its chats, each with its own tokens; and the log and the checkpoints   *)
(* keep what they were given, as far as nobody else writes the log           *)
(* (ClearcutLogger, ChatRecordingService, Logger).                           *)
THEOREM EverythingIsKept == Spec => []RecordsAreKept
<1> DEFINE Kept == PartProofs!TelemetryInv /\ PartProofs!RecordingInv /\ PartProofs!SessionLogInv
<1>1. Init => Kept
  BY TelemetryStarts, RecordingStarts, LogStarts, PartsAreConstant, PartProofs!TelemetryInitHolds,
     PartProofs!RecordingInitHolds, PartProofs!SessionLogInitOK DEF Init
<1>2. Kept /\ [Next]_vars => Kept'
  BY TelemetryStep, RecordingStep, LogStep, PartsAreConstant, PartProofs!TelemetryStepKeeps,
     PartProofs!RecordingStepKeeps, PartProofs!SessionLogStepKeeps
<1>3. /\ PartProofs!Clearcut!EventsArriveInOrder => Clearcut!EventsArriveInOrder
      /\ PartProofs!Clearcut!NewestEventsSurvive => Clearcut!NewestEventsSurvive
  BY DEF Clearcut!EventsArriveInOrder, PartProofs!Clearcut!EventsArriveInOrder,
         Clearcut!Increasing, PartProofs!Clearcut!Increasing, Clearcut!NewestEventsSurvive,
         PartProofs!Clearcut!NewestEventsSurvive, Clearcut!ToSet, PartProofs!Clearcut!ToSet
<1>4. PartProofs!Record!RecordingsAreKept => Record!RecordingsAreKept
  BY DEF Record!RecordingsAreKept, PartProofs!Record!RecordingsAreKept,
         Record!ConversationsAreWhole, PartProofs!Record!ConversationsAreWhole,
         Record!ThoughtsAreKept, PartProofs!Record!ThoughtsAreKept, Record!TokensAreOwn,
         PartProofs!Record!TokensAreOwn, Record!HasLines, PartProofs!Record!HasLines,
         Record!FileOf, PartProofs!Record!FileOf, Record!HasThoughts,
         PartProofs!Record!HasThoughts, Record!NoTokens, PartProofs!Record!NoTokens,
         Record!PlacesOf, PartProofs!Record!PlacesOf, Record!Ascends,
         PartProofs!Record!Ascends, Record!Precede, PartProofs!Record!Precede, Record!ToSet,
         PartProofs!Record!ToSet, Record!Cardinality, PartProofs!Record!Cardinality
<1>5. PartProofs!Log!LogIsKept => Log!LogIsKept
  BY DEF Log!LogIsKept, PartProofs!Log!LogIsKept, Log!PromptsAreLogged,
         PartProofs!Log!PromptsAreLogged, Log!IdsAreInOrder, PartProofs!Log!IdsAreInOrder,
         Log!CheckpointsAreKept, PartProofs!Log!CheckpointsAreKept, Log!AtWork,
         PartProofs!Log!AtWork, Log!InOrder, PartProofs!Log!InOrder, Log!Loaded,
         PartProofs!Log!Loaded, Log!May, PartProofs!Log!May, Log!NewPath,
         PartProofs!Log!NewPath, Log!TornFile, PartProofs!Log!TornFile, Log!EntriesOf,
         PartProofs!Log!EntriesOf, Log!PathOf, PartProofs!Log!PathOf, Log!NoFile,
         PartProofs!Log!NoFile, Log!Exists, PartProofs!Log!Exists, Log!OldPath,
         PartProofs!Log!OldPath, Log!Cardinality, PartProofs!Log!Cardinality
<1>6. Kept => RecordsAreKept
  BY <1>3, <1>4, <1>5, PartsAreConstant, PartProofs!TelemetryInvImplies,
     PartProofs!RecordingInvImplies, PartProofs!SessionLogInvImplies DEF RecordsAreKept
<1> QED BY <1>1, <1>2, <1>6, PTL DEF Spec

(* However the calls of a batch, the answers of the user and the model, his  *)
(* changes and his saves meet, replace and write_file undo nothing that was  *)
(* there before they execute, edit the one place they name, write what the   *)
(* user saw, and write unseen only what changed since they were looked at    *)
(* (smart-edit.ts, write-file.ts, modifiable-tool.ts), for every text and    *)
(* every number of calls and saves.                                          *)
THEOREM EditsAreFaithful == Spec => []FilesAreKept
<1>1. Init => PartProofs!FilesInv
  BY FileStarts, PartsAreConstant, PartProofs!FilesStart DEF Init
<1>2. PartProofs!FilesInv /\ [Next]_vars => PartProofs!FilesInv'
  BY FilesStep, PartsAreConstant, PartProofs!FilesStep, PartProofs!FilesStay
<1>3. PartProofs!Files!FilesAreKept => Files!FilesAreKept
  BY DEF Files!FilesAreKept, PartProofs!Files!FilesAreKept, Files!ChangesAreKept,
     PartProofs!Files!ChangesAreKept, Files!OnePlaceIsEdited,
     PartProofs!Files!OnePlaceIsEdited, Files!ShownIsWritten,
     PartProofs!Files!ShownIsWritten, Files!UnseenOnlyByChange,
     PartProofs!Files!UnseenOnlyByChange, Files!Region, PartProofs!Files!Region,
     Files!Writing, PartProofs!Files!Writing, Files!Consulted, PartProofs!Files!Consulted,
     Files!Blank, PartProofs!Files!Blank, Files!LooksEscaped, PartProofs!Files!LooksEscaped,
     Files!Calls, PartProofs!Files!Calls, Files!At, PartProofs!Files!At, Files!All,
     PartProofs!Files!All, Files!Job, PartProofs!Files!Job, Files!NewText,
     PartProofs!Files!NewText, Files!Plain, PartProofs!Files!Plain, Files!Cardinality,
     PartProofs!Files!Cardinality
<1>4. PartProofs!FilesInv => FilesAreKept
  BY <1>3, PartsAreConstant, PartProofs!FilesSay DEF FilesAreKept
<1> QED BY <1>1, <1>2, <1>4, PTL DEF Spec
-----------------------------------------------------------------------------
LEMMA RulesAreConstant == IdeProofs!BusConstants
<1>1. \A S : IdeProofs!IsFiniteSet(S) <=> IsFiniteSet(S)
  BY DEF IdeProofs!IsFiniteSet, IsFiniteSet
<1> QED BY <1>1, PoliciesAreRules DEF IdeProofs!BusConstants

LEMMA BusStarts == Bus!BusInit => IdeProofs!Bus!BusInit
<1>1. \A s, p : Bus!OfPriority(s, p) = IdeProofs!Bus!OfPriority(s, p)
  BY DEF Bus!OfPriority, IdeProofs!Bus!OfPriority, Bus!RulesOf, IdeProofs!Bus!RulesOf,
         Bus!Rule, IdeProofs!Bus!Rule, Bus!NamesOf, IdeProofs!Bus!NamesOf, Bus!Tool,
         IdeProofs!Bus!Tool, Bus!Write, IdeProofs!Bus!Write, Bus!SetToSeq,
         IdeProofs!Bus!SetToSeq, Bus!IsInjective, IdeProofs!Bus!IsInjective,
         Bus!Cardinality, IdeProofs!Bus!Cardinality
<1>2. \A s : Bus!RulesOf(s) = IdeProofs!Bus!RulesOf(s)
  BY DEF Bus!RulesOf, IdeProofs!Bus!RulesOf, Bus!Rule, IdeProofs!Bus!Rule, Bus!NamesOf,
         IdeProofs!Bus!NamesOf, Bus!Tool, IdeProofs!Bus!Tool, Bus!Write, IdeProofs!Bus!Write
<1>3. \A s : Bus!SortedRules(s) = IdeProofs!Bus!SortedRules(s)
  BY <1>1 DEF Bus!SortedRules, IdeProofs!Bus!SortedRules
<1> QED
  BY <1>2, <1>3 DEF Bus!BusInit, IdeProofs!Bus!BusInit

LEMMA BusNextLifts == Bus!BusNext => IdeProofs!Bus!BusNext
<1>1. Bus!AddRule => IdeProofs!Bus!AddRule
  BY DEF Bus!AddRule, IdeProofs!Bus!AddRule, Bus!Inserted, IdeProofs!Bus!Inserted,
         Bus!InsertAt, IdeProofs!Bus!InsertAt, Bus!promises, IdeProofs!Bus!promises
<1>2. Bus!RemoveRulesForTool => IdeProofs!Bus!RemoveRulesForTool
  BY DEF Bus!RemoveRulesForTool, IdeProofs!Bus!RemoveRulesForTool, Bus!Remaining,
         IdeProofs!Bus!Remaining, Bus!Stays, IdeProofs!Bus!Stays, Bus!ToSet,
         IdeProofs!Bus!ToSet, Bus!Cardinality, IdeProofs!Bus!Cardinality, Bus!promises,
         IdeProofs!Bus!promises
<1>3. Bus!Answer => IdeProofs!Bus!Answer
  BY DEF Bus!Answer, IdeProofs!Bus!Answer, Bus!Respond, IdeProofs!Bus!Respond, Bus!Settled,
         IdeProofs!Bus!Settled, Bus!Hears, IdeProofs!Bus!Hears
<1>4. ASSUME NEW c PROVE Bus!Ask(c) => IdeProofs!Bus!Ask(c)
  BY DEF Bus!Ask, IdeProofs!Bus!Ask, Bus!Check, IdeProofs!Bus!Check, Bus!Matches,
         IdeProofs!Bus!Matches, Bus!SelectInSeq, IdeProofs!Bus!SelectInSeq, Bus!Min,
         IdeProofs!Bus!Min, Bus!Tool, IdeProofs!Bus!Tool
<1>5. ASSUME NEW c PROVE Bus!Timeout(c) => IdeProofs!Bus!Timeout(c)
  BY DEF Bus!Timeout, IdeProofs!Bus!Timeout, Bus!Settled, IdeProofs!Bus!Settled
<1>6. ASSUME NEW c PROVE Bus!Abort(c) => IdeProofs!Bus!Abort(c)
  BY DEF Bus!Abort, IdeProofs!Bus!Abort, Bus!Settled, IdeProofs!Bus!Settled
<1> QED
  BY <1>1, <1>2, <1>3, <1>4, <1>5, <1>6 DEF Bus!BusNext, IdeProofs!Bus!BusNext

LEMMA BusStep == [Next]_vars => [IdeProofs!Bus!BusNext]_(IdeProofs!Bus!busVars)
<1>1. Next => Bus!BusNext \/ UNCHANGED busVars
  BY DEF Next, Step
<1>2. UNCHANGED vars => UNCHANGED busVars
  BY DEF vars
<1> QED BY <1>1, <1>2, BusNextLifts DEF busVars, IdeProofs!Bus!busVars

(* Whatever the settings, the rules made of them decide of every tool what   *)
(* they promise (createPolicyEngineConfig); however rules are added and      *)
(* removed later, the rule that decides is one of the highest priority among *)
(* those that match, the oldest of them (PolicyEngine); and a call is        *)
(* allowed or denied by a response to its own request only, with nothing of  *)
(* it left on the bus (handleMessageBusConfirmation).                        *)
THEOREM ConfirmationsAreKept == Spec => []ConfirmationsAreOwn
<1>1. Init => IdeProofs!AnswersInv /\ IdeProofs!RulesInv
  BY BusStarts, RulesAreConstant, IdeProofs!AnswersStart, IdeProofs!RulesStart DEF Init
<1>2. IdeProofs!AnswersInv /\ IdeProofs!RulesInv /\ [Next]_vars
        => (IdeProofs!AnswersInv /\ IdeProofs!RulesInv)'
  BY BusStep, RulesAreConstant, IdeProofs!AnswersStep, IdeProofs!RulesStep
<1>3. \A name, server : Bus!Check(name, server) = IdeProofs!Bus!Check(name, server)
  BY DEF Bus!Check, IdeProofs!Bus!Check, Bus!Matches, IdeProofs!Bus!Matches,
         Bus!SelectInSeq, IdeProofs!Bus!SelectInSeq, Bus!Min, IdeProofs!Bus!Min
<1>4. IdeProofs!Bus!SettingsDecide => Bus!SettingsDecide
  BY <1>3 DEF Bus!SettingsDecide, IdeProofs!Bus!SettingsDecide, Bus!Promised,
         IdeProofs!Bus!Promised, Bus!Tool, IdeProofs!Bus!Tool
<1>5. IdeProofs!Bus!RulesDecide => Bus!RulesDecide
  BY DEF Bus!RulesDecide, IdeProofs!Bus!RulesDecide, Bus!Decides, IdeProofs!Bus!Decides,
         Bus!Matches, IdeProofs!Bus!Matches, Bus!SelectInSeq, IdeProofs!Bus!SelectInSeq,
         Bus!Min, IdeProofs!Bus!Min, Bus!Tool, IdeProofs!Bus!Tool
<1>6. IdeProofs!Bus!AnswersAreOwn => Bus!AnswersAreOwn
  BY DEF Bus!AnswersAreOwn, IdeProofs!Bus!AnswersAreOwn
<1>7. IdeProofs!AnswersInv /\ IdeProofs!RulesInv => ConfirmationsAreOwn
  BY <1>4, <1>5, <1>6, RulesAreConstant, IdeProofs!OneDecides, IdeProofs!PromisesAreKept
     DEF ConfirmationsAreOwn, Bus!ConfirmationsAreOwn, IdeProofs!AnswersInv
<1> QED BY <1>1, <1>2, <1>7, PTL DEF Spec
=============================================================================
