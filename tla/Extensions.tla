----------------------------- MODULE Extensions -----------------------------
(***************************************************************************)
(* The extensions of a session (packages/cli/src/config/extension.ts,      *)
(* config/extensions/update.ts, ui/hooks/useExtensionUpdates.ts and        *)
(* ui/state/extensions.ts): the check for updates, the updates that the    *)
(* settings or /extensions update ask for, and what an update does to the  *)
(* directory of an extension: it is copied, removed, installed again, and  *)
(* put back when that fails.                                               *)
(***************************************************************************)
EXTENDS Naturals, FiniteSets

CONSTANTS
    Extension,
    ExtensionWorld,  \* [mishaps, auto]: what may go wrong, and who updates by itself
    MaxCommands      \* bound: how often /extensions update is given

\* "check": the directory an extension came from is gone; "metadata": the file that
\* says where it came from has changed since; "backup", "copy", "remove", "download",
\* "refused", "renamed", "restore", "tidy": what can end an update; "quit": the
\* application ends.
Mishaps == {"check", "metadata", "backup", "copy", "remove", "download", "refused", "renamed",
            "restore", "tidy", "quit"}

VARIABLES
    extensionWorld,
    updates,        \* ExtensionUpdatesState: the reducer's state
    shown,          \* the same, of the last render
    effectsDue,     \* the effects of that render have not run
    checking,       \* the extensions whose check is not answered
    checkBroke,     \* a check has rejected: BATCH_CHECK_END is never dispatched
    updateAt,       \* where updateExtension is, for each extension
    disk,           \* the files of an extension's directory
    backup,         \* tempDir
    overridden,     \* extension-enablement.json has rules of the user for it
    awaited,        \* the updates a command waits for, and whether one has failed
    commands,       \* how many were given
    commandProcessing,     \* isProcessing: a command has not ended, and nothing can be typed
    quit

extensionVars == <<extensionWorld, updates, shown, effectsDue, checking, checkBroke, updateAt,
                   disk, backup, overridden, awaited, commands, commandProcessing, quit>>

\* The files of a version: "code" is gone from the new one, "extra" comes with it.
Part == {"config", "code", "extra"}
NoFiles == [f \in Part |-> "none"]
OldFiles == [f \in Part |-> IF f = "extra" THEN "none" ELSE "old"]
NewFiles == [f \in Part |-> IF f = "code" THEN "none" ELSE "new"]
\* copyExtension: what is there and not in the copy stays.
Copied(from, to) == [f \in Part |-> IF from[f] = "none" THEN to[f] ELSE from[f]]
\* fs.cp or fs.rm that fails on the way
Partly(from, to) ==
    {[f \in Part |-> IF f \in some THEN Copied(from, to)[f] ELSE to[f]] : some \in SUBSET Part}
PartlyRemoved(files) == {[f \in Part |-> IF f \in some THEN "none" ELSE files[f]] : some \in SUBSET Part}

NoSchedule == [all |-> FALSE, names |-> {}, on |-> FALSE]
ExtensionInit ==
    /\ extensionWorld \in ExtensionWorld
    /\ updates = [status |-> [e \in Extension |-> "unset"], checks |-> 0, scheduled |-> NoSchedule]
    /\ shown = updates /\ effectsDue = TRUE
    /\ checking = {} /\ checkBroke = FALSE
    /\ updateAt = [e \in Extension |-> "rest"]
    /\ disk = [e \in Extension |-> OldFiles]
    /\ backup = [e \in Extension |-> NoFiles]
    /\ overridden = [e \in Extension |-> TRUE]
    /\ awaited = [updates |-> {}, failed |-> FALSE]
    /\ commands = 0 /\ commandProcessing = FALSE
    /\ quit = FALSE

May(mishap) == mishap \in extensionWorld.mishaps
SetState(us, es, s) == [us EXCEPT !.status = [e \in Extension |-> IF e \in es THEN s ELSE @[e]]]
untouchedDisk == <<disk, backup, overridden>>
untouchedCommand == <<awaited, commands, commandProcessing>>

-----------------------------------------------------------------------------
\* updateAction; the prompt is not there while a command is processed.
UpdateCommand ==
    /\ ~quit /\ ~commandProcessing /\ commands < MaxCommands
    /\ \E names \in SUBSET Extension :
         updates' = [updates EXCEPT !.scheduled = [all |-> names = {}, names |-> names, on |-> TRUE]]
    /\ commandProcessing' = TRUE /\ commands' = commands + 1
    /\ UNCHANGED <<extensionWorld, shown, effectsDue, checking, checkBroke, updateAt, untouchedDisk, awaited, quit>>

Render ==
    /\ ~quit /\ ~effectsDue /\ shown # updates
    /\ shown' = updates /\ effectsDue' = TRUE
    /\ UNCHANGED <<extensionWorld, updates, checking, checkBroke, updateAt, untouchedDisk, untouchedCommand, quit>>

\* checkForAllExtensionUpdates, up to the answers
Unchecked == {e \in Extension : shown.status[e] = "unset"}
Checked(us) ==
    IF Unchecked = {} THEN us
      ELSE SetState([us EXCEPT !.checks = @ + 1], Unchecked, "checking")

\* shouldDoUpdate
Wanted(e) ==
    IF shown.scheduled.on THEN shown.scheduled.all \/ e \in shown.scheduled.names
                          ELSE e \in extensionWorld.auto
\* The effect does not look at the state an extension is in: a mistake the runs must notice.
AllWanted == {e \in Extension : Wanted(e)}
ToUpdate == {e \in Extension : shown.status[e] = "available" /\ Wanted(e)}

\* updateExtension up to its first await: shown as updating, unless its metadata has no
\* type now (lost) or says that it is a link; then its promise rejects at once.
Begun(us, lost, linked) ==
    SetState(SetState(SetState(us, ToUpdate, "updating"), lost, "error"), linked, "up to date")
Turned == {t \in (SUBSET ToUpdate) \X (SUBSET ToUpdate) :
             t[1] \cap t[2] = {} /\ (t[1] \cup t[2] # {} => May("metadata"))}

\* The two effects of useExtensionUpdates: what has not been checked is, and when no
\* check is under way, what is wanted is updated.
Effects ==
    /\ ~quit /\ effectsDue /\ effectsDue' = FALSE
    /\ checking' = checking \cup Unchecked
    /\ IF shown.checks > 0
         THEN /\ updates' = Checked(updates)
              /\ UNCHANGED <<updateAt, awaited, commandProcessing>>
         ELSE /\ \E t \in Turned :
                   LET begun == ToUpdate \ (t[1] \cup t[2])
                   IN /\ updates' = Begun(
                           [Checked(updates) EXCEPT !.scheduled = IF shown.scheduled.on THEN NoSchedule ELSE @],
                           t[1], t[2])
                      /\ updateAt' = [e \in Extension |-> IF e \in begun THEN "making" ELSE updateAt[e]]
                      /\ awaited' = IF shown.scheduled.on
                                      THEN [updates |-> begun, failed |-> begun # ToUpdate] ELSE awaited
              /\ commandProcessing' = (commandProcessing /\ ~(shown.scheduled.on /\ ToUpdate = {}))
    /\ UNCHANGED <<extensionWorld, shown, checkBroke, untouchedDisk, commands, quit>>

\* checkForExtensionUpdate answers; that of a local extension may throw.
CheckAnswers ==
    /\ ~quit
    /\ \E e \in checking :
         /\ checking' = checking \ {e}
         /\ \/ /\ \E s \in {"available", "up to date", "error"} :
                    updates' = [SetState(updates, {e}, s) EXCEPT
                                  !.checks = IF checking' = {} /\ ~checkBroke THEN @ - 1 ELSE @]
               /\ UNCHANGED checkBroke
            \/ May("check") /\ checkBroke' = TRUE /\ UNCHANGED updates
    /\ UNCHANGED <<extensionWorld, shown, effectsDue, updateAt, untouchedDisk, untouchedCommand, quit>>

-----------------------------------------------------------------------------
\* updateExtension, from one await to the next
unrelated == <<extensionWorld, shown, effectsDue, checking, checkBroke, commands, quit>>
GoesOn(e, at) ==
    /\ updateAt' = [updateAt EXCEPT ![e] = at]
    /\ UNCHANGED <<unrelated, updates, awaited, commandProcessing>>
\* The catch clause, up to the copy back
Fails(e) ==
    /\ updateAt' = [updateAt EXCEPT ![e] = "restoring"]
    /\ updates' = SetState(updates, {e}, "error")
    /\ UNCHANGED <<unrelated, awaited, commandProcessing>>
At(e, at) == ~quit /\ updateAt[e] = at

\* The end of an update, and of the command that waits for it: Promise.all rejects with
\* the first that fails, and then nobody is told.
Ends(e, ok) ==
    /\ updateAt' = [updateAt EXCEPT ![e] = "rest"]
    /\ awaited' = IF e \in awaited.updates
                    THEN [updates |-> awaited.updates \ {e}, failed |-> awaited.failed \/ ~ok]
                    ELSE awaited
    /\ commandProcessing' = (commandProcessing /\ ~(awaited.updates = {e} /\ ~awaited'.failed))
    /\ UNCHANGED unrelated

\* createTmpDir, before the try: when it rejects, the extension stays shown as updating.
MakeBackUp(e) ==
    /\ At(e, "making")
    /\ \/ GoesOn(e, "copying")
       \/ May("backup") /\ UNCHANGED updates /\ Ends(e, FALSE)
    /\ UNCHANGED untouchedDisk

\* The backup is not made: a mistake the runs must notice.
Unsaved(e) == UNCHANGED backup
Saved(e) == backup' = [backup EXCEPT ![e] = disk[e]]

\* copyExtension(extension.path, tempDir)
BackUp(e) ==
    /\ At(e, "copying")
    /\ \/ Saved(e) /\ GoesOn(e, "removing")
       \/ May("copy") /\ backup' \in {[backup EXCEPT ![e] = b] : b \in Partly(disk[e], NoFiles)} /\ Fails(e)
    /\ UNCHANGED <<disk, overridden>>

\* uninstallExtension: the rules for the extension go before its files.
Uninstall(e) ==
    /\ At(e, "removing")
    /\ overridden' = [overridden EXCEPT ![e] = FALSE]
    /\ \/ disk' = [disk EXCEPT ![e] = NoFiles] /\ GoesOn(e, "installing")
       \/ May("remove") /\ disk' \in {[disk EXCEPT ![e] = d] : d \in PartlyRemoved(disk[e])} /\ Fails(e)
    /\ UNCHANGED backup

\* installExtension, up to the consent, which is asked for when what the extension
\* asks for has changed
Download(e) ==
    /\ At(e, "installing")
    /\ \/ \E at \in {"placing", "asking"} : GoesOn(e, at)
       \/ May("download") /\ Fails(e)
    /\ UNCHANGED untouchedDisk

Consent(e) ==
    /\ At(e, "asking")
    /\ \/ GoesOn(e, "placing")
       \/ May("refused") /\ Fails(e)
    /\ UNCHANGED untouchedDisk

\* The finally clause, up to the removal of tempDir
Tidies(e) ==
    /\ updateAt' = [updateAt EXCEPT ![e] = "tidying"]
    /\ UNCHANGED <<unrelated, awaited, commandProcessing>>

\* installExtension after the consent. Under a new name the extension is somewhere
\* else, and is not found where it was.
Place(e) ==
    /\ At(e, "placing")
    /\ \/ /\ disk' = [disk EXCEPT ![e] = Copied(NewFiles, disk[e])]
          /\ updates' = SetState(updates, {e}, "updated")
          /\ Tidies(e)
       \/ May("copy") /\ disk' \in {[disk EXCEPT ![e] = d] : d \in Partly(NewFiles, disk[e])} /\ Fails(e)
       \/ May("renamed") /\ UNCHANGED disk /\ Fails(e)
    /\ UNCHANGED <<backup, overridden>>

\* copyExtension(tempDir, extension.path)
Restore(e) ==
    /\ At(e, "restoring")
    /\ \/ disk' = [disk EXCEPT ![e] = Copied(backup[e], disk[e])]
       \/ May("restore") /\ disk' \in {[disk EXCEPT ![e] = d] : d \in Partly(backup[e], disk[e])}
    /\ Tidies(e)
    /\ UNCHANGED <<updates, backup, overridden>>

\* The removal may fail too, and then an update that has succeeded is told as one that
\* has not.
Tidy(e) ==
    /\ At(e, "tidying")
    /\ \/ Ends(e, updates.status[e] = "updated")
       \/ May("tidy") /\ Ends(e, FALSE)
    /\ UNCHANGED <<updates, untouchedDisk>>

Quit ==
    /\ May("quit") /\ ~quit
    /\ quit' = TRUE
    /\ UNCHANGED <<extensionWorld, updates, shown, effectsDue, checking, checkBroke, updateAt, untouchedDisk, untouchedCommand>>

ExtensionNext ==
    \/ UpdateCommand \/ Render \/ Effects \/ CheckAnswers
    \/ \E e \in Extension :
         \/ MakeBackUp(e) \/ BackUp(e) \/ Uninstall(e) \/ Download(e) \/ Consent(e) \/ Place(e)
         \/ Restore(e) \/ Tidy(e)
    \/ Quit
ExtensionSpec == ExtensionInit /\ [][ExtensionNext]_extensionVars

-----------------------------------------------------------------------------
Working == {"making", "copying", "removing", "installing", "asking", "placing"}
UpdatesState == [status : [Extension -> {"unset", "checking", "available", "up to date", "error",
                                         "updating", "updated"}],
                 checks : {0, 1},
                 scheduled : [all : BOOLEAN, names : SUBSET Extension, on : BOOLEAN]]
ExtensionTypeOK ==
    /\ extensionWorld \in [mishaps : SUBSET Mishaps, auto : SUBSET Extension]
    /\ updates \in UpdatesState /\ shown \in UpdatesState /\ effectsDue \in BOOLEAN
    /\ checking \subseteq Extension /\ checkBroke \in BOOLEAN
    /\ updateAt \in [Extension -> Working \cup {"rest", "restoring", "tidying"}]
    /\ disk \in [Extension -> [Part -> {"none", "old", "new"}]]
    /\ backup \in [Extension -> [Part -> {"none", "old"}]]
    /\ overridden \in [Extension -> BOOLEAN]
    /\ awaited \in [updates : SUBSET Extension, failed : BOOLEAN]
    /\ commands \in 0 .. MaxCommands /\ commandProcessing \in BOOLEAN /\ quit \in BOOLEAN

(* Whatever ends an update, the directory is whole when it is over: the new   *)
(* version and nothing else, or every file of the old one; only when the      *)
(* application ends in the middle, or the copy back fails, files are missing. *)
UpdatesAreWhole ==
    \A e \in Extension : updateAt[e] \in {"tidying", "rest"} =>
      \/ updates.status[e] = "updated" /\ disk[e] = NewFiles
      \/ updates.status[e] # "updated" /\ disk[e].config = "old" /\ disk[e].code = "old"
      \/ May("restore") /\ updates.status[e] = "error"

(* An extension is shown as updating while it is, so that no update begins    *)
(* while another of the same extension is under way, and the late answer of a *)
(* check hides none.  It is shown so without being updated only when the      *)
(* directory for its copy could not be made: then it stays shown as updating, *)
(* with its files as they were.                                               *)
StatesAreTrue ==
    \A e \in Extension :
      /\ updateAt[e] \in Working => updates.status[e] = "updating"
      /\ updates.status[e] = "updating" =>
           \/ updateAt[e] \in Working
           \/ May("backup") /\ updateAt[e] = "rest" /\ disk[e] = OldFiles /\ backup[e] = NoFiles
      /\ updateAt[e] = "restoring" => updates.status[e] = "error"
      /\ shown.status[e] = "available" /\ effectsDue => updateAt[e] = "rest"

(* A command ends when its updates have, unless one of them has failed or a   *)
(* check has broken: then the promise it waits for is never resolved.         *)
CommandsEnd ==
    commandProcessing =>
      \/ updates.scheduled.on
      \/ \E e \in awaited.updates : updateAt[e] # "rest"
      \/ awaited.failed
ExtensionsSurvive == UpdatesAreWhole /\ StatesAreTrue /\ CommandsEnd
=============================================================================
