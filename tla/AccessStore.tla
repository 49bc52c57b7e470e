----------------------------- MODULE AccessStore -----------------------------
(***************************************************************************)
(* fileAccessStateStore (tunwg/access_store.go): how access_state.json and *)
(* the marker access_state.initialized are written, one file operation at  *)
(* a time, when any of them may fail, the process may crash and the        *)
(* machine may lose power.                                                 *)
(*                                                                         *)
(* A file is [data, synced].  What the running system sees (stateFile,     *)
(* markerFile) is apart from what the synced directory holds (stateOnDisk, *)
(* markerOnDisk).  A power failure leaves either, and tears the data of a  *)
(* file that was not synced.  The temporary file is created or truncated   *)
(* by every save, so it does not outlive one.  The directory itself is     *)
(* taken to be there: Save makes it, and does not sync its parent.         *)
(***************************************************************************)
CONSTANTS
    Values,   \* states that can be saved
    Nothing,  \* no state
    Torn      \* data that is not the whole of what was written

VARIABLES
    step,          \* the next file operation of Save, or "idle"
    saving,        \* the state being saved, or Nothing
    result,        \* what the last Save returned: "none", "ok" or "error"
    tmpFile,       \* access_state.json.tmp
    stateFile,     \* access_state.json as the running system sees it
    stateOnDisk,   \* access_state.json in the synced directory
    markerFile,    \* access_state.initialized as the running system sees it
    markerOnDisk   \* access_state.initialized in the synced directory

vars == <<step, saving, result, tmpFile, stateFile, stateOnDisk, markerFile, markerOnDisk>>
files == <<tmpFile, stateFile, stateOnDisk, markerFile, markerOnDisk>>

(* The text of a complete marker: the version of the state. *)
Version == "2"

Absent == [data |-> Nothing, synced |-> TRUE]
StateFiles == [data : Values \cup {Nothing, Torn}, synced : BOOLEAN]
MarkerFiles == [data : {Version, Nothing, Torn}, synced : BOOLEAN]
Steps ==
    {"idle", "create", "write", "sync", "rename", "syncdir",
     "readmarker", "createmarker", "writemarker", "syncmarker", "syncmarkerdir"}

ASSUME StoreAssumption ==
    /\ Nothing \notin Values
    /\ Torn \notin Values
    /\ Nothing # Torn
    /\ Version \notin {Nothing, Torn}

StoreTypeOK ==
    /\ step \in Steps
    /\ saving \in Values \cup {Nothing}
    /\ result \in {"none", "ok", "error"}
    /\ tmpFile \in StateFiles
    /\ stateFile \in StateFiles
    /\ stateOnDisk \in StateFiles
    /\ markerFile \in MarkerFiles
    /\ markerOnDisk \in MarkerFiles

Init ==
    /\ step = "idle"
    /\ saving = Nothing
    /\ result = "none"
    /\ tmpFile = Absent
    /\ stateFile = Absent
    /\ stateOnDisk = Absent
    /\ markerFile = Absent
    /\ markerOnDisk = Absent

-----------------------------------------------------------------------------
(* Save. *)

Save(v) ==
    /\ step = "idle"
    /\ step' = "create"
    /\ saving' = v
    /\ result' = "none"
    /\ UNCHANGED files

(* OpenFile(tmp, O_CREATE|O_TRUNC). *)
CreateTmp ==
    /\ step = "create"
    /\ step' = "write"
    /\ tmpFile' = [data |-> Torn, synced |-> FALSE]
    /\ UNCHANGED <<saving, result, stateFile, stateOnDisk, markerFile, markerOnDisk>>

(* Chmod and Write. *)
WriteTmp ==
    /\ step = "write"
    /\ step' = "sync"
    /\ tmpFile' = [data |-> saving, synced |-> FALSE]
    /\ UNCHANGED <<saving, result, stateFile, stateOnDisk, markerFile, markerOnDisk>>

(* Mutant: the temporary file is closed without a sync. *)
CloseTmp ==
    /\ step = "sync"
    /\ step' = "rename"
    /\ UNCHANGED <<saving, result, files>>

(* Sync and Close. *)
SyncTmp ==
    /\ step = "sync"
    /\ step' = "rename"
    /\ tmpFile' = [tmpFile EXCEPT !.synced = TRUE]
    /\ UNCHANGED <<saving, result, stateFile, stateOnDisk, markerFile, markerOnDisk>>

RenameTmp ==
    /\ step = "rename"
    /\ step' = "syncdir"
    /\ stateFile' = tmpFile
    /\ tmpFile' = Absent
    /\ UNCHANGED <<saving, result, stateOnDisk, markerFile, markerOnDisk>>

(* Mutant: the directory is synced for a new file only. *)
SyncDirOnce ==
    /\ step = "syncdir"
    /\ step' = "readmarker"
    /\ stateOnDisk' = IF stateOnDisk = Absent THEN stateFile ELSE stateOnDisk
    /\ UNCHANGED <<saving, result, tmpFile, stateFile, markerFile, markerOnDisk>>

SyncDir ==
    /\ step = "syncdir"
    /\ step' = "readmarker"
    /\ stateOnDisk' = stateFile
    /\ markerOnDisk' = markerFile
    /\ UNCHANGED <<saving, result, tmpFile, stateFile, markerFile>>

(* ensureMarker leaves a complete marker alone, and Save returns. *)
MarkerComplete ==
    /\ step = "readmarker"
    /\ markerFile.data = Version
    /\ step' = "idle"
    /\ saving' = Nothing
    /\ result' = "ok"
    /\ UNCHANGED files

MarkerIncomplete ==
    /\ step = "readmarker"
    /\ markerFile.data # Version
    /\ step' = "createmarker"
    /\ UNCHANGED <<saving, result, files>>

CreateMarker ==
    /\ step = "createmarker"
    /\ step' = "writemarker"
    /\ markerFile' = [data |-> Torn, synced |-> FALSE]
    /\ UNCHANGED <<saving, result, tmpFile, stateFile, stateOnDisk, markerOnDisk>>

(* Mutant: the marker gets the state instead of the version. *)
WriteStateToMarker ==
    /\ step = "writemarker"
    /\ step' = "syncmarker"
    /\ markerFile' = [data |-> saving, synced |-> FALSE]
    /\ UNCHANGED <<saving, result, tmpFile, stateFile, stateOnDisk, markerOnDisk>>

WriteMarker ==
    /\ step = "writemarker"
    /\ step' = "syncmarker"
    /\ markerFile' = [data |-> Version, synced |-> FALSE]
    /\ UNCHANGED <<saving, result, tmpFile, stateFile, stateOnDisk, markerOnDisk>>

SyncMarker ==
    /\ step = "syncmarker"
    /\ step' = "syncmarkerdir"
    /\ markerFile' = [markerFile EXCEPT !.synced = TRUE]
    /\ UNCHANGED <<saving, result, tmpFile, stateFile, stateOnDisk, markerOnDisk>>

SyncMarkerDir ==
    /\ step = "syncmarkerdir"
    /\ step' = "idle"
    /\ saving' = Nothing
    /\ result' = "ok"
    /\ stateOnDisk' = stateFile
    /\ markerOnDisk' = markerFile
    /\ UNCHANGED <<tmpFile, stateFile, markerFile>>

(* Any operation fails and Save returns its error, or the process crashes: *)
(* the file system keeps what it shows.                                    *)
SaveFails ==
    /\ step # "idle"
    /\ step' = "idle"
    /\ saving' = Nothing
    /\ result' = "error"
    /\ tmpFile' = Absent
    /\ UNCHANGED <<stateFile, stateOnDisk, markerFile, markerOnDisk>>

(* After a power failure a file is as it was shown or as it was synced; a  *)
(* file whose data was not synced may be torn.                             *)
Surviving(shown, onDisk) ==
    {[f EXCEPT !.synced = TRUE] :
        f \in {shown, onDisk} \cup
              {[g EXCEPT !.data = Torn] : g \in {h \in {shown, onDisk} : ~h.synced}}}

PowerFailure ==
    /\ step' = "idle"
    /\ saving' = Nothing
    /\ result' = IF step = "idle" THEN result ELSE "error"
    /\ tmpFile' = Absent
    /\ stateFile' \in Surviving(stateFile, stateOnDisk)
    /\ markerFile' \in Surviving(markerFile, markerOnDisk)
    /\ stateOnDisk' = stateFile'
    /\ markerOnDisk' = markerFile'

Next ==
    \/ \E v \in Values : Save(v)
    \/ CreateTmp \/ WriteTmp \/ SyncTmp \/ RenameTmp \/ SyncDir
    \/ MarkerComplete \/ MarkerIncomplete
    \/ CreateMarker \/ WriteMarker \/ SyncMarker \/ SyncMarkerDir
    \/ SaveFails
    \/ PowerFailure

Spec == Init /\ [][Next]_vars

-----------------------------------------------------------------------------
(* Load: the answers "state", "not found" and "error". *)
Load ==
    IF stateFile.data \in Values THEN "state"
    ELSE IF stateFile.data = Nothing /\ markerFile.data = Nothing THEN "not found"
    ELSE "error"

(* Whatever operation failed and whenever power was lost, the store reads  *)
(* its own files: it finds no torn state and no marker without a state.    *)
AlwaysLoads == Load # "error"

(* The store implements the durable register of DurableRegister. *)
PossibleValues ==
    {stateFile.data, stateOnDisk.data}
        \cup (IF saving # Nothing THEN {saving} ELSE {})
Register == INSTANCE DurableRegister WITH possible <- PossibleValues
ImplementsRegister == Register!Spec
=============================================================================
