----------------------------- MODULE FilesProofs -----------------------------
(***************************************************************************)
(* Proofs about the files of the server and the client.  For any set of    *)
(* states, provided that the directory itself survives a power failure,    *)
(* fileAccessStateStore always reads its own files and implements          *)
(* DurableRegister.  For any number of processes and keys, all processes   *)
(* that share a key file use one key as long as none has the privilege to  *)
(* write a file of mode 0400.                                              *)
(***************************************************************************)
EXTENDS AccessStore, KeyFile, TLAPS

-----------------------------------------------------------------------------
(* access_state.json and its marker. *)

MarkerSteps ==
    {"readmarker", "createmarker", "writemarker", "syncmarker", "syncmarkerdir"}

(* Save has a value exactly while it runs. *)
SavingInv ==
    /\ step = "idle" => saving = Nothing
    /\ step # "idle" => saving \in Values
(* The temporary file holds that value before it is renamed, synced. *)
TmpInv ==
    /\ step = "sync" => tmpFile.data = saving
    /\ step = "rename" => tmpFile = [data |-> saving, synced |-> TRUE]
(* The state file is never torn, wherever one looks. *)
WholeInv ==
    /\ stateFile.synced /\ stateFile.data \in Values \cup {Nothing}
    /\ stateOnDisk.synced /\ stateOnDisk.data \in Values \cup {Nothing}
(* After the rename the state is the one being saved, after the sync of    *)
(* the directory also on disk.                                             *)
RenamedInv ==
    /\ step \in {"syncdir"} \cup MarkerSteps => stateFile.data = saving
    /\ step \in MarkerSteps => stateOnDisk.data = saving
(* There is a marker only where there is a state. *)
MarkerInv ==
    markerFile # Absent \/ markerOnDisk # Absent =>
        stateFile.data \in Values /\ stateOnDisk.data \in Values
IndInv == StoreTypeOK /\ SavingInv /\ TmpInv /\ WholeInv /\ RenamedInv /\ MarkerInv

LEMMA InitInd == Init => IndInv
  BY StoreAssumption
  DEF Init, IndInv, StoreTypeOK, SavingInv, TmpInv, WholeInv, RenamedInv, MarkerInv,
      Absent, Steps, StateFiles, MarkerFiles, MarkerSteps

(* A state that was synced survives as it was seen or as it was on disk. *)
LEMMA SurvivingSynced ==
  ASSUME NEW seen \in StateFiles, NEW onDisk \in StateFiles, seen.synced, onDisk.synced,
         NEW f \in Surviving(seen, onDisk)
  PROVE  f = seen \/ f = onDisk
  <1>1. \A h \in {seen, onDisk} : h.synced /\ [h EXCEPT !.synced = TRUE] = h
    BY DEF StateFiles
  <1>2. PICK g \in {seen, onDisk} : f = [g EXCEPT !.synced = TRUE]
    BY <1>1 DEF Surviving
  <1> QED BY <1>1, <1>2

(* In general a marker survives as a marker file, and no marker as none. *)
LEMMA SurvivingMarker ==
  ASSUME NEW seen \in MarkerFiles, NEW onDisk \in MarkerFiles,
         NEW f \in Surviving(seen, onDisk)
  PROVE  f \in MarkerFiles /\ (seen = Absent /\ onDisk = Absent => f = Absent)
  <1> DEFINE torn == {[g EXCEPT !.data = Torn] : g \in {h \in {seen, onDisk} : ~h.synced}}
  <1>1. PICK g \in {seen, onDisk} \cup torn : f = [g EXCEPT !.synced = TRUE]
    BY DEF Surviving
  <1>2. g \in MarkerFiles
    BY DEF MarkerFiles
  <1>3. f \in MarkerFiles
    BY <1>1, <1>2 DEF MarkerFiles
  <1>4. ASSUME seen = Absent, onDisk = Absent PROVE f = Absent
    <2>1. torn = {}
      BY <1>4 DEF Absent
    <2>2. g = Absent
      BY <1>4, <2>1
    <2> QED BY <1>1, <2>2 DEF Absent
  <1> QED BY <1>3, <1>4

LEMMA SaveInd == ASSUME IndInv, NEW v \in Values, Save(v) PROVE IndInv'
  BY StoreAssumption
  DEF Save, files, IndInv, StoreTypeOK, SavingInv, TmpInv, WholeInv, RenamedInv, MarkerInv,
      Absent, Steps, StateFiles, MarkerFiles, MarkerSteps

(* The steps up to the rename change the temporary file only. *)
LEMMA TmpInd == ASSUME IndInv, CreateTmp \/ WriteTmp \/ SyncTmp PROVE IndInv'
  <1>1. StoreTypeOK'
    <2>1. tmpFile' \in StateFiles
      <3>1. CASE CreateTmp BY <3>1 DEF CreateTmp, StateFiles
      <3>2. CASE WriteTmp BY <3>2 DEF WriteTmp, IndInv, SavingInv, StateFiles
      <3>3. CASE SyncTmp BY <3>3 DEF SyncTmp, IndInv, StoreTypeOK, StateFiles
      <3> QED BY <3>1, <3>2, <3>3
    <2> QED BY <2>1 DEF CreateTmp, WriteTmp, SyncTmp, IndInv, StoreTypeOK, Steps
  <1>2. SavingInv' /\ WholeInv' /\ RenamedInv' /\ MarkerInv'
    BY DEF CreateTmp, WriteTmp, SyncTmp, IndInv, SavingInv, WholeInv, RenamedInv, MarkerInv,
           MarkerSteps, Absent
  <1>3. TmpInv'
    <2>1. CASE CreateTmp BY <2>1 DEF CreateTmp, TmpInv
    <2>2. CASE WriteTmp BY <2>2 DEF WriteTmp, TmpInv
    <2>3. CASE SyncTmp BY <2>3 DEF SyncTmp, IndInv, StoreTypeOK, TmpInv, StateFiles
    <2> QED BY <2>1, <2>2, <2>3
  <1> QED BY <1>1, <1>2, <1>3 DEF IndInv

LEMMA RenameInd == ASSUME IndInv, RenameTmp PROVE IndInv'
  <1>1. tmpFile = [data |-> saving, synced |-> TRUE] /\ saving \in Values
    BY DEF RenameTmp, IndInv, SavingInv, TmpInv
  <1>2. StoreTypeOK'
    BY <1>1, StoreAssumption DEF RenameTmp, IndInv, StoreTypeOK, Steps, StateFiles, Absent
  <1>3. SavingInv' /\ TmpInv' /\ WholeInv' /\ RenamedInv'
    BY <1>1 DEF RenameTmp, IndInv, SavingInv, TmpInv, WholeInv, RenamedInv, MarkerSteps
  <1>4. MarkerInv'
    BY <1>1 DEF RenameTmp, IndInv, MarkerInv, Absent
  <1> QED BY <1>2, <1>3, <1>4 DEF IndInv

LEMMA SyncDirInd == ASSUME IndInv, SyncDir PROVE IndInv'
  BY DEF SyncDir, IndInv, StoreTypeOK, SavingInv, TmpInv, WholeInv, RenamedInv, MarkerInv,
         Absent, Steps, StateFiles, MarkerFiles, MarkerSteps

(* ensureMarker does not touch the state, which is there by then. *)
LEMMA MarkerInd ==
  ASSUME IndInv,
         \/ MarkerComplete \/ MarkerIncomplete
         \/ CreateMarker \/ WriteMarker \/ SyncMarker \/ SyncMarkerDir
  PROVE  IndInv'
  <1>1. step \in MarkerSteps /\ saving \in Values
    BY DEF MarkerComplete, MarkerIncomplete, CreateMarker, WriteMarker, SyncMarker,
           SyncMarkerDir, MarkerSteps, IndInv, SavingInv
  <1>2. stateFile.data = saving /\ stateOnDisk.data = saving
    BY <1>1 DEF IndInv, RenamedInv
  <1>3. UNCHANGED <<stateFile, tmpFile>> /\ stateOnDisk' \in {stateOnDisk, stateFile}
    BY DEF MarkerComplete, MarkerIncomplete, CreateMarker, WriteMarker, SyncMarker,
           SyncMarkerDir, files
  <1>4. \/ step' \in MarkerSteps /\ saving' = saving
        \/ step' = "idle" /\ saving' = Nothing
    BY DEF MarkerComplete, MarkerIncomplete, CreateMarker, WriteMarker, SyncMarker,
           SyncMarkerDir, MarkerSteps
  <1>5. result' \in {"none", "ok", "error"}
    BY DEF MarkerComplete, MarkerIncomplete, CreateMarker, WriteMarker, SyncMarker,
           SyncMarkerDir, IndInv, StoreTypeOK
  <1>6. markerFile' \in MarkerFiles /\ markerOnDisk' \in MarkerFiles
    <2>1. CASE MarkerComplete \/ MarkerIncomplete \/ SyncMarkerDir
      BY <2>1 DEF MarkerComplete, MarkerIncomplete, SyncMarkerDir, IndInv, StoreTypeOK, files
    <2>2. CASE CreateMarker \/ WriteMarker
      <3>1. \A data \in {Version, Torn} : [data |-> data, synced |-> FALSE] \in MarkerFiles
        BY DEF MarkerFiles
      <3> QED BY <2>2, <3>1 DEF CreateMarker, WriteMarker, IndInv, StoreTypeOK
    <2>3. CASE SyncMarker
      BY <2>3 DEF SyncMarker, IndInv, StoreTypeOK, MarkerFiles
    <2> QED BY <2>1, <2>2, <2>3
  <1>7. StoreTypeOK'
    BY <1>1, <1>3, <1>4, <1>5, <1>6 DEF IndInv, StoreTypeOK, MarkerSteps, Steps
  <1>8. SavingInv' /\ TmpInv' /\ WholeInv' /\ RenamedInv'
    BY <1>1, <1>2, <1>3, <1>4
    DEF IndInv, SavingInv, TmpInv, WholeInv, RenamedInv, MarkerSteps
  <1>9. MarkerInv'
    BY <1>1, <1>2, <1>3 DEF MarkerInv
  <1> QED BY <1>7, <1>8, <1>9 DEF IndInv

LEMMA SaveFailsInd == ASSUME IndInv, SaveFails PROVE IndInv'
  BY StoreAssumption
  DEF SaveFails, IndInv, StoreTypeOK, SavingInv, TmpInv, WholeInv, RenamedInv, MarkerInv,
      Absent, Steps, StateFiles, MarkerFiles, MarkerSteps

(* A power failure leaves a state that was seen or synced. *)
LEMMA PowerFailureFiles ==
  ASSUME IndInv, PowerFailure
  PROVE  /\ stateFile' \in StateFiles /\ stateFile'.synced
         /\ stateFile' = stateFile \/ stateFile' = stateOnDisk
         /\ stateOnDisk' = stateFile'
         /\ markerFile' \in MarkerFiles /\ markerOnDisk' = markerFile'
         /\ markerFile = Absent /\ markerOnDisk = Absent => markerFile' = Absent
  <1>1. /\ stateFile' \in Surviving(stateFile, stateOnDisk)
        /\ markerFile' \in Surviving(markerFile, markerOnDisk)
    BY DEF PowerFailure
  <1>2. /\ stateFile' \in StateFiles /\ stateFile'.synced
        /\ stateFile' = stateFile \/ stateFile' = stateOnDisk
    BY <1>1, SurvivingSynced DEF IndInv, StoreTypeOK, WholeInv, StateFiles
  <1>3. /\ markerFile' \in MarkerFiles
        /\ markerFile = Absent /\ markerOnDisk = Absent => markerFile' = Absent
    BY <1>1, SurvivingMarker DEF IndInv, StoreTypeOK
  <1> QED BY <1>2, <1>3 DEF PowerFailure

LEMMA PowerFailureInd == ASSUME IndInv, PowerFailure PROVE IndInv'
  <1>1. step' = "idle" /\ saving' = Nothing /\ tmpFile' = Absent
    BY DEF PowerFailure
  <1>2. result' \in {"none", "ok", "error"}
    BY DEF PowerFailure, IndInv, StoreTypeOK
  <1>3. StoreTypeOK'
    BY <1>1, <1>2, PowerFailureFiles DEF StoreTypeOK, Steps, StateFiles, Absent
  <1>4. SavingInv' /\ TmpInv' /\ RenamedInv'
    BY <1>1 DEF SavingInv, TmpInv, RenamedInv, MarkerSteps
  <1>5. WholeInv' /\ MarkerInv'
    BY PowerFailureFiles DEF IndInv, WholeInv, MarkerInv, Absent
  <1> QED BY <1>3, <1>4, <1>5 DEF IndInv

LEMMA NextInd == ASSUME IndInv, [Next]_vars PROVE IndInv'
  <1>1. CASE UNCHANGED vars
    BY <1>1 DEF vars, IndInv, StoreTypeOK, SavingInv, TmpInv, WholeInv, RenamedInv, MarkerInv
  <1>2. CASE Next
    BY <1>2, SaveInd, TmpInd, RenameInd, SyncDirInd, MarkerInd, SaveFailsInd, PowerFailureInd
    DEF Next
  <1> QED BY <1>1, <1>2

(* The inductive invariant holds whatever operation of Save fails and      *)
(* whenever the process or the machine stops.                              *)
THEOREM StoreInvariance == Spec => []IndInv
  BY InitInd, NextInd, PTL DEF Spec

(* The files and the locals of Save have their types. *)
THEOREM StoreTypeCorrect == Spec => []StoreTypeOK
  <1>1. IndInv => StoreTypeOK BY DEF IndInv
  <1> QED BY <1>1, StoreInvariance, PTL

(* Load never refuses what Save has left behind. *)
THEOREM StoreAlwaysLoads == Spec => []AlwaysLoads
  <1>1. IndInv => AlwaysLoads
    BY StoreAssumption DEF IndInv, WholeInv, MarkerInv, AlwaysLoads, Load, Absent
  <1> QED BY <1>1, StoreInvariance, PTL

-----------------------------------------------------------------------------
(* Every step of the store is a step of the register, or none. *)

LEMMA RegisterInit == Init => Register!Init
  BY DEF Init, Register!Init, PossibleValues, Absent

LEMMA SaveRegister == ASSUME IndInv, NEW v \in Values, Save(v) PROVE Register!BeginSave(v)
  BY StoreAssumption
  DEF Save, files, IndInv, SavingInv, PossibleValues, Register!BeginSave

(* The rename and the sync of the directory settle for the new value. *)
LEMMA SettleRegister == ASSUME IndInv, RenameTmp \/ SyncDir PROVE Register!Settle
  <1>1. saving \in Values /\ saving # Nothing
    BY StoreAssumption DEF RenameTmp, SyncDir, IndInv, SavingInv
  <1>2. RenameTmp => stateFile'.data = saving
    BY DEF RenameTmp, IndInv, TmpInv
  <1>3. PossibleValues' \subseteq PossibleValues /\ saving \in PossibleValues'
    BY <1>1, <1>2 DEF RenameTmp, SyncDir, PossibleValues
  <1>4. PossibleValues' \in (SUBSET PossibleValues) \ {{}}
    BY <1>3
  <1> QED BY <1>4 DEF RenameTmp, SyncDir, Register!Settle

LEMMA ReturnRegister ==
  ASSUME IndInv, MarkerComplete \/ SyncMarkerDir PROVE Register!SaveReturns
  <1>1. saving # Nothing /\ stateFile.data = saving /\ stateOnDisk.data = saving
    BY StoreAssumption
    DEF MarkerComplete, SyncMarkerDir, IndInv, SavingInv, RenamedInv, MarkerSteps
  <1>2. PossibleValues' = {saving}
    BY <1>1 DEF MarkerComplete, SyncMarkerDir, files, PossibleValues
  <1> QED BY <1>1, <1>2 DEF MarkerComplete, SyncMarkerDir, Register!SaveReturns

LEMMA AbortRegister == ASSUME IndInv, SaveFails PROVE Register!SaveAborts
  <1>1. saving # Nothing
    BY StoreAssumption DEF SaveFails, IndInv, SavingInv
  <1>2. PossibleValues' \in (SUBSET PossibleValues) \ {{}}
    BY DEF SaveFails, PossibleValues
  <1> QED BY <1>1, <1>2 DEF SaveFails, Register!SaveAborts

LEMMA PowerFailureRegister ==
  ASSUME IndInv, PowerFailure
  PROVE  Register!SaveAborts \/ Register!Settle
  <1>1. saving' = Nothing
    BY DEF PowerFailure
  <1>2. PossibleValues' = {stateFile'.data}
    BY <1>1, PowerFailureFiles DEF PossibleValues
  <1>3. PossibleValues' \in (SUBSET PossibleValues) \ {{}}
    BY <1>2, PowerFailureFiles DEF PossibleValues
  <1>4. CASE step = "idle"
    BY <1>1, <1>3, <1>4 DEF PowerFailure, IndInv, SavingInv, Register!Settle
  <1>5. CASE step # "idle"
    BY <1>1, <1>3, <1>5, StoreAssumption
    DEF PowerFailure, IndInv, SavingInv, Register!SaveAborts
  <1> QED BY <1>4, <1>5

(* The other operations are not seen through the register. *)
LEMMA StutterRegister ==
  ASSUME \/ CreateTmp \/ WriteTmp \/ SyncTmp \/ MarkerIncomplete
         \/ CreateMarker \/ WriteMarker \/ SyncMarker
         \/ UNCHANGED vars
  PROVE  UNCHANGED Register!vars
  BY DEF CreateTmp, WriteTmp, SyncTmp, MarkerIncomplete, CreateMarker, WriteMarker,
         SyncMarker, files, vars, PossibleValues, Register!vars

LEMMA StepRegister ==
  ASSUME IndInv, [Next]_vars PROVE [Register!Next]_(Register!vars)
  BY SaveRegister, SettleRegister, ReturnRegister, AbortRegister, PowerFailureRegister,
     StutterRegister
  DEF Next, Register!Next

(* The store, one file operation at a time, implements the register that   *)
(* the access controller relies on: a Save that returned is the only value *)
(* Load can find, one that did not leaves the old value or the new one.    *)
THEOREM StoreImplementsRegister == Spec => ImplementsRegister
  BY RegisterInit, StepRegister, StoreInvariance, PTL
  DEF Spec, ImplementsRegister, Register!Spec

-----------------------------------------------------------------------------
(* The key file. *)

(* What has been shown is in the file, and while a process writes the file *)
(* is short and no other process writes.                                   *)
ShownInFile == \A s \in shown : s[2] = file
OneWriter ==
    \A p \in Processes :
        pc[p] = "write" =>
            /\ file = Short
            /\ key[p] \in Keys
            /\ \A q \in Processes : pc[q] = "write" => q = p
CreatorHasKey == \A p \in Processes : pc[p] = "create" => key[p] \in Keys
KeyInv == KeyTypeOK /\ ShownInFile /\ OneWriter /\ CreatorHasKey

(* A file that is not a key means that nothing has been shown. *)
LEMMA NothingShown == ASSUME KeyInv, file \notin Keys PROVE shown = {}
  BY DEF KeyInv, KeyTypeOK, ShownInFile

LEMMA KeyInitInd == KeyInit => KeyInv
  BY DEF KeyInit, KeyInv, KeyTypeOK, ShownInFile, OneWriter, CreatorHasKey

LEMMA StartInd == ASSUME KeyInv, NEW p \in Processes, Start(p) PROVE KeyInv'
  BY DEF Start, KeyInv, KeyTypeOK, ShownInFile, OneWriter, CreatorHasKey

LEMMA EndInd == ASSUME KeyInv, NEW p \in Processes, End(p) PROVE KeyInv'
  BY DEF End, KeyInv, KeyTypeOK, ShownInFile, OneWriter, CreatorHasKey

(* A process comes up with the key in the file, which is the shown one. *)
LEMMA ReadKeyInd == ASSUME KeyInv, NEW p \in Processes, ReadKey(p) PROVE KeyInv'
  <1>1. KeyTypeOK'
    BY DEF ReadKey, Up, KeyInv, KeyTypeOK
  <1>2. ShownInFile'
    BY DEF ReadKey, Up, KeyInv, ShownInFile
  <1>3. OneWriter'
    BY KeyFileAssumption DEF ReadKey, Up, KeyInv, KeyTypeOK, OneWriter
  <1>4. CreatorHasKey'
    BY DEF ReadKey, Up, KeyInv, KeyTypeOK, CreatorHasKey
  <1> QED BY <1>1, <1>2, <1>3, <1>4 DEF KeyInv

LEMMA GenerateKeyInd == ASSUME KeyInv, NEW p \in Processes, GenerateKey(p) PROVE KeyInv'
  <1> PICK k \in Keys \ generated :
          generated' = generated \cup {k} /\ key' = [key EXCEPT ![p] = k]
    BY DEF GenerateKey
  <1>1. KeyTypeOK'
    BY DEF GenerateKey, KeyInv, KeyTypeOK
  <1>2. ShownInFile'
    BY DEF GenerateKey, KeyInv, ShownInFile
  <1>3. OneWriter'
    BY KeyFileAssumption DEF GenerateKey, KeyInv, KeyTypeOK, OneWriter
  <1>4. CreatorHasKey'
    BY DEF GenerateKey, KeyInv, KeyTypeOK, CreatorHasKey
  <1> QED BY <1>1, <1>2, <1>3, <1>4 DEF KeyInv

(* The file opens only if it is missing, so nobody writes it, and nothing  *)
(* has been shown that truncating it could contradict.                     *)
LEMMA CreateFileInd ==
  ASSUME ~Privileged, KeyInv, NEW p \in Processes, CreateFile(p) PROVE KeyInv'
  <1>1. file = Missing /\ shown = {}
    BY NothingShown, KeyFileAssumption DEF CreateFile, CanOpen
  <1>2. KeyTypeOK'
    BY DEF CreateFile, KeyInv, KeyTypeOK
  <1>3. ShownInFile'
    BY <1>1 DEF CreateFile, ShownInFile
  <1>4. OneWriter'
    BY <1>1, KeyFileAssumption DEF CreateFile, KeyInv, KeyTypeOK, OneWriter, CreatorHasKey
  <1>5. CreatorHasKey'
    BY DEF CreateFile, KeyInv, KeyTypeOK, CreatorHasKey
  <1> QED BY <1>2, <1>3, <1>4, <1>5 DEF KeyInv

(* The only writer replaces a short file, with nothing shown before. *)
LEMMA WriteFileInd == ASSUME KeyInv, NEW p \in Processes, WriteFile(p) PROVE KeyInv'
  <1>1. file = Short /\ key[p] \in Keys
    BY DEF WriteFile, KeyInv, OneWriter
  <1>2. shown = {}
    BY <1>1, NothingShown, KeyFileAssumption
  <1>3. KeyTypeOK'
    BY <1>1 DEF WriteFile, Up, KeyInv, KeyTypeOK
  <1>4. ShownInFile'
    BY <1>2 DEF WriteFile, Up, ShownInFile
  <1>5. OneWriter'
    BY DEF WriteFile, Up, KeyInv, KeyTypeOK, OneWriter
  <1>6. CreatorHasKey'
    BY DEF WriteFile, Up, KeyInv, KeyTypeOK, CreatorHasKey
  <1> QED BY <1>3, <1>4, <1>5, <1>6 DEF KeyInv

LEMMA KeyNextInd == ASSUME ~Privileged, KeyInv, [KeyNext]_keyVars PROVE KeyInv'
  <1>1. CASE UNCHANGED keyVars
    BY <1>1 DEF keyVars, KeyInv, KeyTypeOK, ShownInFile, OneWriter, CreatorHasKey
  <1>2. CASE KeyNext
    <2> PICK p \in Processes :
            Start(p) \/ ReadKey(p) \/ GenerateKey(p) \/ CreateFile(p) \/ WriteFile(p) \/ End(p)
      BY <1>2 DEF KeyNext
    <2> QED BY StartInd, ReadKeyInd, GenerateKeyInd, CreateFileInd, WriteFileInd, EndInd
  <1> QED BY <1>1, <1>2

(* In every reachable state of unprivileged processes what was shown is in *)
(* the key file, and at most one process writes it.                        *)
THEOREM KeyFileInvariance == ASSUME ~Privileged PROVE KeySpec => []KeyInv
  BY KeyInitInd, KeyNextInd, PTL DEF KeySpec

(* All processes that ever come up use one key, for any number of them     *)
(* that start, overlap and fail in generateKey.                            *)
THEOREM KeyAlwaysStable == ASSUME ~Privileged PROVE KeySpec => []KeyStable
  <1>1. KeyInv => KeyStable
    BY DEF KeyInv, ShownInFile, KeyStable
  <1> QED BY <1>1, KeyFileInvariance, PTL

LEMMA ShortFileStep == ASSUME ~Privileged, KeyInv, [KeyNext]_keyVars PROVE ShortFileKept
  <1> SUFFICES ASSUME Abandoned PROVE Abandoned' /\ shown' = shown
    BY DEF ShortFileKept
  <1>1. CASE UNCHANGED keyVars
    BY <1>1 DEF keyVars, Abandoned
  <1>2. CASE KeyNext
    <2> PICK p \in Processes :
            Start(p) \/ ReadKey(p) \/ GenerateKey(p) \/ CreateFile(p) \/ WriteFile(p) \/ End(p)
      BY <1>2 DEF KeyNext
    <2> QED
      BY KeyFileAssumption
      DEF KeyInv, KeyTypeOK, Abandoned,
          Start, ReadKey, GenerateKey, CreateFile, CanOpen, WriteFile, End
  <1> QED BY <1>1, <1>2

(* A key file that a start has left incomplete is refused by every later   *)
(* one: generateKey neither uses nor repairs it.                           *)
THEOREM ShortFileAlwaysSticks == ASSUME ~Privileged PROVE KeySpec => ShortFileSticks
  BY KeyFileInvariance, ShortFileStep, PTL DEF KeySpec, ShortFileSticks
=============================================================================
