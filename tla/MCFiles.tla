------------------------------- MODULE MCFiles -------------------------------
(* The files of a server: its access state and its key, which are written  *)
(* by different code and share no state.                                   *)
EXTENDS AccessStore, KeyFile, TLC

CONSTANTS v1, v2

FilesInit == Init /\ KeyInit
FilesNext == (Next /\ UNCHANGED keyVars) \/ (KeyNext /\ UNCHANGED vars)
FilesSpec == FilesInit /\ [][FilesNext]_<<vars, keyVars>>

ValueSymmetry == Permutations(Values)
=============================================================================
