------------------------------- MODULE KeyFile -------------------------------
(***************************************************************************)
(* generateKey (internal/wireguard.go): the file with the WireGuard key    *)
(* from which the host names of a client are derived.  Several processes   *)
(* with the same TUNWG_PATH and TUNWG_KEY may start at the same time, each *)
(* may end at any point, and a read or a write may fail.  The file is      *)
(* created with mode 0400, so only a privileged process can open it for    *)
(* writing once it exists.  Failures are those of processes: the file is   *)
(* not synced, and what a power failure leaves of it is not modelled.      *)
(***************************************************************************)
CONSTANTS
    Processes,      \* processes that share the key file
    Keys,           \* keys that can be generated
    Missing, Short, \* no file, and a file that is not a whole key
    Privileged      \* do the processes run as root?

ASSUME KeyFileAssumption ==
    /\ Missing \notin Keys /\ Short \notin Keys /\ Missing # Short
    /\ Privileged \in BOOLEAN

VARIABLES
    pc,        \* where a process is: "down", "read", "create", "write", "up"
    key,       \* the private key a process holds, or Missing
    file,      \* the key file: Missing, Short or a key
    generated, \* keys that have been generated
    shown      \* history: <<p, k>> when process p came up with key k

keyVars == <<pc, key, file, generated, shown>>

KeyTypeOK ==
    /\ pc \in [Processes -> {"down", "read", "create", "write", "up"}]
    /\ key \in [Processes -> Keys \cup {Missing}]
    /\ file \in Keys \cup {Missing, Short}
    /\ generated \subseteq Keys
    /\ shown \subseteq Processes \X Keys

KeyInit ==
    /\ pc = [p \in Processes |-> "down"]
    /\ key = [p \in Processes |-> Missing]
    /\ file = Missing
    /\ generated = {}
    /\ shown = {}

-----------------------------------------------------------------------------
Start(p) ==
    /\ pc[p] = "down"
    /\ pc' = [pc EXCEPT ![p] = "read"]
    /\ UNCHANGED <<key, file, generated, shown>>

(* The process goes on to configure the device with the key k. *)
Up(p, k) ==
    /\ pc' = [pc EXCEPT ![p] = "up"]
    /\ key' = [key EXCEPT ![p] = k]
    /\ shown' = shown \cup {<<p, k>>}

(* ReadFile and NewKey: a file of the wrong length is refused. *)
ReadKey(p) ==
    /\ pc[p] = "read"
    /\ file \in Keys
    /\ Up(p, file)
    /\ UNCHANGED <<file, generated>>

(* The file does not exist: a key is generated. *)
GenerateKey(p) ==
    /\ pc[p] = "read"
    /\ file = Missing
    /\ \E k \in Keys \ generated :
           /\ generated' = generated \cup {k}
           /\ key' = [key EXCEPT ![p] = k]
    /\ pc' = [pc EXCEPT ![p] = "create"]
    /\ UNCHANGED <<file, shown>>

(* Mutant: the file is created with mode 0600. *)
CanOpenWritable == TRUE
(* OpenFile(O_CREATE|O_TRUNC, 0400): whether an existing file opens. *)
CanOpen == file = Missing \/ Privileged

(* Mutant: a key file that has appeared meanwhile is not an error. *)
CreateFileKeepsOwn(p) ==
    /\ pc[p] = "create"
    /\ \/ file = Missing /\ file' = Short /\ pc' = [pc EXCEPT ![p] = "write"]
          /\ UNCHANGED <<key, generated, shown>>
       \/ file \in Keys /\ Up(p, key[p]) /\ UNCHANGED <<file, generated>>

CreateFile(p) ==
    /\ pc[p] = "create"
    /\ CanOpen
    /\ file' = Short
    /\ pc' = [pc EXCEPT ![p] = "write"]
    /\ UNCHANGED <<key, generated, shown>>

WriteFile(p) ==
    /\ pc[p] = "write"
    /\ file' = key[p]
    /\ Up(p, key[p])
    /\ UNCHANGED generated

(* Any call fails, or the process ends: what is in the file stays. *)
End(p) ==
    /\ pc[p] # "down"
    /\ pc' = [pc EXCEPT ![p] = "down"]
    /\ key' = [key EXCEPT ![p] = Missing]
    /\ UNCHANGED <<file, generated, shown>>

KeyNext ==
    \E p \in Processes :
        Start(p) \/ ReadKey(p) \/ GenerateKey(p) \/ CreateFile(p) \/ WriteFile(p) \/ End(p)

KeySpec == KeyInit /\ [][KeyNext]_keyVars

-----------------------------------------------------------------------------
(* However starts overlap, fail and are repeated, all processes that ever  *)
(* come up use one key: the host names they show never change.             *)
KeyStable == \A s, t \in shown : s[2] = t[2]

(* A key file that a start has left incomplete is neither used nor         *)
(* written again by any other start: every one of them is refused until    *)
(* the operator removes the file.                                          *)
Abandoned == file = Short /\ \A p \in Processes : pc[p] # "write"
ShortFileKept == Abandoned => Abandoned' /\ shown' = shown
ShortFileSticks == [][ShortFileKept]_keyVars
=============================================================================
