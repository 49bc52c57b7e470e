--------------------------- MODULE UsageAccounting ---------------------------
(***************************************************************************)
(* Which bytes of the device reconcile has charged to a quota.  The        *)
(* counters are read before the mutex is taken, the baselines they are     *)
(* compared with are read and replaced under it, and registrations, failed *)
(* ones and removals come in between.                                      *)
(***************************************************************************)
EXTENDS AccessController

VARIABLES
    owed,     \* history: bytes a peer has moved that are not charged yet
    ghosts    \* history: peers that a snapshot counts after they have left

accountedVars == <<vars, owed, ghosts>>

Moved(d) == IF d = Nil THEN 0 ELSE d.rx + d.tx

(* The bytes that this step moves, and those that it charges: PeerDelta in *)
(* a reconcile whose result reaches the state file.                        *)
Moves(p) ==
    IF device[p] # Nil /\ device'[p] # Nil THEN Moved(device'[p]) - Moved(device[p])
    ELSE 0
Reconciles == snap # Nil /\ snap' = Nil /\ pc' = "serving"
Charges(p) == IF Reconciles /\ p \in Known THEN PeerDelta(p) ELSE 0

(* The cleanup of a failed registration removes an active peer and its     *)
(* baseline while a pending snapshot still has its counters.  reconcile    *)
(* will charge them again and make them the baseline of a peer that is not *)
(* there, which lasts until nothing of the peer is left.                   *)
LeavesGhost(p) ==
    device[p] # Nil /\ device'[p] = Nil /\ snap' # Nil /\ snap'.device[p] # Nil
Vanished(p) == device'[p] = Nil /\ runtime'[p] = Nil /\ snap' = Nil

AccountedInit ==
    /\ Init
    /\ owed = [p \in Peers |-> 0]
    /\ ghosts = {}
(* A peer that leaves the device takes what nobody has seen with it. *)
AccountedNext ==
    /\ Next
    /\ owed' = [p \in Peers |->
                   IF device'[p] = Nil THEN 0 ELSE owed[p] + Moves(p) - Charges(p)]
    /\ ghosts' = {p \in Peers : (p \in ghosts \/ LeavesGhost(p)) /\ ~Vanished(p)}
AccountedSpec == AccountedInit /\ [][AccountedNext]_accountedVars

(* When reconcile is done, a peer that stays owes exactly what it has      *)
(* moved since the counters were read: whatever happened between the two,  *)
(* no byte is charged twice and none is passed over.  Of all that can fail *)
(* or interleave only one thing breaks this, a registration of an active   *)
(* peer that fails and is cleaned up while a snapshot is pending: the      *)
(* ghosts that it leaves are charged too much or too little.               *)
SettledAtReconcile ==
    Reconciles =>
        \A p \in Known \ ghosts : device'[p] # Nil =>
            owed'[p] = Moved(device'[p]) - Moved(snap.device[p])
EveryByteOnce == [][SettledAtReconcile]_accountedVars
=============================================================================
