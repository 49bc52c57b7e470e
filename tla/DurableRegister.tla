---------------------------- MODULE DurableRegister ----------------------------
(***************************************************************************)
(* What the access controller relies on from its state store: one value    *)
(* that survives crashes.  A save that returns without error is the only   *)
(* value a later load can yield; a save that fails or is cut short by a    *)
(* crash leaves the old value or the new one, and nothing else.            *)
(***************************************************************************)
CONSTANTS
    Values,   \* states that can be saved
    Nothing   \* the answer of load before anything was saved

VARIABLES
    possible,  \* the values a load may yield
    saving,    \* the value of the save in progress, or Nothing
    result     \* what the last save returned: "none", "ok" or "error"

vars == <<possible, saving, result>>

Init ==
    /\ possible = {Nothing}
    /\ saving = Nothing
    /\ result = "none"

BeginSave(v) ==
    /\ saving = Nothing
    /\ saving' = v
    /\ result' = "none"
    /\ possible' = possible \cup {v}

SaveReturns ==
    /\ saving # Nothing
    /\ saving' = Nothing
    /\ result' = "ok"
    /\ possible' = {saving}

(* The save fails or the process crashes in it. *)
SaveAborts ==
    /\ saving # Nothing
    /\ saving' = Nothing
    /\ result' = "error"
    /\ possible' \in (SUBSET possible) \ {{}}

(* A power failure may settle which of the possible values is there. *)
Settle ==
    /\ possible' \in (SUBSET possible) \ {{}}
    /\ UNCHANGED <<saving, result>>

Next == (\E v \in Values : BeginSave(v)) \/ SaveReturns \/ SaveAborts \/ Settle

Spec == Init /\ [][Next]_vars
=============================================================================
