------------------------------ MODULE RateLimiter ------------------------------
(***************************************************************************)
(* What the server promises about the keys it hands out: time is cut into  *)
(* windows, a window is only replaced when a whole period has passed since *)
(* it was opened, and in a window no client gets more keys than the limit. *)
(* There is no step for a restart, a crash or a failed save: none of them  *)
(* may show.                                                               *)
(***************************************************************************)
EXTENDS Integers

CONSTANTS
    Clients,   \* the addresses that ask for keys
    Limit,     \* keys for a client in a window
    Period,    \* the shortest life of a window
    NoWindow   \* the window before the first one

VARIABLES
    now,      \* the time
    window,   \* when the current window was opened
    given     \* keys that each client has got in it

vars == <<now, window, given>>

none == [c \in Clients |-> 0]

Init ==
    /\ now \in Nat
    /\ window = NoWindow
    /\ given = none

(* No window, or one that has lasted a whole period. *)
WindowOver == window = NoWindow \/ now - window >= Period

OpenWindow ==
    /\ WindowOver
    /\ window' = now
    /\ given' = none
    /\ UNCHANGED now

GiveKey(c) ==
    /\ given[c] < Limit
    /\ window # NoWindow
    /\ given' = [given EXCEPT ![c] = @ + 1]
    /\ UNCHANGED <<now, window>>

(* The first key of a window may open it. *)
GiveFirstKey(c) ==
    /\ WindowOver
    /\ 0 < Limit
    /\ window' = now
    /\ given' = [none EXCEPT ![c] = 1]
    /\ UNCHANGED now

TimePasses ==
    /\ now' > now
    /\ UNCHANGED <<window, given>>

Next ==
    \/ OpenWindow
    \/ \E c \in Clients : GiveKey(c) \/ GiveFirstKey(c)
    \/ TimePasses

Spec == Init /\ [][Next]_vars
=============================================================================
