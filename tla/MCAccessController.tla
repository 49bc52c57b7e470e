-------------------------- MODULE MCAccessController --------------------------
(* Values of the constants of AccessController for TLC. *)
EXTENDS AccessController, TLC

CONSTANTS p1, p2, k1, s1, s2, ip1, ip2

Cfg(secret, legacy, quota) ==
    [authSecret |-> secret, legacyKey |-> legacy, quotaBytes |-> quota]

(* One issued-key secret, no quota. *)
SecretConfigs == {Cfg(s1, NoSecret, 0)}
(* A secret with a quota. *)
SecretQuotaConfigs == {Cfg(s1, NoSecret, 1)}
(* The secret is rotated, or becomes a shared key. *)
RotatedConfigs ==
    {Cfg(s1, NoSecret, 0), Cfg(s2, NoSecret, 0), Cfg(NoSecret, s1, 0)}
(* A server without authentication, whose quota is lowered or lifted. *)
OpenQuotaConfigs == {Cfg(NoSecret, NoSecret, 1), Cfg(NoSecret, NoSecret, 0)}
(* A server with a shared key and a quota. *)
SharedQuotaConfigs == {Cfg(NoSecret, s1, 1)}

PeerSymmetry == Permutations(Peers)
=============================================================================
