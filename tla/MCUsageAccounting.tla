-------------------------- MODULE MCUsageAccounting --------------------------
(* UsageAccounting with the configurations of MCAccessController. *)
EXTENDS UsageAccounting, MCAccessController
=============================================================================
