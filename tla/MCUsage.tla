------------------------------ MODULE MCUsage ------------------------------
(***************************************************************************)
(* An instance of Usage for TLC: minutes, and hours of two minutes.        *)
(***************************************************************************)
EXTENDS Usage

MCKinds == {"minutes", "hours"}
MCLength == [k \in MCKinds |-> IF k = "minutes" THEN 1 ELSE 2]
MCKeep == [k \in MCKinds |-> IF k = "minutes" THEN 2 ELSE 1]
=============================================================================
