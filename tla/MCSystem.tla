------------------------------ MODULE MCSystem ------------------------------
(***************************************************************************)
(* Instances of System for TLC.                                            *)
(***************************************************************************)
EXTENDS System

CONSTANTS a, b, q1

\* One StorageClass: the volumes are namespaces of the same subsystem.
OneSubsystem == [n \in {a, b} |-> q1]
=============================================================================
