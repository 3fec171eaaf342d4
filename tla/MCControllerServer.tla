-------------------------- MODULE MCControllerServer --------------------------
(***************************************************************************)
(* Instances of ControllerServer for TLC.                                  *)
(***************************************************************************)
EXTENDS ControllerServer

CONSTANTS a, b, q1

\* One StorageClass: every volume is a namespace of the same subsystem.
OneSubsystem == [n \in {a, b} |-> q1]
=============================================================================
