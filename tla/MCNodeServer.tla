----------------------------- MODULE MCNodeServer -----------------------------
(***************************************************************************)
(* Instances of NodeServer for TLC.                                        *)
(***************************************************************************)
EXTENDS NodeServer, TLC

CONSTANTS v1, v2, n1, n2

\* All volumes of a StorageClass are namespaces of one subsystem.
SharedNqn == [v \in {v1, v2} |-> n1]

\* A subsystem for each volume.
DedicatedNqn == (v1 :> n1 @@ v2 :> n2)

OneNqn == (v1 :> n1)

AllFaults == {"crash", "reboot", "loss", "halfMount"}

Symmetry == Permutations(Threads)
=============================================================================
