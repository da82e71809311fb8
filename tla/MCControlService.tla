-------------------------- MODULE MCControlService --------------------------
(* Instances of ControlService for TLC.                                    *)
EXTENDS ControlService

\* Every command changes the same virtual machine.
OneResource == [c \in 1..N |-> "vm"]
MutateKind == [c \in 1..N |-> "mutate"]

\* A read, then mutations.
MixedKind == [c \in 1..N |-> IF c = 1 THEN "read" ELSE "mutate"]

\* agent.upgrade commands of one node.
UpgradeKind == [c \in 1..N |-> "upgrade"]

\* One lane with one buffer slot and one worker.
OneLane == {"heavy"}
OneLaneOf == [c \in 1..N |-> "heavy"]
OneLaneSlots == [l \in OneLane |-> 1]
OneLaneWorkers == [l \in OneLane |-> 1]
=============================================================================
