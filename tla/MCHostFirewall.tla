--------------------------- MODULE MCHostFirewall ---------------------------
(* Instances of HostFirewall for TLC.                                      *)
EXTENDS HostFirewall, TLC

\* The PVE firewall entirely off, and on with a policy that is not DROP.
OffOrOpen == {[o \in Options |-> "off"], [o \in Options |-> IF o = "policy" THEN "off" ELSE "on"]}

\* Interfaces are treated alike, and so are address families.
Alike == Permutations(Interfaces) \cup Permutations(Families)
=============================================================================
