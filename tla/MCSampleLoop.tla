---------------------------- MODULE MCSampleLoop ----------------------------
(* Instances of SampleLoop: two counters, one of them reset, and one       *)
(* re-created under another identity.                                      *)
EXTENDS SampleLoop

Sample(key, identity, value) == [key |-> key, identity |-> identity, value |-> value]

TwoCounters ==
  {{Sample(1, "vm", 2), Sample(2, "vm", 1)}, {Sample(1, "vm", 1)},
   {Sample(1, "new", 2), Sample(2, "vm", 2)}}
OneCounter == {{Sample(1, "vm", 1)}}
Both == Domains
=============================================================================
