--------------------------- MODULE MutationLedger ---------------------------
(***************************************************************************)
(* What the agent promises about commands that change something: each one  *)
(* takes an exclusive claim on its resource, runs at most once and only    *)
(* while it has the claim, and returns the claim only when its result is   *)
(* definite.  A command whose result stays unknown keeps its claim.        *)
(***************************************************************************)
CONSTANTS
  Command,    \* the mutating commands
  Resource    \* command -> the resource it changes

VARIABLES
  ledger,     \* command -> "new", "held" or "settled"
  ran         \* the commands whose execution has begun

vars == <<ledger, ran>>

Init ==
  /\ ledger = [c \in Command |-> "new"]
  /\ ran = {}

Acquire(c) ==
  /\ ledger[c] = "new"
  /\ \A d \in Command : Resource[d] = Resource[c] => ledger[d] # "held"
  /\ ledger' = [ledger EXCEPT ![c] = "held"]
  /\ UNCHANGED ran

Run(c) ==
  /\ ledger[c] = "held" /\ c \notin ran
  /\ ran' = ran \cup {c}
  /\ UNCHANGED ledger

\* Recovery may settle several commands in one pass.
Settle(S) ==
  /\ \A c \in S : ledger[c] = "held"
  /\ ledger' = [c \in Command |-> IF c \in S THEN "settled" ELSE ledger[c]]
  /\ UNCHANGED ran

Next ==
  \/ \E c \in Command : Acquire(c) \/ Run(c)
  \/ \E S \in SUBSET Command : Settle(S)

Spec == Init /\ [][Next]_vars
=============================================================================
