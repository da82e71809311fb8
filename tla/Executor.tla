------------------------------ MODULE Executor ------------------------------
(***************************************************************************)
(* Executor.Execute: one signed command, from its validation to the        *)
(* receipt, with the agent killed at any step and the command redelivered. *)
(*                                                                         *)
(* One behaviour executes one command; the journal and the lock that keep  *)
(* commands on one guest apart are ControlService's subject.               *)
(*                                                                         *)
(* Limitations.  agent.upgrade is UpgradeHandoff's subject.  Console       *)
(* sessions, password resets, snapshots, backups and the legacy journal    *)
(* migration are left out; a command that is one request with no check of  *)
(* its own behaves as set_config after its read.                           *)
(***************************************************************************)
EXTENDS Reinstall, SnippetDelete

VARIABLES
  mode,    \* the configured execution mode
  valid    \* the command's parameters pass validateParameters

fixedVars == <<mode, valid>>

vars == <<guest, vol, refs, stale, stray, call, touched, late, fresh, acts, faults,
          cmd, pc, receipt, was, ready, verified, phase, mode, valid>>

NoReceipt == [state |-> "none", code |-> "NONE"]

Init ==
  /\ cmd \in Commands
  /\ mode \in {"production", "dry_run"} /\ valid \in BOOLEAN
  /\ \E power \in {"running", "stopped", "paused"}, temp \in {NoGuest, Guest("foreign", "signed", "stopped")},
        conf \in {{}, {"entry"}, {"io"}}, absent \in BOOLEAN :
       /\ cmd # "reinstall" => temp = NoGuest
       /\ conf = {"entry"} => cmd = "entry_delete"
       /\ conf = {"io"} => cmd = "set_config"
       /\ absent => cmd = "delete"
       /\ guest = [target |-> IF absent THEN NoGuest ELSE [Guest("original", "signed", power) EXCEPT !.conf = conf],
                   temp |-> temp]
  /\ vol \in BOOLEAN /\ refs \in {{}, {"target"}, {"target", "other"}}
  /\ cmd # "snippet_delete" => vol /\ refs = {}
  /\ stale = FALSE /\ stray = {} /\ call = Idle
  /\ touched = FALSE /\ late = FALSE /\ fresh = {} /\ acts = {} /\ faults = 0
  /\ pc = "received" /\ receipt = NoReceipt
  /\ was = FALSE /\ ready = "boot" /\ verified = FALSE
  /\ phase = ""

-----------------------------------------------------------------------------
\* Where a command begins once its parameters are valid and execution is on.
EntryOf(c) ==
  CASE c \in {"start", "shutdown", "stop", "reboot"} -> "lifecycle"
    [] c \in {"suspend", "resume"} -> "transition_read"
    [] c = "delete" -> "delete"
    [] c = "set_config" -> "config"
    [] c = "set_initial_resources" -> "initial"
    [] c \in {"set_timezone", "inspect_timezone"} -> "qga"
    [] c = "entry_delete" -> "entry"
    [] c = "read" -> "read"
    [] c = "verify_delivery" -> "verify_delivery"
    [] c = "reinstall" -> "preflight"
    [] c = "snippet_delete" -> "snippet"

\* Reads are served in every mode; everything else only in production.
validateParameters == valid
Executes == cmd \in ReadCommands \/ mode = "production"
Dispatch ==
  /\ pc = "received"
  /\ \/ ~validateParameters /\ Goto("ret_rejected")
     \/ validateParameters /\ ~Executes /\ Goto("ret_dry_run")
     \/ validateParameters /\ Executes /\ Goto(EntryOf(cmd))
  /\ UNCHANGED <<reinstallVars, phase, fixedVars>>

\* The tail of Execute: what is returned decides the receipt's state.
ReturnedState ==
  CASE pc = "ret_succeeded" -> {"succeeded"}
    [] pc = "ret_submitted" -> {"submitted"}
    [] pc = "ret_dry_run" -> {"dry_run"}
    [] pc = "ret_rejected" -> {"rejected"}
    [] pc \in {"ret_preflight", "ret_precondition", "ret_cloud_init", "ret_read_failed",
               "ret_rolled_back", Fails} -> {"failed"}
    [] pc \in {"ret_indeterminate", Unknown} -> {"indeterminate"}
    [] pc = "ret_error" /\ call.st = "refused" -> {"failed"}
    [] pc = "ret_error" /\ call.st = "unread" -> {"failed", "indeterminate"}
    [] OTHER -> {"indeterminate"}

Returns == {"ret_succeeded", "ret_submitted", "ret_dry_run", "ret_rejected", "ret_preflight",
            "ret_precondition", "ret_cloud_init", "ret_read_failed", "ret_rolled_back", Fails,
            "ret_indeterminate", Unknown, "ret_error"}

Classify ==
  /\ pc \in Returns
  /\ \E state \in ReturnedState :
       receipt' = [state |-> state, code |-> IF pc = "ret_error" THEN call.st ELSE pc]
  /\ pc' = "done"
  /\ call' = Idle
  /\ UNCHANGED <<pveVars, lapseVars, fresh, acts, faults, cmd, reinstallVars, phase, fixedVars>>

-----------------------------------------------------------------------------
\* Tasks are awaited except where the UPID itself is the answer.
Poll ==
  /\ pc \notin {"post", "delete", "resize", "sn_delete"}
  /\ TaskEnds \/ StatusUnreadable
  /\ UNCHANGED <<pc, agentVars, reinstallVars, phase, fixedVars>>

\* The agent is killed: its memory is gone, the task it waited for is not.
Crash ==
  /\ pc \notin {"done", "down"}
  /\ Fault
  /\ pc' = "down"
  /\ stray' = IF call.st = "running" THEN stray \cup {call.op} ELSE stray
  /\ call' = Idle
  /\ was' = FALSE /\ ready' = "boot"
  /\ UNCHANGED <<pveVars, late, agentVars, verified, phase, fixedVars>>

\* Journal.Claim on the redelivered command.
Redeliver ==
  /\ pc = "down"
  /\ \/ cmd \in ReadCommands \cup {"snippet_delete"} /\ pc' = "received" /\ UNCHANGED receipt
     \/ /\ cmd \notin ReadCommands \cup {"snippet_delete"}
        /\ receipt' = [state |-> "indeterminate", code |-> "EXECUTION_INDETERMINATE"]
        /\ pc' = "done"
  /\ UNCHANGED <<call, pveVars, lapseVars, fresh, acts, faults, cmd, reinstallVars, phase, fixedVars>>

Straggle == StrayEnds /\ UNCHANGED <<pc, cmd, receipt, fresh, acts, reinstallVars, phase, fixedVars>>

Administrator ==
  /\ pc \notin Returns \cup {"done"}
  /\ IF cmd = "snippet_delete" THEN AdministratorSnippet ELSE AdministratorGuest
  /\ UNCHANGED <<pc, cmd, receipt, reinstallVars, phase, fixedVars>>

Agent ==
  \/ Dispatch
  \/ Classify
  \/ GuestCommand /\ UNCHANGED <<reinstallVars, phase, fixedVars>>
  \/ ReinstallStep /\ UNCHANGED <<phase, fixedVars>>
  \/ SnippetStep /\ UNCHANGED <<reinstallVars, fixedVars>>

Reconcile == reconciledSnippetDeleteReceipt /\ UNCHANGED <<reinstallVars, fixedVars>>

Next == Agent \/ Poll \/ Crash \/ Redeliver \/ Straggle \/ Administrator \/ Reconcile

\* The agent runs and its readiness timer fires, PVE finishes the task it is
\* asked about, and the control plane redelivers what was not answered.
Spec ==
  /\ Init /\ [][Next]_vars
  /\ WF_vars(Agent) /\ WF_vars(Poll) /\ WF_vars(Redeliver)

-----------------------------------------------------------------------------
Answered(state) == receipt # receipt' /\ receipt'.state = state
Wanted(c) ==
  LET t == guest["target"] IN
  /\ c \in {"start", "verify_delivery"} => Status = "running"
  /\ c \in {"stop", "shutdown"} => t.power = "stopped"
  /\ c = "suspend" => t.power # "running"
  /\ c = "resume" => t.power = "running" \/ (t.power = "paused" /\ "pause" \in acts)
  /\ c = "delete" => t.disk = "none"
  /\ c = "set_config" => "io" \in t.conf
  /\ c = "set_initial_resources" => "resources" \in t.conf
  /\ c = "set_timezone" => "timezone" \in t.conf
  /\ c = "entry_delete" => "entry" \notin t.conf
  /\ c = "snippet_delete" => ~vol /\ ("target" \in refs => "target" \in fresh)
  /\ c = "reinstall" => Delivered /\ guest["temp"].disk # "original"
RolledBack ==
  /\ guest["target"].disk = "original" /\ guest["target"].macs = "signed"
  /\ was <=> Status = "running"
  /\ guest["temp"].disk # "original"
PowerActs == {"start", "stop", "pause", "unpause"}

\* What a receipt says is so when it is returned (executor.go, Execute's
\* classification): a success has the state the command asked for, whoever
\* brought it about; a rolled-back reinstall has the original disk, the signed
\* networks, the power it had and no second copy; a rejection, a dry run and a
\* refusal changed nothing.  Power is not promised when the administrator
\* changed it too, nor anything when a task outlived the agent's patience.
OutcomeIsTrue ==
  [][/\ Answered("succeeded") => Wanted(cmd) \/ (cmd = "reinstall" /\ (late \/ acts \cap PowerActs # {}))
     /\ Answered("failed") /\ pc = "ret_rolled_back" => RolledBack \/ late \/ acts \cap PowerActs # {}
     /\ (Answered("rejected") \/ Answered("dry_run")) => ~touched
     /\ Answered("failed") /\ pc \in {"ret_preflight", "ret_precondition", "ret_cloud_init", "ret_read_failed"} => ~touched
     /\ Answered("failed") /\ call.st = "refused" => ~touched]_vars

\* Every command is answered, with as many failures and crashes as there are
\* (executor_extended.go, waitForReinstallReadiness's deadline; the journal's
\* answer to a command found without a receipt).
EveryCommandEnds == <>(pc = "done")
=============================================================================
