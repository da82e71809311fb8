--------------------------- MODULE UpgradeHandoff ---------------------------
(***************************************************************************)
(* One agent.upgrade, handed by the unprivileged agent to the root helper. *)
(*                                                                         *)
(* The agent prepares a request file nobody watches, journals the command  *)
(* as submitted, and reconciliation renames the file to the name systemd's *)
(* path unit watches.  The helper, another process, verifies everything    *)
(* again, replaces the binary, restarts the service, reconciles the host   *)
(* firewall, may rotate the command signing key, and leaves a result file  *)
(* that the agent's reconciliation turns into the final receipt.  Both     *)
(* processes may die at any step; all they share is on disk.               *)
(***************************************************************************)
EXTENDS Naturals

CONSTANTS
  MaxKills,     \* bound on deaths of the agent, the helper or both
  MaxFaults     \* bound on result files whose write reports an error

ASSUME UpgradeAssumption == MaxKills \in Nat /\ MaxFaults \in Nat

VARIABLES
  upgrade,      \* input: does the command rotate the signing key, and does
                \* the candidate binary pass the status check
  record,       \* state of the command's journal record
  agent,        \* the agent's step, and the resolution it has read
  request,      \* the request file: its name says who may use it
  result,       \* the result file
  installed,    \* the binary at BinaryPath
  backup,       \* the root-only backup, "none" before it is written
  key,          \* the command signing key in the binding state
  service,      \* binary and key the running service was started with
  firewall,     \* the candidate's host firewall reconcile has succeeded
  helper,       \* the helper's step, the version it runs, why it fails
  kills, faults

diskVars == <<record, request, result, installed, backup, key>>
procVars == <<agent, service, firewall, helper>>
boundVars == <<kills, faults>>
vars == <<upgrade, diskVars, procVars, boundVars>>

Upgrades == [rotates : BOOLEAN, healthy : BOOLEAN]
Versions == {"old", "new"}
RecordStates == {"running", "submitted", "waiting", "succeeded", "failed", "indeterminate"}
Resolutions == {"none", "pending", "succeeded", "rolledBack", "failed"}
HelperSteps == {"idle", "validate", "check", "backup", "replace", "restart", "health",
                "postflight", "stage", "restartKey", "healthKey", "save", "cleanup",
                "unrotate", "restartUnrotated", "restore", "rollbackRestart",
                "rollbackHealth", "rolledBack", "failing"}
IdleHelper == [pc |-> "idle", version |-> "old", why |-> "none"]

Init ==
  /\ upgrade \in Upgrades
  /\ record = "running" /\ agent = [pc |-> "prepare", read |-> "none"]
  /\ request = "none" /\ result = "none" /\ installed = "old" /\ backup = "none"
  /\ key = "old" /\ service = [binary |-> "old", key |-> "old"] /\ firewall = FALSE
  /\ helper = IdleHelper /\ kills = 0 /\ faults = 0

-----------------------------------------------------------------------------
(* The agent: Prepare in a worker, then ReconcileOnce again and again.     *)

\* A service started from an unhealthy candidate does nothing.
AgentRuns == service.binary = "old" \/ upgrade.healthy

Prepare ==
  /\ AgentRuns /\ agent.pc = "prepare"
  /\ request' = "prepared" /\ agent' = [agent EXCEPT !.pc = "complete"]
  /\ UNCHANGED <<record, result, installed, backup, key, service, firewall, helper, boundVars>>

\* A manifest, an artifact or a version transition that is refused.
PrepareFails ==
  /\ AgentRuns /\ agent.pc = "prepare"
  /\ record' = "failed" /\ agent' = [agent EXCEPT !.pc = "reconcile"]
  /\ UNCHANGED <<request, result, installed, backup, key, service, firewall, helper, boundVars>>

\* Journal.Complete with AGENT_UPGRADE_SUBMITTED.
Complete ==
  /\ AgentRuns /\ agent.pc = "complete"
  /\ record' = "submitted" /\ agent' = [agent EXCEPT !.pc = "reconcile"]
  /\ UNCHANGED <<request, result, installed, backup, key, service, firewall, helper, boundVars>>

\* ResolveUpgrade: without a result the prepared request is activated.
ResolveUpgrade ==
  /\ AgentRuns /\ agent.pc = "reconcile" /\ record \in {"submitted", "waiting"}
  /\ agent' = [pc |-> "record", read |-> IF result = "none" THEN "pending" ELSE result]
  /\ request' = IF result = "none" /\ request = "prepared" THEN "request" ELSE request
  /\ UNCHANGED <<record, result, installed, backup, key, service, firewall, helper, boundVars>>

\* Slip in reconciledUpgradeReceipt: a pending upgrade is given up as failed.
ReceiptStateGivesUp(read) == IF read = "succeeded" THEN "succeeded" ELSE "failed"

\* reconciledUpgradeReceipt.
ReceiptState(read) ==
  CASE read = "pending" -> "waiting"
    [] read = "succeeded" -> "succeeded"
    [] OTHER -> "failed"

CompleteSubmitted ==
  /\ AgentRuns /\ agent.pc = "record"
  /\ record' = ReceiptState(agent.read) /\ agent' = [pc |-> "reconcile", read |-> "none"]
  /\ UNCHANGED <<request, result, installed, backup, key, service, firewall, helper, boundVars>>

-----------------------------------------------------------------------------
(* The helper: RunHelper, started by the path unit.                        *)

Go(step) == helper' = [helper EXCEPT !.pc = step]
Fail(why) == helper' = [helper EXCEPT !.pc = "failing", !.why = why]

\* nextRequest: a request that already has a result is only cleaned up.
HelperStart ==
  /\ helper.pc = "idle" /\ request = "request"
  /\ IF result = "none"
     THEN /\ helper' = [pc |-> "validate", version |-> installed, why |-> "none"]
          /\ UNCHANGED request
     ELSE request' = "none" /\ UNCHANGED helper
  /\ UNCHANGED <<record, result, installed, backup, key, agent, service, firewall, boundVars>>

\* The command verifies against the current key and AuthorizeUpgrade finds
\* the record submitted.
Validate ==
  /\ helper.pc = "validate" /\ key = "old" /\ record = "submitted"
  /\ Go("check")
  /\ UNCHANGED <<diskVars, agent, service, firewall, boundVars>>

\* Fifteen seconds of AuthorizeUpgrade without a submitted record.
HandoffTimeout ==
  /\ helper.pc = "validate" /\ key = "old" /\ record # "submitted"
  /\ Fail("handoff")
  /\ UNCHANGED <<diskVars, agent, service, firewall, boundVars>>

\* The command no longer verifies (an expired command, another key).
ValidateFails ==
  /\ helper.pc = "validate" /\ Fail("verify")
  /\ UNCHANGED <<diskVars, agent, service, firewall, boundVars>>

\* Manifest, transition, origin, archive and candidate firewall preflight.
Check ==
  /\ helper.pc = "check" /\ (Go("backup") \/ Fail("check"))
  /\ UNCHANGED <<diskVars, agent, service, firewall, boundVars>>

\* Slip in installCandidate: an existing backup is written over.
BackupAnew ==
  /\ helper.pc = "backup" /\ backup' = installed /\ Go("replace")
  /\ UNCHANGED <<record, request, result, installed, key, agent, service, firewall, boundVars>>

\* installCandidate keeps the backup of an earlier attempt.
Backup ==
  /\ helper.pc = "backup" /\ Go("replace")
  /\ backup' = IF backup = "none" THEN installed ELSE backup
  /\ UNCHANGED <<record, request, result, installed, key, agent, service, firewall, boundVars>>

Replace ==
  /\ helper.pc = "replace"
  /\ \/ installed' = "new" /\ Go("restart")
     \/ installed' = backup /\ Fail("install")
  /\ UNCHANGED <<record, request, result, backup, key, agent, service, firewall, boundVars>>

\* systemctl restart: the agent process starts again from the disk.
Restarted ==
  /\ service' = [binary |-> installed, key |-> key]
  /\ agent' = [pc |-> "reconcile", read |-> "none"]
  /\ record' = IF record = "running" THEN "indeterminate" ELSE record

RestartService(from, next, otherwise) ==
  /\ helper.pc = from
  /\ \/ Restarted /\ Go(next)
     \/ UNCHANGED <<service, agent, record>> /\ Go(otherwise)
  /\ UNCHANGED <<request, result, installed, backup, key, firewall, boundVars>>

Passes(version, k) ==
  /\ service.binary = version /\ AgentRuns
  /\ k = "any" \/ service.key = k

\* waitForStatus passes when the service shows it, or runs out of time.
WaitForStatus(from, version, k, next, otherwise) ==
  /\ helper.pc = from
  /\ (Passes(version, k) /\ Go(next)) \/ Go(otherwise)
  /\ UNCHANGED <<diskVars, agent, service, firewall, boundVars>>

Restart == RestartService("restart", "health", "restore")
\* Slip in RunHelper: a candidate that fails the check is only reported.
HealthCheckForgets == WaitForStatus("health", "new", "old", "postflight", "failing")
HealthCheck == WaitForStatus("health", "new", "old", "postflight", "restore")

\* Slip in RunHelper: a failed postflight does not stop the success.
PostflightIgnored ==
  /\ helper.pc = "postflight"
  /\ firewall' \in BOOLEAN /\ Go(IF upgrade.rotates THEN "stage" ELSE "save")
  /\ UNCHANGED <<diskVars, agent, service, boundVars>>

Postflight ==
  /\ helper.pc = "postflight"
  /\ \/ firewall' = TRUE /\ Go(IF upgrade.rotates THEN "stage" ELSE "save")
     \/ Fail("postflight") /\ UNCHANGED firewall
  /\ UNCHANGED <<diskVars, agent, service, boundVars>>

\* stageCommandSigningRotation.
Stage ==
  /\ helper.pc = "stage"
  /\ (key = "old" /\ key' = "new" /\ Go("restartKey")) \/ (Fail("rotate") /\ UNCHANGED key)
  /\ UNCHANGED <<record, request, result, installed, backup, agent, service, firewall, boundVars>>

RestartKey == RestartService("restartKey", "healthKey", "unrotate")
\* Slip in recoverRotation: the old key is not put back.
HealthKeyForgets == WaitForStatus("healthKey", "new", "new", "save", "failing")
HealthKey == WaitForStatus("healthKey", "new", "new", "save", "unrotate")

\* restoreSigningRotation: the binding, a restart, and a check whose outcome
\* only changes the words of the failure.
Unrotate ==
  /\ helper.pc = "unrotate" /\ key' = "old" /\ Go("restartUnrotated")
  /\ UNCHANGED <<record, request, result, installed, backup, agent, service, firewall, boundVars>>
RestartUnrotated == RestartService("restartUnrotated", "failing", "failing")

\* SaveResult of the success; an error may come after the rename.
SaveSuccess ==
  /\ helper.pc = "save"
  /\ \/ result' = "succeeded" /\ Go("cleanup") /\ UNCHANGED faults
     \/ /\ faults < MaxFaults /\ faults' = faults + 1
        /\ result' \in {result, "succeeded"}
        /\ IF upgrade.rotates THEN Go("unrotate") ELSE Go("failing")
  /\ UNCHANGED <<record, request, installed, backup, key, agent, service, firewall, kills>>

\* The request and its artifact are removed, and the helper ends.
Cleanup ==
  /\ helper.pc = "cleanup" /\ request' = "none" /\ helper' = IdleHelper
  /\ UNCHANGED <<record, result, installed, backup, key, agent, service, firewall, boundVars>>

\* rollback: restoreBackup, restart, and a check of the helper's own version.
Restore ==
  /\ helper.pc = "restore" /\ installed' = backup /\ Go("rollbackRestart")
  /\ UNCHANGED <<record, request, result, backup, key, agent, service, firewall, boundVars>>
RollbackRestart == RestartService("rollbackRestart", "rollbackHealth", "failing")
RollbackHealth ==
  WaitForStatus("rollbackHealth", helper.version, "any", "rolledBack", "failing")

\* writeResult: without a saved result the request stays for another try.
WriteResult(step, status) ==
  /\ helper.pc = step
  /\ \/ result' = status /\ Go("cleanup") /\ UNCHANGED faults
     \/ /\ faults < MaxFaults /\ faults' = faults + 1
        /\ result' \in {result, status} /\ helper' = IdleHelper
  /\ UNCHANGED <<record, request, installed, backup, key, agent, service, firewall, kills>>
\* Slip in fail: the request is removed although no result was saved.
WriteFailedSilently ==
  /\ helper.pc = "failing" /\ Go("cleanup")
  /\ UNCHANGED <<diskVars, agent, service, firewall, boundVars>>
WriteFailed == WriteResult("failing", "failed")
WriteRolledBack == WriteResult("rolledBack", "rolledBack")

-----------------------------------------------------------------------------
Kill == kills < MaxKills /\ kills' = kills + 1

\* The agent dies and systemd starts it again from what is on disk.
AgentCrash ==
  /\ Kill /\ Restarted
  /\ UNCHANGED <<request, result, installed, backup, key, firewall, helper, faults>>

\* The helper is killed: its unit times out, or the host goes down too.
HelperKilled ==
  /\ Kill /\ helper.pc # "idle" /\ helper' = IdleHelper
  /\ Restarted \/ UNCHANGED <<service, agent, record>>
  /\ UNCHANGED <<request, result, installed, backup, key, firewall, faults>>

AgentStep ==
  /\ Prepare \/ PrepareFails \/ Complete \/ ResolveUpgrade \/ CompleteSubmitted
  /\ UNCHANGED upgrade
HelperWork ==
  \/ HelperStart \/ Validate \/ HandoffTimeout \/ ValidateFails \/ Check \/ Backup
  \/ Replace \/ Restart \/ HealthCheck \/ Postflight \/ Stage \/ RestartKey \/ HealthKey
  \/ Unrotate \/ RestartUnrotated \/ SaveSuccess \/ Cleanup
  \/ Restore \/ RollbackRestart \/ RollbackHealth \/ WriteFailed \/ WriteRolledBack

HelperStep == HelperWork /\ UNCHANGED upgrade
Death == (AgentCrash \/ HelperKilled) /\ UNCHANGED upgrade

Next == AgentStep \/ HelperStep \/ Death

Spec == Init /\ [][Next]_vars

\* Both processes are scheduled; systemd starts the helper while the watched
\* name exists.
Fairness == WF_vars(AgentStep) /\ WF_vars(HelperStep)

FairSpec == Spec /\ Fairness

-----------------------------------------------------------------------------
(* Properties                                                              *)

Final == {"succeeded", "failed", "indeterminate"}

\* The shape of the state; part of FailureIsUndone.
TypeOK ==
  /\ upgrade \in Upgrades
  /\ record \in RecordStates /\ request \in {"none", "prepared", "request"}
  /\ agent \in [pc : {"prepare", "complete", "reconcile", "record"}, read : Resolutions]
  /\ result \in Resolutions \ {"pending"}
  /\ installed \in Versions /\ backup \in Versions \cup {"none"} /\ key \in Versions
  /\ service \in [binary : Versions, key : Versions] /\ firewall \in BOOLEAN
  /\ helper.pc \in HelperSteps /\ helper.version \in Versions

\* No early answer: until the helper has saved a result, a command that is
\* not yet submitted or already answered has changed nothing of the host
\* (AuthorizeUpgrade, "the root helper's final durable handoff gate").
NoEarlyAnswer ==
  record \in Final \cup {"running"} /\ result = "none" =>
    installed = "old" /\ key = "old" /\ ~firewall

\* While every result is saved, success is only reported, in the result file
\* or in the final receipt, of a healthy candidate that is installed, whose
\* firewall reconcile succeeded and whose new key, if any, is in force: the
\* website activates the matching private key on that receipt.
SuccessIsEarned ==
  faults = 0 /\ "succeeded" \in {result, record} =>
    /\ installed = "new" /\ upgrade.healthy /\ firewall
    /\ upgrade.rotates => key = "new"

\* A failure is undone: a rolled_back result is only written when the old
\* binary and the old key are back ("a failed rollback may only report
\* failed"); and unless it is killed, the helper leaves no unhealthy binary
\* behind (a failed check "is rolled back atomically from the root-only
\* backup") and no new key ("any failure before the success result is
\* persisted must restore the old binding"; docs/SELF-UPGRADE-V1.md).
FailureIsUndone ==
  /\ TypeOK
  /\ result = "rolledBack" => installed = "old" /\ key = "old"
  /\ kills = 0 /\ helper.pc = "idle" =>
       /\ result # "none" /\ ~upgrade.healthy => installed = "old"
       /\ result \in {"failed", "rolledBack"} => key = "old"

\* Prepare hides the request "until the unprivileged control service has
\* durably recorded AGENT_UPGRADE_SUBMITTED" so that the helper cannot "fail
\* after 15 seconds": no submitted upgrade is refused for want of a handoff.
HandoffHonoured == helper.why = "handoff" => record \in {"running", "indeterminate"}

\* A submitted upgrade gets its final receipt, whoever dies on the way,
\* unless the host is left with a service that does not run.
UpgradeAnswered == record = "submitted" ~> record \in Final \/ ~AgentRuns
=============================================================================
