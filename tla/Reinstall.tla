----------------------------- MODULE Reinstall ------------------------------
(***************************************************************************)
(* vm.reinstall: the assigned guest is replaced by a clone of a template,  *)
(* with a full clone of the original kept at a compensation VMID until the *)
(* replacement is proven.                                                  *)
(*                                                                         *)
(* Nothing of the workflow is journaled: a crash leaves both guests as     *)
(* they are and the command indeterminate.  Labels "rb_..." undo before    *)
(* the original is deleted, "cp_..." afterwards.                           *)
(***************************************************************************)
EXTENDS GuestCommands

VARIABLES
  was,       \* the target ran when the command began
  ready,     \* how far the replacement's readiness is proven
  verified   \* history: the replacement passed verification

reinstallVars == <<was, ready, verified>>

\* networkMatches: every signed network is in the config as it was signed.
networkMatches == guest["target"].macs = "signed"
\* verifyIPFilter: the guest firewall enforces exactly the signed CIDRs.
verifyIPFilter == "firewall" \in guest["target"].conf

\* waitMutation: a request, its task awaited, and where to go with either end.
waitMutation(p, op, next, handler) ==
  /\ pc = p
  /\ \/ Request(op)
     \/ Succeeded /\ Goto(next)
     \/ Failed /\ Goto(handler)

\* The cluster inventory decides; when it cannot be read nothing is safe to undo.
resourceExists(p, vmid, present, absent) ==
  /\ pc = p
  /\ \/ Exists(vmid) /\ Goto(present)
     \/ ~Exists(vmid) /\ Goto(absent)
     \/ UnreadGoto("ret_indeterminate")

restorePower(p, next) ==
  ensureDesiredPowerState(p, IF was THEN "start" ELSE "stop", next, "ret_indeterminate")

-----------------------------------------------------------------------------
\* QGA transport, inventory, a known power state, a free VMID, the signed template.
Preflight ==
  /\ pc = "preflight"
  /\ \/ /\ ~Exists("temp")
        /\ was' = guestHasPowerState("running")
        /\ Goto("shutdown")
     \/ Exists("temp") /\ Goto("ret_preflight") /\ UNCHANGED was
     \/ UnreadGoto("ret_preflight") /\ UNCHANGED was
  /\ UNCHANGED <<ready, verified>>

\* Up to the point where the original is deleted.
ShutdownOriginal == ensureDesiredPowerState("shutdown", "shutdown", "save", "rb_power")
CreateCompensationClone == waitMutation("save", "save", "delete_original", "rb_inspect")
DeleteOriginal == waitMutation("delete_original", "delete_target", "install", "inspect_original")
\* Slip: a failed deletion is taken for one that did nothing.
InspectOriginalSkipped == pc = "inspect_original" /\ Goto("rb_inspect")
InspectOriginal == resourceExists("inspect_original", "target", "rb_inspect", "cp_inspect")

\* rollbackBeforeTargetDelete.
cleanupTemporary ==
  \/ resourceExists("rb_inspect", "temp", "rb_cleanup", "rb_power")
  \/ waitMutation("rb_cleanup", "delete_temp", "rb_power", "ret_indeterminate")
rollbackBeforeTargetDelete == cleanupTemporary \/ restorePower("rb_power", "ret_rolled_back")

\* compensate: the clone is cloned back, and proven to be the signed guest again.
cpReplacementCleanup ==
  \/ resourceExists("cp_inspect", "target", "cp_stop", "cp_restore")
  \/ waitMutation("cp_stop", "stop", "cp_delete", "cp_delete")
  \/ waitMutation("cp_delete", "delete_target", "cp_restore", "ret_indeterminate")
\* Slip: the clone is trusted to be the signed guest.
CompensationNetworksKept == pc = "cp_networks" /\ Goto("cp_power")
restoreReinstallCompensationNetworks ==
  \/ waitMutation("cp_networks", "networks", "cp_proof", "ret_indeterminate")
  \/ /\ pc = "cp_proof"
     /\ \/ networkMatches /\ Goto("cp_power")
        \/ ~networkMatches /\ Goto("ret_indeterminate")
        \/ UnreadGoto("ret_indeterminate")
compensate ==
  \/ cpReplacementCleanup
  \/ waitMutation("cp_restore", "restore", "cp_networks", "ret_indeterminate")
  \/ restoreReinstallCompensationNetworks
  \/ restorePower("cp_power", "cp_cleanup")
  \/ waitMutation("cp_cleanup", "delete_temp", "ret_rolled_back", "ret_indeterminate")

-----------------------------------------------------------------------------
\* The replacement is cloned and configured; every failure is compensated.
ReplaceGuest == waitMutation("install", "install", "set_resources", "cp_inspect")
SetReplacementResources ==
  /\ pc = "set_resources"
  /\ \/ guestHasPowerState("stopped") /\ Request("resources")
     \/ call = Idle /\ ~guestHasPowerState("stopped") /\ Goto("cp_inspect")
     \/ call = Idle /\ UnreadGoto("cp_inspect")
     \/ Succeeded /\ Goto("set_networks")
     \/ Failed /\ Goto("cp_inspect")
SetReplacementNetworks == waitMutation("set_networks", "networks", "set_firewall", "cp_inspect")
restoreReinstallFirewall == waitMutation("set_firewall", "firewall", "set_cloud_init", "cp_inspect")
SetReplacementCloudInit == waitMutation("set_cloud_init", "cloud_init", "resize", "cp_inspect")
\* The resize task is not awaited.
ResizeReplacement ==
  /\ pc = "resize"
  /\ \/ Request("resize")
     \/ /\ call.st = "running"
        /\ stray' = stray \cup {"resize"}
        /\ pc' = "set_io"
        /\ call' = Idle
        /\ UNCHANGED <<pveVars, late, faults, agentVars>>
     \/ Failed /\ Goto("cp_inspect")
SetReplacementDiskIO == waitMutation("set_io", "io", "start", "cp_inspect")
StartReplacement == ensureDesiredPowerState("start", "start", "verify", "cp_inspect")

\* The readiness loop: cloud-init, then the timezone, each once, then the proof.
CloudInitSettles ==
  /\ pc = "verify" /\ ready = "boot" /\ call = Idle
  /\ guestHasResumedState
  /\ ready' = "settled"
  /\ Goto("verify")
  /\ UNCHANGED <<was, verified>>

ReplacementTimezone ==
  /\ pc = "verify" /\ ready = "settled"
  /\ \/ Request("timezone") /\ UNCHANGED ready
     \/ Succeeded /\ ready' = "timezone" /\ Goto("verify")
     \/ call.st = "refused" /\ Goto("cp_inspect") /\ UNCHANGED ready
     \/ Failed /\ call.st # "refused" /\ Goto("verify") /\ UNCHANGED ready
  /\ UNCHANGED <<was, verified>>

\* verifyDelivery and verifyReinstallOS.
Delivered ==
  /\ guestHasPowerState("running")
  /\ guest["target"].disk = "replacement"
  /\ networkMatches
  /\ verifyIPFilter
  /\ guest["target"].conf = Settings
\* A stopped guest may still come up; a wrong configuration is final.
reinstallReadinessRetryable == ~guestHasPowerState("running")

VerifyReplacement ==
  /\ pc = "verify" /\ ready = "timezone" /\ call = Idle
  /\ \/ Delivered /\ verified' = TRUE /\ Goto("discard")
     \/ ~Delivered /\ ~reinstallReadinessRetryable /\ Goto("cp_inspect") /\ UNCHANGED verified
     \/ UnreadGoto("cp_inspect") /\ UNCHANGED verified
  /\ UNCHANGED <<was, ready>>

\* Slip: the budget starts when cloud-init has settled.
DeadlineAfterBoot == pc = "verify" /\ ready # "boot" /\ call = Idle /\ Goto("cp_inspect")
\* The readiness budget ends.
ReadinessDeadline ==
  /\ pc = "verify" /\ call = Idle
  /\ Goto("cp_inspect")

DiscardOriginal == waitMutation("discard", "delete_temp", "ret_succeeded", "ret_indeterminate")

waitForReinstallReadiness == CloudInitSettles \/ ReplacementTimezone \/ VerifyReplacement

ReinstallStep ==
  \/ Preflight
  \/ waitForReinstallReadiness
  \/ /\ \/ ShutdownOriginal
        \/ CreateCompensationClone
        \/ DeleteOriginal
        \/ InspectOriginal
        \/ rollbackBeforeTargetDelete
        \/ compensate
        \/ ReplaceGuest
        \/ SetReplacementResources
        \/ SetReplacementNetworks
        \/ restoreReinstallFirewall
        \/ SetReplacementCloudInit
        \/ ResizeReplacement
        \/ SetReplacementDiskIO
        \/ StartReplacement
        \/ ReadinessDeadline
        \/ DiscardOriginal
     /\ UNCHANGED reinstallVars

-----------------------------------------------------------------------------
\* A copy of the original disk exists until the replacement is verified,
\* whatever fails, whoever interferes, and wherever the agent is killed
\* (executor_extended.go, the compensation clone as "compensation boundary").
\* Not promised once the agent has acted without knowing how a task ended.
OriginalSurvives ==
  cmd = "reinstall" =>
    \/ verified
    \/ late
    \/ \E vmid \in {"target", "temp"} : guest[vmid].disk = "original"
=============================================================================
