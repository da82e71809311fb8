--------------------------- MODULE GuestCommands ----------------------------
(***************************************************************************)
(* The executor's commands on one guest: power, configuration, timezone,   *)
(* IP-set entry and guest deletion.                                        *)
(*                                                                         *)
(* pc is where executePVE stands; a label "ret_..." is what it returns.    *)
(* With "ret_error" the error is the one in call.  A read and the decision *)
(* taken on it are one step; the request that follows is another.          *)
(***************************************************************************)
EXTENDS PVEGuest

VARIABLES
  cmd,      \* the signed command
  pc,       \* the step of its execution
  receipt   \* the receipt Execute returned

ReadCommands == {"read", "inspect_timezone", "verify_delivery"}
Commands == PowerOps \cup
  {"delete", "set_config", "set_initial_resources", "set_timezone", "entry_delete",
   "reinstall", "snippet_delete"} \cup ReadCommands

agentVars == <<cmd, receipt, fresh, acts>>

-----------------------------------------------------------------------------
\* Control flow.
Quiet == UNCHANGED <<pveVars, lapseVars, agentVars>>
Goto(p) == pc' = p /\ call' = Idle /\ UNCHANGED faults /\ Quiet
\* Returning the error of the request itself, of a read, or one found locally.
RaiseCall == pc' = "ret_error" /\ UNCHANGED <<call, faults>> /\ Quiet
RaiseUnread == pc' = "ret_error" /\ Fault /\ call' = [op |-> "none", st |-> "unread"] /\ Quiet
RaiseLocal == pc' = "ret_error" /\ call' = [op |-> "none", st |-> "local"] /\ UNCHANGED faults /\ Quiet

Request(op) == doPVE(op) /\ UNCHANGED <<pc, agentVars>>
Failed == call.st \in Failures
Succeeded == call.st = "ok"

\* A read that fails sends control to p.
UnreadGoto(p) == pc' = p /\ Fault /\ call' = Idle /\ Quiet

\* A task is left to run on its own and its UPID returned.
Submit ==
  /\ call.st = "running"
  /\ stray' = stray \cup {call.op}
  /\ pc' = "ret_submitted"
  /\ call' = Idle
  /\ UNCHANGED <<pveVars, late, faults, agentVars>>

-----------------------------------------------------------------------------
powerActionDesiredState(action) == IF action \in {"start"} THEN "running" ELSE "stopped"

\* ensureDesiredPowerState: skip, change and wait, or accept that someone else did it.
ensureDesiredPowerState(p, action, next, handler) ==
  LET wanted == powerActionDesiredState(action) IN
  /\ pc = p
  /\ \/ call = Idle /\ guestHasPowerState(wanted) /\ Goto(next)
     \/ call = Idle /\ ~guestHasPowerState(wanted) /\ Request(action)
     \/ call = Idle /\ UnreadGoto(handler)
     \/ Succeeded /\ Goto(next)
     \/ call.st = "already" /\ guestHasPowerState(wanted) /\ Goto(next)
     \/ call.st = "already" /\ ~guestHasPowerState(wanted) /\ Goto(handler)
     \/ call.st = "already" /\ UnreadGoto(handler)
     \/ Failed /\ call.st # "already" /\ Goto(handler)

\* A resume of a stopped guest is carried out as a start.
LifecycleAction == IF cmd = "resume" THEN "start" ELSE cmd

executeLifecyclePowerTransition ==
  LET action == LifecycleAction
      wanted == powerActionDesiredState(action) IN
  \/ /\ pc = "lifecycle"
     /\ \/ RaiseUnread
        \/ action = "reboot" /\ ~guestHasPowerState("running") /\ Goto("ret_precondition")
        \/ action # "reboot" /\ guestHasPowerState(wanted) /\ Goto("ret_succeeded")
        \/ guestHasPowerState(IF action = "start" THEN "stopped" ELSE "running") /\ Goto("post")
  \/ /\ pc = "post"
     /\ \/ Request(action)
        \/ Submit
        \/ /\ call.st = "already"
           /\ \/ action # "reboot" /\ guestHasPowerState(wanted) /\ Goto("ret_succeeded")
              \/ ~guestHasPowerState(wanted) /\ RaiseCall
              \/ pc' = "ret_error" /\ Fault /\ UNCHANGED call /\ Quiet
        \/ Failed /\ call.st # "already" /\ RaiseCall

\* The state a suspend or a resume may accept after the provider's error.
Converged ==
  \/ cmd = "suspend" /\ call.st = "not_running" /\ guestHasPowerState("stopped")
  \/ cmd = "resume" /\ call.st = "already" /\ guestHasResumedState
StoppedUnderResume == cmd = "resume" /\ call.st = "not_running" /\ guestHasPowerState("stopped")

\* A failed read before a suspend is ignored; before a resume it is an error.
PowerTransitionRead ==
  /\ pc = "transition_read"
  /\ \/ cmd = "suspend" /\ guestHasPowerState("stopped") /\ Goto("ret_succeeded")
     \/ cmd = "suspend" /\ ~guestHasPowerState("stopped") /\ Goto("transition")
     \/ cmd = "suspend" /\ UnreadGoto("transition")
     \/ cmd = "resume" /\ guestHasPowerState("stopped") /\ Goto("lifecycle")
     \/ cmd = "resume" /\ guestHasResumedState /\ Goto("ret_succeeded")
     \/ cmd = "resume" /\ guest["target"].power = "paused" /\ Goto("transition")
     \/ cmd = "resume" /\ RaiseUnread

executePowerTransition ==
  /\ pc = "transition"
  /\ \/ Request(cmd)
     \/ Converged /\ Goto("ret_succeeded")
     \/ StoppedUnderResume /\ Goto("resume_start")
     \/ Failed /\ ~Converged /\ ~StoppedUnderResume /\ RaiseCall
     \/ /\ Succeeded
        /\ \/ RaiseUnread
           \/ /\ guest["target"].power = (IF cmd = "suspend" THEN "paused" ELSE "running")
              /\ Goto("ret_succeeded")
           \/ /\ guest["target"].power # (IF cmd = "suspend" THEN "paused" ELSE "running")
              /\ RaiseLocal

\* One start, awaited, and the guest must then prove that it runs.
resumeStoppedWithVerifiedStart ==
  /\ pc = "resume_start"
  /\ \/ Request("start")
     \/ (Succeeded \/ call.st = "already") /\ guestHasResumedState /\ Goto("ret_succeeded")
     \/ Succeeded /\ ~guestHasResumedState /\ RaiseLocal
     \/ call.st = "already" /\ ~guestHasResumedState /\ RaiseCall
     \/ Failed /\ call.st # "already" /\ RaiseCall

-----------------------------------------------------------------------------
\* vm.delete: a guest that is already gone is the requested end.
vmDeleteTargetAlreadyAbsent == call.st = "absent"
deleteGuest ==
  /\ pc = "delete"
  /\ \/ Request("delete_target")
     \/ Submit
     \/ vmDeleteTargetAlreadyAbsent /\ Goto("ret_succeeded")
     \/ Failed /\ ~vmDeleteTargetAlreadyAbsent /\ RaiseCall

\* The commands that edit the guest's config under the digest they read.
setConfig ==
  \/ /\ pc = "config"
     /\ \/ RaiseUnread
        \/ RaiseLocal
        \/ "io" \in guest["target"].conf /\ Goto("ret_succeeded")
        \/ "io" \notin guest["target"].conf /\ Goto("config_put")
  \/ /\ pc = "config_put"
     /\ \/ Request("io")
        \/ Succeeded /\ Goto("ret_succeeded")
        \/ Failed /\ RaiseCall

\* Initial resources: lineage in the journal, a stopped guest, and a readback.
setInitialResources ==
  \/ /\ pc = "initial"
     /\ \/ Goto("ret_rejected")
        \/ RaiseUnread
        \/ ~guestHasPowerState("stopped") /\ RaiseLocal
        \/ guestHasPowerState("stopped") /\ Goto("initial_put")
  \/ /\ pc = "initial_put"
     /\ \/ Request("resources")
        \/ Succeeded /\ "resources" \in guest["target"].conf /\ Goto("ret_succeeded")
        \/ Succeeded /\ RaiseUnread
        \/ Failed /\ RaiseCall

\* QGA must offer guest-exec within the boot wait, else the command is rejected.
waitForGuestAgentCommand ==
  /\ pc = "qga"
  /\ \/ Goto("ret_rejected")
     \/ cmd = "set_timezone" /\ Goto("cloud_init")
     \/ cmd = "inspect_timezone" /\ Goto("read")

\* Timezone: cloud-init must settle first, or it would overwrite the setting.
setGuestTimezone ==
  \/ /\ pc = "cloud_init"
     /\ \/ UnreadGoto("ret_cloud_init")
        \/ Goto("timezone")
  \/ /\ pc = "timezone"
     /\ \/ Request("timezone")
        \/ Succeeded /\ Goto("ret_succeeded")
        \/ Succeeded /\ RaiseUnread
        \/ Failed /\ RaiseCall

\* The entry is looked up, deleted under its digest, and looked up again.
deleteFirewallIPSetEntry ==
  LET present == "entry" \in guest["target"].conf IN
  \/ /\ pc = "entry"
     /\ \/ RaiseUnread
        \/ ~present /\ Goto("ret_succeeded")
        \/ present /\ Goto("entry_delete")
  \/ /\ pc = "entry_delete"
     /\ \/ Request("drop_entry")
        \/ (Succeeded \/ Failed) /\ ~present /\ Goto("ret_succeeded")
        \/ (Succeeded \/ Failed) /\ present /\ RaiseLocal
        \/ Failed /\ pc' = "ret_error" /\ Fault /\ UNCHANGED call /\ Quiet
        \/ Succeeded /\ RaiseUnread

\* Discovery, task.status, the inventories and the other verifications.
readOnly ==
  /\ pc = "read"
  /\ \/ Goto("ret_succeeded")
     \/ UnreadGoto("ret_read_failed")

\* A delivery is proven on a running guest, or the command fails.
verifyDelivery ==
  /\ pc = "verify_delivery"
  /\ \/ guestHasPowerState("running") /\ Goto("ret_succeeded")
     \/ Goto("ret_read_failed")

GuestCommand ==
  \/ executeLifecyclePowerTransition
  \/ PowerTransitionRead
  \/ executePowerTransition
  \/ resumeStoppedWithVerifiedStart
  \/ deleteGuest
  \/ setConfig
  \/ setInitialResources
  \/ waitForGuestAgentCommand
  \/ setGuestTimezone
  \/ deleteFirewallIPSetEntry
  \/ readOnly
  \/ verifyDelivery
=============================================================================
