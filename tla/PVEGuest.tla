------------------------------ MODULE PVEGuest ------------------------------
(***************************************************************************)
(* What the executor's requests do at the PVE node.                        *)
(*                                                                         *)
(* A request is refused (HTTP 4xx, nothing happens), carried out at once,  *)
(* or accepted as a task the agent polls by its UPID; an answer of 5xx and *)
(* an answer that never comes say nothing about which of these happened.   *)
(* A task whose status can no longer be read goes on without the agent: it *)
(* is then in stray.  The administrator works on the same guests.          *)
(*                                                                         *)
(* Limitations.  PVE undoes what a failed task had begun, and a clone is   *)
(* in the inventory when its task ends.  The networks of a guest are one   *)
(* setting, and so are its CIDR sets and firewall options.                 *)
(***************************************************************************)
EXTENDS Integers, FiniteSets

CONSTANTS
  MaxFaults,   \* bound on failing requests, unreadable answers and agent crashes
  MaxActs      \* bound on acts of the administrator

ASSUME GuestAssumption == MaxFaults \in Nat /\ MaxActs \in Nat

VARIABLES
  guest,     \* the guests at the assigned and at the compensation VMID
  vol,       \* the cloud-init snippet is in its storage
  refs,      \* the guests whose cicustom names the snippet
  stale,     \* the target's config was edited since the agent read its digest
  stray,     \* tasks nobody polls
  call,      \* the agent's outstanding request and what is known of it
  touched,   \* history: some request of the command took effect
  late,      \* history: the agent went on while a task it asked for was running
  fresh,     \* history: references made since the target was read or detached
  acts, faults

pveVars == <<guest, vol, refs, stale, touched>>
lapseVars == <<stray, late>>

NoGuest == [disk |-> "none", macs |-> "none", power |-> "stopped", conf |-> {}]
Guest(disk, macs, power) == [disk |-> disk, macs |-> macs, power |-> power, conf |-> {}]
Exists(vmid) == guest[vmid].disk # "none"

PowerOps == {"start", "shutdown", "stop", "reboot", "suspend", "resume"}
CopyOps == {"save", "install", "restore"}
\* PUT config answers when it is done; so do firewall requests and guest-exec.
Settings == {"resources", "networks", "firewall", "cloud_init", "resize", "io", "timezone"}
Immediate == (Settings \ {"resize"}) \cup {"drop_entry", "detach", "delete_volume"}
Queued == PowerOps \cup CopyOps \cup {"delete_target", "delete_temp", "resize", "delete_volume"}

\* status/current reports a paused guest as running; only qmpstatus tells.
Status == IF guest["target"].power = "stopped" THEN "stopped" ELSE "running"
guestHasPowerState(wanted) == Status = wanted
guestHasResumedState == guest["target"].power = "running"

-----------------------------------------------------------------------------
\* PVE carries the request out only in these states.
Possible(op) ==
  LET t == guest["target"] IN
  \/ op = "start" /\ Exists("target") /\ t.power = "stopped"
  \/ op \in {"shutdown", "stop", "reboot", "suspend"} /\ t.power # "stopped"
  \/ op = "resume" /\ t.power = "paused"
  \/ op = "save" /\ Exists("target") /\ ~Exists("temp")
  \/ op = "install" /\ ~Exists("target")
  \/ op = "restore" /\ Exists("temp") /\ ~Exists("target")
  \/ op = "delete_target" /\ Exists("target") /\ t.power = "stopped"
  \/ op = "delete_temp" /\ Exists("temp") /\ guest["temp"].power = "stopped"
  \/ op = "resize" /\ t.disk = "replacement"
  \/ op \in (Settings \ {"resize"}) \cup {"drop_entry"} /\ Exists("target")
  \/ op = "detach" /\ ~stale
  \/ op = "delete_volume" /\ vol

\* The guests after the request; PVE gives every clone new MAC addresses.
GuestsAfter(op) ==
  CASE op \in {"start", "reboot", "resume"} -> [guest EXCEPT !["target"].power = "running"]
    [] op \in {"shutdown", "stop"} -> [guest EXCEPT !["target"].power = "stopped"]
    [] op = "suspend" -> [guest EXCEPT !["target"].power = "paused"]
    [] op = "save" -> [guest EXCEPT !["temp"] = [guest["target"] EXCEPT !.macs = "fresh", !.power = "stopped"]]
    [] op = "install" -> [guest EXCEPT !["target"] = Guest("replacement", "fresh", "stopped")]
    [] op = "restore" -> [guest EXCEPT !["target"] = [guest["temp"] EXCEPT !.macs = "fresh"]]
    [] op = "delete_target" -> [guest EXCEPT !["target"] = NoGuest]
    [] op = "delete_temp" -> [guest EXCEPT !["temp"] = NoGuest]
    [] op = "networks" -> [guest EXCEPT !["target"].macs = "signed", !["target"].conf = @ \cup {op}]
    [] op \in Settings \ {"networks"} -> [guest EXCEPT !["target"].conf = @ \cup {op}]
    [] op = "drop_entry" -> [guest EXCEPT !["target"].conf = @ \ {"entry"}]
    [] OTHER -> guest

Apply(op) ==
  /\ guest' = GuestsAfter(op)
  /\ refs' = IF op = "detach" THEN refs \ {"target"} ELSE refs
  /\ vol' = (vol /\ op # "delete_volume")
  /\ touched' = TRUE
  /\ UNCHANGED stale

\* What PVE answers, or how the task exits, when the state forbids the request.
Refusal(op) ==
  CASE op \in {"start", "resume"} /\ guest["target"].power = "running" -> "already"
    [] op \in {"shutdown", "stop"} /\ Exists("target") -> "already"
    [] op \in {"suspend", "resume", "reboot"} /\ Exists("target") -> "not_running"
    [] op = "delete_target" /\ ~Exists("target") -> "absent"
    [] OTHER -> "refused"

-----------------------------------------------------------------------------
Idle == [op |-> "none", st |-> "idle"]
Failures == {"already", "not_running", "absent", "refused", "server", "lost", "exit", "unread", "local"}
Fault == faults < MaxFaults /\ faults' = faults + 1

\* pve.Client.Do and doPVE: one request, whatever becomes of it.
doPVE(op) ==
  /\ call = Idle
  /\ \/ /\ Possible(op) /\ op \in Immediate
        /\ Apply(op)
        /\ call' = [op |-> op, st |-> "ok"]
        /\ UNCHANGED <<lapseVars, faults>>
     \/ /\ Possible(op) /\ op \in Queued
        /\ call' = [op |-> op, st |-> "running"]
        /\ UNCHANGED <<pveVars, lapseVars, faults>>
     \/ /\ ~Possible(op)
        /\ call' = [op |-> op, st |-> Refusal(op)]
        /\ UNCHANGED <<pveVars, lapseVars, faults>>
     \/ /\ Fault
        /\ call' = [op |-> op, st |-> "refused"]
        /\ UNCHANGED <<pveVars, lapseVars>>
     \/ /\ Fault
        /\ \E how \in {"server", "lost"} : call' = [op |-> op, st |-> how]
        /\ \/ UNCHANGED <<pveVars, lapseVars>>
           \/ Possible(op) /\ Apply(op) /\ UNCHANGED lapseVars
           \/ /\ Possible(op) /\ op \in Queued
              /\ stray' = stray \cup {op}
              /\ late' = TRUE
              /\ UNCHANGED pveVars

\* The polled task ends; the guest may have changed since it was accepted.
TaskEnds ==
  /\ call.st = "running"
  /\ \/ /\ Possible(call.op)
        /\ Apply(call.op)
        /\ call' = [call EXCEPT !.st = "ok"]
        /\ UNCHANGED faults
     \/ /\ ~Possible(call.op)
        /\ call' = [call EXCEPT !.st = Refusal(call.op)]
        /\ UNCHANGED <<pveVars, faults>>
     \/ /\ Fault
        /\ call' = [call EXCEPT !.st = "exit"]
        /\ UNCHANGED pveVars
  /\ UNCHANGED lapseVars

\* waitPVEUPID returns on the first status it cannot read.
StatusUnreadable ==
  /\ call.st = "running"
  /\ Fault
  /\ call' = [call EXCEPT !.st = "unread"]
  /\ stray' = stray \cup {call.op}
  /\ late' = TRUE
  /\ UNCHANGED pveVars

\* A task nobody polls succeeds, or fails without a trace.
StrayEnds ==
  \E op \in stray :
    /\ stray' = stray \ {op}
    /\ \/ Possible(op) /\ Apply(op)
       \/ UNCHANGED pveVars
    /\ UNCHANGED <<late, call, faults>>

-----------------------------------------------------------------------------
\* The administrator does each of these at most once during the command.
Act(a) == a \notin acts /\ Cardinality(acts) < MaxActs /\ acts' = acts \cup {a}
SetsPower(a, from, to) ==
  /\ Act(a)
  /\ Exists("target") /\ guest["target"].power \in from
  /\ guest' = [guest EXCEPT !["target"].power = to]

\* Power changes and a guest created at the compensation VMID.
AdministratorGuest ==
  /\ \/ SetsPower("start", {"stopped"}, "running")
     \/ SetsPower("stop", {"running", "paused"}, "stopped")
     \/ SetsPower("pause", {"running"}, "paused")
     \/ SetsPower("unpause", {"paused"}, "running")
     \/ /\ Act("create")
        /\ ~Exists("temp")
        /\ guest' = [guest EXCEPT !["temp"] = Guest("foreign", "signed", "stopped")]
  /\ UNCHANGED <<vol, refs, stale, fresh, stray, call, touched, late, faults>>

\* Another guest, or the target again, is made to use the snippet.
AdministratorSnippet ==
  /\ \/ /\ Act("share")
        /\ refs' = refs \cup {"other"}
        /\ UNCHANGED stale
     \/ /\ Act("attach")
        /\ refs' = refs \cup {"target"}
        /\ stale' = TRUE
     \/ /\ Act("edit")
        /\ stale' = TRUE
        /\ UNCHANGED refs
  /\ fresh' = fresh \cup (refs' \ refs)
  /\ UNCHANGED <<guest, vol, stray, call, touched, late, faults>>
=============================================================================
