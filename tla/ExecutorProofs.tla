--------------------------- MODULE ExecutorProofs ---------------------------
(***************************************************************************)
(* What holds of one command on a guest for every number of failing        *)
(* requests, crashes and acts of the administrator: a reinstall never      *)
(* loses the original disk, and a snippet is never taken from a guest that *)
(* uses it.                                                                *)
(*                                                                         *)
(* Both arguments follow the requests, not the program: what matters is    *)
(* which requests can still take effect, polled by the agent or left to    *)
(* run on their own, and what must hold of the host before each one does.  *)
(***************************************************************************)
EXTENDS Executor, TLAPS

Disks == {"none", "original", "replacement", "foreign"}
GuestRecord == [disk : Disks, macs : {"none", "signed", "fresh"},
                power : {"running", "stopped", "paused"},
                conf : SUBSET (Settings \cup {"entry"})]
Guests == [{"target", "temp"} -> GuestRecord]

TypeInv ==
  /\ guest \in Guests
  /\ call = [op |-> call.op, st |-> call.st]
  /\ cmd \in Commands
  /\ late \in BOOLEAN /\ verified \in BOOLEAN /\ vol \in BOOLEAN
  /\ refs \subseteq {"target", "other"}

Original(vmid) == guest[vmid].disk = "original"

\* Where the workflow counts on the original at the assigned VMID, where it
\* counts on the clone at the compensation VMID, and where it has ended.
OnTarget == {"received", "preflight", "shutdown", "save", "rb_inspect", "rb_cleanup", "rb_power",
             "cp_networks", "cp_proof", "cp_power", "cp_cleanup"}
OnClone == {"delete_original", "inspect_original", "install", "set_resources", "set_networks",
            "set_firewall", "set_cloud_init", "resize", "set_io", "start", "verify",
            "cp_inspect", "cp_stop", "cp_delete", "cp_restore"}
Ended == {"ret_rejected", "ret_dry_run", "ret_preflight", "ret_rolled_back", "ret_indeterminate",
          "done", "down"}

\* The request a step of the workflow makes.
RequestOf(p, op) ==
  /\ op = "delete_target" => p \in {"delete_original", "cp_delete"}
  /\ op = "delete_temp" => p \in {"rb_cleanup", "cp_cleanup"}
  /\ op = "restore" => p = "cp_restore"
  /\ op = "install" => p = "install"
  /\ p = "save" => op = "save"
  /\ p = "cp_restore" => op = "restore"

\* Before a deletion that is still to take effect, the other guest is the
\* original.
SafeToRun(op) ==
  /\ op = "delete_target" => Original("temp")
  /\ op = "delete_temp" => Original("target")

\* What must hold where control stands at label q.
Holds(q) ==
  /\ q \in OnTarget \cup OnClone \cup Ended
  /\ q \in OnTarget => Original("target")
  /\ q \in OnClone => Original("temp")
  /\ q \in {"delete_original", "inspect_original"} => Original("target") \/ ~Exists("target")
  /\ Original("target") \/ Original("temp")

\* The workflow of a reinstall whose tasks it has all followed to their end.
ReinstallCore ==
  /\ Holds(pc)
  /\ call # Idle => RequestOf(pc, call.op)
  /\ pc = "save" /\ call.st = "ok" => Original("temp")
  /\ pc = "cp_restore" /\ call.st = "ok" => Original("target")
  /\ pc \in Ended => call = Idle
  /\ \A op \in stray : SafeToRun(op)
  /\ \A op \in stray \ {"resize"} : pc \in {"done", "down"} /\ stray \subseteq {"resize", op}
ReinstallInv == cmd = "reinstall" /\ ~late /\ ~verified => ReinstallCore

SnippetSteps == {"snippet", "sn_read", "sn_scan_attached", "sn_scan_detached", "sn_detached",
                 "sn_prove", "sn_detach", "sn_scan", "sn_list", "sn_delete", "sn_gone",
                 "sn_finish", "sn_verified"}
SnippetLabels == SnippetSteps \cup {"received", "ret_succeeded", "ret_submitted", "ret_rejected",
                                    "ret_dry_run", Fails, Unknown, "done", "down"}

\* Between the last scan and the deletion of the snippet only references made
\* since are there.
SnippetInv ==
  cmd = "snippet_delete" =>
    /\ pc \in SnippetLabels
    /\ pc \in {"sn_list", "sn_delete"} \/ "delete_volume" \in stray => refs \subseteq fresh
    /\ call.st = "running" /\ call.op = "delete_volume" => pc = "sn_delete"

IInv == TypeInv /\ ReinstallInv /\ SnippetInv

-----------------------------------------------------------------------------
(* What a request does to the disks of the two guests.                     *)

TargetAfter(op) ==
  IF op = "install" THEN "replacement"
  ELSE IF op = "restore" THEN guest["temp"].disk
  ELSE IF op = "delete_target" THEN "none" ELSE guest["target"].disk
TempAfter(op) ==
  IF op = "save" THEN guest["target"].disk
  ELSE IF op = "delete_temp" THEN "none" ELSE guest["temp"].disk

\* Only clones and deletions change what disk a VMID holds (GuestsAfter).
LEMMA DisksAfter ==
  ASSUME guest \in Guests, NEW op
  PROVE  /\ GuestsAfter(op) \in Guests
         /\ GuestsAfter(op)["target"].disk = TargetAfter(op)
         /\ GuestsAfter(op)["temp"].disk = TempAfter(op)
  <1>t. guest["target"] \in GuestRecord /\ guest["temp"] \in GuestRecord
    BY DEF Guests
  <1>1. CASE op \in {"start", "reboot", "resume"}
    BY <1>1 DEF GuestsAfter, Settings, Guests, GuestRecord, TargetAfter, TempAfter
  <1>2. CASE op \in {"shutdown", "stop"}
    BY <1>2 DEF GuestsAfter, Settings, Guests, GuestRecord, TargetAfter, TempAfter
  <1>3. CASE op = "suspend"
    BY <1>3 DEF GuestsAfter, Settings, Guests, GuestRecord, TargetAfter, TempAfter
  <1>4. CASE op = "save"
    <2> DEFINE r == [guest["target"] EXCEPT !.macs = "fresh", !.power = "stopped"]
    <2>1. r \in GuestRecord
      BY <1>t DEF GuestRecord, Disks
    <2>2. GuestsAfter(op) = [guest EXCEPT !["temp"] = r]
      BY <1>4 DEF GuestsAfter, Settings
    <2>3. r.disk = TempAfter(op)
      BY <1>4, <1>t DEF TargetAfter, TempAfter, GuestRecord
    <2>4. TargetAfter(op) = guest["target"].disk
      BY <1>4 DEF TargetAfter, TempAfter
    <2> QED
      BY <2>1, <2>2, <2>3, <2>4 DEF Guests
  <1>5. CASE op = "install"
    <2> DEFINE r == Guest("replacement", "fresh", "stopped")
    <2>1. r \in GuestRecord
      BY DEF Guest, GuestRecord, Disks
    <2>2. GuestsAfter(op) = [guest EXCEPT !["target"] = r]
      BY <1>5 DEF GuestsAfter, Settings
    <2>3. r.disk = TargetAfter(op)
      BY <1>5, <1>t DEF Guest, TargetAfter, TempAfter, GuestRecord
    <2>4. TempAfter(op) = guest["temp"].disk
      BY <1>5 DEF TargetAfter, TempAfter
    <2> QED
      BY <2>1, <2>2, <2>3, <2>4 DEF Guests
  <1>6. CASE op = "restore"
    <2> DEFINE r == [guest["temp"] EXCEPT !.macs = "fresh"]
    <2>1. r \in GuestRecord
      BY <1>t DEF GuestRecord, Disks
    <2>2. GuestsAfter(op) = [guest EXCEPT !["target"] = r]
      BY <1>6 DEF GuestsAfter, Settings
    <2>3. r.disk = TargetAfter(op)
      BY <1>6, <1>t DEF TargetAfter, TempAfter, GuestRecord
    <2>4. TempAfter(op) = guest["temp"].disk
      BY <1>6 DEF TargetAfter, TempAfter
    <2> QED
      BY <2>1, <2>2, <2>3, <2>4 DEF Guests
  <1>7. CASE op = "delete_target"
    <2> DEFINE r == NoGuest
    <2>1. r \in GuestRecord
      BY DEF NoGuest, GuestRecord, Disks
    <2>2. GuestsAfter(op) = [guest EXCEPT !["target"] = r]
      BY <1>7 DEF GuestsAfter, Settings
    <2>3. r.disk = TargetAfter(op)
      BY <1>7, <1>t DEF NoGuest, TargetAfter, TempAfter, GuestRecord
    <2>4. TempAfter(op) = guest["temp"].disk
      BY <1>7 DEF TargetAfter, TempAfter
    <2> QED
      BY <2>1, <2>2, <2>3, <2>4 DEF Guests
  <1>8. CASE op = "delete_temp"
    <2> DEFINE r == NoGuest
    <2>1. r \in GuestRecord
      BY DEF NoGuest, GuestRecord, Disks
    <2>2. GuestsAfter(op) = [guest EXCEPT !["temp"] = r]
      BY <1>8 DEF GuestsAfter, Settings
    <2>3. r.disk = TempAfter(op)
      BY <1>8, <1>t DEF NoGuest, TargetAfter, TempAfter, GuestRecord
    <2>4. TargetAfter(op) = guest["target"].disk
      BY <1>8 DEF TargetAfter, TempAfter
    <2> QED
      BY <2>1, <2>2, <2>3, <2>4 DEF Guests
  <1>9. CASE op = "networks"
    BY <1>9 DEF GuestsAfter, Settings, Guests, GuestRecord, TargetAfter, TempAfter
  <1>10. CASE op \in Settings \ {"networks"}
    BY <1>10 DEF GuestsAfter, Settings, Guests, GuestRecord, TargetAfter, TempAfter
  <1>11. CASE op = "drop_entry"
    BY <1>11 DEF GuestsAfter, Settings, Guests, GuestRecord, TargetAfter, TempAfter
  <1>12. CASE op \notin {"start", "reboot", "resume", "shutdown", "stop", "suspend", "save",
                         "install", "restore", "delete_target", "delete_temp", "drop_entry"}
                        \cup Settings
    BY <1>12 DEF GuestsAfter, Settings, Guests, GuestRecord, TargetAfter, TempAfter
  <1> QED
    BY <1>1, <1>2, <1>3, <1>4, <1>5, <1>6, <1>7, <1>8, <1>9, <1>10, <1>11, <1>12

\* A request that takes effect, on the disks.
DiskEffect(op) ==
  /\ Possible(op)
  /\ guest'["target"].disk = TargetAfter(op) /\ guest'["temp"].disk = TempAfter(op)

\* What Apply does to everything it touches.
LEMMA ApplyEffect ==
  ASSUME TypeInv, NEW op, Possible(op), Apply(op)
  PROVE  /\ guest' \in Guests /\ DiskEffect(op)
         /\ vol' \in BOOLEAN /\ (vol /\ ~vol' => op = "delete_volume")
         /\ refs' \subseteq refs
  <1>1. guest' \in Guests /\ DiskEffect(op)
    BY DisksAfter DEF TypeInv, Apply, DiskEffect
  <1>2. vol' \in BOOLEAN /\ (vol /\ ~vol' => op = "delete_volume")
    BY DEF TypeInv, Apply
  <1>3. refs' \subseteq refs
    BY DEF Apply
  <1> QED
    BY <1>1, <1>2, <1>3

\* A refusal is a failure the agent sees as one.
LEMMA RefusalTyped == ASSUME NEW op PROVE Refusal(op) \notin {"ok", "running", "idle"}
  BY DEF Refusal

\* One request (doPVE): the answer is in call; either its fate is open, or
\* nothing happened, or it took effect.
LEMMA RequestEffect ==
  ASSUME TypeInv, NEW op, Request(op)
  PROVE  /\ call = Idle /\ call' = [op |-> op, st |-> call'.st]
         /\ UNCHANGED <<pc, cmd, receipt, fresh, acts>>
         /\ guest' \in Guests /\ vol' \in BOOLEAN /\ late' \in BOOLEAN /\ refs' \subseteq refs
         /\ vol /\ ~vol' => op = "delete_volume"
         /\ stray' \subseteq stray \cup {op}
         /\ \/ late'
            \/ /\ UNCHANGED <<stray, late>>
               /\ (UNCHANGED guest /\ call'.st # "ok") \/ DiskEffect(op)
  <1>0. /\ call = Idle /\ UNCHANGED <<pc, cmd, receipt, fresh, acts>>
    BY DEF Request, doPVE, agentVars
  <1>1. CASE Possible(op) /\ Apply(op) /\ call' = [op |-> op, st |-> "ok"] /\ UNCHANGED lapseVars
    BY <1>0, <1>1, ApplyEffect DEF lapseVars, TypeInv
  <1>2. CASE /\ call' = [op |-> op, st |-> "running"]
             /\ UNCHANGED <<pveVars, lapseVars>>
    BY <1>0, <1>2 DEF lapseVars, pveVars, TypeInv
  <1>3. CASE /\ call' = [op |-> op, st |-> Refusal(op)]
             /\ UNCHANGED <<pveVars, lapseVars>>
    BY <1>0, <1>3, RefusalTyped DEF lapseVars, pveVars, TypeInv
  <1>4. CASE /\ call' = [op |-> op, st |-> "refused"]
             /\ UNCHANGED <<pveVars, lapseVars>>
    BY <1>0, <1>4 DEF lapseVars, pveVars, TypeInv
  <1>5. CASE /\ \E how \in {"server", "lost"} : call' = [op |-> op, st |-> how]
             /\ \/ UNCHANGED <<pveVars, lapseVars>>
                \/ Possible(op) /\ Apply(op) /\ UNCHANGED lapseVars
                \/ stray' = stray \cup {op} /\ late' = TRUE /\ UNCHANGED pveVars
    <2>1. CASE UNCHANGED <<pveVars, lapseVars>>
      BY <1>0, <1>5, <2>1 DEF lapseVars, pveVars, TypeInv
    <2>2. CASE Possible(op) /\ Apply(op) /\ UNCHANGED lapseVars
      BY <1>0, <1>5, <2>2, ApplyEffect DEF lapseVars, TypeInv
    <2>3. CASE stray' = stray \cup {op} /\ late' = TRUE /\ UNCHANGED pveVars
      BY <1>0, <1>5, <2>3 DEF pveVars, TypeInv
    <2> QED
      BY <1>5, <2>1, <2>2, <2>3
  <1> QED
    BY <1>1, <1>2, <1>3, <1>4, <1>5 DEF Request, doPVE

-----------------------------------------------------------------------------
(* The reinstall, one kind of step at a time.                              *)

\* Control moves to a label where what it needs holds; no request is out.
LEMMA GotoCore ==
  ASSUME TypeInv, ReinstallCore, pc \notin {"done", "down"}, NEW q, Holds(q),
         pc' = q, call' = Idle, UNCHANGED <<guest, stray>>
  PROVE  ReinstallCore'
  BY DEF ReinstallCore, Holds, Original, Exists, SafeToRun, Idle, OnTarget, OnClone, Ended

\* A request of the workflow takes effect, and control stays.
LEMMA EffectCore ==
  ASSUME TypeInv, ReinstallCore, pc \notin Ended, NEW op, RequestOf(pc, op), DiskEffect(op),
         pc' = pc, call'.op = op, UNCHANGED stray
  PROVE  ReinstallCore'
  <1> USE DEF Original
  <1>1. Holds(pc)'
    <2>1. CASE pc \in OnTarget
      <3>1. op \notin {"install", "restore", "delete_target"}
        BY <2>1 DEF RequestOf, OnTarget
      <3>2. Original("target")'
        BY <2>1, <3>1 DEF ReinstallCore, Holds, DiskEffect, TargetAfter
      <3>3. pc \notin OnClone
        BY <2>1 DEF OnTarget, OnClone
      <3> QED
        BY <2>1, <3>2, <3>3 DEF Holds, OnClone
    <2>2. CASE pc \in OnClone
      <3>1. op # "delete_temp"
        BY <2>2 DEF RequestOf, OnClone
      <3>2. op # "save"
        BY <2>2 DEF ReinstallCore, Holds, DiskEffect, Possible, Exists, Settings
      <3>3. Original("temp")'
        BY <2>2, <3>1, <3>2 DEF ReinstallCore, Holds, DiskEffect, TempAfter
      <3>4. pc \in {"delete_original", "inspect_original"} =>
              (Original("target") \/ ~Exists("target"))'
        BY <2>2 DEF ReinstallCore, Holds, DiskEffect, TargetAfter, RequestOf, Exists
      <3>5. pc \notin OnTarget
        BY <2>2 DEF OnTarget, OnClone
      <3> QED
        BY <2>2, <3>3, <3>4, <3>5 DEF Holds
    <2> QED
      BY <2>1, <2>2 DEF ReinstallCore, Holds
  <1>2. stray \subseteq {"resize"}
    BY DEF ReinstallCore, Ended
  <1>3. (\A o \in stray : SafeToRun(o))'
    BY <1>2 DEF SafeToRun
  <1>4. (pc = "save" /\ call.st = "ok" => Original("temp"))'
    BY DEF ReinstallCore, Holds, RequestOf, DiskEffect, TempAfter, OnTarget
  <1>5. (pc = "cp_restore" /\ call.st = "ok" => Original("target"))'
    BY DEF ReinstallCore, Holds, RequestOf, DiskEffect, TargetAfter, OnClone
  <1> QED
    BY <1>1, <1>2, <1>3, <1>4, <1>5 DEF ReinstallCore

\* A request of the workflow has had no effect yet, and control stays.
LEMMA NoEffectCore ==
  ASSUME ReinstallCore, pc \notin Ended, RequestOf(pc, call'.op), call'.st # "ok",
         UNCHANGED <<pc, guest, stray>>
  PROVE  ReinstallCore'
  BY DEF ReinstallCore, Holds, Original, Exists, SafeToRun

\* One request of the workflow, whatever becomes of it.
LEMMA RequestCore ==
  ASSUME TypeInv, ReinstallCore, pc \notin Ended, NEW op, RequestOf(pc, op), Request(op)
  PROVE  late' \/ ReinstallCore'
  <1>1. /\ call' = [op |-> op, st |-> call'.st] /\ pc' = pc
        /\ \/ late'
           \/ /\ UNCHANGED stray
              /\ (UNCHANGED guest /\ call'.st # "ok") \/ DiskEffect(op)
    BY RequestEffect
  <1>2. call'.op = op
    BY <1>1
  <1> QED
    BY <1>1, <1>2, EffectCore, NoEffectCore

\* waitMutation keeps the invariant when its two successors may be entered.
LEMMA MutationCore ==
  ASSUME TypeInv, ReinstallCore, NEW p, NEW op, NEW next, NEW handler,
         waitMutation(p, op, next, handler), p \notin Ended, RequestOf(p, op),
         call.st = "ok" => Holds(next), Holds(handler)
  PROVE  late' \/ ReinstallCore'
  <1>0. pc = p
    BY DEF waitMutation
  <1>1. CASE Request(op)
    BY <1>0, <1>1, RequestCore
  <1>2. CASE Succeeded /\ Goto(next)
    BY <1>0, <1>2, GotoCore DEF Succeeded, Goto, Quiet, pveVars, lapseVars, Ended
  <1>3. CASE Failed /\ Goto(handler)
    BY <1>0, <1>3, GotoCore DEF Goto, Quiet, pveVars, lapseVars, Ended
  <1> QED
    BY <1>1, <1>2, <1>3 DEF waitMutation

\* ensureDesiredPowerState changes no disk.
LEMMA PowerCore ==
  ASSUME TypeInv, ReinstallCore, NEW p, NEW action, NEW next, NEW handler,
         ensureDesiredPowerState(p, action, next, handler), p \notin Ended,
         RequestOf(p, action), Holds(next), Holds(handler)
  PROVE  late' \/ ReinstallCore'
  <1>0. pc = p
    BY DEF ensureDesiredPowerState
  <1>1. CASE Request(action)
    BY <1>0, <1>1, RequestCore
  <1>2. CASE Goto(next)
    BY <1>0, <1>2, GotoCore DEF Goto, Quiet, pveVars, lapseVars, Ended
  <1>3. CASE Goto(handler) \/ UnreadGoto(handler)
    BY <1>0, <1>3, GotoCore DEF Goto, UnreadGoto, Quiet, pveVars, lapseVars, Ended
  <1> QED
    BY <1>1, <1>2, <1>3 DEF ensureDesiredPowerState

\* resourceExists goes where the inventory says, or gives up.
LEMMA InspectCore ==
  ASSUME TypeInv, ReinstallCore, NEW p, NEW vmid, NEW present, NEW absent,
         resourceExists(p, vmid, present, absent), p \notin Ended,
         Exists(vmid) => Holds(present), ~Exists(vmid) => Holds(absent)
  PROVE  ReinstallCore'
  <1>0. pc = p /\ Holds("ret_indeterminate")
    BY DEF resourceExists, ReinstallCore, Holds, Ended, OnTarget, OnClone
  <1> QED
    BY <1>0, GotoCore DEF resourceExists, Goto, UnreadGoto, Quiet, pveVars, lapseVars, Ended

\* Every step of vm.reinstall keeps the invariant.
LEMMA ReinstallStepCore ==
  ASSUME TypeInv, ReinstallCore, ReinstallStep
  PROVE  late' \/ verified' \/ ReinstallCore'
  <1> USE DEF OnTarget, OnClone, Ended
  <1>h. ASSUME NEW q, Original("target"), q \in OnTarget \cup Ended PROVE Holds(q)
    BY <1>h DEF Holds
  <1>c. ASSUME NEW q, Original("temp"), q \in OnClone \cup Ended,
               q \notin {"delete_original", "inspect_original"}
        PROVE  Holds(q)
    BY <1>c DEF Holds
  <1>t. pc \in OnTarget => Original("target")
    BY DEF ReinstallCore, Holds
  <1>n. pc \in OnClone => Original("temp")
    BY DEF ReinstallCore, Holds
  <1>1. CASE Preflight
    <2>1. pc = "preflight" /\ Holds("shutdown") /\ Holds("ret_preflight")
      BY <1>1, <1>t, <1>h DEF Preflight
    <2> QED
      BY <1>1, <2>1, GotoCore DEF Preflight, Goto, UnreadGoto, Quiet, pveVars, lapseVars
  <1>2. CASE waitForReinstallReadiness
    <2>1. CASE CloudInitSettles
      BY <2>1, <1>n, <1>c, GotoCore DEF CloudInitSettles, Goto, Quiet, pveVars, lapseVars
    <2>2. CASE ReplacementTimezone
      <3>1. pc = "verify" /\ Holds("verify") /\ Holds("cp_inspect") /\ RequestOf(pc, "timezone")
        BY <2>2, <1>n, <1>c DEF ReplacementTimezone, RequestOf
      <3>2. CASE Request("timezone")
        BY <3>1, <3>2, RequestCore
      <3>3. CASE Goto("verify")
        BY <3>1, <3>3, GotoCore DEF Goto, Quiet, pveVars, lapseVars
      <3>4. CASE Goto("cp_inspect")
        BY <3>1, <3>4, GotoCore DEF Goto, Quiet, pveVars, lapseVars
      <3> QED
        BY <2>2, <3>2, <3>3, <3>4 DEF ReplacementTimezone
    <2>3. CASE VerifyReplacement
      <3>1. pc = "verify" /\ Holds("cp_inspect")
        BY <2>3, <1>n, <1>c DEF VerifyReplacement
      <3>2. CASE Goto("cp_inspect") \/ UnreadGoto("cp_inspect")
        BY <3>1, <3>2, GotoCore DEF Goto, UnreadGoto, Quiet, pveVars, lapseVars
      <3> QED
        BY <2>3, <3>2 DEF VerifyReplacement
    <2> QED
      BY <1>2, <2>1, <2>2, <2>3 DEF waitForReinstallReadiness
  <1>3. CASE ShutdownOriginal
    <2>1. pc = "shutdown"
      BY <1>3 DEF ShutdownOriginal, ensureDesiredPowerState
    <2>2. RequestOf("shutdown", "shutdown") /\ Holds("save") /\ Holds("rb_power")
      BY <2>1, <1>t, <1>n, <1>h, <1>c DEF RequestOf
    <2> QED
      BY <1>3, <2>2, PowerCore DEF ShutdownOriginal
  <1>4. CASE CreateCompensationClone
    <2>1. pc = "save"
      BY <1>4 DEF CreateCompensationClone, waitMutation
    <2>2. RequestOf("save", "save") /\ (call.st = "ok" => Holds("delete_original")) /\ Holds("rb_inspect")
      BY <2>1, <1>t, <1>n, <1>h, <1>c DEF RequestOf, ReinstallCore, Holds
    <2> QED
      BY <1>4, <2>2, MutationCore DEF CreateCompensationClone
  <1>5. CASE DeleteOriginal
    <2>1. pc = "delete_original"
      BY <1>5 DEF DeleteOriginal, waitMutation
    <2>2. RequestOf("delete_original", "delete_target") /\ (call.st = "ok" => Holds("install")) /\ Holds("inspect_original")
      BY <2>1, <1>t, <1>n, <1>h, <1>c DEF RequestOf, ReinstallCore, Holds
    <2> QED
      BY <1>5, <2>2, MutationCore DEF DeleteOriginal
  <1>6. CASE InspectOriginal
    <2>1. pc = "inspect_original"
      BY <1>6 DEF InspectOriginal, resourceExists
    <2>2. (Exists("target") => Holds("rb_inspect")) /\ Holds("cp_inspect")
      BY <2>1 DEF ReinstallCore, Holds
    <2> QED
      BY <1>6, <2>2, InspectCore DEF InspectOriginal
  <1>7. CASE rollbackBeforeTargetDelete
    <2>1. CASE resourceExists("rb_inspect", "temp", "rb_cleanup", "rb_power")
      <3>1. Holds("rb_cleanup") /\ Holds("rb_power")
        BY <2>1, <1>t, <1>h DEF resourceExists
      <3> QED
        BY <2>1, <3>1, InspectCore
    <2>2. CASE waitMutation("rb_cleanup", "delete_temp", "rb_power", "ret_indeterminate")
      <3>1. RequestOf("rb_cleanup", "delete_temp") /\ Holds("rb_power") /\ Holds("ret_indeterminate")
        BY <2>2, <1>t, <1>h DEF waitMutation, RequestOf
      <3> QED
        BY <2>2, <3>1, MutationCore
    <2>3. CASE restorePower("rb_power", "ret_rolled_back")
      <3>1. /\ RequestOf("rb_power", IF was THEN "start" ELSE "stop")
            /\ Holds("ret_rolled_back") /\ Holds("ret_indeterminate")
        BY <2>3, <1>t, <1>h DEF restorePower, ensureDesiredPowerState, RequestOf
      <3> QED
        BY <2>3, <3>1, PowerCore DEF restorePower
    <2> QED
      BY <1>7, <2>1, <2>2, <2>3 DEF rollbackBeforeTargetDelete, cleanupTemporary
  <1>8. CASE compensate
    <2>1. CASE resourceExists("cp_inspect", "target", "cp_stop", "cp_restore")
      <3>1. Holds("cp_stop") /\ Holds("cp_restore")
        BY <2>1, <1>n, <1>c DEF resourceExists
      <3> QED
        BY <2>1, <3>1, InspectCore
    <2>2. CASE waitMutation("cp_stop", "stop", "cp_delete", "cp_delete")
      <3>1. RequestOf("cp_stop", "stop") /\ Holds("cp_delete")
        BY <2>2, <1>n, <1>c DEF waitMutation, RequestOf
      <3> QED
        BY <2>2, <3>1, MutationCore
    <2>3. CASE waitMutation("cp_delete", "delete_target", "cp_restore", "ret_indeterminate")
      <3>1. /\ RequestOf("cp_delete", "delete_target")
            /\ Holds("cp_restore") /\ Holds("ret_indeterminate")
        BY <2>3, <1>n, <1>c DEF waitMutation, RequestOf
      <3> QED
        BY <2>3, <3>1, MutationCore
    <2>4. CASE waitMutation("cp_restore", "restore", "cp_networks", "ret_indeterminate")
      <3>1. /\ RequestOf("cp_restore", "restore") /\ Holds("ret_indeterminate")
            /\ call.st = "ok" => Holds("cp_networks")
        BY <2>4, <1>n, <1>c, <1>h DEF waitMutation, RequestOf, ReinstallCore
      <3> QED
        BY <2>4, <3>1, MutationCore
    <2>5. CASE waitMutation("cp_networks", "networks", "cp_proof", "ret_indeterminate")
      <3>1. /\ RequestOf("cp_networks", "networks")
            /\ Holds("cp_proof") /\ Holds("ret_indeterminate")
        BY <2>5, <1>t, <1>h DEF waitMutation, RequestOf
      <3> QED
        BY <2>5, <3>1, MutationCore
    <2>6. CASE /\ pc = "cp_proof"
               /\ \/ Goto("cp_power") \/ Goto("ret_indeterminate")
                  \/ UnreadGoto("ret_indeterminate")
      <3>1. Holds("cp_power") /\ Holds("ret_indeterminate")
        BY <2>6, <1>t, <1>h
      <3> QED
        BY <2>6, <3>1, GotoCore DEF Goto, UnreadGoto, Quiet, pveVars, lapseVars
    <2>7. CASE restorePower("cp_power", "cp_cleanup")
      <3>1. /\ RequestOf("cp_power", IF was THEN "start" ELSE "stop")
            /\ Holds("cp_cleanup") /\ Holds("ret_indeterminate")
        BY <2>7, <1>t, <1>h DEF restorePower, ensureDesiredPowerState, RequestOf
      <3> QED
        BY <2>7, <3>1, PowerCore DEF restorePower
    <2>8. CASE waitMutation("cp_cleanup", "delete_temp", "ret_rolled_back", "ret_indeterminate")
      <3>1. /\ RequestOf("cp_cleanup", "delete_temp")
            /\ Holds("ret_rolled_back") /\ Holds("ret_indeterminate")
        BY <2>8, <1>t, <1>h DEF waitMutation, RequestOf
      <3> QED
        BY <2>8, <3>1, MutationCore
    <2> QED
      BY <1>8, <2>1, <2>2, <2>3, <2>4, <2>5, <2>6, <2>7, <2>8
         DEF compensate, cpReplacementCleanup, restoreReinstallCompensationNetworks
  <1>9. CASE ReplaceGuest
    <2>1. pc = "install"
      BY <1>9 DEF ReplaceGuest, waitMutation
    <2>2. RequestOf("install", "install") /\ (call.st = "ok" => Holds("set_resources")) /\ Holds("cp_inspect")
      BY <2>1, <1>t, <1>n, <1>h, <1>c DEF RequestOf
    <2> QED
      BY <1>9, <2>2, MutationCore DEF ReplaceGuest
  <1>10. CASE SetReplacementResources
    <2>1. /\ pc = "set_resources" /\ RequestOf(pc, "resources")
          /\ Holds("set_networks") /\ Holds("cp_inspect")
      BY <1>10, <1>n, <1>c DEF SetReplacementResources, RequestOf
    <2>2. CASE Request("resources")
      BY <2>1, <2>2, RequestCore
    <2>3. CASE Goto("set_networks")
      BY <2>1, <2>3, GotoCore DEF Goto, Quiet, pveVars, lapseVars
    <2>4. CASE Goto("cp_inspect") \/ UnreadGoto("cp_inspect")
      BY <2>1, <2>4, GotoCore DEF Goto, UnreadGoto, Quiet, pveVars, lapseVars
    <2> QED
      BY <1>10, <2>2, <2>3, <2>4 DEF SetReplacementResources
  <1>11. CASE SetReplacementNetworks
    <2>1. pc = "set_networks"
      BY <1>11 DEF SetReplacementNetworks, waitMutation
    <2>2. RequestOf("set_networks", "networks") /\ (call.st = "ok" => Holds("set_firewall")) /\ Holds("cp_inspect")
      BY <2>1, <1>t, <1>n, <1>h, <1>c DEF RequestOf
    <2> QED
      BY <1>11, <2>2, MutationCore DEF SetReplacementNetworks
  <1>12. CASE restoreReinstallFirewall
    <2>1. pc = "set_firewall"
      BY <1>12 DEF restoreReinstallFirewall, waitMutation
    <2>2. RequestOf("set_firewall", "firewall") /\ (call.st = "ok" => Holds("set_cloud_init")) /\ Holds("cp_inspect")
      BY <2>1, <1>t, <1>n, <1>h, <1>c DEF RequestOf
    <2> QED
      BY <1>12, <2>2, MutationCore DEF restoreReinstallFirewall
  <1>13. CASE SetReplacementCloudInit
    <2>1. pc = "set_cloud_init"
      BY <1>13 DEF SetReplacementCloudInit, waitMutation
    <2>2. RequestOf("set_cloud_init", "cloud_init") /\ (call.st = "ok" => Holds("resize")) /\ Holds("cp_inspect")
      BY <2>1, <1>t, <1>n, <1>h, <1>c DEF RequestOf
    <2> QED
      BY <1>13, <2>2, MutationCore DEF SetReplacementCloudInit
  <1>14. CASE ResizeReplacement
    <2>1. /\ pc = "resize" /\ RequestOf(pc, "resize")
          /\ Holds("set_io") /\ Holds("cp_inspect")
      BY <1>14, <1>n, <1>c DEF ResizeReplacement, RequestOf
    <2>2. CASE Request("resize")
      BY <2>1, <2>2, RequestCore
    <2>3. CASE Goto("cp_inspect")
      BY <2>1, <2>3, GotoCore DEF Goto, Quiet, pveVars, lapseVars
    <2>4. CASE stray' = stray \cup {"resize"} /\ pc' = "set_io" /\ call' = Idle /\ UNCHANGED guest
      <3>1. stray' \subseteq {"resize"}
        BY <2>1, <2>4 DEF ReinstallCore
      <3>2. Holds(pc)'
        BY <2>1, <2>4 DEF Holds, Original, Exists
      <3> QED
        BY <2>4, <3>1, <3>2 DEF ReinstallCore, SafeToRun
    <2> QED
      BY <1>14, <2>2, <2>3, <2>4 DEF ResizeReplacement, pveVars
  <1>15. CASE SetReplacementDiskIO
    <2>1. pc = "set_io"
      BY <1>15 DEF SetReplacementDiskIO, waitMutation
    <2>2. RequestOf("set_io", "io") /\ (call.st = "ok" => Holds("start")) /\ Holds("cp_inspect")
      BY <2>1, <1>t, <1>n, <1>h, <1>c DEF RequestOf
    <2> QED
      BY <1>15, <2>2, MutationCore DEF SetReplacementDiskIO
  <1>16. CASE StartReplacement
    <2>1. pc = "start"
      BY <1>16 DEF StartReplacement, ensureDesiredPowerState
    <2>2. RequestOf("start", "start") /\ Holds("verify") /\ Holds("cp_inspect")
      BY <2>1, <1>t, <1>n, <1>h, <1>c DEF RequestOf
    <2> QED
      BY <1>16, <2>2, PowerCore DEF StartReplacement
  <1>17. CASE ReadinessDeadline
    BY <1>17, <1>n, <1>c, GotoCore DEF ReadinessDeadline, Goto, Quiet, pveVars, lapseVars
  <1>18. CASE DiscardOriginal
    BY <1>18 DEF DiscardOriginal, waitMutation, ReinstallCore, Holds
  <1> QED
    BY <1>1, <1>2, <1>3, <1>4, <1>5, <1>6, <1>7, <1>8, <1>9, <1>10, <1>11, <1>12, <1>13,
       <1>14, <1>15, <1>16, <1>17, <1>18 DEF ReinstallStep

-----------------------------------------------------------------------------
(* The other steps.                                                        *)

\* A step of the program on its own memory, a request, or a task let go.
Move ==
  \/ Quiet /\ call' = [op |-> call'.op, st |-> call'.st]
  \/ Submit
  \/ \E op : Request(op)

\* What no step of an execution takes back.
Onward == UNCHANGED cmd /\ (late => late') /\ (verified => verified')

GuestLabels == {"lifecycle", "post", "transition_read", "transition", "resume_start", "delete",
                "config", "config_put", "initial", "initial_put", "qga", "cloud_init",
                "timezone", "entry", "entry_delete", "read", "verify_delivery"}

\* Every step of a command on one guest (executePVE) is such a move.
LEMMA GuestCommandMoves ==
  ASSUME TypeInv, GuestCommand PROVE Move /\ pc \in GuestLabels
  <1> USE DEF Move, GuestLabels, Goto, RaiseCall, RaiseUnread, RaiseLocal, UnreadGoto, Idle, TypeInv
  <1>1. CASE executeLifecyclePowerTransition
    BY <1>1 DEF executeLifecyclePowerTransition
  <1>2. CASE PowerTransitionRead
    BY <1>2 DEF PowerTransitionRead
  <1>3. CASE executePowerTransition
    BY <1>3 DEF executePowerTransition
  <1>4. CASE resumeStoppedWithVerifiedStart
    BY <1>4 DEF resumeStoppedWithVerifiedStart
  <1>5. CASE deleteGuest
    BY <1>5 DEF deleteGuest
  <1>6. CASE setConfig
    BY <1>6 DEF setConfig
  <1>7. CASE setInitialResources
    BY <1>7 DEF setInitialResources
  <1>8. CASE waitForGuestAgentCommand
    BY <1>8 DEF waitForGuestAgentCommand
  <1>9. CASE setGuestTimezone
    BY <1>9 DEF setGuestTimezone
  <1>10. CASE deleteFirewallIPSetEntry
    BY <1>10 DEF deleteFirewallIPSetEntry
  <1>11. CASE readOnly
    BY <1>11 DEF readOnly
  <1>12. CASE verifyDelivery
    BY <1>12 DEF verifyDelivery
  <1> QED
    BY <1>1, <1>2, <1>3, <1>4, <1>5, <1>6, <1>7, <1>8, <1>9, <1>10, <1>11, <1>12 DEF
       GuestCommand

\* Such a move keeps the types.
LEMMA MoveTyped ==
  ASSUME TypeInv, Move, verified' \in BOOLEAN, verified => verified' PROVE TypeInv' /\ Onward
  <1>1. CASE Quiet /\ call' = [op |-> call'.op, st |-> call'.st]
    BY <1>1 DEF TypeInv, Quiet, pveVars, lapseVars, agentVars, Onward
  <1>2. CASE Submit
    BY <1>2 DEF TypeInv, Submit, pveVars, agentVars, Idle, Onward
  <1>3. ASSUME NEW op, Request(op) PROVE TypeInv' /\ Onward
    <2>1. /\ call' = [op |-> op, st |-> call'.st] /\ cmd' = cmd
          /\ guest' \in Guests /\ vol' \in BOOLEAN /\ late' \in BOOLEAN /\ refs' \subseteq refs
          /\ late => late'
      BY <1>3, RequestEffect
    <2> QED
      BY <2>1 DEF TypeInv, Onward
  <1> QED
    BY <1>1, <1>2, <1>3 DEF Move

\* Steps of vm.reinstall keep the types, and are taken at its own labels.
LEMMA ReinstallStepTyped ==
  ASSUME TypeInv, ReinstallStep
  PROVE  TypeInv' /\ Onward /\ pc \in (OnTarget \ {"received"}) \cup OnClone \cup {"discard"}
  <1> DEFINE L == (OnTarget \ {"received"}) \cup OnClone \cup {"discard"}
  <1> USE DEF OnTarget, OnClone
  <1>m. ASSUME NEW p, NEW op, NEW next, NEW handler, waitMutation(p, op, next, handler)
        PROVE  Move /\ pc = p
    BY <1>m DEF waitMutation, Move, Goto, Idle
  <1>p. ASSUME NEW p, NEW action, NEW next, NEW handler,
               ensureDesiredPowerState(p, action, next, handler)
        PROVE  Move /\ pc = p
    BY <1>p DEF ensureDesiredPowerState, Move, Goto, UnreadGoto, Idle
  <1>r. ASSUME NEW p, NEW vmid, NEW present, NEW absent, resourceExists(p, vmid, present, absent)
        PROVE  Move /\ pc = p
    BY <1>r DEF resourceExists, Move, Goto, UnreadGoto, Idle
  <1>1. CASE Preflight
    <2>1. Move /\ pc \in L /\ verified' \in BOOLEAN /\ (verified => verified')
      BY <1>1 DEF Preflight, Move, Goto, UnreadGoto, Idle, TypeInv
    <2> QED
      BY <2>1, MoveTyped
  <1>2. CASE waitForReinstallReadiness
    <2>1. Move /\ pc \in L /\ verified' \in BOOLEAN /\ (verified => verified')
      BY <1>2 DEF waitForReinstallReadiness, CloudInitSettles, ReplacementTimezone,
                  VerifyReplacement, Move, Goto, UnreadGoto, Idle, TypeInv
    <2> QED
      BY <2>1, MoveTyped
  <1>3. CASE ResizeReplacement /\ UNCHANGED reinstallVars
    <2>1. CASE Request("resize") \/ Goto("cp_inspect")
      <3>1. Move /\ pc \in L /\ verified' \in BOOLEAN /\ (verified => verified')
        BY <1>3, <2>1 DEF ResizeReplacement, Move, Goto, Idle, TypeInv, reinstallVars
      <3> QED
        BY <3>1, MoveTyped
    <2>2. CASE call' = Idle /\ UNCHANGED <<pveVars, late, agentVars>>
      BY <1>3, <2>2 DEF ResizeReplacement, TypeInv, reinstallVars, pveVars, agentVars, Idle,
         Onward
    <2> QED
      BY <1>3, <2>1, <2>2 DEF ResizeReplacement
  <1>4. CASE /\ \/ ShutdownOriginal \/ CreateCompensationClone \/ DeleteOriginal \/ InspectOriginal
                \/ rollbackBeforeTargetDelete \/ compensate \/ ReplaceGuest
                \/ SetReplacementNetworks \/ restoreReinstallFirewall \/ SetReplacementCloudInit
                \/ SetReplacementDiskIO \/ StartReplacement \/ DiscardOriginal
             /\ UNCHANGED reinstallVars
    <2>1. Move /\ pc \in L
      <3>1. CASE ShutdownOriginal \/ StartReplacement
        BY <3>1, <1>p DEF ShutdownOriginal, StartReplacement
      <3>2. CASE CreateCompensationClone \/ DeleteOriginal \/ ReplaceGuest \/ SetReplacementNetworks
        BY <3>2, <1>m DEF CreateCompensationClone, DeleteOriginal, ReplaceGuest,
                          SetReplacementNetworks
      <3>3. CASE \/ restoreReinstallFirewall \/ SetReplacementCloudInit
                 \/ SetReplacementDiskIO \/ DiscardOriginal
        BY <3>3, <1>m DEF restoreReinstallFirewall, SetReplacementCloudInit,
                          SetReplacementDiskIO, DiscardOriginal
      <3>4. CASE InspectOriginal
        BY <3>4, <1>r DEF InspectOriginal
      <3>5. CASE rollbackBeforeTargetDelete
        BY <3>5, <1>r, <1>m, <1>p DEF rollbackBeforeTargetDelete, cleanupTemporary, restorePower
      <3>6. CASE compensate
        <4>1. CASE cpReplacementCleanup
          BY <4>1, <1>r, <1>m DEF cpReplacementCleanup
        <4>2. CASE restoreReinstallCompensationNetworks
          BY <4>2, <1>m DEF restoreReinstallCompensationNetworks, Move, Goto, UnreadGoto, Idle
        <4>3. CASE restorePower("cp_power", "cp_cleanup")
          BY <4>3, <1>p DEF restorePower
        <4> QED
          BY <3>6, <4>1, <4>2, <4>3, <1>m DEF compensate
      <3> QED
        BY <1>4, <3>1, <3>2, <3>3, <3>4, <3>5, <3>6
    <2> QED
      BY <1>4, <2>1, MoveTyped DEF reinstallVars, TypeInv
  <1>5. CASE (SetReplacementResources \/ ReadinessDeadline) /\ UNCHANGED reinstallVars
    <2>1. Move /\ pc \in L /\ verified' \in BOOLEAN /\ (verified => verified')
      BY <1>5 DEF SetReplacementResources, ReadinessDeadline, Move, Goto, UnreadGoto, Idle,
                  TypeInv, reinstallVars
    <2> QED
      BY <2>1, MoveTyped
  <1> QED
    BY <1>1, <1>2, <1>3, <1>4, <1>5 DEF ReinstallStep

-----------------------------------------------------------------------------
(* The deletion of a snippet.                                              *)

\* What this step does to the storage, it does to no reference still in use.
Kept == cmd = "snippet_delete" /\ vol /\ ~vol' => refs' \subseteq fresh'

\* The step after the target was read neither lists nor deletes the volume.
LEMMA AfterReadLabels ==
  AfterRead("target" \in refs) \in
    {"sn_scan_attached", "sn_scan_detached", Fails, "sn_finish", "sn_scan"}
  BY DEF AfterRead, Fails

\* Steps of the snippet's deletion are taken at its own labels, keep the types
\* and the invariant, and take the snippet from nobody.
LEMMA SnippetStepInv ==
  ASSUME TypeInv, SnippetInv, cmd \in Commands, SnippetStep, UNCHANGED verified
  PROVE  TypeInv' /\ SnippetInv' /\ Kept /\ Onward /\ pc \in SnippetSteps
  <1> USE DEF SnippetSteps, SnippetLabels, Fails, Unknown
  <1>g. ASSUME NEW q, pc' = q, call' = Idle, Quiet, q \in SnippetLabels,
               cmd = "snippet_delete" /\ q \in {"sn_list", "sn_delete"} => refs \subseteq fresh
        PROVE  TypeInv' /\ SnippetInv' /\ Kept /\ Onward
    <2>1. TypeInv' /\ Kept /\ Onward
      BY <1>g DEF TypeInv, Onward, Kept, Quiet, pveVars, lapseVars, agentVars, Idle
    <2>2. SnippetInv'
      BY <1>g DEF SnippetInv, Quiet, pveVars, lapseVars, agentVars, Idle
    <2> QED
      BY <2>1, <2>2
  <1>q. ASSUME NEW op, Request(op), pc \in SnippetLabels,
               op = "delete_volume" => pc = "sn_delete"
        PROVE  TypeInv' /\ SnippetInv' /\ Kept /\ Onward
    <2>1. /\ call' = [op |-> op, st |-> call'.st] /\ UNCHANGED <<pc, cmd, fresh>>
          /\ guest' \in Guests /\ vol' \in BOOLEAN /\ late' \in BOOLEAN /\ refs' \subseteq refs
          /\ vol /\ ~vol' => op = "delete_volume"
          /\ stray' \subseteq stray \cup {op} /\ (late => late')
      BY <1>q, RequestEffect
    <2>2. TypeInv' /\ Onward
      BY <2>1 DEF TypeInv, Onward
    <2>3. call'.op = op
      BY <2>1
    <2>4. SnippetInv' /\ Kept
      BY <1>q, <2>1, <2>3 DEF SnippetInv, Kept
    <2> QED
      BY <2>2, <2>4
  <1>1. CASE BeginCloudInitSnippetDelete
    BY <1>1, <1>g DEF BeginCloudInitSnippetDelete, Goto, UnreadGoto
  <1>2. CASE readSnippetTarget
    <2>1. CASE UnreadGoto(Fails)
      BY <1>2, <2>1, <1>g DEF readSnippetTarget, UnreadGoto
    <2>2. CASE /\ Forget /\ pc' = AfterRead("target" \in refs)
               /\ UNCHANGED <<call, guest, vol, refs, lapseVars, cmd>>
      <3>1. pc' \in {"sn_scan_attached", "sn_scan_detached", Fails, "sn_finish", "sn_scan"}
        BY <2>2, AfterReadLabels
      <3>2. TypeInv' /\ Kept /\ Onward
        BY <2>2 DEF TypeInv, Onward, Kept, lapseVars
      <3>3. SnippetInv'
        BY <1>2, <2>2, <3>1 DEF SnippetInv, Forget, lapseVars, readSnippetTarget
      <3> QED
        BY <1>2, <3>2, <3>3 DEF readSnippetTarget
    <2> QED
      BY <1>2, <2>1, <2>2 DEF readSnippetTarget
  <1>s. ASSUME scanSnippetReferences("sn_scan", FALSE, "sn_list")
        PROVE  TypeInv' /\ SnippetInv' /\ Kept /\ Onward /\ pc = "sn_scan"
    <2>1. ScanPasses(FALSE) => refs = {}
      BY DEF ScanPasses, TypeInv
    <2> QED
      BY <1>s, <2>1, <1>g DEF Goto, UnreadGoto, scanSnippetReferences
  <1>d. ASSUME scanSnippetReferences("sn_scan_detached", FALSE, "sn_detached")
        PROVE  TypeInv' /\ SnippetInv' /\ Kept /\ Onward /\ pc = "sn_scan_detached"
    <2>1. ScanPasses(FALSE) => refs = {}
      BY DEF ScanPasses, TypeInv
    <2> QED
      BY <1>d, <2>1, <1>g DEF Goto, UnreadGoto, scanSnippetReferences
  <1>u. ASSUME scanSnippetReferences("sn_scan_attached", TRUE, "sn_prove")
        PROVE  TypeInv' /\ SnippetInv' /\ Kept /\ Onward /\ pc = "sn_scan_attached"
    BY <1>u, <1>g DEF scanSnippetReferences, Goto, UnreadGoto
  <1>a. ASSUME NEW p, NEW next \in SnippetLabels \ {"sn_list", "sn_delete"},
               AdvanceCloudInitSnippetDelete(p, next)
        PROVE  TypeInv' /\ SnippetInv' /\ Kept /\ Onward
    BY <1>a, <1>g DEF AdvanceCloudInitSnippetDelete, Goto, UnreadGoto
  <1>3. CASE NoticeDetached
    BY <1>3, <1>d, <1>a DEF NoticeDetached
  <1>4. CASE ProveReference
    BY <1>4, <1>u, <1>a DEF ProveReference
  <1>5. CASE Detach
    <2>1. CASE Request("detach")
      BY <1>5, <2>1, <1>q DEF Detach
    <2>2. CASE SnippetError("sn_detached")
      BY <1>5, <2>2, <1>g DEF Detach, SnippetError, Goto
    <2>3. CASE /\ pc' = "sn_detached" /\ call' = Idle /\ Forget
               /\ UNCHANGED <<pveVars, lapseVars, cmd>>
      <3>1. TypeInv' /\ Kept /\ Onward
        BY <2>3 DEF TypeInv, Onward, Kept, pveVars, lapseVars, Idle
      <3>2. SnippetInv'
        BY <2>3 DEF SnippetInv, Forget, pveVars, lapseVars, Idle
      <3> QED
        BY <1>5, <3>1, <3>2 DEF Detach
    <2> QED
      BY <1>5, <2>1, <2>2, <2>3 DEF Detach
  <1>6. CASE ScanBeforeDelete
    BY <1>6, <1>s DEF ScanBeforeDelete
  <1>7. CASE snippetVolumePresent
    <2>1. cmd = "snippet_delete" => refs \subseteq fresh
      BY <1>7 DEF snippetVolumePresent, SnippetInv
    <2> QED
      BY <1>7, <2>1, <1>g DEF snippetVolumePresent, Goto, UnreadGoto
  <1>8. CASE DeleteSnippetVolume
    <2>1. CASE pc = "sn_delete" /\ Request("delete_volume")
      BY <2>1, <1>q
    <2>2. CASE pc = "sn_delete" /\ SnippetError("sn_gone")
      BY <2>2, <1>g DEF SnippetError, Goto
    <2>3. CASE pc = "sn_gone" /\ AdvanceCloudInitSnippetDelete("deleted", "sn_finish")
      BY <2>3, <1>a
    <2> QED
      BY <1>8, <2>1, <2>2, <2>3 DEF DeleteSnippetVolume
  <1>9. CASE RecordCloudInitSnippetDeleteSubmitted
    <2>1. TypeInv' /\ Kept /\ Onward
      BY <1>9 DEF RecordCloudInitSnippetDeleteSubmitted, TypeInv, Onward, Kept, pveVars,
         agentVars, Idle
    <2>2. SnippetInv'
      BY <1>9 DEF RecordCloudInitSnippetDeleteSubmitted, SnippetInv, pveVars, agentVars, Idle
    <2> QED
      BY <1>9, <2>1, <2>2 DEF RecordCloudInitSnippetDeleteSubmitted
  <1>10. CASE finishSnippetDeleteRecovery
    BY <1>10, <1>g, <1>a DEF finishSnippetDeleteRecovery, Goto, UnreadGoto
  <1> QED
    BY <1>1, <1>2, <1>3, <1>4, <1>5, <1>6, <1>7, <1>8, <1>9, <1>10 DEF SnippetStep

-----------------------------------------------------------------------------
(* The whole command.                                                      *)

\* The host as a command finds it satisfies the invariant.
LEMMA InitIInv == Init => IInv
  <1> SUFFICES ASSUME Init PROVE IInv
    OBVIOUS
  <1>1. PICK power \in {"running", "stopped", "paused"},
             temp \in {NoGuest, Guest("foreign", "signed", "stopped")},
             conf \in {{}, {"entry"}, {"io"}}, absent \in BOOLEAN :
          /\ absent => cmd = "delete"
          /\ guest = [target |-> IF absent THEN NoGuest
                                 ELSE [Guest("original", "signed", power) EXCEPT !.conf = conf],
                      temp |-> temp]
    BY DEF Init
  <1>2. temp \in GuestRecord
    BY <1>1 DEF NoGuest, Guest, GuestRecord, Disks
  <1>3. [Guest("original", "signed", power) EXCEPT !.conf = conf] \in GuestRecord
    BY <1>1 DEF Guest, GuestRecord, Disks, Settings
  <1>4. NoGuest \in GuestRecord
    BY DEF NoGuest, GuestRecord, Disks
  <1>5. guest \in Guests
    BY <1>1, <1>2, <1>3, <1>4 DEF Guests
  <1>6. TypeInv
    BY <1>5 DEF TypeInv, Init, Idle
  <1>7. cmd = "reinstall" => Original("target")
    BY <1>1 DEF Original, Guest
  <1>8. ReinstallInv
    BY <1>7 DEF Init, ReinstallInv, ReinstallCore, Holds, OnTarget, OnClone, Ended
  <1>9. SnippetInv
    BY DEF Init, SnippetInv, SnippetSteps, SnippetLabels, Idle
  <1> QED
    BY <1>6, <1>8, <1>9 DEF IInv

\* Dispatch and the classification of what was returned.
LEMMA ExecuteIInv ==
  ASSUME IInv, Dispatch \/ Classify PROVE IInv' /\ Kept
  <1>0. TypeInv /\ ReinstallInv /\ SnippetInv
    BY DEF IInv
  <1>1. /\ UNCHANGED <<guest, vol, refs, stray, late, fresh, cmd, verified>>
        /\ call' = Idle /\ pc \notin {"done", "down"}
    BY DEF Dispatch, Classify, Goto, Quiet, pveVars, lapseVars, agentVars, reinstallVars,
           Returns, Fails, Unknown
  <1>2. TypeInv' /\ Kept
    BY <1>0, <1>1 DEF TypeInv, Kept, Idle
  <1>3. /\ cmd = "reinstall" => pc' \in {"ret_rejected", "ret_dry_run", "preflight", "done"}
        /\ cmd = "snippet_delete" => pc' \in {"ret_rejected", "ret_dry_run", "snippet", "done"}
        /\ pc' = "preflight" => pc = "received"
    BY DEF Dispatch, Classify, Goto, EntryOf
  <1>4. ReinstallInv'
    <2> SUFFICES ASSUME cmd = "reinstall", ~late, ~verified PROVE ReinstallCore'
      BY <1>1 DEF ReinstallInv
    <2>1. ReinstallCore
      BY <1>0 DEF ReinstallInv
    <2>2. Holds(pc')
      BY <1>3, <2>1 DEF ReinstallCore, Holds, OnTarget, OnClone, Ended
    <2> QED
      BY <1>0, <1>1, <2>1, <2>2, GotoCore
  <1>5. SnippetInv'
    BY <1>0, <1>1, <1>3 DEF SnippetInv, SnippetSteps, SnippetLabels, Idle
  <1> QED
    BY <1>2, <1>4, <1>5 DEF IInv

\* The steps of the commands themselves.
LEMMA CommandIInv ==
  ASSUME IInv, \/ GuestCommand /\ UNCHANGED reinstallVars
               \/ ReinstallStep
               \/ SnippetStep /\ UNCHANGED reinstallVars
  PROVE  IInv' /\ Kept
  <1>0. TypeInv /\ ReinstallInv /\ SnippetInv
    BY DEF IInv
  <1>1. CASE GuestCommand /\ UNCHANGED reinstallVars
    <2>1. Move /\ pc \in GuestLabels
      BY <1>0, <1>1, GuestCommandMoves
    <2>2. TypeInv' /\ Onward
      BY <1>0, <1>1, <2>1, MoveTyped DEF reinstallVars, TypeInv
    <2>4. ~(cmd = "reinstall" /\ ~late /\ ~verified)
      BY <1>0, <2>1 DEF ReinstallInv, ReinstallCore, Holds, OnTarget, OnClone, Ended,
         GuestLabels
    <2>5. cmd # "snippet_delete"
      BY <1>0, <2>1 DEF SnippetInv, SnippetSteps, SnippetLabels, GuestLabels, Fails, Unknown
    <2> QED
      BY <1>0, <2>2, <2>4, <2>5 DEF IInv, ReinstallInv, SnippetInv, Kept, Onward, TypeInv
  <1>2. CASE ReinstallStep
    <2>1. TypeInv' /\ Onward /\ pc \in (OnTarget \ {"received"}) \cup OnClone \cup {"discard"}
      BY <1>0, <1>2, ReinstallStepTyped
    <2>3. ReinstallInv'
      BY <1>0, <1>2, <2>1, ReinstallStepCore DEF ReinstallInv, Onward
    <2>4. cmd # "snippet_delete"
      BY <1>0, <2>1 DEF SnippetInv, SnippetSteps, SnippetLabels, Fails, Unknown, OnTarget,
         OnClone
    <2> QED
      BY <2>1, <2>3, <2>4 DEF IInv, SnippetInv, Kept, Onward
  <1>3. CASE SnippetStep /\ UNCHANGED reinstallVars
    <2>1. TypeInv' /\ SnippetInv' /\ Kept /\ Onward /\ pc \in SnippetSteps
      BY <1>0, <1>3, SnippetStepInv DEF TypeInv, reinstallVars
    <2>2. ~(cmd = "reinstall" /\ ~late /\ ~verified)
      BY <1>0, <2>1 DEF ReinstallInv, ReinstallCore, Holds, OnTarget, OnClone, Ended,
         SnippetSteps
    <2> QED
      BY <1>0, <2>1, <2>2 DEF IInv, ReinstallInv, Onward, TypeInv
  <1> QED
    BY <1>1, <1>2, <1>3

\* A polled task ends, or its status can no longer be read.
LEMMA PollIInv == ASSUME IInv, Poll PROVE IInv' /\ Kept
  <1>0. /\ TypeInv /\ ReinstallInv /\ SnippetInv /\ call.st = "running"
        /\ UNCHANGED <<pc, cmd, fresh, verified>> /\ pc # "sn_delete"
    BY DEF IInv, Poll, TaskEnds, StatusUnreadable, agentVars, reinstallVars
  <1>n. call # Idle
    BY <1>0 DEF Idle
  <1>1. CASE StatusUnreadable
    <2>1. /\ call' = [op |-> call.op, st |-> "unread"] /\ late' = TRUE
          /\ UNCHANGED <<guest, vol, refs>> /\ stray' = stray \cup {call.op}
      BY <1>0, <1>1 DEF StatusUnreadable, TypeInv, pveVars
    <2>2. TypeInv' /\ Kept
      BY <1>0, <2>1 DEF TypeInv, Kept
    <2>3. SnippetInv'
      BY <1>0, <2>1 DEF SnippetInv
    <2> QED
      BY <2>1, <2>2, <2>3 DEF IInv, ReinstallInv
  <1>2. CASE TaskEnds
    <2>1. /\ call' = [op |-> call.op, st |-> call'.st] /\ call'.st # "running"
          /\ UNCHANGED <<stray, late>>
          /\ guest' \in Guests /\ vol' \in BOOLEAN /\ refs' \subseteq refs
          /\ vol /\ ~vol' => call.op = "delete_volume"
          /\ (UNCHANGED guest /\ call'.st # "ok") \/ DiskEffect(call.op)
      <3>1. CASE Possible(call.op) /\ Apply(call.op) /\ call' = [call EXCEPT !.st = "ok"]
        BY <1>0, <1>2, <3>1, ApplyEffect DEF TaskEnds, TypeInv, lapseVars
      <3>2. CASE call' = [call EXCEPT !.st = Refusal(call.op)] /\ UNCHANGED pveVars
        BY <1>0, <1>2, <3>2, RefusalTyped DEF TaskEnds, TypeInv, lapseVars, pveVars
      <3>3. CASE call' = [call EXCEPT !.st = "exit"] /\ UNCHANGED pveVars
        BY <1>0, <1>2, <3>3 DEF TaskEnds, TypeInv, lapseVars, pveVars
      <3> QED
        BY <1>2, <3>1, <3>2, <3>3 DEF TaskEnds
    <2>o. call'.op = call.op
      BY <2>1
    <2>2. TypeInv'
      BY <1>0, <2>1, <2>o DEF TypeInv
    <2>3. SnippetInv' /\ Kept
      BY <1>0, <2>1 DEF SnippetInv, Kept
    <2>4. ReinstallInv'
      <3> SUFFICES ASSUME cmd = "reinstall", ~late, ~verified PROVE ReinstallCore'
        BY <1>0, <2>1 DEF ReinstallInv
      <3>1. ReinstallCore /\ pc \notin Ended /\ RequestOf(pc, call.op)
        BY <1>0, <1>n DEF ReinstallInv, ReinstallCore
      <3>2. CASE DiskEffect(call.op)
        BY <1>0, <2>1, <2>o, <3>1, <3>2, EffectCore
      <3>3. CASE UNCHANGED guest /\ call'.st # "ok"
        BY <1>0, <2>1, <2>o, <3>1, <3>3, NoEffectCore
      <3> QED
        BY <2>1, <3>2, <3>3
    <2> QED
      BY <2>2, <2>3, <2>4 DEF IInv
  <1> QED
    BY <1>1, <1>2 DEF Poll

\* The agent dies with or without a task running, and the command is
\* redelivered.
LEMMA CrashIInv == ASSUME IInv, Crash \/ Redeliver PROVE IInv' /\ Kept
  <1>0. /\ TypeInv /\ ReinstallInv /\ SnippetInv
        /\ UNCHANGED <<guest, vol, refs, late, cmd, fresh, verified>>
    BY DEF IInv, Crash, Redeliver, pveVars, agentVars, lapseVars, reinstallVars
  <1>1. CASE Crash
    <2>1. /\ pc' = "down" /\ call' = Idle
          /\ stray' = IF call.st = "running" THEN stray \cup {call.op} ELSE stray
          /\ pc \notin {"done", "down"}
      BY <1>1 DEF Crash
    <2>2. TypeInv' /\ Kept
      BY <1>0, <2>1 DEF TypeInv, Kept, Idle
    <2>3. SnippetInv'
      BY <1>0, <2>1 DEF SnippetInv, SnippetSteps, SnippetLabels, Idle
    <2>4. ReinstallInv'
      <3> SUFFICES ASSUME cmd = "reinstall", ~late, ~verified PROVE ReinstallCore'
        BY <1>0 DEF ReinstallInv
      <3>1. ReinstallCore /\ stray \subseteq {"resize"}
        BY <1>0, <2>1 DEF ReinstallInv, ReinstallCore
      <3>2. call.st = "running" => SafeToRun(call.op)
        BY <3>1 DEF ReinstallCore, Holds, RequestOf, SafeToRun, OnTarget, OnClone, Idle
      <3>3. Holds(pc)'
        BY <1>0, <2>1, <3>1 DEF ReinstallCore, Holds, Original, Exists, OnTarget, OnClone, Ended
      <3>4. (\A op \in stray : SafeToRun(op))'
        BY <1>0, <2>1, <3>1, <3>2 DEF ReinstallCore, SafeToRun, Original
      <3>5. \A op \in stray' \ {"resize"} : stray' \subseteq {"resize", op}
        BY <2>1, <3>1
      <3> QED
        BY <2>1, <3>3, <3>4, <3>5 DEF ReinstallCore, Idle
    <2> QED
      BY <2>2, <2>3, <2>4 DEF IInv
  <1>2. CASE Redeliver
    <2>1. /\ pc = "down" /\ pc' \in {"received", "done"} /\ UNCHANGED <<call, stray>>
          /\ cmd = "reinstall" => pc' = "done"
      BY <1>2 DEF Redeliver, ReadCommands, lapseVars
    <2>2. TypeInv' /\ Kept
      BY <1>0, <2>1 DEF TypeInv, Kept
    <2>3. SnippetInv'
      BY <1>0, <2>1 DEF SnippetInv, SnippetSteps, SnippetLabels
    <2>4. ReinstallInv'
      BY <1>0, <2>1 DEF ReinstallInv, ReinstallCore, Holds, RequestOf, SafeToRun, Original,
                        Exists, OnTarget, OnClone, Ended
    <2> QED
      BY <2>2, <2>3, <2>4 DEF IInv
  <1> QED
    BY <1>1, <1>2

\* A task that outlived the agent takes effect, or fails without a trace.
LEMMA StraggleIInv == ASSUME IInv, Straggle PROVE IInv' /\ Kept
  <1>0. /\ TypeInv /\ ReinstallInv /\ SnippetInv
        /\ UNCHANGED <<pc, call, late, cmd, fresh, verified>>
    BY DEF IInv, Straggle, StrayEnds, reinstallVars
  <1>1. PICK op \in stray : /\ stray' = stray \ {op}
                            /\ (Possible(op) /\ Apply(op)) \/ UNCHANGED pveVars
    BY DEF Straggle, StrayEnds
  <1>2. CASE UNCHANGED pveVars
    <2>1. UNCHANGED <<guest, vol, refs>>
      BY <1>2 DEF pveVars
    <2>2. TypeInv' /\ Kept
      BY <1>0, <2>1 DEF TypeInv, Kept
    <2>3. SnippetInv'
      BY <1>0, <1>1, <2>1 DEF SnippetInv
    <2>4. ReinstallInv'
      BY <1>0, <1>1, <2>1 DEF ReinstallInv, ReinstallCore, Holds, RequestOf, SafeToRun,
         Original,
                              Exists
    <2> QED
      BY <2>2, <2>3, <2>4 DEF IInv
  <1>3. CASE Possible(op) /\ Apply(op)
    <2>1. /\ guest' \in Guests /\ DiskEffect(op) /\ vol' \in BOOLEAN /\ refs' \subseteq refs
          /\ vol /\ ~vol' => op = "delete_volume"
      BY <1>0, <1>3, ApplyEffect
    <2>2. TypeInv'
      BY <1>0, <2>1 DEF TypeInv
    <2>3. SnippetInv' /\ Kept
      BY <1>0, <1>1, <2>1 DEF SnippetInv, Kept
    <2>4. ReinstallInv'
      <3> SUFFICES ASSUME cmd = "reinstall", ~late, ~verified PROVE ReinstallCore'
        BY <1>0 DEF ReinstallInv
      <3>1. ReinstallCore /\ SafeToRun(op)
        BY <1>0, <1>1 DEF ReinstallInv, ReinstallCore
      <3>2. CASE op = "resize"
        <4>1. guest'["target"].disk = guest["target"].disk /\ guest'["temp"].disk = guest["temp"].disk
          BY <2>1, <3>2 DEF DiskEffect, TargetAfter, TempAfter
        <4> QED
          BY <1>0, <1>1, <3>1, <4>1 DEF ReinstallCore, Holds, RequestOf, SafeToRun, Original,
             Exists
      <3>3. CASE op # "resize"
        <4>1. pc \in {"done", "down"} /\ stray' \subseteq {"resize"}
          BY <1>1, <3>1, <3>3 DEF ReinstallCore
        <4>2. (Original("target") \/ Original("temp"))'
          BY <2>1, <3>1 DEF ReinstallCore, Holds, SafeToRun, Original, DiskEffect, TargetAfter,
                            TempAfter, Possible, Exists, Settings
        <4>3. Holds(pc)'
          BY <1>0, <4>1, <4>2 DEF Holds, OnTarget, OnClone, Ended
        <4> QED
          BY <1>0, <3>1, <4>1, <4>3 DEF ReinstallCore, SafeToRun, Ended, Idle
      <3> QED
        BY <3>2, <3>3
    <2> QED
      BY <2>2, <2>3, <2>4 DEF IInv
  <1> QED
    BY <1>1, <1>2, <1>3

\* The administrator changes a power state, takes the compensation VMID while
\* it is free, or makes guests use the snippet.
LEMMA AdministratorIInv == ASSUME IInv, Administrator PROVE IInv' /\ Kept
  <1>0. /\ TypeInv /\ ReinstallInv /\ SnippetInv
        /\ UNCHANGED <<pc, cmd, verified, call, stray, late, vol>>
    BY DEF IInv, Administrator, AdministratorSnippet, AdministratorGuest, reinstallVars
  <1>1. CASE cmd = "snippet_delete"
    <2>1. AdministratorSnippet
      BY <1>1 DEF Administrator
    <2>2. /\ UNCHANGED guest /\ refs' \subseteq {"target", "other"}
          /\ fresh' = fresh \cup (refs' \ refs)
      BY <1>0, <2>1 DEF AdministratorSnippet, TypeInv
    <2>3. TypeInv' /\ Kept
      BY <1>0, <2>2 DEF TypeInv, Kept
    <2>4. SnippetInv'
      BY <1>0, <2>2 DEF SnippetInv
    <2> QED
      BY <1>0, <1>1, <2>3, <2>4 DEF IInv, ReinstallInv
  <1>2. CASE cmd # "snippet_delete"
    <2>1. AdministratorGuest
      BY <1>2 DEF Administrator
    <2>2. ASSUME NEW a, NEW from, NEW to \in {"running", "stopped", "paused"},
                 SetsPower(a, from, to)
          PROVE  /\ guest' \in Guests
                 /\ guest'["target"].disk = guest["target"].disk
                 /\ guest'["temp"].disk = guest["temp"].disk
      BY <1>0, <2>2 DEF SetsPower, TypeInv, Guests, GuestRecord
    <2>3. CASE /\ ~Exists("temp")
               /\ guest' = [guest EXCEPT !["temp"] = Guest("foreign", "signed", "stopped")]
      <3>1. Guest("foreign", "signed", "stopped") \in GuestRecord
        BY DEF Guest, GuestRecord, Disks
      <3>2. guest' \in Guests /\ guest'["target"] = guest["target"]
        BY <1>0, <2>3, <3>1 DEF TypeInv, Guests
      <3>3. TypeInv' /\ Kept
        BY <1>0, <1>2, <2>1, <3>2 DEF TypeInv, Kept, AdministratorGuest
      <3>4. ReinstallInv'
        <4> SUFFICES ASSUME cmd = "reinstall", ~late, ~verified PROVE ReinstallCore'
          BY <1>0 DEF ReinstallInv
        <4>1. ReinstallCore /\ ~Original("temp")
          BY <1>0, <2>3 DEF ReinstallInv, Original, Exists
        <4> QED
          BY <1>0, <3>2, <4>1 DEF ReinstallCore, Holds, RequestOf, SafeToRun, Original, Exists
      <3> QED
        BY <1>0, <1>2, <3>3, <3>4 DEF IInv, SnippetInv
    <2>4. CASE /\ guest' \in Guests
               /\ guest'["target"].disk = guest["target"].disk
               /\ guest'["temp"].disk = guest["temp"].disk
      <3>1. TypeInv' /\ Kept
        BY <1>0, <1>2, <2>1, <2>4 DEF TypeInv, Kept, AdministratorGuest
      <3>2. ReinstallInv'
        BY <1>0, <2>4 DEF ReinstallInv, ReinstallCore, Holds, RequestOf, SafeToRun, Original,
           Exists
      <3> QED
        BY <1>0, <1>2, <3>1, <3>2 DEF IInv, SnippetInv
    <2> QED
      BY <2>1, <2>2, <2>3, <2>4 DEF AdministratorGuest
  <1> QED
    BY <1>1, <1>2

\* Reconciliation of a submitted deletion only reads the host.
LEMMA ReconcileIInv == ASSUME IInv, Reconcile PROVE IInv' /\ Kept
  <1>1. UNCHANGED <<pc, call, guest, vol, refs, stray, late, cmd, fresh, verified>>
    BY DEF Reconcile, reconciledSnippetDeleteReceipt, pveVars, lapseVars, reinstallVars
  <1> QED
    BY <1>1 DEF IInv, TypeInv, ReinstallInv, ReinstallCore, Holds, RequestOf, SafeToRun,
       Original,
                Exists, SnippetInv, Kept

\* Every step keeps the invariant and takes the snippet from nobody.
LEMMA NextIInv == IInv /\ [Next]_vars => IInv' /\ Kept
  <1> SUFFICES ASSUME IInv, [Next]_vars PROVE IInv' /\ Kept
    OBVIOUS
  <1>1. CASE Agent
    BY <1>1, ExecuteIInv, CommandIInv DEF Agent
  <1>2. CASE UNCHANGED vars
    BY <1>2 DEF vars, IInv, TypeInv, ReinstallInv, ReinstallCore, Holds, RequestOf, SafeToRun,
                Original, Exists, SnippetInv, Kept
  <1> QED
    BY <1>1, <1>2, PollIInv, CrashIInv, StraggleIInv, AdministratorIInv, ReconcileIInv DEF Next

\* IInv is an invariant of the executor.
LEMMA Invariance == Spec => []IInv
  BY InitIInv, NextIInv, PTL DEF Spec

-----------------------------------------------------------------------------
(* The properties.                                                         *)

\* A copy of the original disk exists until the replacement is verified, for
\* every number of failing requests, crashes and acts of the administrator
\* (the compensation boundary of executor_extended.go).
THEOREM OriginalKept == Spec => []OriginalSurvives
  <1>1. IInv => OriginalSurvives
    BY DEF IInv, ReinstallInv, ReinstallCore, Holds, Original, OriginalSurvives
  <1> QED
    BY <1>1, Invariance, PTL

\* When the snippet disappears from its storage, no guest uses it except one
\* that was made to after the target was read and detached (the last scan of
\* cloud_init_snippet.go), however often the command was resumed.
THEOREM SnippetNotTaken == Spec => NoDanglingReference
  <1>1. IInv /\ [Next]_vars =>
          [cmd = "snippet_delete" /\ vol /\ ~vol' => refs' \subseteq fresh']_<<vol, refs, fresh>>
    BY NextIInv DEF Kept
  <1> QED
    BY <1>1, Invariance, PTL DEF Spec, NoDanglingReference
=============================================================================
