--------------------------- MODULE BindingProofs ---------------------------
(***************************************************************************)
(* What holds of the two bindings for every number of requests, failed     *)
(* operations and crashes.                                                 *)
(*                                                                         *)
(* The inductive invariant has three parts: what is true of the files      *)
(* alone, so that it survives the death of any process; what the agent     *)
(* process has loaded of them; and what the running command may rely on at *)
(* each of its steps.                                                      *)
(***************************************************************************)
EXTENDS Binding, TLAPS

Counts == [Domain -> Nat]
Disks == [state : Counts, cfg : Counts, exec : BOOLEAN, pve : BOOLEAN, pend : Counts,
          commit : Counts, unbind : Counts, backup : Counts,
          assign : [gen : Nat, refreshed : BOOLEAN], authority : Nat]
Procs == [phase : {"down", "loading", "up", "refreshing"}, cfg : Counts, exec : BOOLEAN,
          pve : BOOLEAN, mem : Counts, assigned : Nat]

BindSteps == {"prepare", "ready", "collect", "unready", "unwind", "pending", "quiesce", "send",
              "unsent", "recover", "begin", "assign", "reset", "config", "save", "validate",
              "arm", "clear", "finish", "runtime", "activate"}
UnbindSteps == {"backup", "journal", "restart", "config", "remove", "arm", "activate", "confirm",
                "discard", "finish", "restore", "rewrite", "rearm", "unmark", "revive",
                "healthy", "forget"}
Steps == {"idle"} \cup BindSteps \cup UnbindSteps
Ops == [kind : {"none", "bind", "unbind"}, dom : Domain, pc : Steps, gen : Nat,
        retry : BOOLEAN, frozen : BOOLEAN, failed : BOOLEAN, cfg : Counts,
        exec : BOOLEAN, pve : BOOLEAN]

TypeInv ==
    /\ disk \in Disks
    /\ issued \in [Domain -> SUBSET Nat]
    /\ revoked \in [Domain -> SUBSET Nat]
    /\ svc \in {"started", "stopped"}
    /\ proc \in Procs
    /\ op \in Ops
    /\ marked \in Counts
    /\ orphaned \subseteq Domain

\* The files of one domain.  Outside a transaction configuration and private
\* state are of the newest generation recorded; a marker names it; under a
\* removal journal each is of that generation or gone.
Settled(d) ==
    /\ disk.commit[d] = 0 /\ disk.unbind[d] = 0 => disk.cfg[d] = disk.state[d]
    /\ disk.commit[d] = 0 => disk.state[d] \in {0, marked[d]}
    /\ disk.commit[d] # 0 =>
        /\ disk.commit[d] = marked[d]
        /\ disk.state[d] = disk.commit[d] => disk.cfg[d] = disk.state[d]
    /\ disk.unbind[d] # 0 =>
        /\ disk.unbind[d] = marked[d]
        /\ disk.cfg[d] \in {0, disk.unbind[d]} /\ disk.backup[d] \in {0, disk.unbind[d]}
        /\ disk.cfg[d] # 0 => disk.state[d] # 0
        /\ \A e \in Domain : disk.commit[e] = 0 /\ disk.pend[e] = 0

\* The assignments belong to the website's binding when it may be loaded.
AssignedTo(g) == disk.assign.gen = g /\ disk.authority \in {0, g}

DiskInv ==
    /\ \A d \in Domain : Settled(d)
    /\ disk.state["website"] # 0 /\ disk.commit["website"] \in {0, disk.state["website"]} =>
        AssignedTo(disk.state["website"])
    /\ disk.unbind["website"] # 0 => AssignedTo(disk.unbind["website"])
    /\ disk.exec => \A d \in Domain : disk.cfg[d] # 0

\* What the process has of one domain.
Holding(d) ==
    /\ \/ proc.cfg[d] \in {0, disk.cfg[d]}
       \/ disk.unbind[d] # 0 /\ proc.cfg[d] = disk.unbind[d]
    /\ Running =>
        /\ proc.mem[d] = proc.cfg[d]
        /\ proc.mem[d] # 0 => proc.mem[d] = disk.state[d] /\ proc.mem[d] = marked[d]
        /\ disk.commit[d] # 0 => d \in orphaned
        /\ disk.unbind[d] # 0 /\ disk.cfg[d] = 0 => proc.mem[d] = 0

ProcInv ==
    /\ proc.phase = "down" => proc = Down
    /\ proc.exec => \A d \in Domain : proc.cfg[d] # 0
    /\ proc.phase # "down" => \A d \in Domain : Holding(d)
    /\ Running /\ proc.mem["website"] # 0 => proc.assigned = proc.mem["website"]
    /\ proc.phase = "refreshing" => proc.mem["website"] # 0

BindInv ==
    LET d == op.dom  g == op.gen  o == Other(op.dom) IN
    /\ g # 0 /\ NoUnbindTransaction /\ disk.commit[o] = 0 /\ disk.pend[o] = 0
    /\ op.exec => \A e \in Domain : op.cfg[e] # 0
    /\ op.pc \in {"prepare", "ready", "collect", "unready", "unwind", "pending"} =>
        disk.cfg = op.cfg /\ disk.commit[d] = 0 /\ disk.pend[d] = 0 /\ ~op.frozen
    /\ op.pc \in {"quiesce", "send", "unsent"} => disk.pend[d] = g
    /\ op.pc \in {"quiesce", "send", "begin"} => (op.frozen <=> disk.commit[d] # 0)
    /\ op.pc \in {"send", "begin", "assign", "reset", "config", "save"} =>
        svc = "stopped" /\ proc = Down
    /\ op.pc \in {"begin", "assign", "reset", "config", "save", "validate", "arm", "clear"} =>
        disk.pend[d] \in {0, g}
    /\ op.pc \in {"finish", "runtime", "activate"} => disk.pend[d] = 0
    /\ op.pc \in {"assign", "reset", "config", "save", "validate", "arm", "clear", "finish"} =>
        disk.commit[d] = g
    /\ op.pc \in {"runtime", "activate"} => disk.commit[d] = 0
    /\ d = "website" /\ op.pc \in {"reset", "config", "save"} => disk.assign.gen = g
    /\ d = "website" /\ op.pc \in {"config", "save"} => disk.authority = 0
    /\ op.pc = "save" => disk.cfg[d] = g
    /\ op.pc \in {"arm", "clear", "finish", "runtime"} => disk.state[d] = g
    /\ op.pc = "unsent" /\ ~op.failed => g \notin issued[d]

Journaled == {"restart", "config", "remove", "arm", "activate", "confirm", "discard", "finish",
              "restore", "rewrite", "rearm", "unmark"}

UnbindInv ==
    LET d == op.dom  g == op.gen  o == Other(op.dom) IN
    /\ g # 0 /\ disk.unbind[o] = 0
    /\ \A e \in Domain : disk.commit[e] = 0 /\ disk.pend[e] = 0
    /\ op.exec => \A e \in Domain : op.cfg[e] # 0
    /\ op.cfg[o] = disk.cfg[o]
    /\ op.pc \in {"backup", "journal"} => disk.unbind[d] = 0 /\ disk.state[d] = g /\ ~op.retry
    /\ op.pc = "journal" => disk.backup[d] = g
    /\ op.pc \in Journaled => disk.unbind[d] = g
    /\ ~op.retry \/ op.pc \in {"restore", "rewrite", "rearm", "unmark"} => op.cfg[d] = g
    /\ op.pc \in {"remove", "arm", "activate", "confirm", "discard", "finish"} => disk.cfg[d] = 0
    /\ op.pc = "config" /\ Running => proc.mem[d] = 0
    /\ op.pc \in {"confirm", "discard", "finish"} => proc.cfg[d] = 0
    /\ op.pc \in {"arm", "activate", "confirm"} /\ ~op.failed => disk.state[d] = 0
    /\ op.pc \in {"discard", "finish"} => disk.state[d] = 0
    /\ op.pc \in {"rewrite", "rearm", "unmark"} => disk.state[d] = g
    /\ op.pc \in {"rearm", "unmark"} => disk.cfg[d] = g

OpInv ==
    /\ op.kind = "none" => op = Idle
    /\ op.kind = "bind" => BindInv
    /\ op.kind = "unbind" => UnbindInv

IInv == TypeInv /\ DiskInv /\ ProcInv /\ OpInv

-----------------------------------------------------------------------------
(***************************************************************************)
(* Types.                                                                  *)
(***************************************************************************)

\* The records that stand for "nothing".
LEMMA Blank == None \in Counts /\ Down \in Procs /\ Idle \in Ops
<1>1. None \in Counts
  BY DEF None, Counts
<1>2. Down \in Procs
  BY <1>1 DEF Down, Procs
<1>3. "website" \in Domain /\ "idle" \in Steps
  BY DEF Domain, Steps
<1>4. Idle \in Ops
  BY <1>1, <1>3 DEF Idle, Ops
<1> QED
  BY <1>1, <1>2, <1>4

\* A command only moves along its own steps.
LEMMA ThenType ==
    ASSUME TypeInv, NEW pc \in Steps
    PROVE  Then(pc) \in Ops
BY DEF TypeInv, Ops, Then

\* A durable operation keeps the types of what it writes.
LEMMA PersistType ==
    ASSUME TypeInv, NEW new \in Disks, NEW next \in Ops, NEW failure \in Ops,
           Persist(new, next, failure), orphaned' \subseteq Domain
    PROVE  TypeInv'
<1>1. disk' \in Disks /\ op' \in Ops
  BY DEF TypeInv, Persist
<1>2. marked' \in Counts
  BY <1>1 DEF TypeInv, Persist, Counts, Disks
<1> QED
  BY <1>1, <1>2 DEF TypeInv, Persist

\* A service operation keeps the types.
LEMMA SystemctlType ==
    ASSUME TypeInv, NEW wanted \in {"started", "stopped"}, NEW process \in Procs,
           NEW next \in Ops, NEW failure \in Ops,
           Systemctl(wanted, process, next, failure)
    PROVE  TypeInv'
BY DEF TypeInv, Systemctl

\* What a single replaced file leaves of the others.
LEMMA DiskType ==
    ASSUME TypeInv, NEW d \in Domain, NEW g \in Nat, NEW b \in BOOLEAN
    PROVE  /\ [disk EXCEPT !.state[d] = g] \in Disks
           /\ [disk EXCEPT !.pend[d] = g] \in Disks
           /\ [disk EXCEPT !.commit[d] = g] \in Disks
           /\ [disk EXCEPT !.unbind[d] = g] \in Disks
           /\ [disk EXCEPT !.backup[d] = g] \in Disks
           /\ [disk EXCEPT !.authority = g] \in Disks
           /\ Assigned(g, b) \in Disks
           /\ Unbound(d) \in Disks
           /\ Bound(d, g) \in Disks
           /\ Prepared \in Disks
<1>1. [disk EXCEPT !.state[d] = g] \in Disks
  BY DEF TypeInv, Disks, Counts
<1>2. [disk EXCEPT !.pend[d] = g] \in Disks
  BY DEF TypeInv, Disks, Counts
<1>3. [disk EXCEPT !.commit[d] = g] \in Disks
  BY DEF TypeInv, Disks, Counts
<1>4. [disk EXCEPT !.unbind[d] = g] \in Disks
  BY DEF TypeInv, Disks, Counts
<1>5. [disk EXCEPT !.backup[d] = g] \in Disks
  BY DEF TypeInv, Disks, Counts
<1>6. [disk EXCEPT !.authority = g] \in Disks
  BY DEF TypeInv, Disks
<1>7. Assigned(g, b) \in Disks
  BY DEF TypeInv, Disks, Assigned
<1>8. Unbound(d) \in Disks
  BY DEF TypeInv, Disks, Counts, Unbound
<1>9. ASSUME NEW cfg, NEW e PROVE AutoEnable(cfg, e) \in BOOLEAN
  BY DEF AutoEnable
<1>10. Bound(d, g) \in Disks
  <2> DEFINE cfg == IF d = "website" THEN WebsiteBound(g) ELSE MonitoringBound(g)
  <2>1. cfg \in Counts
    BY DEF TypeInv, Disks, Counts, WebsiteBound, MonitoringBound, Domain
  <2>2. AutoEnable(cfg, d) \in BOOLEAN
    BY <1>9
  <2>3. Bound(d, g) = [disk EXCEPT !.cfg = cfg, !.exec = AutoEnable(cfg, d)]
    BY DEF Bound
  <2> HIDE DEF cfg
  <2> QED
    BY <2>1, <2>2, <2>3 DEF TypeInv, Disks
<1>11. Prepared \in Disks
  <2>1. AutoEnable(disk.cfg, "none") \in BOOLEAN
    BY <1>9
  <2> QED
    BY <2>1 DEF TypeInv, Disks, Prepared
<1> QED
  BY <1>1, <1>2, <1>3, <1>4, <1>5, <1>6, <1>7, <1>8, <1>10, <1>11

\* The steps of the agent process keep the types.
LEMMA AgentType == TypeInv /\ AgentNext => TypeInv'
<1> SUFFICES ASSUME TypeInv, AgentNext PROVE TypeInv'
  OBVIOUS
<1>1. CASE LoadFile
  BY <1>1, Blank DEF LoadFile, TypeInv, Procs, Disks
<1>2. CASE Resolve
  <2>1. Loaded \in Procs
    <3>1. ApplyWebsite \in Nat /\ ApplyMonitoring \in Nat /\ LoadAssignments \in Nat
      BY DEF TypeInv, Disks, Counts, Domain, ApplyWebsite, ApplyMonitoring, LoadAssignments
    <3>2. [website |-> ApplyWebsite, monitoring |-> ApplyMonitoring] \in Counts
      BY <3>1 DEF Counts, Domain
    <3> QED
      BY <3>1, <3>2 DEF Loaded, TypeInv, Procs
  <2> QED
    BY <1>2, <2>1, Blank DEF Resolve, TypeInv
<1>3. CASE SaveAuthority
  <2>1. Fetched \in Nat
    BY DEF TypeInv, Procs, Counts, Domain, Fetched
  <2>2. Authorized(Fetched) \in Disks
    BY <2>1 DEF TypeInv, Disks, Authorized
  <2> QED
    BY <1>3, <2>1, <2>2 DEF SaveAuthority, TypeInv, Procs
<1>4. CASE WriteAssignment
  <2>1. Fetched \in Nat
    BY DEF TypeInv, Procs, Counts, Domain, Fetched
  <2>2. Assigned(Fetched, TRUE) \in Disks
    BY <2>1 DEF TypeInv, Disks, Assigned
  <2> QED
    BY <1>4, <2>2 DEF WriteAssignment, TypeInv, Procs
<1>5. CASE AgentCrash
  BY <1>5, Blank DEF AgentCrash, TypeInv
<1> QED
  BY <1>1, <1>2, <1>3, <1>4, <1>5 DEF AgentNext

\* The steps of a bind keep the types.
LEMMA BindType == TypeInv /\ BindNext => TypeInv'
<1> SUFFICES ASSUME TypeInv, BindNext PROVE TypeInv'
  OBVIOUS
<1>0. /\ op.dom \in Domain /\ op.gen \in Nat /\ 0 \in Nat
      /\ \A pc \in Steps : Then(pc) \in Ops
  BY ThenType DEF TypeInv, Ops
<1>1. CASE Prepare
  BY <1>1, <1>0, DiskType, PersistType, Blank DEF Prepare, Steps, BindSteps, UnbindSteps,
     TypeInv
<1>2. CASE Unprepared
  BY <1>2, <1>0, Blank DEF Unprepared, Steps, BindSteps, UnbindSteps, TypeInv
<1>3. CASE Ready
  BY <1>3, <1>0, SystemctlType, Blank DEF Ready, Restart, Stop, Arm, Steps, BindSteps,
     UnbindSteps, TypeInv
<1>4. CASE Collect
  BY <1>4, <1>0, Blank DEF Collect, Steps, BindSteps, UnbindSteps, TypeInv
<1>5. CASE Unready
  <2>1. [disk EXCEPT !.pve = op.pve, !.exec = op.exec] \in Disks
    BY DEF TypeInv, Disks, Ops
  <2> QED
    BY <1>5, <2>1, <1>0, PersistType, Blank DEF Unready, Steps, BindSteps, TypeInv
<1>6. CASE Unwind
  BY <1>6, <1>0, SystemctlType, Blank DEF Unwind, Restart, Stop, Arm, Steps, BindSteps,
     UnbindSteps, TypeInv
<1>7. CASE PreparePending
  BY <1>7, <1>0, DiskType, PersistType, Blank DEF PreparePending, Steps, BindSteps, UnbindSteps,
     TypeInv
<1>8. CASE Quiesce
  <2>1. [Then("unsent") EXCEPT !.failed = TRUE] \in Ops
    BY DEF TypeInv, Steps, BindSteps, Ops, Then
  <2> QED
    BY <1>8, <2>1, <1>0, SystemctlType, Blank DEF Quiesce, Stop, Steps, BindSteps
<1>9. CASE Send
  <2>1. op' \in Ops
    BY <1>9, <1>0, Blank DEF Send, WebsiteAnswers, MonitoringAnswers, NoAnswer, Rejected, Steps,
       BindSteps
  <2>2. issued' \in [Domain -> SUBSET Nat]
    BY <1>9, <1>0 DEF Send, Accepted, TypeInv
  <2> QED
    BY <1>9, <2>1, <2>2 DEF Send, TypeInv
<1>10. CASE Unsent
  <2>1. orphaned' \subseteq Domain
    BY <1>10, <1>0 DEF Unsent, TypeInv
  <2> QED
    BY <1>10, <2>1, <1>0, DiskType, PersistType, Blank DEF Unsent, Steps, BindSteps
<1>11. CASE Recover
  BY <1>11, <1>0, SystemctlType, Blank DEF Recover, Restart, Stop, Arm, Steps, BindSteps,
     UnbindSteps, TypeInv
<1>12. CASE BeginCommit
  BY <1>12, <1>0, DiskType, PersistType, Blank DEF BeginCommit, Steps, BindSteps, UnbindSteps,
     TypeInv
<1>13. CASE WriteInitialAssignment
  BY <1>13, <1>0, DiskType, PersistType, Blank DEF WriteInitialAssignment, Steps, BindSteps,
     UnbindSteps, TypeInv
<1>14. CASE ResetAuthority
  BY <1>14, <1>0, DiskType, PersistType, Blank DEF ResetAuthority, Steps, BindSteps,
     UnbindSteps, TypeInv
<1>15. CASE WriteConfig
  BY <1>15, <1>0, DiskType, PersistType, Blank DEF WriteConfig, Steps, BindSteps, UnbindSteps,
     TypeInv
<1>16. CASE SaveState
  BY <1>16, <1>0, DiskType, PersistType, Blank DEF SaveState, Steps, BindSteps, UnbindSteps,
     TypeInv
<1>17. CASE Validate
  BY <1>17, <1>0, Blank DEF Validate, Steps, BindSteps, UnbindSteps, TypeInv
<1>18. CASE ArmBound
  BY <1>18, <1>0, SystemctlType, Blank DEF ArmBound, Restart, Stop, Arm, Steps, BindSteps,
     UnbindSteps, TypeInv
<1>19. CASE ClearPending
  BY <1>19, <1>0, DiskType, PersistType, Blank DEF ClearPending, Steps, BindSteps, UnbindSteps,
     TypeInv
<1>20. CASE FinishCommit
  BY <1>20, <1>0, DiskType, PersistType, Blank DEF FinishCommit, Steps, BindSteps, UnbindSteps,
     TypeInv
<1>21. CASE Runtime
  BY <1>21, <1>0, DiskType, PersistType, Blank DEF Runtime, Steps, BindSteps, UnbindSteps,
     TypeInv
<1>22. CASE Activate
  BY <1>22, <1>0, SystemctlType, Blank DEF Activate, Restart, Stop, Arm, Steps, BindSteps,
     UnbindSteps, TypeInv
<1> QED
  BY <1>1, <1>2, <1>3, <1>4, <1>5, <1>6, <1>7, <1>8, <1>9, <1>10, <1>11, <1>12, <1>13, <1>14,
     <1>15, <1>16, <1>17, <1>18, <1>19, <1>20, <1>21, <1>22 DEF BindNext

\* The steps of a removal keep the types.
LEMMA UnbindType == TypeInv /\ UnbindNext => TypeInv'
<1> SUFFICES ASSUME TypeInv, UnbindNext PROVE TypeInv'
  OBVIOUS
<1>0. /\ op.dom \in Domain /\ op.gen \in Nat /\ 0 \in Nat
      /\ \A pc \in Steps : Then(pc) \in Ops
  BY ThenType DEF TypeInv, Ops
<1>1. CASE BackupState
  BY <1>1, <1>0, DiskType, PersistType, Blank DEF BackupState, Steps, BindSteps, UnbindSteps,
     TypeInv
<1>2. CASE BeginUnbind
  BY <1>2, <1>0, DiskType, PersistType, Blank DEF BeginUnbind, Steps, BindSteps, UnbindSteps,
     TypeInv
<1>3. CASE RestartForUnbind
  BY <1>3, <1>0, SystemctlType, Blank DEF RestartForUnbind, Restart, Stop, Arm, Steps,
     BindSteps, UnbindSteps, TypeInv, Undo
<1>4. CASE DisableConfig
  BY <1>4, <1>0, DiskType, PersistType, Blank DEF DisableConfig, Steps, BindSteps, UnbindSteps,
     TypeInv, Undo
<1>5. CASE RemoveState
  <2>1. [op EXCEPT !.pc = "arm", !.failed = TRUE] \in Ops
    BY DEF TypeInv, Ops, Steps, BindSteps
  <2> QED
    BY <1>5, <2>1, <1>0, DiskType, PersistType, Blank DEF RemoveState, Undo, Steps, UnbindSteps,
       TypeInv
<1>6. CASE ArmUnbound
  BY <1>6, <1>0, SystemctlType, Blank DEF ArmUnbound, Restart, Stop, Arm, Steps, BindSteps,
     UnbindSteps, TypeInv, Undo
<1>7. CASE ActivateUnbound
  BY <1>7, <1>0, SystemctlType, Blank DEF ActivateUnbound, Restart, Stop, Arm, Steps, BindSteps,
     UnbindSteps, TypeInv, Undo
<1>8. CASE Confirm
  BY <1>8, <1>0, Blank DEF Confirm, Steps, BindSteps, UnbindSteps, TypeInv, Undo
<1>9. CASE DiscardBackup
  BY <1>9, <1>0, DiskType, PersistType, Blank DEF DiscardBackup, Steps, BindSteps, UnbindSteps,
     TypeInv
<1>10. CASE FinishUnbind
  BY <1>10, <1>0, DiskType, PersistType, Blank DEF FinishUnbind, Steps, BindSteps, UnbindSteps,
     TypeInv
<1>11. CASE RestoreState
  <2>1. disk.backup[op.dom] \in Nat
    BY <1>0 DEF TypeInv, Disks, Counts
  <2>2. [disk EXCEPT !.state[op.dom] = disk.backup[op.dom]] \in Disks
    BY <2>1, <1>0, DiskType
  <2> QED
    BY <1>11, <2>2, <1>0, PersistType, Blank DEF RestoreState, Steps, UnbindSteps, TypeInv
<1>12. CASE RestoreConfig
  <2>1. [disk EXCEPT !.cfg = op.cfg, !.exec = op.exec] \in Disks
    BY DEF TypeInv, Disks, Ops
  <2> QED
    BY <1>12, <2>1, <1>0, PersistType, Blank DEF RestoreConfig, Steps, UnbindSteps, TypeInv
<1>13. CASE ArmRestored
  BY <1>13, <1>0, SystemctlType, Blank DEF ArmRestored, Restart, Stop, Arm, Steps, BindSteps,
     UnbindSteps, TypeInv
<1>14. CASE FinishRollback
  BY <1>14, <1>0, DiskType, PersistType, Blank DEF FinishRollback, Steps, BindSteps,
     UnbindSteps, TypeInv
<1>15. CASE RecoverRestored
  BY <1>15, <1>0, SystemctlType, Blank DEF RecoverRestored, Restart, Stop, Arm, Steps,
     BindSteps, UnbindSteps, TypeInv
<1>16. CASE ConfirmRestored
  BY <1>16, <1>0, Blank DEF ConfirmRestored, Steps, BindSteps, UnbindSteps, TypeInv
<1>17. CASE ForgetBackup
  BY <1>17, <1>0, DiskType, PersistType, Blank DEF ForgetBackup, Steps, BindSteps, UnbindSteps,
     TypeInv
<1> QED
  BY <1>1, <1>2, <1>3, <1>4, <1>5, <1>6, <1>7, <1>8, <1>9, <1>10, <1>11, <1>12, <1>13, <1>14,
     <1>15, <1>16, <1>17 DEF UnbindNext

\* A command starts with well-typed copies of what it has read.
LEMMA CommandType ==
    ASSUME TypeInv, NEW kind \in {"bind", "unbind"}, NEW d \in Domain, NEW pc \in Steps,
           NEW g \in Nat
    PROVE  Command(kind, d, pc, g) \in Ops
<1>1. disk.cfg \in Counts /\ disk.exec \in BOOLEAN /\ disk.pve \in BOOLEAN
  BY DEF TypeInv, Disks
<1>2. Committing(d) \in BOOLEAN /\ Requested(d) \in BOOLEAN
  BY DEF Committing, Requested
<1> QED
  BY <1>1, <1>2, Blank DEF Command, Ops

\* The operator, the crash of the command and the reboot keep the types.
LEMMA OperatorType ==
    ASSUME TypeInv, NEW d \in Domain,
           Bind(d) \/ Unbind(d) \/ Revoke(d) \/ DiscardPending(d) \/ CommandCrash \/ Reboot
    PROVE  TypeInv'
<1>0. /\ disk.commit[d] \in Nat /\ disk.pend[d] \in Nat
      /\ disk.unbind[d] \in Nat /\ disk.state[d] \in Nat
  BY DEF TypeInv, Disks, Counts
<1>1. CASE Bind(d)
  <2>1. op' \in Ops
    <3>1. CASE CompleteCommit(d)
      BY <3>1, <1>0, CommandType DEF CompleteCommit, Steps, BindSteps
    <3>2. CASE RetryRequest(d)
      BY <3>2, <1>0, CommandType DEF RetryRequest, Steps, BindSteps
    <3>3. CASE NewRequest(d)
      <4>1. PICK g \in Requests(d) : op' = Command("bind", d, "prepare", g)
        BY <3>3 DEF NewRequest
      <4>2. g \in Nat
        BY BindingAssumption DEF Requests
      <4> QED
        BY <4>1, <4>2, CommandType DEF Steps, BindSteps
    <3> QED
      BY <1>1, <3>1, <3>2, <3>3 DEF Bind
  <2> QED
    BY <1>1, <2>1 DEF Bind, TypeInv
<1>2. CASE Unbind(d)
  <2>1. op' \in Ops
    <3>1. CASE ResumeUnbind(d)
      <4> DEFINE pc == IF disk.cfg[d] # 0 THEN "restore" ELSE "remove"
      <4>1. pc \in Steps
        BY DEF Steps, UnbindSteps
      <4>2. Command("unbind", d, pc, disk.unbind[d]) \in Ops
        BY <4>1, <1>0, CommandType
      <4>3. op' = [Command("unbind", d, pc, disk.unbind[d]) EXCEPT !.retry = TRUE]
        BY <3>1 DEF ResumeUnbind
      <4> HIDE DEF pc
      <4> QED
        BY <4>2, <4>3 DEF Ops
    <3>2. CASE RemoveBinding(d)
      BY <3>2, <1>0, CommandType DEF RemoveBinding, Steps, UnbindSteps
    <3> QED
      BY <1>2, <3>1, <3>2 DEF Unbind
  <2> QED
    BY <1>2, <2>1 DEF Unbind, TypeInv
<1>3. CASE Revoke(d)
  BY <1>3, <1>0 DEF Revoke, TypeInv
<1>4. CASE DiscardPending(d)
  BY <1>4, DiskType, PersistType, Blank DEF DiscardPending, TypeInv
<1>5. CASE CommandCrash \/ Reboot
  BY <1>5, Blank DEF CommandCrash, Reboot, TypeInv
<1> QED
  BY <1>1, <1>2, <1>3, <1>4, <1>5

-----------------------------------------------------------------------------
(***************************************************************************)
(* The invariant: what every step may use.                                 *)
(***************************************************************************)

\* The files on disk are what they were.
LEMMA FilesKept ==
    ASSUME DiskInv, disk' = disk, marked' = marked
    PROVE  DiskInv'
BY DEF DiskInv, Settled, AssignedTo

\* Neither the files nor the process that loaded them have changed.
LEMMA LoadedKept ==
    ASSUME ProcInv, disk' = disk, marked' = marked, proc' = proc, orphaned \subseteq orphaned'
    PROVE  ProcInv'
BY DEF ProcInv, Holding, Running

\* A process that is gone holds nothing.
LEMMA LoadedNothing ==
    ASSUME proc' = Down
    PROVE  ProcInv'
BY DEF ProcInv, Down, Running

\* A command that has ended relies on nothing.
LEMMA Ended ==
    ASSUME op' = Idle
    PROVE  OpInv'
BY DEF OpInv, Idle

\* A durable operation: either the file is as it was and the command takes its
\* error path, or the file has been replaced and the command takes either one.
LEMMA PersistCases ==
    ASSUME TypeInv, DiskInv, NEW new \in Disks, NEW next, NEW failure,
           Persist(new, next, failure)
    PROVE  /\ UNCHANGED <<issued, revoked, svc, proc, crashes>>
           /\ \/ disk' = disk /\ op' = failure /\ marked' = marked
              \/ /\ disk' = new
                 /\ op' \in {next, failure}
                 /\ new.commit = disk.commit => marked' = marked
                 /\ \A d \in Domain : marked'[d] = IF new.commit[d] # 0 THEN new.commit[d]
                                                                       ELSE marked[d]
<1>1. UNCHANGED <<issued, revoked, svc, proc, crashes>>
  BY DEF Persist
<1>2. /\ \/ disk' = new /\ op' = next
         \/ disk' \in {disk, new} /\ op' = failure
      /\ marked' = [d \in Domain |-> IF disk'.commit[d] # 0 THEN disk'.commit[d]
                                                            ELSE marked[d]]
  BY DEF Persist
<1>3. disk'.commit = disk.commit => marked' = marked
  <2> SUFFICES ASSUME disk'.commit = disk.commit PROVE marked' = marked
    OBVIOUS
  <2>1. \A d \in Domain : disk.commit[d] # 0 => disk.commit[d] = marked[d]
    BY DEF DiskInv, Settled
  <2> QED
    BY <1>2, <2>1 DEF TypeInv, Counts
<1> QED
  BY <1>1, <1>2, <1>3

\* The initial states satisfy the invariant.
LEMMA InitIInv == Init => IInv
<1> SUFFICES ASSUME Init PROVE IInv
  OBVIOUS
<1>1. TypeInv
  BY Blank DEF Init, TypeInv, Disks, NoAssignment
<1>2. DiskInv
  BY DEF Init, DiskInv, Settled, AssignedTo, None, Domain
<1>3. ProcInv
  BY DEF Init, ProcInv, Down, Running
<1>4. OpInv
  BY DEF Init, OpInv, Idle
<1> QED
  BY <1>1, <1>2, <1>3, <1>4 DEF IInv

-----------------------------------------------------------------------------
(***************************************************************************)
(* The agent process.                                                      *)
(***************************************************************************)

\* Loading the configuration file.
LEMMA LoadFileStep == IInv /\ LoadFile => IInv'
<1> SUFFICES ASSUME IInv, LoadFile PROVE IInv'
  OBVIOUS
<1>1. TypeInv'
  BY AgentType DEF IInv, AgentNext
<1>2. DiskInv'
  BY FilesKept DEF IInv, LoadFile
<1>3. /\ proc'.phase = "loading" /\ proc'.cfg = disk.cfg /\ proc'.exec = disk.exec
      /\ disk' = disk
  BY DEF LoadFile, Down
<1>4. ProcInv'
  BY <1>3 DEF IInv, DiskInv, ProcInv, Holding, Running
<1>5. OpInv'
  BY <1>3 DEF IInv, LoadFile, TypeInv, OpInv, BindInv, UnbindInv, Running, NoUnbindTransaction,
     Removing
<1> QED
  BY <1>1, <1>2, <1>4, <1>5 DEF IInv

\* The overlay resolves what the process has read against the files.
LEMMA ResolveStep == IInv /\ Resolve => IInv'
<1> SUFFICES ASSUME IInv, Resolve PROVE IInv'
  OBVIOUS
<1>1. TypeInv'
  BY AgentType DEF IInv, AgentNext
<1>2. DiskInv'
  BY FilesKept DEF IInv, Resolve
<1>3. CASE proc' = Down
  <2>1. OpInv'
    BY <1>3 DEF IInv, Resolve, OpInv, BindInv, UnbindInv, Running, NoUnbindTransaction,
       Removing, Down, None, TypeInv, Ops
  <2> QED
    BY <1>1, <1>2, <1>3, <2>1, LoadedNothing DEF IInv
<1>4. CASE proc' # Down
  <2>1. /\ Resolves(proc.cfg) /\ AuthorityInScope /\ proc.phase = "loading"
        /\ proc' = Loaded /\ disk' = disk /\ op' = op /\ marked' = marked
        /\ orphaned' = orphaned /\ svc' = svc /\ issued' = issued
    BY <1>4 DEF Resolve
  <2>2. /\ proc'.phase = "up" /\ proc'.cfg = proc.cfg /\ proc'.exec = proc.exec
        /\ proc'.mem["website"] = ApplyWebsite
        /\ proc'.mem["monitoring"] = ApplyMonitoring
        /\ proc'.assigned = LoadAssignments
    BY <2>1 DEF Loaded, IInv, TypeInv, Procs
  <2>3. \A d \in Domain : proc'.mem[d] = IF proc.cfg[d] = 0 THEN 0 ELSE disk.state[d]
    BY <2>2 DEF Domain, ApplyWebsite, ApplyMonitoring
  <2>4. ASSUME NEW d \in Domain PROVE Holding(d)'
    BY <2>1, <2>2, <2>3 DEF IInv, TypeInv, Disks, Counts, ProcInv, Holding, Running, Resolves,
       Committing, Removing, Stored, DiskInv, Settled
  <2>5. ProcInv'
    BY <2>1, <2>2, <2>3, <2>4 DEF IInv, ProcInv, DiskInv, AssignedTo, Running, Resolves,
       Committing, LoadAssignments, AuthorityInScope, Domain, Stored
  <2>6. op.kind = "bind" => BindInv'
    BY <2>1 DEF IInv, OpInv, BindInv, Down, NoUnbindTransaction, Removing
  <2>7. op.kind = "unbind" => UnbindInv'
    BY <2>1, <2>2, <2>3 DEF IInv, TypeInv, Ops, OpInv, UnbindInv, Journaled, Resolves, Removing
  <2>8. OpInv'
    BY <2>1, <2>6, <2>7 DEF IInv, OpInv
  <2> QED
    BY <1>1, <1>2, <2>5, <2>8 DEF IInv
<1> QED
  BY <1>3, <1>4

\* Saving the refreshed authority, then the file other readers use.
LEMMA RefreshStep == IInv /\ (SaveAuthority \/ WriteAssignment) => IInv'
<1> SUFFICES ASSUME IInv, SaveAuthority \/ WriteAssignment PROVE IInv'
  OBVIOUS
<1>1. TypeInv'
  BY AgentType DEF IInv, AgentNext
<1>2. /\ Running /\ Running' /\ proc'.cfg = proc.cfg /\ proc'.exec = proc.exec
      /\ proc'.mem = proc.mem /\ proc'.assigned \in {proc.assigned, proc.mem["website"]}
      /\ disk'.state = disk.state /\ disk'.cfg = disk.cfg /\ disk'.exec = disk.exec
      /\ disk'.pend = disk.pend /\ disk'.commit = disk.commit /\ disk'.unbind = disk.unbind
      /\ disk'.backup = disk.backup
      /\ disk'.assign.gen \in {disk.assign.gen, proc.mem["website"]}
      /\ disk'.authority \in {disk.authority, proc.mem["website"]}
      /\ UNCHANGED <<issued, revoked, svc, op, orphaned, marked>>
      /\ proc.mem["website"] # 0
  <2>1. CASE SaveAuthority
    BY <2>1 DEF IInv, TypeInv, Disks, Procs, SaveAuthority, Authorized, Fetched, Running
  <2>2. CASE WriteAssignment
    BY <2>2 DEF IInv, TypeInv, ProcInv, Disks, Procs, WriteAssignment, Assigned, Fetched,
       Running
  <2> QED
    BY <2>1, <2>2
<1>3. proc.mem["website"] = marked["website"] /\ proc.mem["website"] = disk.state["website"]
  BY <1>2 DEF IInv, ProcInv, Holding, Running, Domain
<1>4. DiskInv'
  BY <1>2, <1>3 DEF IInv, DiskInv, Settled, AssignedTo, Domain
<1>5. ProcInv'
  BY <1>2 DEF IInv, ProcInv, Holding, Running, Down
<1>6. OpInv'
  BY <1>2 DEF IInv, OpInv, BindInv, UnbindInv, Running, Down, NoUnbindTransaction, Removing
<1> QED
  BY <1>1, <1>4, <1>5, <1>6 DEF IInv

\* A crash of the agent.
LEMMA AgentCrashStep == IInv /\ AgentCrash => IInv'
<1> SUFFICES ASSUME IInv, AgentCrash PROVE IInv'
  OBVIOUS
<1>1. TypeInv'
  BY AgentType DEF IInv, AgentNext
<1>2. DiskInv' /\ ProcInv'
  BY FilesKept, LoadedNothing DEF IInv, AgentCrash
<1>3. OpInv'
  BY DEF IInv, TypeInv, Ops, AgentCrash, OpInv, BindInv, UnbindInv, Running, Down, None,
     NoUnbindTransaction, Removing
<1> QED
  BY <1>1, <1>2, <1>3 DEF IInv

-----------------------------------------------------------------------------
(***************************************************************************)
(* Steps of a command: what they share.                                    *)
(***************************************************************************)

\* There are two domains.
LEMMA OtherDomain ==
    ASSUME NEW d \in Domain
    PROVE  Other(d) \in Domain /\ Other(d) # d /\ \A e \in Domain : e = d \/ e = Other(d)
BY DEF Domain, Other

\* Going on to a next step changes nothing else of the command.
LEMMA ThenFields ==
    ASSUME TypeInv, NEW pc
    PROVE  /\ Then(pc).kind = op.kind /\ Then(pc).dom = op.dom /\ Then(pc).pc = pc
           /\ Then(pc).gen = op.gen /\ Then(pc).retry = op.retry
           /\ Then(pc).frozen = op.frozen /\ Then(pc).failed = op.failed
           /\ Then(pc).cfg = op.cfg /\ Then(pc).exec = op.exec /\ Then(pc).pve = op.pve
BY DEF TypeInv, Ops, Then

\* The outcome of a durable operation that replaced the file.
Written(new) ==
    /\ disk' = new
    /\ UNCHANGED <<issued, revoked, svc, proc, crashes>>
    /\ new.commit = disk.commit => marked' = marked
    /\ \A d \in Domain : marked'[d] = IF new.commit[d] # 0 THEN new.commit[d] ELSE marked[d]

\* A durable operation whose failure ends the command keeps the invariant if
\* the replaced file fits the others, the process that has loaded them, and
\* what the next step relies on.
LEMMA WriteStep ==
    ASSUME IInv, TypeInv', NEW new \in Disks, NEW next, Persist(new, next, Idle),
           orphaned \subseteq orphaned',
           Written(new) => DiskInv',
           Written(new) => ProcInv',
           Written(new) /\ op' = next => OpInv'
    PROVE  IInv'
<1>1. /\ UNCHANGED <<issued, revoked, svc, proc, crashes>>
      /\ \/ disk' = disk /\ op' = Idle /\ marked' = marked
         \/ Written(new) /\ op' \in {next, Idle}
  BY PersistCases DEF IInv, Written
<1>2. CASE disk' = disk /\ op' = Idle /\ marked' = marked
  BY <1>1, <1>2, FilesKept, LoadedKept, Ended DEF IInv
<1>3. CASE Written(new) /\ op' \in {next, Idle}
  BY <1>3, Ended DEF IInv
<1> QED
  BY <1>1, <1>2, <1>3

\* A service operation changes no file, and the process stays or is replaced.
LEMMA ServiceStep ==
    ASSUME IInv, TypeInv', NEW wanted, NEW process \in {Down, proc}, NEW next, NEW failure,
           Systemctl(wanted, process, next, failure), OpInv'
    PROVE  IInv'
<1>1. disk' = disk /\ marked' = marked /\ proc' \in {Down, proc} /\ orphaned' = orphaned
  BY DEF Systemctl
<1> QED
  BY <1>1, FilesKept, LoadedKept, LoadedNothing DEF IInv

\* A step that only looks at the files and the process.
LEMMA LookStep ==
    ASSUME IInv, TypeInv', UNCHANGED <<disk, proc, orphaned, marked>>, OpInv'
    PROVE  IInv'
BY FilesKept, LoadedKept DEF IInv

-----------------------------------------------------------------------------
(***************************************************************************)
(* bind: the real source is prepared, the request made durable and sent.   *)
(***************************************************************************)

\* The real PVE source is written to the configuration.
LEMMA PrepareStep == IInv /\ Prepare => IInv'
<1> SUFFICES ASSUME IInv, Prepare PROVE IInv'
  OBVIOUS
<1>0. TypeInv'
  BY BindType DEF IInv, BindNext
<1>1. /\ op.kind = "bind" /\ op.pc = "prepare" /\ BindInv /\ TypeInv /\ DiskInv /\ ProcInv
      /\ op.dom \in Domain /\ op.gen \in Nat /\ Other(op.dom) \in Domain /\ Other(op.dom) # op.dom
      /\ \A e \in Domain : e = op.dom \/ e = Other(op.dom)
  BY OtherDomain DEF IInv, Prepare, At, OpInv, TypeInv, Ops
<1> DEFINE new == Prepared
<1>2. new \in Disks
  BY <1>1, DiskType DEF TypeInv, Ops
<1>3. ASSUME Written(new)
      PROVE  /\ UNCHANGED <<issued, revoked, svc, proc>>
             /\ disk'.state = disk.state /\ disk'.cfg = disk.cfg
             /\ disk'.exec = AutoEnable(disk.cfg, "none") /\ disk'.pend = disk.pend
             /\ disk'.commit = disk.commit /\ disk'.unbind = disk.unbind
             /\ disk'.backup = disk.backup /\ disk'.assign = disk.assign
             /\ disk'.authority = disk.authority
  BY <1>1, <1>3 DEF Written, TypeInv, Disks, Counts, Prepared
<1>4. Persist(new, Then("ready"), Idle) /\ orphaned \subseteq orphaned'
  BY DEF Prepare
<1> HIDE DEF new
<1>5. ASSUME Written(new) PROVE DiskInv'
  <2>1. ASSUME NEW d \in Domain PROVE Settled(d)'
    BY <1>1, <1>3, <1>5 DEF BindInv, NoUnbindTransaction, Removing, DiskInv, Settled, Written,
       TypeInv, Disks, Counts
  <2> QED
    BY <1>1, <1>3, <1>5, <2>1 DEF BindInv, NoUnbindTransaction, Removing, DiskInv, AssignedTo,
       Written, TypeInv, Disks, Counts, Domain, AutoEnable
<1>6. ASSUME Written(new) PROVE ProcInv'
  <2>1. ASSUME NEW d \in Domain, proc.phase # "down" PROVE Holding(d)'
    BY <1>1, <1>3, <1>4, <1>6, <2>1 DEF BindInv, NoUnbindTransaction, Removing, ProcInv,
       Holding, Running, DiskInv, Settled, Written, TypeInv, Disks, Counts
  <2> QED
    BY <1>1, <1>3, <1>6, <2>1 DEF ProcInv, Running
<1>7. ASSUME Written(new), op' = Then("ready") PROVE OpInv'
  <2>1. BindInv'
    BY <1>1, <1>3, <1>7, ThenFields DEF BindInv, NoUnbindTransaction, Removing, Running,
       TypeInv, Disks, Counts, DiskInv, Settled
  <2> QED
    BY <1>1, <1>7, <2>1, ThenFields DEF OpInv
<1> QED
  BY <1>0, <1>2, <1>4, <1>5, <1>6, <1>7, WriteStep

\* A failed probe ends the command.
LEMMA UnpreparedStep == IInv /\ Unprepared => IInv'
<1> SUFFICES ASSUME IInv, Unprepared PROVE IInv'
  OBVIOUS
<1>0. TypeInv'
  BY BindType DEF IInv, BindNext
<1> QED
  BY <1>0, Ended, LookStep DEF Unprepared

\* The agent is restarted with the real source.
LEMMA ReadyStep == IInv /\ Ready => IInv'
<1> SUFFICES ASSUME IInv, Ready PROVE IInv'
  OBVIOUS
<1>0. TypeInv'
  BY BindType DEF IInv, BindNext
<1>1. /\ op.kind = "bind" /\ op.pc = "ready" /\ BindInv /\ TypeInv /\ DiskInv /\ ProcInv
      /\ op.dom \in Domain /\ op.gen \in Nat /\ Other(op.dom) \in Domain /\ Other(op.dom) # op.dom
      /\ \A e \in Domain : e = op.dom \/ e = Other(op.dom)
  BY OtherDomain DEF IInv, Ready, At, OpInv, TypeInv, Ops
<1>2. Systemctl("started", Down, Then("collect"), Then("unready"))
  BY <1>1 DEF Ready, Ready, Restart
<1>3. OpInv'
  <2>1. CASE op' = Then("collect")
    <3>1. BindInv'
      BY <1>1, <1>2, <2>1, ThenFields DEF Systemctl, BindInv, NoUnbindTransaction, Removing,
         Running, Down, None, TypeInv, Ops, Disks, Counts, ProcInv
    <3> QED
      BY <1>1, <2>1, <3>1, ThenFields DEF OpInv
  <2>2. CASE op' = Then("unready")
    <3>1. BindInv'
      BY <1>1, <1>2, <2>2, ThenFields DEF Systemctl, BindInv, NoUnbindTransaction, Removing,
         Running, Down, None, TypeInv, Ops, Disks, Counts, ProcInv
    <3> QED
      BY <1>1, <2>2, <3>1, ThenFields DEF OpInv
  <2> QED
    BY <1>2, <2>1, <2>2 DEF Systemctl
<1> QED
  BY <1>0, <1>2, <1>3, ServiceStep

\* The agent is seen collecting, or not.
LEMMA CollectStep == IInv /\ Collect => IInv'
<1> SUFFICES ASSUME IInv, Collect PROVE IInv'
  OBVIOUS
<1>0. TypeInv'
  BY BindType DEF IInv, BindNext
<1>1. /\ op.kind = "bind" /\ op.pc = "collect" /\ BindInv /\ TypeInv /\ DiskInv /\ ProcInv
      /\ op.dom \in Domain /\ op.gen \in Nat /\ Other(op.dom) \in Domain /\ Other(op.dom) # op.dom
      /\ \A e \in Domain : e = op.dom \/ e = Other(op.dom)
  BY OtherDomain DEF IInv, Collect, At, OpInv, TypeInv, Ops
<1>2. BindInv'
  BY <1>1, ThenFields DEF Collect, BindInv, NoUnbindTransaction, Removing
<1>3. OpInv'
  BY <1>1, <1>2, ThenFields DEF Collect, OpInv
<1> QED
  BY <1>0, <1>3, LookStep DEF Collect

\* The previous configuration is written back.
LEMMA UnreadyStep == IInv /\ Unready => IInv'
<1> SUFFICES ASSUME IInv, Unready PROVE IInv'
  OBVIOUS
<1>0. TypeInv'
  BY BindType DEF IInv, BindNext
<1>1. /\ op.kind = "bind" /\ op.pc = "unready" /\ BindInv /\ TypeInv /\ DiskInv /\ ProcInv
      /\ op.dom \in Domain /\ op.gen \in Nat /\ Other(op.dom) \in Domain /\ Other(op.dom) # op.dom
      /\ \A e \in Domain : e = op.dom \/ e = Other(op.dom)
  BY OtherDomain DEF IInv, Unready, At, OpInv, TypeInv, Ops
<1>2. CASE op' = Idle /\ UNCHANGED <<disk, issued, revoked, svc, proc, faults, crashes, marked>>
  BY <1>0, <1>2, Ended, LookStep DEF Unready
<1> DEFINE new == [disk EXCEPT !.pve = op.pve, !.exec = op.exec]
<1>3. CASE Persist(new, Then("unwind"), Then("unwind"))
  <2>1. new \in Disks
    BY DEF IInv, TypeInv, Disks, Ops
  <2>2. /\ new.state = disk.state /\ new.cfg = disk.cfg /\ new.exec = op.exec
        /\ new.pend = disk.pend /\ new.commit = disk.commit /\ new.unbind = disk.unbind
        /\ new.backup = disk.backup /\ new.assign = disk.assign
        /\ new.authority = disk.authority
    BY <1>1 DEF TypeInv, Disks
  <2> HIDE DEF new
  <2>3. /\ UNCHANGED <<issued, revoked, svc, proc, orphaned, marked>>
        /\ disk' \in {disk, new} /\ op' = Then("unwind")
    BY <1>1, <1>3, <2>1, <2>2, PersistCases DEF Unready
  <2>4. DiskInv'
    BY <1>1, <2>2, <2>3 DEF DiskInv, Settled, AssignedTo, BindInv
  <2>5. ProcInv'
    BY <1>1, <2>2, <2>3 DEF ProcInv, Holding, Running
  <2>6. BindInv'
    BY <1>1, <2>2, <2>3, ThenFields DEF BindInv, NoUnbindTransaction, Removing
  <2>7. OpInv'
    BY <1>1, <2>3, <2>6, ThenFields DEF OpInv
  <2> QED
    BY <1>0, <2>4, <2>5, <2>7 DEF IInv
<1> QED
  BY <1>2, <1>3 DEF Unready

\* The previous service state is restored.
LEMMA UnwindStep == IInv /\ Unwind => IInv'
<1> SUFFICES ASSUME IInv, Unwind PROVE IInv'
  OBVIOUS
<1>0. TypeInv'
  BY BindType DEF IInv, BindNext
<1>1. op' = Idle
  BY DEF Unwind, Restart, Stop, Systemctl
<1> QED
  BY <1>0, <1>1, Ended, ServiceStep DEF Unwind, Restart, Stop

\* The request identifier is made durable.
LEMMA PreparePendingStep == IInv /\ PreparePending => IInv'
<1> SUFFICES ASSUME IInv, PreparePending PROVE IInv'
  OBVIOUS
<1>0. TypeInv'
  BY BindType DEF IInv, BindNext
<1>1. /\ op.kind = "bind" /\ op.pc = "pending" /\ BindInv /\ TypeInv /\ DiskInv /\ ProcInv
      /\ op.dom \in Domain /\ op.gen \in Nat /\ Other(op.dom) \in Domain /\ Other(op.dom) # op.dom
      /\ \A e \in Domain : e = op.dom \/ e = Other(op.dom)
  BY OtherDomain DEF IInv, PreparePending, At, OpInv, TypeInv, Ops
<1> DEFINE new == [disk EXCEPT !.pend[op.dom] = op.gen]
<1>2. new \in Disks
  BY <1>1, DiskType DEF TypeInv, Ops
<1>3. ASSUME Written(new)
      PROVE  /\ UNCHANGED <<issued, revoked, svc, proc>>
             /\ disk'.state = disk.state /\ disk'.cfg = disk.cfg /\ disk'.exec = disk.exec
             /\ disk'.pve = disk.pve /\ disk'.pend = [disk.pend EXCEPT ![op.dom] = op.gen]
             /\ disk'.commit = disk.commit /\ disk'.unbind = disk.unbind
             /\ disk'.backup = disk.backup /\ disk'.assign = disk.assign
             /\ disk'.authority = disk.authority
  BY <1>1, <1>3 DEF Written, TypeInv, Disks, Counts
<1>4. Persist(new, Then("quiesce"), Idle) /\ orphaned \subseteq orphaned'
  BY DEF PreparePending
<1> HIDE DEF new
<1>5. ASSUME Written(new) PROVE DiskInv'
  <2>1. ASSUME NEW d \in Domain PROVE Settled(d)'
    BY <1>1, <1>3, <1>5 DEF BindInv, NoUnbindTransaction, Removing, DiskInv, Settled, Written,
       TypeInv, Disks, Counts
  <2> QED
    BY <1>1, <1>3, <1>5, <2>1 DEF BindInv, NoUnbindTransaction, Removing, DiskInv, AssignedTo,
       Written, TypeInv, Disks, Counts, Domain
<1>6. ASSUME Written(new) PROVE ProcInv'
  <2>1. ASSUME NEW d \in Domain, proc.phase # "down" PROVE Holding(d)'
    BY <1>1, <1>3, <1>4, <1>6, <2>1 DEF BindInv, NoUnbindTransaction, Removing, ProcInv,
       Holding, Running, DiskInv, Settled, Written, TypeInv, Disks, Counts
  <2> QED
    BY <1>1, <1>3, <1>6, <2>1 DEF ProcInv, Running
<1>7. ASSUME Written(new), op' = Then("quiesce") PROVE OpInv'
  <2>1. BindInv'
    BY <1>1, <1>3, <1>7, ThenFields DEF BindInv, NoUnbindTransaction, Removing, Running,
       TypeInv, Disks, Counts, DiskInv, Settled
  <2> QED
    BY <1>1, <1>7, <2>1, ThenFields DEF OpInv
<1> QED
  BY <1>0, <1>2, <1>4, <1>5, <1>6, <1>7, WriteStep

\* The agent is stopped before the request is sent.
LEMMA QuiesceStep == IInv /\ Quiesce => IInv'
<1> SUFFICES ASSUME IInv, Quiesce PROVE IInv'
  OBVIOUS
<1>0. TypeInv'
  BY BindType DEF IInv, BindNext
<1>1. /\ op.kind = "bind" /\ op.pc = "quiesce" /\ BindInv /\ TypeInv /\ DiskInv /\ ProcInv
      /\ op.dom \in Domain /\ op.gen \in Nat /\ Other(op.dom) \in Domain /\ Other(op.dom) # op.dom
      /\ \A e \in Domain : e = op.dom \/ e = Other(op.dom)
  BY OtherDomain DEF IInv, Quiesce, At, OpInv, TypeInv, Ops
<1>2. Systemctl("stopped", Down, Then("send"), [Then("unsent") EXCEPT !.failed = TRUE])
  BY <1>1 DEF Quiesce, Quiesce, Stop
<1>3. OpInv'
  <2> DEFINE failure == [Then("unsent") EXCEPT !.failed = TRUE]
  <2>1. failure = [op EXCEPT !.pc = "unsent", !.failed = TRUE]
    BY <1>1 DEF TypeInv, Ops, Then
  <2>2. /\ failure.kind = "bind" /\ failure.dom = op.dom /\ failure.pc = "unsent"
        /\ failure.gen = op.gen /\ failure.cfg = op.cfg /\ failure.exec = op.exec
        /\ failure.failed
    BY <1>1, <2>1 DEF TypeInv, Ops
  <2> HIDE DEF failure
  <2>3. UNCHANGED <<disk, issued>>
    BY <1>2 DEF Systemctl
  <2>4. CASE op' = failure
    BY <1>1, <2>2, <2>3, <2>4 DEF OpInv, BindInv, NoUnbindTransaction, Removing
  <2>5. CASE op' = Then("send") /\ svc' = "stopped" /\ proc' = Down
    <3>1. BindInv'
      BY <1>1, <2>3, <2>5, ThenFields DEF BindInv, NoUnbindTransaction, Removing
    <3> QED
      BY <1>1, <2>5, <3>1, ThenFields DEF OpInv
  <2> QED
    BY <1>2, <2>4, <2>5 DEF Systemctl, failure
<1> QED
  BY <1>0, <1>2, <1>3, ServiceStep

\* The request is sent, and answered or not.
LEMMA SendStep == IInv /\ Send => IInv'
<1> SUFFICES ASSUME IInv, Send PROVE IInv'
  OBVIOUS
<1>0. TypeInv'
  BY BindType DEF IInv, BindNext
<1>1. /\ op.kind = "bind" /\ op.pc = "send" /\ BindInv /\ TypeInv /\ DiskInv /\ ProcInv
      /\ op.dom \in Domain /\ op.gen \in Nat /\ Other(op.dom) \in Domain /\ Other(op.dom) # op.dom
      /\ \A e \in Domain : e = op.dom \/ e = Other(op.dom)
  BY OtherDomain DEF IInv, Send, At, OpInv, TypeInv, Ops
<1>2. UNCHANGED <<disk, svc, proc, orphaned, marked>>
  BY DEF Send
<1>3. CASE op' = Idle
  BY <1>0, <1>2, <1>3, Ended, LookStep
<1>4. CASE op' = Then("begin") \/ op' = Then("recover")
  <2>1. BindInv'
    BY <1>1, <1>2, <1>4, ThenFields DEF BindInv, NoUnbindTransaction, Removing
  <2>2. OpInv'
    BY <1>1, <1>4, <2>1, ThenFields DEF OpInv
  <2> QED
    BY <1>0, <1>2, <2>2, LookStep
<1>5. CASE op' = Then("unsent") /\ op.gen \notin issued[op.dom] /\ issued' = issued
  <2>1. BindInv'
    BY <1>1, <1>2, <1>5, ThenFields DEF BindInv, NoUnbindTransaction, Removing
  <2>2. OpInv'
    BY <1>1, <1>5, <2>1, ThenFields DEF OpInv
  <2> QED
    BY <1>0, <1>2, <2>2, LookStep
<1>6. \/ op' = Idle \/ op' = Then("begin") \/ op' = Then("recover")
      \/ op' = Then("unsent") /\ op.gen \notin issued[op.dom] /\ issued' = issued
  BY <1>1, ThenFields DEF Send, WebsiteAnswers, MonitoringAnswers, NoAnswer, Rejected
<1> QED
  BY <1>3, <1>4, <1>5, <1>6

\* The request is dropped.
LEMMA UnsentStep == IInv /\ Unsent => IInv'
<1> SUFFICES ASSUME IInv, Unsent PROVE IInv'
  OBVIOUS
<1>0. TypeInv'
  BY BindType DEF IInv, BindNext
<1>1. /\ op.kind = "bind" /\ op.pc = "unsent" /\ BindInv /\ TypeInv /\ DiskInv /\ ProcInv
      /\ op.dom \in Domain /\ op.gen \in Nat /\ Other(op.dom) \in Domain /\ Other(op.dom) # op.dom
      /\ \A e \in Domain : e = op.dom \/ e = Other(op.dom)
  BY OtherDomain DEF IInv, Unsent, At, OpInv, TypeInv, Ops
<1> DEFINE new == [disk EXCEPT !.pend[op.dom] = 0]
<1>2. new \in Disks
  BY <1>1, DiskType DEF TypeInv, Ops
<1>3. ASSUME Written(new)
      PROVE  /\ UNCHANGED <<issued, revoked, svc, proc>>
             /\ disk'.state = disk.state /\ disk'.cfg = disk.cfg /\ disk'.exec = disk.exec
             /\ disk'.pve = disk.pve /\ disk'.pend = [disk.pend EXCEPT ![op.dom] = 0]
             /\ disk'.commit = disk.commit /\ disk'.unbind = disk.unbind
             /\ disk'.backup = disk.backup /\ disk'.assign = disk.assign
             /\ disk'.authority = disk.authority
  BY <1>1, <1>3 DEF Written, TypeInv, Disks, Counts
<1>4. Persist(new, Then("recover"), Idle) /\ orphaned \subseteq orphaned'
  BY DEF Unsent
<1> HIDE DEF new
<1>5. ASSUME Written(new) PROVE DiskInv'
  <2>1. ASSUME NEW d \in Domain PROVE Settled(d)'
    BY <1>1, <1>3, <1>5 DEF BindInv, NoUnbindTransaction, Removing, DiskInv, Settled, Written,
       TypeInv, Disks, Counts
  <2> QED
    BY <1>1, <1>3, <1>5, <2>1 DEF BindInv, NoUnbindTransaction, Removing, DiskInv, AssignedTo,
       Written, TypeInv, Disks, Counts, Domain
<1>6. ASSUME Written(new) PROVE ProcInv'
  <2>1. ASSUME NEW d \in Domain, proc.phase # "down" PROVE Holding(d)'
    BY <1>1, <1>3, <1>4, <1>6, <2>1 DEF BindInv, NoUnbindTransaction, Removing, ProcInv,
       Holding, Running, DiskInv, Settled, Written, TypeInv, Disks, Counts
  <2> QED
    BY <1>1, <1>3, <1>6, <2>1 DEF ProcInv, Running
<1>7. ASSUME Written(new), op' = Then("recover") PROVE OpInv'
  <2>1. BindInv'
    BY <1>1, <1>3, <1>7, ThenFields DEF BindInv, NoUnbindTransaction, Removing, Running,
       TypeInv, Disks, Counts, DiskInv, Settled
  <2> QED
    BY <1>1, <1>7, <2>1, ThenFields DEF OpInv
<1> QED
  BY <1>0, <1>2, <1>4, <1>5, <1>6, <1>7, WriteStep

\* The old generation is restarted.
LEMMA RecoverStep == IInv /\ Recover => IInv'
<1> SUFFICES ASSUME IInv, Recover PROVE IInv'
  OBVIOUS
<1>0. TypeInv'
  BY BindType DEF IInv, BindNext
<1>1. op' = Idle
  BY DEF Recover, Restart, Systemctl
<1> QED
  BY <1>0, <1>1, Ended, ServiceStep DEF Recover, Restart

-----------------------------------------------------------------------------
(***************************************************************************)
(* bind: the commit.                                                       *)
(***************************************************************************)

\* The commit marker is written, or found from an earlier attempt.
LEMMA BeginCommitStep == IInv /\ BeginCommit => IInv'
<1> SUFFICES ASSUME IInv, BeginCommit PROVE IInv'
  OBVIOUS
<1>0. TypeInv'
  BY BindType DEF IInv, BindNext
<1>1. /\ op.kind = "bind" /\ op.pc = "begin" /\ BindInv /\ TypeInv /\ DiskInv /\ ProcInv
      /\ op.dom \in Domain /\ op.gen \in Nat /\ Other(op.dom) \in Domain /\ Other(op.dom) # op.dom
      /\ \A e \in Domain : e = op.dom \/ e = Other(op.dom)
  BY OtherDomain DEF IInv, BeginCommit, At, OpInv, TypeInv, Ops
<1>2. CASE ~op.frozen
  <2> DEFINE new == [disk EXCEPT !.commit[op.dom] = op.gen]
  <2>2. new \in Disks
    BY <1>1, DiskType DEF TypeInv, Ops
  <2>3. ASSUME Written(new)
        PROVE  /\ UNCHANGED <<issued, revoked, svc, proc>>
               /\ disk'.state = disk.state /\ disk'.cfg = disk.cfg /\ disk'.exec = disk.exec
               /\ disk'.pve = disk.pve /\ disk'.pend = disk.pend
               /\ disk'.commit = [disk.commit EXCEPT ![op.dom] = op.gen]
               /\ disk'.unbind = disk.unbind /\ disk'.backup = disk.backup
               /\ disk'.assign = disk.assign /\ disk'.authority = disk.authority
    BY <1>1, <2>3 DEF Written, TypeInv, Disks, Counts
  <2>4. Persist(new, Then("assign"), Idle) /\ orphaned \subseteq orphaned'
    BY <1>2 DEF BeginCommit
  <2> HIDE DEF new
  <2>5. ASSUME Written(new) PROVE DiskInv'
    <3>1. ASSUME NEW d \in Domain PROVE Settled(d)'
      BY <1>1, <1>2, <2>3, <2>5 DEF BindInv, NoUnbindTransaction, Removing, DiskInv, Settled,
         Written, TypeInv, Disks, Counts
    <3> QED
      BY <1>1, <1>2, <2>3, <2>5, <3>1 DEF BindInv, NoUnbindTransaction, Removing, DiskInv,
         AssignedTo, Written, TypeInv, Disks, Counts, Domain
  <2>6. ASSUME Written(new) PROVE ProcInv'
    BY <1>1, <1>2, <2>3, <2>6, LoadedNothing DEF BindInv
  <2>7. ASSUME Written(new), op' = Then("assign") PROVE OpInv'
    <3>1. BindInv'
      BY <1>1, <1>2, <2>3, <2>7, ThenFields DEF BindInv, NoUnbindTransaction, Removing, Running,
         TypeInv, Disks, Counts, DiskInv, Settled
    <3> QED
      BY <1>1, <2>7, <3>1, ThenFields DEF OpInv
  <2> QED
    BY <1>0, <2>2, <2>4, <2>5, <2>6, <2>7, WriteStep
<1>3. CASE op.frozen
  <2>1. UNCHANGED <<disk, issued, svc, proc, orphaned, marked>>
    BY <1>3 DEF BeginCommit
  <2>2. CASE op' = Idle
    BY <1>0, <2>1, <2>2, Ended, LookStep
  <2>3. CASE op' = Then("assign") /\ disk.commit[op.dom] = op.gen
    <3>1. BindInv'
      BY <1>1, <2>1, <2>3, ThenFields DEF BindInv, NoUnbindTransaction, Removing
    <3>2. OpInv'
      BY <1>1, <1>2, <2>3, <3>1, ThenFields DEF OpInv
    <3> QED
      BY <1>0, <2>1, <3>2, LookStep
  <2> QED
    BY <1>3, <2>2, <2>3 DEF BeginCommit
<1> QED
  BY <1>2, <1>3

\* The assignments that came with the answer are written.
LEMMA WriteInitialAssignmentStep == IInv /\ WriteInitialAssignment => IInv'
<1> SUFFICES ASSUME IInv, WriteInitialAssignment PROVE IInv'
  OBVIOUS
<1>0. TypeInv'
  BY BindType DEF IInv, BindNext
<1>1. /\ op.kind = "bind" /\ op.pc = "assign" /\ BindInv /\ TypeInv /\ DiskInv /\ ProcInv
      /\ op.dom \in Domain /\ op.gen \in Nat /\ Other(op.dom) \in Domain /\ Other(op.dom) # op.dom
      /\ \A e \in Domain : e = op.dom \/ e = Other(op.dom)
  BY OtherDomain DEF IInv, WriteInitialAssignment, At, OpInv, TypeInv, Ops
<1>2. CASE op.dom = "website"
  <2> DEFINE new == Assigned(op.gen, FALSE)
  <2>2. new \in Disks
    BY <1>1, DiskType DEF TypeInv, Ops
  <2>3. ASSUME Written(new)
        PROVE  /\ UNCHANGED <<issued, revoked, svc, proc>>
               /\ disk'.state = disk.state /\ disk'.cfg = disk.cfg /\ disk'.exec = disk.exec
               /\ disk'.pve = disk.pve /\ disk'.pend = disk.pend
               /\ disk'.commit = disk.commit /\ disk'.unbind = disk.unbind
               /\ disk'.backup = disk.backup /\ disk'.assign.gen = op.gen
               /\ disk'.authority = disk.authority
    BY <1>1, <2>3 DEF Written, TypeInv, Disks, Counts, Assigned
  <2>4. Persist(new, Then("reset"), Idle) /\ orphaned \subseteq orphaned'
    BY <1>2 DEF WriteInitialAssignment
  <2> HIDE DEF new
  <2>5. ASSUME Written(new) PROVE DiskInv'
    <3>1. ASSUME NEW d \in Domain PROVE Settled(d)'
      BY <1>1, <1>2, <2>3, <2>5 DEF BindInv, NoUnbindTransaction, Removing, DiskInv, Settled,
         Written, TypeInv, Disks, Counts
    <3> QED
      BY <1>1, <1>2, <2>3, <2>5, <3>1 DEF BindInv, NoUnbindTransaction, Removing, DiskInv,
         AssignedTo, Written, TypeInv, Disks, Counts, Domain
  <2>6. ASSUME Written(new) PROVE ProcInv'
    BY <1>1, <1>2, <2>3, <2>6, LoadedNothing DEF BindInv
  <2>7. ASSUME Written(new), op' = Then("reset") PROVE OpInv'
    <3>1. BindInv'
      BY <1>1, <1>2, <2>3, <2>7, ThenFields DEF BindInv, NoUnbindTransaction, Removing, Running,
         TypeInv, Disks, Counts, DiskInv, Settled
    <3> QED
      BY <1>1, <2>7, <3>1, ThenFields DEF OpInv
  <2> QED
    BY <1>0, <2>2, <2>4, <2>5, <2>6, <2>7, WriteStep
<1>3. CASE op.dom # "website"
  <2>1. UNCHANGED <<disk, issued, svc, proc, orphaned, marked>> /\ op' = Then("config")
    BY <1>3 DEF WriteInitialAssignment
  <2>2. BindInv'
    BY <1>1, <1>3, <2>1, ThenFields DEF BindInv, NoUnbindTransaction, Removing
  <2>3. OpInv'
    BY <1>1, <2>1, <2>2, ThenFields DEF OpInv
  <2> QED
    BY <1>0, <2>1, <2>3, LookStep
<1> QED
  BY <1>2, <1>3

\* The refresh authority of the old binding is removed.
LEMMA ResetAuthorityStep == IInv /\ ResetAuthority => IInv'
<1> SUFFICES ASSUME IInv, ResetAuthority PROVE IInv'
  OBVIOUS
<1>0. TypeInv'
  BY BindType DEF IInv, BindNext
<1>1. /\ op.kind = "bind" /\ op.pc = "reset" /\ BindInv /\ TypeInv /\ DiskInv /\ ProcInv
      /\ op.dom \in Domain /\ op.gen \in Nat /\ Other(op.dom) \in Domain /\ Other(op.dom) # op.dom
      /\ \A e \in Domain : e = op.dom \/ e = Other(op.dom)
  BY OtherDomain DEF IInv, ResetAuthority, At, OpInv, TypeInv, Ops
<1> DEFINE new == [disk EXCEPT !.authority = 0]
<1>2. new \in Disks
  BY <1>1, DiskType DEF TypeInv, Ops
<1>3. ASSUME Written(new)
      PROVE  /\ UNCHANGED <<issued, revoked, svc, proc>>
             /\ disk'.state = disk.state /\ disk'.cfg = disk.cfg /\ disk'.exec = disk.exec
             /\ disk'.pve = disk.pve /\ disk'.pend = disk.pend
             /\ disk'.commit = disk.commit /\ disk'.unbind = disk.unbind
             /\ disk'.backup = disk.backup /\ disk'.assign = disk.assign
             /\ disk'.authority = 0
  BY <1>1, <1>3 DEF Written, TypeInv, Disks, Counts
<1>4. Persist(new, Then("config"), Idle) /\ orphaned \subseteq orphaned'
  BY DEF ResetAuthority
<1> HIDE DEF new
<1>5. ASSUME Written(new) PROVE DiskInv'
  <2>1. ASSUME NEW d \in Domain PROVE Settled(d)'
    BY <1>1, <1>3, <1>5 DEF BindInv, NoUnbindTransaction, Removing, DiskInv, Settled, Written,
       TypeInv, Disks, Counts
  <2> QED
    BY <1>1, <1>3, <1>5, <2>1 DEF BindInv, NoUnbindTransaction, Removing, DiskInv, AssignedTo,
       Written, TypeInv, Disks, Counts, Domain
<1>6. ASSUME Written(new) PROVE ProcInv'
  BY <1>1, <1>3, <1>6, LoadedNothing DEF BindInv
<1>7. ASSUME Written(new), op' = Then("config") PROVE OpInv'
  <2>1. BindInv'
    BY <1>1, <1>3, <1>7, ThenFields DEF BindInv, NoUnbindTransaction, Removing, Running,
       TypeInv, Disks, Counts, DiskInv, Settled
  <2> QED
    BY <1>1, <1>7, <2>1, ThenFields DEF OpInv
<1> QED
  BY <1>0, <1>2, <1>4, <1>5, <1>6, <1>7, WriteStep

\* The public half of the binding is written.
LEMMA WriteConfigStep == IInv /\ WriteConfig => IInv'
<1> SUFFICES ASSUME IInv, WriteConfig PROVE IInv'
  OBVIOUS
<1>0. TypeInv'
  BY BindType DEF IInv, BindNext
<1>1. /\ op.kind = "bind" /\ op.pc = "config" /\ BindInv /\ TypeInv /\ DiskInv /\ ProcInv
      /\ op.dom \in Domain /\ op.gen \in Nat /\ Other(op.dom) \in Domain /\ Other(op.dom) # op.dom
      /\ \A e \in Domain : e = op.dom \/ e = Other(op.dom)
  BY OtherDomain DEF IInv, WriteConfig, At, OpInv, TypeInv, Ops
<1> DEFINE new == Bound(op.dom, op.gen)
<1>2. new \in Disks
  BY <1>1, DiskType DEF TypeInv, Ops
<1>3. ASSUME Written(new)
      PROVE  /\ UNCHANGED <<issued, revoked, svc, proc>>
             /\ disk'.state = disk.state
             /\ disk'.cfg = [disk.cfg EXCEPT ![op.dom] = op.gen]
             /\ (disk'.exec => \A e \in Domain : disk'.cfg[e] # 0) /\ disk'.pve = disk.pve
             /\ disk'.pend = disk.pend /\ disk'.commit = disk.commit
             /\ disk'.unbind = disk.unbind /\ disk'.backup = disk.backup
             /\ disk'.assign = disk.assign /\ disk'.authority = disk.authority
  BY <1>1, <1>3 DEF Written, TypeInv, Disks, Counts, Bound, WebsiteBound, MonitoringBound,
     AutoEnable, Domain
<1>4. Persist(new, Then("save"), Idle) /\ orphaned \subseteq orphaned'
  BY DEF WriteConfig
<1> HIDE DEF new
<1>5. ASSUME Written(new) PROVE DiskInv'
  <2>1. ASSUME NEW d \in Domain PROVE Settled(d)'
    BY <1>1, <1>3, <1>5 DEF BindInv, NoUnbindTransaction, Removing, DiskInv, Settled, Written,
       TypeInv, Disks, Counts
  <2> QED
    BY <1>1, <1>3, <1>5, <2>1 DEF BindInv, NoUnbindTransaction, Removing, DiskInv, AssignedTo,
       Written, TypeInv, Disks, Counts, Domain
<1>6. ASSUME Written(new) PROVE ProcInv'
  BY <1>1, <1>3, <1>6, LoadedNothing DEF BindInv
<1>7. ASSUME Written(new), op' = Then("save") PROVE OpInv'
  <2>1. BindInv'
    BY <1>1, <1>3, <1>7, ThenFields DEF BindInv, NoUnbindTransaction, Removing, Running,
       TypeInv, Disks, Counts, DiskInv, Settled
  <2> QED
    BY <1>1, <1>7, <2>1, ThenFields DEF OpInv
<1> QED
  BY <1>0, <1>2, <1>4, <1>5, <1>6, <1>7, WriteStep

\* The private half of the binding is written.
LEMMA SaveStateStep == IInv /\ SaveState => IInv'
<1> SUFFICES ASSUME IInv, SaveState PROVE IInv'
  OBVIOUS
<1>0. TypeInv'
  BY BindType DEF IInv, BindNext
<1>1. /\ op.kind = "bind" /\ op.pc = "save" /\ BindInv /\ TypeInv /\ DiskInv /\ ProcInv
      /\ op.dom \in Domain /\ op.gen \in Nat /\ Other(op.dom) \in Domain /\ Other(op.dom) # op.dom
      /\ \A e \in Domain : e = op.dom \/ e = Other(op.dom)
  BY OtherDomain DEF IInv, SaveState, At, OpInv, TypeInv, Ops
<1> DEFINE new == [disk EXCEPT !.state[op.dom] = op.gen]
<1>2. new \in Disks
  BY <1>1, DiskType DEF TypeInv, Ops
<1>3. ASSUME Written(new)
      PROVE  /\ UNCHANGED <<issued, revoked, svc, proc>>
             /\ disk'.state = [disk.state EXCEPT ![op.dom] = op.gen]
             /\ disk'.cfg = disk.cfg /\ disk'.exec = disk.exec /\ disk'.pve = disk.pve
             /\ disk'.pend = disk.pend /\ disk'.commit = disk.commit
             /\ disk'.unbind = disk.unbind /\ disk'.backup = disk.backup
             /\ disk'.assign = disk.assign /\ disk'.authority = disk.authority
  BY <1>1, <1>3 DEF Written, TypeInv, Disks, Counts
<1>4. Persist(new, Then("validate"), Idle) /\ orphaned \subseteq orphaned'
  BY DEF SaveState
<1> HIDE DEF new
<1>5. ASSUME Written(new) PROVE DiskInv'
  <2>1. ASSUME NEW d \in Domain PROVE Settled(d)'
    BY <1>1, <1>3, <1>5 DEF BindInv, NoUnbindTransaction, Removing, DiskInv, Settled, Written,
       TypeInv, Disks, Counts
  <2> QED
    BY <1>1, <1>3, <1>5, <2>1 DEF BindInv, NoUnbindTransaction, Removing, DiskInv, AssignedTo,
       Written, TypeInv, Disks, Counts, Domain
<1>6. ASSUME Written(new) PROVE ProcInv'
  BY <1>1, <1>3, <1>6, LoadedNothing DEF BindInv
<1>7. ASSUME Written(new), op' = Then("validate") PROVE OpInv'
  <2>1. BindInv'
    BY <1>1, <1>3, <1>7, ThenFields DEF BindInv, NoUnbindTransaction, Removing, Running,
       TypeInv, Disks, Counts, DiskInv, Settled
  <2> QED
    BY <1>1, <1>7, <2>1, ThenFields DEF OpInv
<1> QED
  BY <1>0, <1>2, <1>4, <1>5, <1>6, <1>7, WriteStep

\* The files are checked against the marker.
LEMMA ValidateStep == IInv /\ Validate => IInv'
<1> SUFFICES ASSUME IInv, Validate PROVE IInv'
  OBVIOUS
<1>0. TypeInv'
  BY BindType DEF IInv, BindNext
<1>1. /\ op.kind = "bind" /\ op.pc = "validate" /\ BindInv /\ TypeInv /\ DiskInv /\ ProcInv
      /\ op.dom \in Domain /\ op.gen \in Nat /\ Other(op.dom) \in Domain /\ Other(op.dom) # op.dom
      /\ \A e \in Domain : e = op.dom \/ e = Other(op.dom)
  BY OtherDomain DEF IInv, Validate, At, OpInv, TypeInv, Ops
<1>2. CASE op' = Idle
  BY <1>0, <1>2, Ended, LookStep DEF Validate
<1>3. CASE op' = Then("arm") /\ DiskMatches(op.dom, op.gen)
  <2>1. disk.state[op.dom] = op.gen
    BY <1>1, <1>3 DEF DiskMatches, WebsiteMatches, MonitoringMatches, Domain
  <2>2. BindInv'
    BY <1>1, <1>3, <2>1, ThenFields DEF Validate, BindInv, NoUnbindTransaction, Removing
  <2>3. OpInv'
    BY <1>1, <1>3, <2>2, ThenFields DEF OpInv
  <2> QED
    BY <1>0, <2>3, LookStep DEF Validate
<1> QED
  BY <1>2, <1>3 DEF Validate

\* systemd is told to keep the agent.
LEMMA ArmBoundStep == IInv /\ ArmBound => IInv'
<1> SUFFICES ASSUME IInv, ArmBound PROVE IInv'
  OBVIOUS
<1>0. TypeInv'
  BY BindType DEF IInv, BindNext
<1>1. /\ op.kind = "bind" /\ op.pc = "arm" /\ BindInv /\ TypeInv /\ DiskInv /\ ProcInv
      /\ op.dom \in Domain /\ op.gen \in Nat /\ Other(op.dom) \in Domain /\ Other(op.dom) # op.dom
      /\ \A e \in Domain : e = op.dom \/ e = Other(op.dom)
  BY OtherDomain DEF IInv, ArmBound, At, OpInv, TypeInv, Ops
<1>2. Systemctl("started", proc, Then("clear"), Idle)
  BY <1>1 DEF ArmBound, ArmBound, Arm
<1>3. OpInv'
  <2>1. CASE op' = Then("clear")
    <3>1. BindInv'
      BY <1>1, <1>2, <2>1, ThenFields DEF Systemctl, BindInv, NoUnbindTransaction, Removing,
         Running, Down, None, TypeInv, Ops, Disks, Counts, ProcInv
    <3> QED
      BY <1>1, <2>1, <3>1, ThenFields DEF OpInv
  <2>2. CASE op' = Idle
    BY <2>2, Ended
  <2> QED
    BY <1>2, <2>1, <2>2 DEF Systemctl
<1> QED
  BY <1>0, <1>2, <1>3, ServiceStep

\* The request has been answered and saved.
LEMMA ClearPendingStep == IInv /\ ClearPending => IInv'
<1> SUFFICES ASSUME IInv, ClearPending PROVE IInv'
  OBVIOUS
<1>0. TypeInv'
  BY BindType DEF IInv, BindNext
<1>1. /\ op.kind = "bind" /\ op.pc = "clear" /\ BindInv /\ TypeInv /\ DiskInv /\ ProcInv
      /\ op.dom \in Domain /\ op.gen \in Nat /\ Other(op.dom) \in Domain /\ Other(op.dom) # op.dom
      /\ \A e \in Domain : e = op.dom \/ e = Other(op.dom)
  BY OtherDomain DEF IInv, ClearPending, At, OpInv, TypeInv, Ops
<1> DEFINE new == [disk EXCEPT !.pend[op.dom] = 0]
<1>2. new \in Disks
  BY <1>1, DiskType DEF TypeInv, Ops
<1>3. ASSUME Written(new)
      PROVE  /\ UNCHANGED <<issued, revoked, svc, proc>>
             /\ disk'.state = disk.state /\ disk'.cfg = disk.cfg /\ disk'.exec = disk.exec
             /\ disk'.pve = disk.pve /\ disk'.pend = [disk.pend EXCEPT ![op.dom] = 0]
             /\ disk'.commit = disk.commit /\ disk'.unbind = disk.unbind
             /\ disk'.backup = disk.backup /\ disk'.assign = disk.assign
             /\ disk'.authority = disk.authority
  BY <1>1, <1>3 DEF Written, TypeInv, Disks, Counts
<1>4. Persist(new, Then("finish"), Idle) /\ orphaned \subseteq orphaned'
  BY DEF ClearPending
<1> HIDE DEF new
<1>5. ASSUME Written(new) PROVE DiskInv'
  <2>1. ASSUME NEW d \in Domain PROVE Settled(d)'
    BY <1>1, <1>3, <1>5 DEF BindInv, NoUnbindTransaction, Removing, DiskInv, Settled, Written,
       TypeInv, Disks, Counts
  <2> QED
    BY <1>1, <1>3, <1>5, <2>1 DEF BindInv, NoUnbindTransaction, Removing, DiskInv, AssignedTo,
       Written, TypeInv, Disks, Counts, Domain
<1>6. ASSUME Written(new) PROVE ProcInv'
  <2>1. ASSUME NEW d \in Domain, proc.phase # "down" PROVE Holding(d)'
    BY <1>1, <1>3, <1>4, <1>6, <2>1 DEF BindInv, NoUnbindTransaction, Removing, ProcInv,
       Holding, Running, DiskInv, Settled, Written, TypeInv, Disks, Counts
  <2> QED
    BY <1>1, <1>3, <1>6, <2>1 DEF ProcInv, Running
<1>7. ASSUME Written(new), op' = Then("finish") PROVE OpInv'
  <2>1. BindInv'
    BY <1>1, <1>3, <1>7, ThenFields DEF BindInv, NoUnbindTransaction, Removing, Running,
       TypeInv, Disks, Counts, DiskInv, Settled
  <2> QED
    BY <1>1, <1>7, <2>1, ThenFields DEF OpInv
<1> QED
  BY <1>0, <1>2, <1>4, <1>5, <1>6, <1>7, WriteStep

\* The marker is removed.
LEMMA FinishCommitStep == IInv /\ FinishCommit => IInv'
<1> SUFFICES ASSUME IInv, FinishCommit PROVE IInv'
  OBVIOUS
<1>0. TypeInv'
  BY BindType DEF IInv, BindNext
<1>1. /\ op.kind = "bind" /\ op.pc = "finish" /\ BindInv /\ TypeInv /\ DiskInv /\ ProcInv
      /\ op.dom \in Domain /\ op.gen \in Nat /\ Other(op.dom) \in Domain /\ Other(op.dom) # op.dom
      /\ \A e \in Domain : e = op.dom \/ e = Other(op.dom)
  BY OtherDomain DEF IInv, FinishCommit, At, OpInv, TypeInv, Ops
<1> DEFINE new == [disk EXCEPT !.commit[op.dom] = 0]
<1>2. new \in Disks
  BY <1>1, DiskType DEF TypeInv, Ops
<1>3. ASSUME Written(new)
      PROVE  /\ UNCHANGED <<issued, revoked, svc, proc>>
             /\ disk'.state = disk.state /\ disk'.cfg = disk.cfg /\ disk'.exec = disk.exec
             /\ disk'.pve = disk.pve /\ disk'.pend = disk.pend
             /\ disk'.commit = [disk.commit EXCEPT ![op.dom] = 0]
             /\ disk'.unbind = disk.unbind /\ disk'.backup = disk.backup
             /\ disk'.assign = disk.assign /\ disk'.authority = disk.authority
  BY <1>1, <1>3 DEF Written, TypeInv, Disks, Counts
<1>4. Persist(new, Then("runtime"), Idle) /\ orphaned \subseteq orphaned'
  BY DEF FinishCommit
<1> HIDE DEF new
<1>5. ASSUME Written(new) PROVE DiskInv'
  <2>1. ASSUME NEW d \in Domain PROVE Settled(d)'
    BY <1>1, <1>3, <1>5 DEF BindInv, NoUnbindTransaction, Removing, DiskInv, Settled, Written,
       TypeInv, Disks, Counts
  <2> QED
    BY <1>1, <1>3, <1>5, <2>1 DEF BindInv, NoUnbindTransaction, Removing, DiskInv, AssignedTo,
       Written, TypeInv, Disks, Counts, Domain
<1>6. ASSUME Written(new) PROVE ProcInv'
  <2>1. ASSUME NEW d \in Domain, proc.phase # "down" PROVE Holding(d)'
    BY <1>1, <1>3, <1>4, <1>6, <2>1 DEF BindInv, NoUnbindTransaction, Removing, ProcInv,
       Holding, Running, DiskInv, Settled, Written, TypeInv, Disks, Counts
  <2> QED
    BY <1>1, <1>3, <1>6, <2>1 DEF ProcInv, Running
<1>7. ASSUME Written(new), op' = Then("runtime") PROVE OpInv'
  <2>1. BindInv'
    BY <1>1, <1>3, <1>7, ThenFields DEF BindInv, NoUnbindTransaction, Removing, Running,
       TypeInv, Disks, Counts, DiskInv, Settled
  <2> QED
    BY <1>1, <1>7, <2>1, ThenFields DEF OpInv
<1> QED
  BY <1>0, <1>2, <1>4, <1>5, <1>6, <1>7, WriteStep

\* The last check succeeds, or the marker is put back.
LEMMA RuntimeStep == IInv /\ Runtime => IInv'
<1> SUFFICES ASSUME IInv, Runtime PROVE IInv'
  OBVIOUS
<1>0. TypeInv'
  BY BindType DEF IInv, BindNext
<1>1. /\ op.kind = "bind" /\ op.pc = "runtime" /\ BindInv /\ TypeInv /\ DiskInv /\ ProcInv
      /\ op.dom \in Domain /\ op.gen \in Nat /\ Other(op.dom) \in Domain /\ Other(op.dom) # op.dom
      /\ \A e \in Domain : e = op.dom \/ e = Other(op.dom)
  BY OtherDomain DEF IInv, Runtime, At, OpInv, TypeInv, Ops
<1>2. CASE ~(DiskMatches(op.dom, op.gen) /\ Resolves(disk.cfg))
  <2> DEFINE new == [disk EXCEPT !.commit[op.dom] = op.gen]
  <2>2. new \in Disks
    BY <1>1, DiskType DEF TypeInv, Ops
  <2>3. ASSUME Written(new)
        PROVE  /\ UNCHANGED <<issued, revoked, svc, proc>>
               /\ disk'.state = disk.state /\ disk'.cfg = disk.cfg /\ disk'.exec = disk.exec
               /\ disk'.pve = disk.pve /\ disk'.pend = disk.pend
               /\ disk'.commit = [disk.commit EXCEPT ![op.dom] = op.gen]
               /\ disk'.unbind = disk.unbind /\ disk'.backup = disk.backup
               /\ disk'.assign = disk.assign /\ disk'.authority = disk.authority
    BY <1>1, <2>3 DEF Written, TypeInv, Disks, Counts
  <2>4. Persist(new, Idle, Idle) /\ orphaned' = orphaned \cup {op.dom}
    BY <1>2 DEF Runtime
  <2> HIDE DEF new
  <2>5. ASSUME Written(new) PROVE DiskInv'
    <3>1. ASSUME NEW d \in Domain PROVE Settled(d)'
      BY <1>1, <2>3, <2>5 DEF BindInv, NoUnbindTransaction, Removing, DiskInv, Settled, Written,
         TypeInv, Disks, Counts
    <3> QED
      BY <1>1, <2>3, <2>5, <3>1 DEF BindInv, NoUnbindTransaction, Removing, DiskInv, AssignedTo,
         Written, TypeInv, Disks, Counts, Domain
  <2>6. ASSUME Written(new) PROVE ProcInv'
    <3>1. ASSUME NEW d \in Domain, proc.phase # "down" PROVE Holding(d)'
      BY <1>1, <2>3, <2>4, <2>6, <3>1 DEF BindInv, NoUnbindTransaction, Removing, ProcInv,
         Holding, Running, DiskInv, Settled, Written, TypeInv, Disks, Counts
    <3> QED
      BY <1>1, <2>3, <2>6, <3>1 DEF ProcInv, Running
  <2>7. ASSUME Written(new), op' = Idle PROVE OpInv'
    BY <2>7, Ended
  <2> QED
    BY <1>0, <2>2, <2>4, <2>5, <2>6, <2>7, WriteStep
<1>3. CASE DiskMatches(op.dom, op.gen) /\ Resolves(disk.cfg)
  <2>1. UNCHANGED <<disk, issued, svc, proc, orphaned, marked>> /\ op' = Then("activate")
    BY <1>3 DEF Runtime
  <2>2. BindInv'
    BY <1>1, <2>1, ThenFields DEF BindInv, NoUnbindTransaction, Removing
  <2>3. OpInv'
    BY <1>1, <2>1, <2>2, ThenFields DEF OpInv
  <2> QED
    BY <1>0, <2>1, <2>3, LookStep
<1> QED
  BY <1>2, <1>3

\* The agent is restarted on the new binding.
LEMMA ActivateStep == IInv /\ Activate => IInv'
<1> SUFFICES ASSUME IInv, Activate PROVE IInv'
  OBVIOUS
<1>0. TypeInv'
  BY BindType DEF IInv, BindNext
<1>1. op' = Idle
  BY DEF Activate, Restart, Systemctl
<1> QED
  BY <1>0, <1>1, Ended, ServiceStep DEF Activate, Restart

-----------------------------------------------------------------------------
(***************************************************************************)
(* Removing a binding.                                                     *)
(***************************************************************************)

\* A step of a removal that failed: the command ends, or begins to roll back.
LEMMA Undone ==
    ASSUME TypeInv, UnbindInv, op.kind = "unbind", op.pc \in Journaled, op' = Undo,
           disk'.unbind = disk.unbind, disk'.commit = disk.commit, disk'.pend = disk.pend,
           disk'.cfg[Other(op.dom)] = disk.cfg[Other(op.dom)]
    PROVE  OpInv'
<1>1. CASE op' = Idle
  BY <1>1, Ended
<1>2. CASE op' = Then("restore") /\ ~op.retry
  <2>1. UnbindInv'
    BY <1>2, ThenFields DEF UnbindInv, Journaled
  <2> QED
    BY <1>2, <2>1, ThenFields DEF OpInv
<1> QED
  BY <1>1, <1>2 DEF Undo

\* A durable operation of a removal, with its own error path.
LEMMA RemovalStep ==
    ASSUME IInv, TypeInv', NEW new \in Disks, NEW next, NEW failure,
           Persist(new, next, failure), orphaned' = orphaned,
           Written(new) => DiskInv',
           Written(new) => ProcInv',
           Written(new) /\ op' = next => OpInv',
           (Written(new) \/ UNCHANGED <<disk, issued, svc, proc>>) /\ op' = failure => OpInv'
    PROVE  IInv'
<1>1. /\ UNCHANGED <<issued, revoked, svc, proc, crashes>>
      /\ \/ disk' = disk /\ op' = failure /\ marked' = marked
         \/ Written(new) /\ op' \in {next, failure}
  BY PersistCases DEF IInv, Written
<1>2. CASE disk' = disk /\ op' = failure /\ marked' = marked
  BY <1>1, <1>2, FilesKept, LoadedKept DEF IInv
<1>3. CASE Written(new) /\ op' \in {next, failure}
  BY <1>3 DEF IInv
<1> QED
  BY <1>1, <1>2, <1>3

\* The private state is copied.
LEMMA BackupStateStep == IInv /\ BackupState => IInv'
<1> SUFFICES ASSUME IInv, BackupState PROVE IInv'
  OBVIOUS
<1>0. TypeInv'
  BY UnbindType DEF IInv, UnbindNext
<1>1. /\ op.kind = "unbind" /\ op.pc = "backup" /\ UnbindInv /\ TypeInv /\ DiskInv /\ ProcInv
      /\ op.dom \in Domain /\ op.gen \in Nat /\ Other(op.dom) \in Domain /\ Other(op.dom) # op.dom
      /\ \A e \in Domain : e = op.dom \/ e = Other(op.dom)
  BY OtherDomain DEF IInv, BackupState, At, OpInv, TypeInv, Ops
<1> DEFINE new == [disk EXCEPT !.backup[op.dom] = op.gen]
<1>2. new \in Disks
  BY <1>1, DiskType DEF TypeInv, Ops
<1>3. ASSUME Written(new)
      PROVE  /\ UNCHANGED <<issued, revoked, svc, proc>>
             /\ disk'.state = disk.state /\ disk'.cfg = disk.cfg /\ disk'.exec = disk.exec
             /\ disk'.pve = disk.pve /\ disk'.pend = disk.pend
             /\ disk'.commit = disk.commit /\ disk'.unbind = disk.unbind
             /\ disk'.backup = [disk.backup EXCEPT ![op.dom] = op.gen]
             /\ disk'.assign = disk.assign /\ disk'.authority = disk.authority
  BY <1>1, <1>3 DEF Written, TypeInv, Disks, Counts
<1>4. Persist(new, Then("journal"), Idle) /\ orphaned \subseteq orphaned'
  BY DEF BackupState
<1> HIDE DEF new
<1>5. ASSUME Written(new) PROVE DiskInv'
  <2>1. ASSUME NEW d \in Domain PROVE Settled(d)'
    BY <1>1, <1>3, <1>5 DEF UnbindInv, Journaled, DiskInv, Settled, Written, TypeInv, Disks,
       Counts
  <2> QED
    BY <1>1, <1>3, <1>5, <2>1 DEF UnbindInv, Journaled, DiskInv, AssignedTo, Written, TypeInv,
       Disks, Counts, Domain
<1>6. ASSUME Written(new) PROVE ProcInv'
  <2>1. ASSUME NEW d \in Domain, proc.phase # "down" PROVE Holding(d)'
    BY <1>1, <1>3, <1>4, <1>6, <2>1 DEF UnbindInv, Journaled, ProcInv, Holding, Running,
       DiskInv, Settled, Written, TypeInv, Disks, Counts
  <2> QED
    BY <1>1, <1>3, <1>6, <2>1 DEF ProcInv, Running
<1>7. ASSUME Written(new), op' = Then("journal") PROVE OpInv'
  <2>1. UnbindInv'
    BY <1>1, <1>3, <1>7, ThenFields DEF UnbindInv, Journaled, Running, TypeInv, Disks, Counts,
       DiskInv, Settled
  <2> QED
    BY <1>1, <1>7, <2>1, ThenFields DEF OpInv
<1> QED
  BY <1>0, <1>2, <1>4, <1>5, <1>6, <1>7, WriteStep

\* The journal is written.
LEMMA BeginUnbindStep == IInv /\ BeginUnbind => IInv'
<1> SUFFICES ASSUME IInv, BeginUnbind PROVE IInv'
  OBVIOUS
<1>0. TypeInv'
  BY UnbindType DEF IInv, UnbindNext
<1>1. /\ op.kind = "unbind" /\ op.pc = "journal" /\ UnbindInv /\ TypeInv /\ DiskInv /\ ProcInv
      /\ op.dom \in Domain /\ op.gen \in Nat /\ Other(op.dom) \in Domain /\ Other(op.dom) # op.dom
      /\ \A e \in Domain : e = op.dom \/ e = Other(op.dom)
  BY OtherDomain DEF IInv, BeginUnbind, At, OpInv, TypeInv, Ops
<1> DEFINE new == [disk EXCEPT !.unbind[op.dom] = op.gen]
<1>2. new \in Disks
  BY <1>1, DiskType DEF TypeInv, Ops
<1>3. ASSUME Written(new)
      PROVE  /\ UNCHANGED <<issued, revoked, svc, proc>>
             /\ disk'.state = disk.state /\ disk'.cfg = disk.cfg /\ disk'.exec = disk.exec
             /\ disk'.pve = disk.pve /\ disk'.pend = disk.pend
             /\ disk'.commit = disk.commit
             /\ disk'.unbind = [disk.unbind EXCEPT ![op.dom] = op.gen]
             /\ disk'.backup = disk.backup /\ disk'.assign = disk.assign
             /\ disk'.authority = disk.authority
  BY <1>1, <1>3 DEF Written, TypeInv, Disks, Counts
<1>4. Persist(new, Then("restart"), Idle) /\ orphaned \subseteq orphaned'
  BY DEF BeginUnbind
<1> HIDE DEF new
<1>5. ASSUME Written(new) PROVE DiskInv'
  <2>1. ASSUME NEW d \in Domain PROVE Settled(d)'
    BY <1>1, <1>3, <1>5 DEF UnbindInv, Journaled, DiskInv, Settled, Written, TypeInv, Disks,
       Counts
  <2> QED
    BY <1>1, <1>3, <1>5, <2>1 DEF UnbindInv, Journaled, DiskInv, AssignedTo, Written, TypeInv,
       Disks, Counts, Domain
<1>6. ASSUME Written(new) PROVE ProcInv'
  <2>1. ASSUME NEW d \in Domain, proc.phase # "down" PROVE Holding(d)'
    BY <1>1, <1>3, <1>4, <1>6, <2>1 DEF UnbindInv, Journaled, ProcInv, Holding, Running,
       DiskInv, Settled, Written, TypeInv, Disks, Counts
  <2> QED
    BY <1>1, <1>3, <1>6, <2>1 DEF ProcInv, Running
<1>7. ASSUME Written(new), op' = Then("restart") PROVE OpInv'
  <2>1. UnbindInv'
    BY <1>1, <1>3, <1>7, ThenFields DEF UnbindInv, Journaled, Running, TypeInv, Disks, Counts,
       DiskInv, Settled
  <2> QED
    BY <1>1, <1>7, <2>1, ThenFields DEF OpInv
<1> QED
  BY <1>0, <1>2, <1>4, <1>5, <1>6, <1>7, WriteStep

\* The old process is gone before the files change.
LEMMA RestartForUnbindStep == IInv /\ RestartForUnbind => IInv'
<1> SUFFICES ASSUME IInv, RestartForUnbind PROVE IInv'
  OBVIOUS
<1>0. TypeInv'
  BY UnbindType DEF IInv, UnbindNext
<1>1. /\ op.kind = "unbind" /\ op.pc = "restart" /\ UnbindInv /\ TypeInv /\ DiskInv /\ ProcInv
      /\ op.dom \in Domain /\ op.gen \in Nat /\ Other(op.dom) \in Domain /\ Other(op.dom) # op.dom
      /\ \A e \in Domain : e = op.dom \/ e = Other(op.dom)
  BY OtherDomain DEF IInv, RestartForUnbind, At, OpInv, TypeInv, Ops
<1>2. Systemctl("started", Down, Then("config"), Undo)
  BY <1>1 DEF RestartForUnbind, RestartForUnbind, Restart
<1>3. OpInv'
  <2>1. UNCHANGED <<disk, issued>>
    BY <1>2 DEF Systemctl
  <2>2. CASE op' = Undo
    BY <1>1, <2>1, <2>2, Undone DEF Journaled
  <2>3. CASE op' = Then("config") /\ proc' = Down
    <3>1. UnbindInv'
      BY <1>1, <2>1, <2>3, ThenFields DEF UnbindInv, Journaled, Running, Down, None
    <3> QED
      BY <1>1, <2>3, <3>1, ThenFields DEF OpInv
  <2> QED
    BY <1>2, <2>2, <2>3 DEF Systemctl
<1> QED
  BY <1>0, <1>2, <1>3, ServiceStep

\* The domain is switched off.
LEMMA DisableConfigStep == IInv /\ DisableConfig => IInv'
<1> SUFFICES ASSUME IInv, DisableConfig PROVE IInv'
  OBVIOUS
<1>0. TypeInv'
  BY UnbindType DEF IInv, UnbindNext
<1>1. /\ op.kind = "unbind" /\ op.pc = "config" /\ UnbindInv /\ TypeInv /\ DiskInv /\ ProcInv
      /\ op.dom \in Domain /\ op.gen \in Nat /\ Other(op.dom) \in Domain /\ Other(op.dom) # op.dom
      /\ \A e \in Domain : e = op.dom \/ e = Other(op.dom)
  BY OtherDomain DEF IInv, DisableConfig, At, OpInv, TypeInv, Ops
<1> DEFINE new == Unbound(op.dom)
<1>2. new \in Disks
  BY <1>1, DiskType DEF TypeInv, Ops
<1>3. ASSUME Written(new)
      PROVE  /\ UNCHANGED <<issued, revoked, svc, proc>>
             /\ disk'.state = disk.state /\ disk'.cfg = [disk.cfg EXCEPT ![op.dom] = 0]
             /\ ~disk'.exec /\ disk'.pve = disk.pve /\ disk'.pend = disk.pend
             /\ disk'.commit = disk.commit /\ disk'.unbind = disk.unbind
             /\ disk'.backup = disk.backup /\ disk'.assign = disk.assign
             /\ disk'.authority = disk.authority
  BY <1>1, <1>3 DEF Written, TypeInv, Disks, Counts, Unbound
<1>4. Persist(new, Then("remove"), Undo) /\ orphaned' = orphaned
  BY DEF DisableConfig
<1> HIDE DEF new
<1>5. ASSUME Written(new) PROVE DiskInv'
  <2>1. ASSUME NEW d \in Domain PROVE Settled(d)'
    BY <1>1, <1>3, <1>5 DEF UnbindInv, Journaled, DiskInv, Settled, Written, TypeInv, Disks,
       Counts
  <2> QED
    BY <1>1, <1>3, <1>5, <2>1 DEF UnbindInv, Journaled, DiskInv, AssignedTo, Written, TypeInv,
       Disks, Counts, Domain
<1>6. ASSUME Written(new) PROVE ProcInv'
  <2>1. ASSUME NEW d \in Domain, proc.phase # "down" PROVE Holding(d)'
    BY <1>1, <1>3, <1>4, <1>6, <2>1 DEF UnbindInv, Journaled, ProcInv, Holding, Running,
       DiskInv, Settled, Written, TypeInv, Disks, Counts
  <2> QED
    BY <1>1, <1>3, <1>6, <2>1 DEF ProcInv, Running
<1>7. ASSUME Written(new), op' = Then("remove") PROVE OpInv'
  <2>1. UnbindInv'
    BY <1>1, <1>3, <1>7, ThenFields DEF UnbindInv, Journaled, Running, TypeInv, Disks, Counts,
       DiskInv, Settled
  <2> QED
    BY <1>1, <1>7, <2>1, ThenFields DEF OpInv
<1>8. ASSUME Written(new) \/ UNCHANGED <<disk, issued, svc, proc>>, op' = Undo PROVE OpInv'
  <2>1. /\ disk'.unbind = disk.unbind /\ disk'.commit = disk.commit /\ disk'.pend = disk.pend
        /\ disk'.cfg[Other(op.dom)] = disk.cfg[Other(op.dom)]
    BY <1>1, <1>3, <1>8 DEF TypeInv, Disks, Counts
  <2> QED
    BY <1>1, <1>8, <2>1, Undone DEF Journaled
<1> QED
  BY <1>0, <1>2, <1>4, <1>5, <1>6, <1>7, <1>8, RemovalStep

\* The private state is removed.
LEMMA RemoveStateStep == IInv /\ RemoveState => IInv'
<1> SUFFICES ASSUME IInv, RemoveState PROVE IInv'
  OBVIOUS
<1>0. TypeInv'
  BY UnbindType DEF IInv, UnbindNext
<1>1. /\ op.kind = "unbind" /\ op.pc = "remove" /\ UnbindInv /\ TypeInv /\ DiskInv /\ ProcInv
      /\ op.dom \in Domain /\ op.gen \in Nat /\ Other(op.dom) \in Domain /\ Other(op.dom) # op.dom
      /\ \A e \in Domain : e = op.dom \/ e = Other(op.dom)
  BY OtherDomain DEF IInv, RemoveState, At, OpInv, TypeInv, Ops
<1> DEFINE new == [disk EXCEPT !.state[op.dom] = 0]
           failure == IF op.retry THEN [op EXCEPT !.pc = "arm", !.failed = TRUE] ELSE Undo
<1>2. new \in Disks
  BY <1>1, DiskType DEF TypeInv, Ops
<1>3. ASSUME Written(new)
      PROVE  /\ UNCHANGED <<issued, revoked, svc, proc>>
             /\ disk'.state = [disk.state EXCEPT ![op.dom] = 0] /\ disk'.cfg = disk.cfg
             /\ disk'.exec = disk.exec /\ disk'.pve = disk.pve /\ disk'.pend = disk.pend
             /\ disk'.commit = disk.commit /\ disk'.unbind = disk.unbind
             /\ disk'.backup = disk.backup /\ disk'.assign = disk.assign
             /\ disk'.authority = disk.authority
  BY <1>1, <1>3 DEF Written, TypeInv, Disks, Counts
<1>4. Persist(new, Then("arm"), failure) /\ orphaned' = orphaned
  BY DEF RemoveState
<1> HIDE DEF new, failure
<1>5. ASSUME Written(new) PROVE DiskInv'
  <2>1. ASSUME NEW d \in Domain PROVE Settled(d)'
    BY <1>1, <1>3, <1>5 DEF UnbindInv, Journaled, DiskInv, Settled, Written, TypeInv, Disks,
       Counts
  <2> QED
    BY <1>1, <1>3, <1>5, <2>1 DEF UnbindInv, Journaled, DiskInv, AssignedTo, Written, TypeInv,
       Disks, Counts, Domain
<1>6. ASSUME Written(new) PROVE ProcInv'
  <2>1. ASSUME NEW d \in Domain, proc.phase # "down" PROVE Holding(d)'
    BY <1>1, <1>3, <1>4, <1>6, <2>1 DEF UnbindInv, Journaled, ProcInv, Holding, Running,
       DiskInv, Settled, Written, TypeInv, Disks, Counts
  <2> QED
    BY <1>1, <1>3, <1>6, <2>1 DEF ProcInv, Running
<1>7. ASSUME Written(new), op' = Then("arm") PROVE OpInv'
  <2>1. UnbindInv'
    BY <1>1, <1>3, <1>7, ThenFields DEF UnbindInv, Journaled, Running, TypeInv, Disks, Counts,
       DiskInv, Settled
  <2> QED
    BY <1>1, <1>7, <2>1, ThenFields DEF OpInv
<1>8. ASSUME Written(new) \/ UNCHANGED <<disk, issued, svc, proc>>, op' = failure PROVE OpInv'
  <2>1. /\ disk'.unbind = disk.unbind /\ disk'.commit = disk.commit /\ disk'.pend = disk.pend
        /\ disk'.cfg = disk.cfg
    BY <1>1, <1>3, <1>8 DEF TypeInv, Disks, Counts
  <2>2. CASE op' = Undo
    BY <1>1, <2>1, <2>2, Undone DEF Journaled
  <2>3. CASE op.retry /\ op' = [op EXCEPT !.pc = "arm", !.failed = TRUE]
    <3>1. /\ op'.kind = "unbind" /\ op'.dom = op.dom /\ op'.pc = "arm" /\ op'.gen = op.gen
          /\ op'.retry = op.retry /\ op'.failed /\ op'.cfg = op.cfg /\ op'.exec = op.exec
      BY <1>1, <2>3 DEF TypeInv, Ops
    <3> QED
      BY <1>1, <2>1, <2>3, <3>1 DEF OpInv, UnbindInv, Journaled
  <2> QED
    BY <1>8, <2>2, <2>3 DEF failure
<1> QED
  BY <1>0, <1>2, <1>4, <1>5, <1>6, <1>7, <1>8, RemovalStep

\* systemd is told to keep the agent.
LEMMA ArmUnboundStep == IInv /\ ArmUnbound => IInv'
<1> SUFFICES ASSUME IInv, ArmUnbound PROVE IInv'
  OBVIOUS
<1>0. TypeInv'
  BY UnbindType DEF IInv, UnbindNext
<1>1. /\ op.kind = "unbind" /\ op.pc = "arm" /\ UnbindInv /\ TypeInv /\ DiskInv /\ ProcInv
      /\ op.dom \in Domain /\ op.gen \in Nat /\ Other(op.dom) \in Domain /\ Other(op.dom) # op.dom
      /\ \A e \in Domain : e = op.dom \/ e = Other(op.dom)
  BY OtherDomain DEF IInv, ArmUnbound, At, OpInv, TypeInv, Ops
<1>2. Systemctl("started", proc, Then("activate"), Undo)
  BY <1>1 DEF ArmUnbound, ArmUnbound, Arm
<1>3. OpInv'
  <2>1. UNCHANGED <<disk, issued>>
    BY <1>2 DEF Systemctl
  <2>2. CASE op' = Undo
    BY <1>1, <2>1, <2>2, Undone DEF Journaled
  <2>3. CASE op' = Then("activate") /\ proc' \in {Down, proc}
    <3>1. UnbindInv'
      BY <1>1, <2>1, <2>3, ThenFields DEF UnbindInv, Journaled, Running, Down, None
    <3> QED
      BY <1>1, <2>3, <3>1, ThenFields DEF OpInv
  <2> QED
    BY <1>2, <2>2, <2>3 DEF Systemctl
<1> QED
  BY <1>0, <1>2, <1>3, ServiceStep

\* The agent is restarted without the binding.
LEMMA ActivateUnboundStep == IInv /\ ActivateUnbound => IInv'
<1> SUFFICES ASSUME IInv, ActivateUnbound PROVE IInv'
  OBVIOUS
<1>0. TypeInv'
  BY UnbindType DEF IInv, UnbindNext
<1>1. /\ op.kind = "unbind" /\ op.pc = "activate" /\ UnbindInv /\ TypeInv /\ DiskInv /\ ProcInv
      /\ op.dom \in Domain /\ op.gen \in Nat /\ Other(op.dom) \in Domain /\ Other(op.dom) # op.dom
      /\ \A e \in Domain : e = op.dom \/ e = Other(op.dom)
  BY OtherDomain DEF IInv, ActivateUnbound, At, OpInv, TypeInv, Ops
<1>2. Systemctl("started", Down, Then("confirm"), Undo)
  BY <1>1 DEF ActivateUnbound, ActivateUnbound, Restart
<1>3. OpInv'
  <2>1. UNCHANGED <<disk, issued>>
    BY <1>2 DEF Systemctl
  <2>2. CASE op' = Undo
    BY <1>1, <2>1, <2>2, Undone DEF Journaled
  <2>3. CASE op' = Then("confirm") /\ proc' = Down
    <3>1. UnbindInv'
      BY <1>1, <2>1, <2>3, ThenFields DEF UnbindInv, Journaled, Running, Down, None
    <3> QED
      BY <1>1, <2>3, <3>1, ThenFields DEF OpInv
  <2> QED
    BY <1>2, <2>2, <2>3 DEF Systemctl
<1> QED
  BY <1>0, <1>2, <1>3, ServiceStep

\* The restarted agent is seen to be without the binding, or not.
LEMMA ConfirmStep == IInv /\ Confirm => IInv'
<1> SUFFICES ASSUME IInv, Confirm PROVE IInv'
  OBVIOUS
<1>0. TypeInv'
  BY UnbindType DEF IInv, UnbindNext
<1>1. /\ op.kind = "unbind" /\ op.pc = "confirm" /\ UnbindInv /\ TypeInv /\ DiskInv /\ ProcInv
      /\ op.dom \in Domain /\ op.gen \in Nat /\ Other(op.dom) \in Domain /\ Other(op.dom) # op.dom
      /\ \A e \in Domain : e = op.dom \/ e = Other(op.dom)
  BY OtherDomain DEF IInv, Confirm, At, OpInv, TypeInv, Ops
<1>2. UNCHANGED <<disk, issued, svc, proc, orphaned, marked>>
  BY DEF Confirm
<1>3. CASE op' = Idle
  BY <1>0, <1>2, <1>3, Ended, LookStep
<1>4. CASE op' = Undo
  BY <1>0, <1>1, <1>2, <1>4, Undone, LookStep DEF Journaled
<1>5. CASE op' = Then("discard") /\ ~op.failed
  <2>1. UnbindInv'
    BY <1>1, <1>2, <1>5, ThenFields DEF UnbindInv, Journaled
  <2>2. OpInv'
    BY <1>1, <1>5, <2>1, ThenFields DEF OpInv
  <2> QED
    BY <1>0, <1>2, <2>2, LookStep
<1> QED
  BY <1>3, <1>4, <1>5 DEF Confirm

\* The copy of the removed state goes.
LEMMA DiscardBackupStep == IInv /\ DiscardBackup => IInv'
<1> SUFFICES ASSUME IInv, DiscardBackup PROVE IInv'
  OBVIOUS
<1>0. TypeInv'
  BY UnbindType DEF IInv, UnbindNext
<1>1. /\ op.kind = "unbind" /\ op.pc = "discard" /\ UnbindInv /\ TypeInv /\ DiskInv /\ ProcInv
      /\ op.dom \in Domain /\ op.gen \in Nat /\ Other(op.dom) \in Domain /\ Other(op.dom) # op.dom
      /\ \A e \in Domain : e = op.dom \/ e = Other(op.dom)
  BY OtherDomain DEF IInv, DiscardBackup, At, OpInv, TypeInv, Ops
<1> DEFINE new == [disk EXCEPT !.backup[op.dom] = 0]
<1>2. new \in Disks
  BY <1>1, DiskType DEF TypeInv, Ops
<1>3. ASSUME Written(new)
      PROVE  /\ UNCHANGED <<issued, revoked, svc, proc>>
             /\ disk'.state = disk.state /\ disk'.cfg = disk.cfg /\ disk'.exec = disk.exec
             /\ disk'.pve = disk.pve /\ disk'.pend = disk.pend
             /\ disk'.commit = disk.commit /\ disk'.unbind = disk.unbind
             /\ disk'.backup = [disk.backup EXCEPT ![op.dom] = 0]
             /\ disk'.assign = disk.assign /\ disk'.authority = disk.authority
  BY <1>1, <1>3 DEF Written, TypeInv, Disks, Counts
<1>4. Persist(new, Then("finish"), Idle) /\ orphaned \subseteq orphaned'
  BY DEF DiscardBackup
<1> HIDE DEF new
<1>5. ASSUME Written(new) PROVE DiskInv'
  <2>1. ASSUME NEW d \in Domain PROVE Settled(d)'
    BY <1>1, <1>3, <1>5 DEF UnbindInv, Journaled, DiskInv, Settled, Written, TypeInv, Disks,
       Counts
  <2> QED
    BY <1>1, <1>3, <1>5, <2>1 DEF UnbindInv, Journaled, DiskInv, AssignedTo, Written, TypeInv,
       Disks, Counts, Domain
<1>6. ASSUME Written(new) PROVE ProcInv'
  <2>1. ASSUME NEW d \in Domain, proc.phase # "down" PROVE Holding(d)'
    BY <1>1, <1>3, <1>4, <1>6, <2>1 DEF UnbindInv, Journaled, ProcInv, Holding, Running,
       DiskInv, Settled, Written, TypeInv, Disks, Counts
  <2> QED
    BY <1>1, <1>3, <1>6, <2>1 DEF ProcInv, Running
<1>7. ASSUME Written(new), op' = Then("finish") PROVE OpInv'
  <2>1. UnbindInv'
    BY <1>1, <1>3, <1>7, ThenFields DEF UnbindInv, Journaled, Running, TypeInv, Disks, Counts,
       DiskInv, Settled
  <2> QED
    BY <1>1, <1>7, <2>1, ThenFields DEF OpInv
<1> QED
  BY <1>0, <1>2, <1>4, <1>5, <1>6, <1>7, WriteStep

\* The journal goes last.
LEMMA FinishUnbindStep == IInv /\ FinishUnbind => IInv'
<1> SUFFICES ASSUME IInv, FinishUnbind PROVE IInv'
  OBVIOUS
<1>0. TypeInv'
  BY UnbindType DEF IInv, UnbindNext
<1>1. /\ op.kind = "unbind" /\ op.pc = "finish" /\ UnbindInv /\ TypeInv /\ DiskInv /\ ProcInv
      /\ op.dom \in Domain /\ op.gen \in Nat /\ Other(op.dom) \in Domain /\ Other(op.dom) # op.dom
      /\ \A e \in Domain : e = op.dom \/ e = Other(op.dom)
  BY OtherDomain DEF IInv, FinishUnbind, At, OpInv, TypeInv, Ops
<1> DEFINE new == [disk EXCEPT !.unbind[op.dom] = 0]
<1>2. new \in Disks
  BY <1>1, DiskType DEF TypeInv, Ops
<1>3. ASSUME Written(new)
      PROVE  /\ UNCHANGED <<issued, revoked, svc, proc>>
             /\ disk'.state = disk.state /\ disk'.cfg = disk.cfg /\ disk'.exec = disk.exec
             /\ disk'.pve = disk.pve /\ disk'.pend = disk.pend
             /\ disk'.commit = disk.commit
             /\ disk'.unbind = [disk.unbind EXCEPT ![op.dom] = 0]
             /\ disk'.backup = disk.backup /\ disk'.assign = disk.assign
             /\ disk'.authority = disk.authority
  BY <1>1, <1>3 DEF Written, TypeInv, Disks, Counts
<1>4. Persist(new, Idle, Idle) /\ orphaned \subseteq orphaned'
  BY DEF FinishUnbind
<1> HIDE DEF new
<1>5. ASSUME Written(new) PROVE DiskInv'
  <2>1. ASSUME NEW d \in Domain PROVE Settled(d)'
    BY <1>1, <1>3, <1>5 DEF UnbindInv, Journaled, DiskInv, Settled, Written, TypeInv, Disks,
       Counts
  <2> QED
    BY <1>1, <1>3, <1>5, <2>1 DEF UnbindInv, Journaled, DiskInv, AssignedTo, Written, TypeInv,
       Disks, Counts, Domain
<1>6. ASSUME Written(new) PROVE ProcInv'
  <2>1. ASSUME NEW d \in Domain, proc.phase # "down" PROVE Holding(d)'
    BY <1>1, <1>3, <1>4, <1>6, <2>1 DEF UnbindInv, Journaled, ProcInv, Holding, Running,
       DiskInv, Settled, Written, TypeInv, Disks, Counts
  <2> QED
    BY <1>1, <1>3, <1>6, <2>1 DEF ProcInv, Running
<1>7. ASSUME Written(new), op' = Idle PROVE OpInv'
  BY <1>7, Ended
<1> QED
  BY <1>0, <1>2, <1>4, <1>5, <1>6, <1>7, WriteStep

-----------------------------------------------------------------------------
(***************************************************************************)
(* Rolling a removal back.                                                 *)
(***************************************************************************)

\* The private state comes back from its copy.
LEMMA RestoreStateStep == IInv /\ RestoreState => IInv'
<1> SUFFICES ASSUME IInv, RestoreState PROVE IInv'
  OBVIOUS
<1>0. TypeInv'
  BY UnbindType DEF IInv, UnbindNext
<1>1. /\ op.kind = "unbind" /\ op.pc = "restore" /\ UnbindInv /\ TypeInv /\ DiskInv /\ ProcInv
      /\ op.dom \in Domain /\ op.gen \in Nat /\ Other(op.dom) \in Domain /\ Other(op.dom) # op.dom
      /\ \A e \in Domain : e = op.dom \/ e = Other(op.dom)
  BY OtherDomain DEF IInv, RestoreState, At, OpInv, TypeInv, Ops
<1>2. CASE disk.backup[op.dom] # 0
  <2> DEFINE new == [disk EXCEPT !.state[op.dom] = disk.backup[op.dom]]
  <2>2. new \in Disks
    BY <1>1, DiskType DEF TypeInv, Disks, Counts
  <2>3. ASSUME Written(new)
        PROVE  /\ UNCHANGED <<issued, revoked, svc, proc>>
               /\ disk'.state = [disk.state EXCEPT ![op.dom] = op.gen]
               /\ disk'.cfg = disk.cfg /\ disk'.exec = disk.exec /\ disk'.pve = disk.pve
               /\ disk'.pend = disk.pend /\ disk'.commit = disk.commit
               /\ disk'.unbind = disk.unbind /\ disk'.backup = disk.backup
               /\ disk'.assign = disk.assign /\ disk'.authority = disk.authority
    BY <1>1, <1>2, <2>3 DEF Written, TypeInv, Disks, Counts, UnbindInv, Journaled, DiskInv,
       Settled
  <2>4. Persist(new, Then("rewrite"), Idle) /\ orphaned \subseteq orphaned'
    BY <1>2 DEF RestoreState
  <2> HIDE DEF new
  <2>5. ASSUME Written(new) PROVE DiskInv'
    <3>1. ASSUME NEW d \in Domain PROVE Settled(d)'
      BY <1>1, <2>3, <2>5 DEF UnbindInv, Journaled, DiskInv, Settled, Written, TypeInv, Disks,
         Counts
    <3> QED
      BY <1>1, <2>3, <2>5, <3>1 DEF UnbindInv, Journaled, DiskInv, AssignedTo, Written, TypeInv,
         Disks, Counts, Domain
  <2>6. ASSUME Written(new) PROVE ProcInv'
    <3>1. ASSUME NEW d \in Domain, proc.phase # "down" PROVE Holding(d)'
      BY <1>1, <2>3, <2>4, <2>6, <3>1 DEF UnbindInv, Journaled, ProcInv, Holding, Running,
         DiskInv, Settled, Written, TypeInv, Disks, Counts
    <3> QED
      BY <1>1, <2>3, <2>6, <3>1 DEF ProcInv, Running
  <2>7. ASSUME Written(new), op' = Then("rewrite") PROVE OpInv'
    <3>1. UnbindInv'
      BY <1>1, <2>3, <2>7, ThenFields DEF UnbindInv, Journaled, Running, TypeInv, Disks, Counts,
         DiskInv, Settled
    <3> QED
      BY <1>1, <2>7, <3>1, ThenFields DEF OpInv
  <2> QED
    BY <1>0, <2>2, <2>4, <2>5, <2>6, <2>7, WriteStep
<1>3. CASE disk.backup[op.dom] = 0
  BY <1>0, <1>3, Ended, LookStep DEF RestoreState
<1> QED
  BY <1>2, <1>3

\* The configuration the command had read comes back.
LEMMA RestoreConfigStep == IInv /\ RestoreConfig => IInv'
<1> SUFFICES ASSUME IInv, RestoreConfig PROVE IInv'
  OBVIOUS
<1>0. TypeInv'
  BY UnbindType DEF IInv, UnbindNext
<1>1. /\ op.kind = "unbind" /\ op.pc = "rewrite" /\ UnbindInv /\ TypeInv /\ DiskInv /\ ProcInv
      /\ op.dom \in Domain /\ op.gen \in Nat /\ Other(op.dom) \in Domain /\ Other(op.dom) # op.dom
      /\ \A e \in Domain : e = op.dom \/ e = Other(op.dom)
  BY OtherDomain DEF IInv, RestoreConfig, At, OpInv, TypeInv, Ops
<1> DEFINE new == [disk EXCEPT !.cfg = op.cfg, !.exec = op.exec]
           next == IF disk.state[op.dom] = op.gen THEN Then("rearm") ELSE Idle
<1>2. new \in Disks
  BY <1>1 DEF TypeInv, Disks, Ops
<1>3. ASSUME Written(new)
      PROVE  /\ UNCHANGED <<issued, revoked, svc, proc>>
             /\ disk'.state = disk.state /\ disk'.cfg = op.cfg /\ disk'.exec = op.exec
             /\ disk'.pve = disk.pve /\ disk'.pend = disk.pend
             /\ disk'.commit = disk.commit /\ disk'.unbind = disk.unbind
             /\ disk'.backup = disk.backup /\ disk'.assign = disk.assign
             /\ disk'.authority = disk.authority
  BY <1>1, <1>3 DEF Written, TypeInv, Disks, Counts
<1>4. Persist(new, next, Idle) /\ orphaned \subseteq orphaned'
  BY DEF RestoreConfig
<1> HIDE DEF new, next
<1>5. ASSUME Written(new) PROVE DiskInv'
  <2>1. ASSUME NEW d \in Domain PROVE Settled(d)'
    BY <1>1, <1>3, <1>5 DEF UnbindInv, Journaled, DiskInv, Settled, Written, TypeInv, Disks,
       Counts
  <2> QED
    BY <1>1, <1>3, <1>5, <2>1 DEF UnbindInv, Journaled, DiskInv, AssignedTo, Written, TypeInv,
       Disks, Counts, Domain
<1>6. ASSUME Written(new) PROVE ProcInv'
  <2>1. ASSUME NEW d \in Domain, proc.phase # "down" PROVE Holding(d)'
    BY <1>1, <1>3, <1>4, <1>6, <2>1 DEF UnbindInv, Journaled, ProcInv, Holding, Running,
       DiskInv, Settled, Written, TypeInv, Disks, Counts
  <2> QED
    BY <1>1, <1>3, <1>6, <2>1 DEF ProcInv, Running
<1>7. ASSUME Written(new), op' = next PROVE OpInv'
  <2>0. op' = Then("rearm")
    BY <1>1, <1>7 DEF UnbindInv, next
  <2>1. UnbindInv'
    BY <1>1, <1>3, <1>7, <2>0, ThenFields DEF UnbindInv, Journaled, Running, TypeInv, Disks,
       Counts, DiskInv, Settled
  <2> QED
    BY <1>1, <2>0, <2>1, ThenFields DEF OpInv
<1> QED
  BY <1>0, <1>2, <1>4, <1>5, <1>6, <1>7, WriteStep

\* systemd is told to keep the agent.
LEMMA ArmRestoredStep == IInv /\ ArmRestored => IInv'
<1> SUFFICES ASSUME IInv, ArmRestored PROVE IInv'
  OBVIOUS
<1>0. TypeInv'
  BY UnbindType DEF IInv, UnbindNext
<1>1. /\ op.kind = "unbind" /\ op.pc = "rearm" /\ UnbindInv /\ TypeInv /\ DiskInv /\ ProcInv
      /\ op.dom \in Domain /\ op.gen \in Nat /\ Other(op.dom) \in Domain /\ Other(op.dom) # op.dom
      /\ \A e \in Domain : e = op.dom \/ e = Other(op.dom)
  BY OtherDomain DEF IInv, ArmRestored, At, OpInv, TypeInv, Ops
<1>2. Systemctl("started", proc, Then("unmark"), Idle)
  BY <1>1 DEF ArmRestored, ArmRestored, Arm
<1>3. OpInv'
  <2>1. CASE op' = Then("unmark")
    <3>1. UnbindInv'
      BY <1>1, <1>2, <2>1, ThenFields DEF Systemctl, UnbindInv, Journaled, Running, Down, None,
         TypeInv, Ops, Disks, Counts, ProcInv
    <3> QED
      BY <1>1, <2>1, <3>1, ThenFields DEF OpInv
  <2>2. CASE op' = Idle
    BY <2>2, Ended
  <2> QED
    BY <1>2, <2>1, <2>2 DEF Systemctl
<1> QED
  BY <1>0, <1>2, <1>3, ServiceStep

\* The journal of the undone removal goes.
LEMMA FinishRollbackStep == IInv /\ FinishRollback => IInv'
<1> SUFFICES ASSUME IInv, FinishRollback PROVE IInv'
  OBVIOUS
<1>0. TypeInv'
  BY UnbindType DEF IInv, UnbindNext
<1>1. /\ op.kind = "unbind" /\ op.pc = "unmark" /\ UnbindInv /\ TypeInv /\ DiskInv /\ ProcInv
      /\ op.dom \in Domain /\ op.gen \in Nat /\ Other(op.dom) \in Domain /\ Other(op.dom) # op.dom
      /\ \A e \in Domain : e = op.dom \/ e = Other(op.dom)
  BY OtherDomain DEF IInv, FinishRollback, At, OpInv, TypeInv, Ops
<1> DEFINE new == [disk EXCEPT !.unbind[op.dom] = 0]
<1>2. new \in Disks
  BY <1>1, DiskType DEF TypeInv, Ops
<1>3. ASSUME Written(new)
      PROVE  /\ UNCHANGED <<issued, revoked, svc, proc>>
             /\ disk'.state = disk.state /\ disk'.cfg = disk.cfg /\ disk'.exec = disk.exec
             /\ disk'.pve = disk.pve /\ disk'.pend = disk.pend
             /\ disk'.commit = disk.commit
             /\ disk'.unbind = [disk.unbind EXCEPT ![op.dom] = 0]
             /\ disk'.backup = disk.backup /\ disk'.assign = disk.assign
             /\ disk'.authority = disk.authority
  BY <1>1, <1>3 DEF Written, TypeInv, Disks, Counts
<1>4. Persist(new, Then("revive"), Idle) /\ orphaned \subseteq orphaned'
  BY DEF FinishRollback
<1> HIDE DEF new
<1>5. ASSUME Written(new) PROVE DiskInv'
  <2>1. ASSUME NEW d \in Domain PROVE Settled(d)'
    BY <1>1, <1>3, <1>5 DEF UnbindInv, Journaled, DiskInv, Settled, Written, TypeInv, Disks,
       Counts
  <2> QED
    BY <1>1, <1>3, <1>5, <2>1 DEF UnbindInv, Journaled, DiskInv, AssignedTo, Written, TypeInv,
       Disks, Counts, Domain
<1>6. ASSUME Written(new) PROVE ProcInv'
  <2>1. ASSUME NEW d \in Domain, proc.phase # "down" PROVE Holding(d)'
    BY <1>1, <1>3, <1>4, <1>6, <2>1 DEF UnbindInv, Journaled, ProcInv, Holding, Running,
       DiskInv, Settled, Written, TypeInv, Disks, Counts
  <2> QED
    BY <1>1, <1>3, <1>6, <2>1 DEF ProcInv, Running
<1>7. ASSUME Written(new), op' = Then("revive") PROVE OpInv'
  <2>1. UnbindInv'
    BY <1>1, <1>3, <1>7, ThenFields DEF UnbindInv, Journaled, Running, TypeInv, Disks, Counts,
       DiskInv, Settled
  <2> QED
    BY <1>1, <1>7, <2>1, ThenFields DEF OpInv
<1> QED
  BY <1>0, <1>2, <1>4, <1>5, <1>6, <1>7, WriteStep

\* The restored binding is started.
LEMMA RecoverRestoredStep == IInv /\ RecoverRestored => IInv'
<1> SUFFICES ASSUME IInv, RecoverRestored PROVE IInv'
  OBVIOUS
<1>0. TypeInv'
  BY UnbindType DEF IInv, UnbindNext
<1>1. /\ op.kind = "unbind" /\ op.pc = "revive" /\ UnbindInv /\ TypeInv /\ DiskInv /\ ProcInv
      /\ op.dom \in Domain /\ op.gen \in Nat /\ Other(op.dom) \in Domain /\ Other(op.dom) # op.dom
      /\ \A e \in Domain : e = op.dom \/ e = Other(op.dom)
  BY OtherDomain DEF IInv, RecoverRestored, At, OpInv, TypeInv, Ops
<1>2. Systemctl("started", Down, Then("healthy"), Idle)
  BY <1>1 DEF RecoverRestored, RecoverRestored, Restart
<1>3. OpInv'
  <2>1. CASE op' = Then("healthy")
    <3>1. UnbindInv'
      BY <1>1, <1>2, <2>1, ThenFields DEF Systemctl, UnbindInv, Journaled, Running, Down, None,
         TypeInv, Ops, Disks, Counts, ProcInv
    <3> QED
      BY <1>1, <2>1, <3>1, ThenFields DEF OpInv
  <2>2. CASE op' = Idle
    BY <2>2, Ended
  <2> QED
    BY <1>2, <2>1, <2>2 DEF Systemctl
<1> QED
  BY <1>0, <1>2, <1>3, ServiceStep

\* The restored agent is seen healthy, or not.
LEMMA ConfirmRestoredStep == IInv /\ ConfirmRestored => IInv'
<1> SUFFICES ASSUME IInv, ConfirmRestored PROVE IInv'
  OBVIOUS
<1>0. TypeInv'
  BY UnbindType DEF IInv, UnbindNext
<1>1. /\ op.kind = "unbind" /\ op.pc = "healthy" /\ UnbindInv /\ TypeInv /\ DiskInv /\ ProcInv
      /\ op.dom \in Domain /\ op.gen \in Nat /\ Other(op.dom) \in Domain /\ Other(op.dom) # op.dom
      /\ \A e \in Domain : e = op.dom \/ e = Other(op.dom)
  BY OtherDomain DEF IInv, ConfirmRestored, At, OpInv, TypeInv, Ops
<1>2. UNCHANGED <<disk, issued, svc, proc, orphaned, marked>>
  BY DEF ConfirmRestored
<1>3. CASE op' = Idle
  BY <1>0, <1>2, <1>3, Ended, LookStep
<1>4. CASE op' = Then("forget")
  <2>1. UnbindInv'
    BY <1>1, <1>2, <1>4, ThenFields DEF UnbindInv, Journaled
  <2>2. OpInv'
    BY <1>1, <1>4, <2>1, ThenFields DEF OpInv
  <2> QED
    BY <1>0, <1>2, <2>2, LookStep
<1> QED
  BY <1>3, <1>4 DEF ConfirmRestored

\* The copy of the restored state goes.
LEMMA ForgetBackupStep == IInv /\ ForgetBackup => IInv'
<1> SUFFICES ASSUME IInv, ForgetBackup PROVE IInv'
  OBVIOUS
<1>0. TypeInv'
  BY UnbindType DEF IInv, UnbindNext
<1>1. /\ op.kind = "unbind" /\ op.pc = "forget" /\ UnbindInv /\ TypeInv /\ DiskInv /\ ProcInv
      /\ op.dom \in Domain /\ op.gen \in Nat /\ Other(op.dom) \in Domain /\ Other(op.dom) # op.dom
      /\ \A e \in Domain : e = op.dom \/ e = Other(op.dom)
  BY OtherDomain DEF IInv, ForgetBackup, At, OpInv, TypeInv, Ops
<1> DEFINE new == [disk EXCEPT !.backup[op.dom] = 0]
<1>2. new \in Disks
  BY <1>1, DiskType DEF TypeInv, Ops
<1>3. ASSUME Written(new)
      PROVE  /\ UNCHANGED <<issued, revoked, svc, proc>>
             /\ disk'.state = disk.state /\ disk'.cfg = disk.cfg /\ disk'.exec = disk.exec
             /\ disk'.pve = disk.pve /\ disk'.pend = disk.pend
             /\ disk'.commit = disk.commit /\ disk'.unbind = disk.unbind
             /\ disk'.backup = [disk.backup EXCEPT ![op.dom] = 0]
             /\ disk'.assign = disk.assign /\ disk'.authority = disk.authority
  BY <1>1, <1>3 DEF Written, TypeInv, Disks, Counts
<1>4. Persist(new, Idle, Idle) /\ orphaned \subseteq orphaned'
  BY DEF ForgetBackup
<1> HIDE DEF new
<1>5. ASSUME Written(new) PROVE DiskInv'
  <2>1. ASSUME NEW d \in Domain PROVE Settled(d)'
    BY <1>1, <1>3, <1>5 DEF UnbindInv, Journaled, DiskInv, Settled, Written, TypeInv, Disks,
       Counts
  <2> QED
    BY <1>1, <1>3, <1>5, <2>1 DEF UnbindInv, Journaled, DiskInv, AssignedTo, Written, TypeInv,
       Disks, Counts, Domain
<1>6. ASSUME Written(new) PROVE ProcInv'
  <2>1. ASSUME NEW d \in Domain, proc.phase # "down" PROVE Holding(d)'
    BY <1>1, <1>3, <1>4, <1>6, <2>1 DEF UnbindInv, Journaled, ProcInv, Holding, Running,
       DiskInv, Settled, Written, TypeInv, Disks, Counts
  <2> QED
    BY <1>1, <1>3, <1>6, <2>1 DEF ProcInv, Running
<1>7. ASSUME Written(new), op' = Idle PROVE OpInv'
  BY <1>7, Ended
<1> QED
  BY <1>0, <1>2, <1>4, <1>5, <1>6, <1>7, WriteStep

-----------------------------------------------------------------------------
(***************************************************************************)
(* The operator, the services and the host.                                *)
(***************************************************************************)

\* What a command has read when it starts.
LEMMA CommandFields ==
    ASSUME NEW kind, NEW d, NEW pc, NEW g
    PROVE  /\ Command(kind, d, pc, g).kind = kind /\ Command(kind, d, pc, g).dom = d
           /\ Command(kind, d, pc, g).pc = pc /\ Command(kind, d, pc, g).gen = g
           /\ Command(kind, d, pc, g).frozen = Committing(d)
           /\ Command(kind, d, pc, g).retry = Requested(d)
           /\ Command(kind, d, pc, g).cfg = disk.cfg
           /\ Command(kind, d, pc, g).exec = disk.exec
BY DEF Command, Idle

\* A bind starts, resumes a commit or retries its request.
LEMMA StartBind ==
    ASSUME IInv, NEW d \in Domain, Bind(d)
    PROVE  IInv'
<1>0. TypeInv'
  BY OperatorType DEF IInv
<1>1. UNCHANGED <<disk, issued, svc, proc, orphaned, marked>>
  BY DEF Bind
<1>2. /\ NoUnbindTransaction /\ disk.commit[Other(d)] = 0 /\ disk.pend[Other(d)] = 0
      /\ disk.exec => \A e \in Domain : disk.cfg[e] # 0
  BY DEF Bind, BindAllowed, HasPendingState, Committing, Requested, IInv, DiskInv
<1>3. PICK pc \in {"validate", "quiesce", "prepare"}, g \in Nat :
        /\ op' = Command("bind", d, pc, g) /\ g # 0
        /\ pc = "validate" => disk.commit[d] = g /\ disk.pend[d] = 0
        /\ pc = "quiesce" => disk.pend[d] = g
        /\ pc = "prepare" => disk.commit[d] = 0 /\ disk.pend[d] = 0
  <2>0. disk.commit[d] \in Nat /\ disk.pend[d] \in Nat
    BY DEF IInv, TypeInv, Disks, Counts
  <2>1. CASE CompleteCommit(d)
    BY <2>0, <2>1 DEF CompleteCommit, Committing, Requested
  <2>2. CASE RetryRequest(d)
    BY <2>0, <2>2 DEF RetryRequest, Requested
  <2>3. CASE NewRequest(d)
    <3>1. PICK g \in Requests(d) : op' = Command("bind", d, "prepare", g)
      BY <2>3 DEF NewRequest
    <3>2. g \in Nat /\ g # 0
      BY BindingAssumption DEF Requests
    <3> QED
      BY <2>3, <3>1, <3>2 DEF NewRequest, HasPendingState, Committing, Requested
  <2> QED
    BY <2>1, <2>2, <2>3 DEF Bind
<1>4. /\ op'.kind = "bind" /\ op'.dom = d /\ op'.pc = pc /\ op'.gen = g
      /\ op'.frozen = (disk.commit[d] # 0)
      /\ op'.cfg = disk.cfg /\ op'.exec = disk.exec
  BY <1>3, CommandFields DEF Committing
<1>5. BindInv'
  BY <1>1, <1>2, <1>3, <1>4 DEF BindInv, NoUnbindTransaction, Removing
<1>6. OpInv'
  BY <1>4, <1>5 DEF OpInv
<1> QED
  BY <1>0, <1>1, <1>6, LookStep

\* A removal starts, or resumes from its journal.
LEMMA StartUnbind ==
    ASSUME IInv, NEW d \in Domain, Unbind(d)
    PROVE  IInv'
<1>0. TypeInv'
  BY OperatorType DEF IInv
<1>1. UNCHANGED <<disk, issued, svc, proc, orphaned, marked>>
  BY DEF Unbind
<1>2. /\ \A e \in Domain : disk.commit[e] = 0 /\ disk.pend[e] = 0
      /\ disk.unbind[Other(d)] = 0
      /\ disk.exec => \A e \in Domain : disk.cfg[e] # 0
      /\ Settled(d)
  BY OtherDomain DEF Unbind, NoIncompleteTransactionExceptUnbind, Committing, Requested,
     Removing, IInv, DiskInv
<1>3. CASE ResumeUnbind(d)
  <2> DEFINE pc == IF disk.cfg[d] # 0 THEN "restore" ELSE "remove"
             c == Command("unbind", d, pc, disk.unbind[d])
  <2>1. /\ c.kind = "unbind" /\ c.dom = d /\ c.pc = pc /\ c.gen = disk.unbind[d]
        /\ c.cfg = disk.cfg /\ c.exec = disk.exec
    BY CommandFields
  <2>2. c \in Ops
    <3>1. pc \in Steps /\ disk.unbind[d] \in Nat
      BY DEF Steps, UnbindSteps, IInv, TypeInv, Disks, Counts
    <3> QED
      BY <3>1, CommandType DEF IInv
  <2>3. op' = [c EXCEPT !.retry = TRUE] /\ disk.unbind[d] # 0
    BY <1>3 DEF ResumeUnbind, Removing
  <2> HIDE DEF c
  <2>4. /\ op'.kind = "unbind" /\ op'.dom = d /\ op'.pc = pc /\ op'.gen = disk.unbind[d]
        /\ op'.cfg = disk.cfg /\ op'.exec = disk.exec /\ op'.retry
    BY <2>1, <2>2, <2>3 DEF Ops
  <2>5. UnbindInv'
    BY <1>1, <1>2, <2>3, <2>4 DEF UnbindInv, Journaled, Settled
  <2>6. OpInv'
    BY <2>4, <2>5 DEF OpInv
  <2> QED
    BY <1>0, <1>1, <2>6, LookStep
<1>4. CASE RemoveBinding(d)
  <2>1. op' = Command("unbind", d, "backup", disk.state[d]) /\ disk.state[d] # 0
        /\ disk.unbind[d] = 0
    BY <1>4 DEF RemoveBinding, Removing, Stored
  <2>2. /\ op'.kind = "unbind" /\ op'.dom = d /\ op'.pc = "backup"
        /\ op'.gen = disk.state[d] /\ op'.retry = (disk.pend[d] # 0)
        /\ op'.cfg = disk.cfg /\ op'.exec = disk.exec
    BY <2>1, CommandFields DEF Requested
  <2>3. UnbindInv'
    BY <1>1, <1>2, <2>1, <2>2 DEF UnbindInv, Journaled, Settled
  <2>4. OpInv'
    BY <2>2, <2>3 DEF OpInv
  <2> QED
    BY <1>0, <1>1, <2>4, LookStep
<1> QED
  BY <1>3, <1>4 DEF Unbind

\* A revocation changes nothing on the host; a discarded request is dropped.
LEMMA OperatorStep ==
    ASSUME IInv, NEW d \in Domain, Revoke(d) \/ DiscardPending(d)
    PROVE  IInv'
<1>0. TypeInv'
  BY OperatorType DEF IInv
<1>1. op = Idle
  BY DEF Revoke, DiscardPending
<1>2. CASE Revoke(d)
  BY <1>0, <1>1, <1>2, Ended, LookStep DEF Revoke
<1>3. CASE DiscardPending(d)
  <2> DEFINE new == [disk EXCEPT !.pend[d] = 0]
  <2>1. new \in Disks
    BY DiskType DEF IInv
  <2>2. Persist(new, Idle, Idle) /\ orphaned' = orphaned
    BY <1>3 DEF DiscardPending
  <2>3. /\ new.state = disk.state /\ new.cfg = disk.cfg /\ new.exec = disk.exec
        /\ new.commit = disk.commit /\ new.unbind = disk.unbind /\ new.backup = disk.backup
        /\ new.assign = disk.assign /\ new.authority = disk.authority
        /\ new.pend = [disk.pend EXCEPT ![d] = 0]
    BY DEF IInv, TypeInv, Disks
  <2> HIDE DEF new
  <2>4. ASSUME Written(new) PROVE DiskInv'
    BY <2>3, <2>4 DEF Written, IInv, TypeInv, Disks, Counts, DiskInv, Settled, AssignedTo
  <2>5. ASSUME Written(new) PROVE ProcInv'
    BY <2>2, <2>3, <2>5 DEF Written, IInv, ProcInv, Holding, Running
  <2>6. ASSUME Written(new), op' = Idle PROVE OpInv'
    BY <2>6, Ended
  <2> QED
    BY <1>0, <2>1, <2>2, <2>4, <2>5, <2>6, WriteStep
<1> QED
  BY <1>2, <1>3

\* The command dies, or the whole host does.
LEMMA CrashStep == IInv /\ (CommandCrash \/ Reboot) => IInv'
<1> SUFFICES ASSUME IInv, CommandCrash \/ Reboot PROVE IInv'
  OBVIOUS
<1>1. TypeInv'
  BY OperatorType DEF IInv, Domain
<1>2. op' = Idle /\ disk' = disk /\ marked' = marked /\ proc' \in {proc, Down}
      /\ orphaned' = orphaned
  BY DEF CommandCrash, Reboot
<1> QED
  BY <1>1, <1>2, Ended, FilesKept, LoadedKept, LoadedNothing DEF IInv

-----------------------------------------------------------------------------
(***************************************************************************)
(* The theorems.                                                           *)
(***************************************************************************)

\* Every step of the specification keeps the invariant.
LEMMA NextIInv == IInv /\ [Next]_vars => IInv'
<1> SUFFICES ASSUME IInv, [Next]_vars PROVE IInv'
  OBVIOUS
<1>1. CASE AgentNext
  BY <1>1, LoadFileStep, ResolveStep, RefreshStep, AgentCrashStep DEF AgentNext
<1>2. CASE BindNext
  BY <1>2, PrepareStep, UnpreparedStep, ReadyStep, CollectStep, UnreadyStep, UnwindStep,
     PreparePendingStep, QuiesceStep, SendStep, UnsentStep, RecoverStep, BeginCommitStep,
     WriteInitialAssignmentStep, ResetAuthorityStep, WriteConfigStep, SaveStateStep,
     ValidateStep, ArmBoundStep, ClearPendingStep, FinishCommitStep, RuntimeStep,
     ActivateStep DEF BindNext
<1>3. CASE UnbindNext
  BY <1>3, BackupStateStep, BeginUnbindStep, RestartForUnbindStep, DisableConfigStep,
     RemoveStateStep, ArmUnboundStep, ActivateUnboundStep, ConfirmStep, DiscardBackupStep,
     FinishUnbindStep, RestoreStateStep, RestoreConfigStep, ArmRestoredStep,
     FinishRollbackStep, RecoverRestoredStep, ConfirmRestoredStep, ForgetBackupStep DEF UnbindNext
<1>4. CASE WebsiteBind \/ MonitoringBind
  BY <1>4, StartBind DEF WebsiteBind, MonitoringBind, Domain
<1>5. CASE \E d \in Domain : Unbind(d) \/ Revoke(d) \/ DiscardPending(d)
  BY <1>5, StartUnbind, OperatorStep
<1>6. CASE CommandCrash \/ Reboot
  BY <1>6, CrashStep
<1>7. CASE UNCHANGED vars
  BY <1>7 DEF vars, IInv, TypeInv, DiskInv, Settled, AssignedTo, ProcInv, Holding, Running,
     OpInv, BindInv, UnbindInv, NoUnbindTransaction, Removing
<1> QED
  BY <1>1, <1>2, <1>3, <1>4, <1>5, <1>6, <1>7 DEF Next

\* The invariant holds throughout.
LEMMA Invariant == Spec => []IInv
BY InitIInv, NextIInv, PTL DEF Spec

\* A durable operation on another file leaves the requests alone.
LEMMA PersistKeepsRequests ==
    ASSUME NEW new, NEW next, NEW failure, Persist(new, next, failure), new.pend = disk.pend
    PROVE  disk'.pend = disk.pend
BY DEF Persist

\* Only four steps replace the file of a request: the one that makes it, the
\* two that drop it, and the operator's discard.
LEMMA RequestsKept ==
    ASSUME TypeInv, [Next]_vars, disk'.pend # disk.pend
    PROVE  PreparePending \/ Unsent \/ ClearPending \/ \E d \in Domain : DiscardPending(d)
<1>1. ~UNCHANGED vars
  BY DEF vars
<1>2. ~AgentNext
  <2>1. ~LoadFile /\ ~Resolve /\ ~AgentCrash
    BY DEF LoadFile, Resolve, AgentCrash
  <2>2. ~SaveAuthority
    BY DEF SaveAuthority, Authorized, TypeInv, Disks
  <2>3. ~WriteAssignment
    BY DEF WriteAssignment, Assigned, TypeInv, Disks
  <2> QED
    BY <2>1, <2>2, <2>3 DEF AgentNext
<1>3. BindNext => PreparePending \/ Unsent \/ ClearPending
  <2>1. /\ ~Unprepared /\ ~Ready /\ ~Collect /\ ~Unwind /\ ~Quiesce /\ ~Send /\ ~Recover
        /\ ~Validate /\ ~ArmBound /\ ~Activate
    BY DEF Unprepared, Ready, Collect, Unwind, Quiesce, Send, Recover, Validate, ArmBound,
       Activate, Restart, Stop, Arm, Systemctl
  <2>2. ~Prepare
    BY PersistKeepsRequests DEF Prepare, Prepared, TypeInv, Disks
  <2>3. ~Unready
    BY PersistKeepsRequests DEF Unready, TypeInv, Disks
  <2>4. ~BeginCommit
    BY PersistKeepsRequests DEF BeginCommit, TypeInv, Disks
  <2>5. ~WriteInitialAssignment
    BY PersistKeepsRequests DEF WriteInitialAssignment, Assigned, TypeInv, Disks
  <2>6. ~ResetAuthority
    BY PersistKeepsRequests DEF ResetAuthority, TypeInv, Disks
  <2>7. ~WriteConfig
    BY PersistKeepsRequests DEF WriteConfig, Bound, TypeInv, Disks
  <2>8. ~SaveState
    BY PersistKeepsRequests DEF SaveState, TypeInv, Disks
  <2>9. ~FinishCommit
    BY PersistKeepsRequests DEF FinishCommit, TypeInv, Disks
  <2>10. ~Runtime
    BY PersistKeepsRequests DEF Runtime, TypeInv, Disks
  <2> QED
    BY <2>1, <2>2, <2>3, <2>4, <2>5, <2>6, <2>7, <2>8, <2>9, <2>10 DEF BindNext
<1>4. ~UnbindNext
  <2>1. /\ ~RestartForUnbind /\ ~ArmUnbound /\ ~ActivateUnbound /\ ~Confirm /\ ~ArmRestored
        /\ ~RecoverRestored /\ ~ConfirmRestored
    BY DEF RestartForUnbind, ArmUnbound, ActivateUnbound, Confirm, ArmRestored,
       RecoverRestored, ConfirmRestored, Restart, Arm, Systemctl
  <2>2. ~BackupState /\ ~DiscardBackup /\ ~ForgetBackup
    BY PersistKeepsRequests DEF BackupState, DiscardBackup, ForgetBackup, TypeInv, Disks
  <2>3. ~BeginUnbind /\ ~FinishUnbind /\ ~FinishRollback
    BY PersistKeepsRequests DEF BeginUnbind, FinishUnbind, FinishRollback, TypeInv, Disks
  <2>4. ~DisableConfig
    BY PersistKeepsRequests DEF DisableConfig, Unbound, TypeInv, Disks
  <2>5. ~RemoveState /\ ~RestoreState
    BY PersistKeepsRequests DEF RemoveState, RestoreState, TypeInv, Disks
  <2>6. ~RestoreConfig
    BY PersistKeepsRequests DEF RestoreConfig, TypeInv, Disks
  <2> QED
    BY <2>1, <2>2, <2>3, <2>4, <2>5, <2>6 DEF UnbindNext
<1>5. ~WebsiteBind /\ ~MonitoringBind /\ ~CommandCrash /\ ~Reboot
  BY DEF WebsiteBind, MonitoringBind, Bind, CommandCrash, Reboot
<1>6. \A d \in Domain : ~Unbind(d) /\ ~Revoke(d)
  BY DEF Unbind, Revoke
<1> QED
  BY <1>1, <1>2, <1>3, <1>4, <1>5, <1>6 DEF Next

\* OneGeneration: for every number of requests, failed operations and crashes,
\* a running agent has configuration, credentials and assignments of a single
\* enrollment answer (the overlay cannot compare them; the markers and the
\* order in which bind and unbind replace the files must keep them apart).
THEOREM SingleGeneration == Spec => []OneGeneration
<1>1. IInv => OneGeneration
  BY DEF IInv, ProcInv, Holding, Running, OneGeneration
<1> QED
  BY <1>1, Invariant, PTL

\* NeverBackwards: no rollback, resumed removal or retry makes the agent load
\* credentials older than the newest answer recorded with a commit marker.
THEOREM GenerationsGrow == Spec => []NeverBackwards
<1>1. IInv => NeverBackwards
  BY DEF IInv, TypeInv, Counts, ProcInv, Holding, Running, NeverBackwards
<1> QED
  BY <1>1, Invariant, PTL

\* MarkersExclude: no agent runs while a commit marker is on disk, unless the
\* second check of finalize put it back, and none holds credentials of a
\* domain that is switched off under a removal journal.
THEOREM MarkersHold == Spec => []MarkersExclude
<1>1. IInv => MarkersExclude
  BY DEF IInv, ProcInv, Holding, Running, MarkersExclude
<1> QED
  BY <1>1, Invariant, PTL

\* MutationsAudited: an agent that executes real changes has loaded both the
\* command channel and the audit channel, whatever was bound, replaced, rolled
\* back or removed before.
THEOREM ExecutionAudited == Spec => []MutationsAudited
<1>1. IInv => MutationsAudited
  BY DEF IInv, ProcInv, Holding, Running, MutationsAudited
<1> QED
  BY <1>1, Invariant, PTL

\* RequestKept: the identifier of an accepted request is dropped only when its
\* binding has been saved, when the operator had it revoked, or in the one case
\* that the code does not cover (the service could not be stopped for a retry).
THEOREM AcceptedRequestKept == Spec => RequestKept
<1> DEFINE Kept == \A d \in Domain :
                      disk.pend[d] # 0 /\ disk'.pend[d] = 0 =>
                          \/ disk.pend[d] \notin issued[d]
                          \/ disk.pend[d] \in revoked[d]
                          \/ disk.state[d] = disk.pend[d]
                          \/ d \in orphaned'
<1>1. IInv /\ [Next]_vars => Kept
  <2> SUFFICES ASSUME IInv, [Next]_vars, NEW d \in Domain,
                      disk.pend[d] # 0, disk'.pend[d] = 0
               PROVE  \/ disk.pend[d] \notin issued[d]
                      \/ disk.pend[d] \in revoked[d]
                      \/ disk.state[d] = disk.pend[d]
                      \/ d \in orphaned'
    BY DEF Kept
  <2>1. PreparePending \/ Unsent \/ ClearPending \/ \E e \in Domain : DiscardPending(e)
    BY RequestsKept DEF IInv
  <2>2. op.dom \in Domain
    BY DEF IInv, TypeInv, Ops
  <2>3. CASE PreparePending
    <3>1. BindInv /\ op.pc = "pending"
      BY <2>3 DEF PreparePending, At, IInv, OpInv
    <3>2. disk' = disk \/ disk' = [disk EXCEPT !.pend[op.dom] = op.gen]
      BY <2>3 DEF PreparePending, Persist
    <3> QED
      BY <2>2, <3>1, <3>2 DEF BindInv, IInv, TypeInv, Disks, Counts
  <2>4. CASE Unsent
    <3>1. BindInv /\ op.pc = "unsent"
      BY <2>4 DEF Unsent, At, IInv, OpInv
    <3>2. disk' = disk \/ disk' = [disk EXCEPT !.pend[op.dom] = 0]
      BY <2>4 DEF Unsent, Persist
    <3>3. d = op.dom
      BY <2>2, <3>2 DEF IInv, TypeInv, Disks, Counts
    <3> QED
      BY <2>4, <3>1, <3>3 DEF BindInv, Unsent
  <2>5. CASE ClearPending
    <3>1. BindInv /\ op.pc = "clear"
      BY <2>5 DEF ClearPending, At, IInv, OpInv
    <3>2. disk' = disk \/ disk' = [disk EXCEPT !.pend[op.dom] = 0]
      BY <2>5 DEF ClearPending, Persist
    <3>3. d = op.dom
      BY <2>2, <3>2 DEF IInv, TypeInv, Disks, Counts
    <3> QED
      BY <3>1, <3>3 DEF BindInv
  <2>6. CASE \E e \in Domain : DiscardPending(e)
    <3>1. PICK e \in Domain : DiscardPending(e)
      BY <2>6
    <3>2. disk' = disk \/ disk' = [disk EXCEPT !.pend[e] = 0]
      BY <3>1 DEF DiscardPending, Persist
    <3>3. d = e
      BY <3>2 DEF IInv, TypeInv, Disks, Counts
    <3> QED
      BY <3>1, <3>3 DEF DiscardPending
  <2> QED
    BY <2>1, <2>3, <2>4, <2>5, <2>6
<1>2. Spec => [][Kept]_vars
  BY <1>1, Invariant, PTL DEF Spec
<1> QED
  BY <1>2 DEF RequestKept

=============================================================================
