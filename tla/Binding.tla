------------------------------ MODULE Binding ------------------------------
(***************************************************************************)
(* The local binding of an agent to its two trust domains: the "ag-pve     *)
(* bind", "monitoring bind", "unbind" and "discard pending" commands of    *)
(* internal/admincli, the durable files they replace (internal/bindstate), *)
(* the enrollment services they talk to, and the agent process that loads  *)
(* those files through internal/bindingoverlay and refreshes assignments.  *)
(*                                                                         *)
(* A generation is one enrollment request and the binding it was answered  *)
(* with: request identifiers and credential epochs both grow, so a natural *)
(* number names them; 0 means "none".  Everything else that a binding      *)
(* carries (identity, endpoints, keys) is the same for all generations, so *)
(* the overlay's comparison of configuration and state cannot tell two     *)
(* generations apart and the transaction markers are the only guard.       *)
(***************************************************************************)
EXTENDS Naturals, FiniteSets

CONSTANTS
    Generations,    \* requests the operator may make in each domain
    MaxFaults,      \* failed writes, service operations and messages
    MaxCrashes      \* crashes of the command, the agent and the host

ASSUME BindingAssumption ==
    /\ Generations \in Nat \ {0}
    /\ MaxFaults \in Nat
    /\ MaxCrashes \in Nat

VARIABLES
    disk,       \* configuration, private state, markers, assignments
    issued,     \* per domain: the requests the service has accepted
    revoked,    \* per domain: the requests the operator had revoked there
    svc,        \* what systemd keeps: "started" (Restart=always) or "stopped"
    proc,       \* the agent process: its phase and what it has loaded
    op,         \* the administration command that holds the transaction lock
    faults, crashes,
    marked,     \* history, per domain: the newest generation ever committed to
    orphaned    \* domains whose recovery intent was lost (see Unsent, Runtime)

vars == <<disk, issued, revoked, svc, proc, op, faults, crashes,
          marked, orphaned>>

Domain == {"website", "monitoring"}
Other(d) == IF d = "website" THEN "monitoring" ELSE "website"

\* The initial document of a binding and one fetched later differ, which is
\* all that the comparison with the state's copy looks at.
NoAssignment == [gen |-> 0, refreshed |-> FALSE]

None == [d \in Domain |-> 0]

Down == [phase |-> "down", cfg |-> None, exec |-> FALSE, pve |-> FALSE,
         mem |-> None, assigned |-> 0]

Idle == [kind |-> "none", dom |-> "website", pc |-> "idle", gen |-> 0,
         retry |-> FALSE, frozen |-> FALSE, failed |-> FALSE,
         cfg |-> None, exec |-> FALSE, pve |-> FALSE]

Init ==
    /\ disk = [state |-> None, cfg |-> None, exec |-> FALSE, pve |-> FALSE,
               pend |-> None, commit |-> None, unbind |-> None, backup |-> None,
               assign |-> NoAssignment, authority |-> 0]
    /\ issued = [d \in Domain |-> {}]
    /\ revoked = [d \in Domain |-> {}]
    /\ svc = "stopped"
    /\ proc = Down
    /\ op = Idle
    /\ faults = 0 /\ crashes = 0
    /\ marked = None
    /\ orphaned = {}

-----------------------------------------------------------------------------
(***************************************************************************)
(* Steps of a command.  A durable operation takes effect and the command   *)
(* goes on, or it reports an error, with or without the effect (a rename   *)
(* done and its directory sync failed), and the command takes its error    *)
(* path.                                                                   *)
(***************************************************************************)
At(kind, pc) == op.kind = kind /\ op.pc = pc
Then(pc) == [op EXCEPT !.pc = pc]

Persist(new, next, failure) ==
    /\ \/ disk' = new /\ op' = next /\ faults' = faults
       \/ /\ faults < MaxFaults
          /\ faults' = faults + 1
          /\ disk' \in {disk, new}
          /\ op' = failure
    /\ marked' = [d \in Domain |-> IF disk'.commit[d] # 0 THEN disk'.commit[d]
                                                          ELSE marked[d]]
    /\ UNCHANGED <<issued, revoked, svc, proc, crashes>>

\* systemctl stop, start --no-block or restart, with the same three outcomes.
Systemctl(wanted, process, next, failure) ==
    /\ \/ svc' = wanted /\ proc' = process /\ op' = next /\ faults' = faults
       \/ /\ faults < MaxFaults
          /\ faults' = faults + 1
          /\ \/ UNCHANGED <<svc, proc>>
             \/ svc' = wanted /\ proc' = process
          /\ op' = failure
    /\ UNCHANGED <<disk, issued, revoked, crashes, orphaned, marked>>

Restart(next, failure) == Systemctl("started", Down, next, failure)
Arm(next, failure) == Systemctl("started", proc, next, failure)
Stop(next, failure) == Systemctl("stopped", Down, next, failure)

-----------------------------------------------------------------------------
(***************************************************************************)
(* What the files say.                                                     *)
(***************************************************************************)
Committing(d) == disk.commit[d] # 0
Removing(d) == disk.unbind[d] # 0
Requested(d) == disk.pend[d] # 0
Stored(d) == disk.state[d] # 0

NoUnbindTransaction == \A d \in Domain : ~Removing(d)

NoIncompleteTransactionExceptUnbind(allowed) ==
    \A d \in Domain :
        /\ ~Committing(d)
        /\ ~Requested(d)
        /\ Removing(d) => d = allowed

HasPendingState(d) == Requested(d) \/ Committing(d)

\* autoEnableProductionExecution: real writes are armed only when the command
\* channel (website) and the audit channel (monitoring) are both configured
\* and both bound; the domain being completed counts as bound.
AutoEnable(cfg, completing) ==
    /\ cfg["website"] # 0 /\ cfg["monitoring"] # 0
    /\ NoUnbindTransaction
    /\ \A d \in Domain \ {completing} :
            Stored(d) /\ ~HasPendingState(d)

\* Slip: any binding on disk is taken for the one the marker names.
BoundAtAll(d, g) == Stored(d)

\* The website's state must be the issued one and the assignment file must
\* hold the document that came with it; monitoring's configuration must be on.
WebsiteMatches(g) ==
    /\ disk.state["website"] = g
    /\ disk.assign = [gen |-> g, refreshed |-> FALSE]

MonitoringMatches(g) ==
    /\ disk.state["monitoring"] = g
    /\ disk.cfg["monitoring"] # 0

DiskMatches(d, g) ==
    IF d = "website" THEN WebsiteMatches(g) ELSE MonitoringMatches(g)

\* Slip: the commit markers do not stop the overlay.
ResolvesUncommitted(cfg) ==
    \A d \in Domain :
        /\ Removing(d) => cfg[d] = 0
        /\ cfg[d] # 0 => Stored(d)

\* bindingoverlay.Resolve, on a configuration read earlier.
Resolves(cfg) ==
    \A d \in Domain :
        /\ ~Committing(d)
        /\ Removing(d) => cfg[d] = 0
        /\ cfg[d] # 0 => Stored(d)

-----------------------------------------------------------------------------
(***************************************************************************)
(* The agent process under systemd.                                        *)
(***************************************************************************)
LoadFile ==
    /\ svc = "started" /\ proc.phase = "down"
    /\ proc' = [Down EXCEPT !.phase = "loading", !.cfg = disk.cfg,
                            !.exec = disk.exec, !.pve = disk.pve]
    /\ UNCHANGED <<disk, issued, revoked, svc, op, faults, crashes, orphaned, marked>>

ApplyWebsite == IF proc.cfg["website"] = 0 THEN 0 ELSE disk.state["website"]
ApplyMonitoring == IF proc.cfg["monitoring"] = 0 THEN 0 ELSE disk.state["monitoring"]

\* The assignments come from the refresh authority when there is one, from the
\* assignment file otherwise.
LoadAssignments == IF disk.authority # 0 THEN disk.authority ELSE disk.assign.gen

Loaded == [proc EXCEPT !.phase = "up",
                       !.mem = [website |-> ApplyWebsite, monitoring |-> ApplyMonitoring],
                       !.assigned = LoadAssignments]

\* LoadAuthority refuses an authority of another binding than the one loaded.
AuthorityInScope ==
    proc.cfg["website"] # 0 => disk.authority \in {0, disk.state["website"]}

Resolve ==
    /\ proc.phase = "loading"
    /\ \/ ~Resolves(proc.cfg) /\ proc' = Down /\ svc' = svc
       \/ /\ Resolves(proc.cfg) /\ ~proc.pve
          /\ proc' = Down /\ svc' = "stopped"       \* exit status 78
       \/ /\ Resolves(proc.cfg) /\ proc.pve
          /\ proc' = IF AuthorityInScope THEN Loaded ELSE Down
          /\ svc' = svc
    /\ UNCHANGED <<disk, issued, revoked, op, faults, crashes, orphaned, marked>>

\* Refresh and verify take only a bundle signed for the binding whose keys the
\* process holds, so a fetched document is of the loaded generation.
Fetched == proc.mem["website"]

Authorized(g) == [disk EXCEPT !.authority = g]
Assigned(g, refreshed) == [disk EXCEPT !.assign = [gen |-> g, refreshed |-> refreshed]]

\* refreshAssignments: the authority is saved first, the file other readers
\* use second, and a failure of the second is only logged.
SaveAuthority ==
    /\ proc.phase = "up" /\ Fetched # 0
    /\ disk' = Authorized(Fetched)
    /\ proc' = [proc EXCEPT !.phase = "refreshing", !.assigned = Fetched]
    /\ UNCHANGED <<issued, revoked, svc, op, faults, crashes, orphaned, marked>>

WriteAssignment ==
    /\ proc.phase = "refreshing"
    /\ \/ disk' = Assigned(Fetched, TRUE) /\ faults' = faults
       \/ disk' = disk /\ faults < MaxFaults /\ faults' = faults + 1
    /\ proc' = [proc EXCEPT !.phase = "up"]
    /\ UNCHANGED <<issued, revoked, svc, op, crashes, orphaned, marked>>

Running == proc.phase \in {"up", "refreshing"}

AgentCrash ==
    /\ proc.phase # "down" /\ crashes < MaxCrashes
    /\ crashes' = crashes + 1
    /\ proc' = Down
    /\ UNCHANGED <<disk, issued, revoked, svc, op, faults, orphaned, marked>>

AgentNext == LoadFile \/ Resolve \/ SaveAuthority \/ WriteAssignment \/ AgentCrash

-----------------------------------------------------------------------------
(***************************************************************************)
(* bind and monitoringBind.  The command takes the transaction lock, looks *)
(* at the markers of both domains, and either completes a commit that has  *)
(* no request left, retries the pending request, or makes a new one.  A    *)
(* bind refused by these guards changes nothing.                           *)
(***************************************************************************)
BindAllowed(d) ==
    /\ op = Idle
    /\ NoUnbindTransaction
    /\ ~HasPendingState(Other(d))

Command(kind, d, pc, g) ==
    [Idle EXCEPT !.kind = kind, !.dom = d, !.pc = pc, !.gen = g,
                 !.frozen = Committing(d), !.retry = Requested(d),
                 !.cfg = disk.cfg, !.exec = disk.exec, !.pve = disk.pve]

\* A marker without a request: only the files on disk can complete it.
CompleteCommit(d) ==
    /\ Committing(d) /\ ~Requested(d)
    /\ op' = Command("bind", d, "validate", disk.commit[d])

\* The same code gives the same fingerprint and so the stored request; another
\* code is refused and changes nothing.
RetryRequest(d) ==
    /\ Requested(d)
    /\ op' = Command("bind", d, "quiesce", disk.pend[d])

Requests(d) ==
    {g \in 1..Generations :
        \A h \in issued[d] \cup revoked[d] \cup {disk.state[d]} : g > h}

NewRequest(d) ==
    /\ ~HasPendingState(d)
    /\ \E g \in Requests(d) : op' = Command("bind", d, "prepare", g)

Bind(d) ==
    /\ BindAllowed(d)
    /\ CompleteCommit(d) \/ RetryRequest(d) \/ NewRequest(d)
    /\ UNCHANGED <<disk, issued, revoked, svc, proc, faults, crashes, orphaned, marked>>

WebsiteBind == Bind("website")
MonitoringBind == Bind("monitoring")

\* prepareRealPVEWithRequirement: before a one-time code is read, the agent is
\* switched to the real PVE source, restarted and seen collecting.
Prepared == [disk EXCEPT !.pve = TRUE,
                         !.exec = AutoEnable(disk.cfg, "none")]

Prepare ==
    /\ At("bind", "prepare")
    /\ Persist(Prepared, Then("ready"), Idle)
    /\ UNCHANGED orphaned

\* A probe of the host, its PVE tokens or its exporters fails first.
Unprepared ==
    /\ At("bind", "prepare")
    /\ op' = Idle
    /\ UNCHANGED <<disk, issued, revoked, svc, proc, faults, crashes, orphaned, marked>>

Ready == At("bind", "ready") /\ Restart(Then("collect"), Then("unready"))

Collect ==
    /\ At("bind", "collect")
    /\ \/ Running /\ op' = Then("pending") /\ faults' = faults
       \/ faults < MaxFaults /\ faults' = faults + 1 /\ op' = Then("unready")
    /\ UNCHANGED <<disk, issued, revoked, svc, proc, crashes, orphaned, marked>>

\* The activation was not confirmed: the previous configuration is written
\* back, except on a bound host that had no real source, and its service state
\* is restored.
Unready ==
    /\ At("bind", "unready")
    /\ LET changed == disk.pve # op.pve \/ disk.exec # op.exec
           kept == ~op.pve /\ \E d \in Domain : Stored(d)
       IN  IF ~changed \/ kept
           THEN op' = Idle /\ UNCHANGED <<disk, issued, revoked, svc, proc, faults, crashes, marked>>
           ELSE Persist([disk EXCEPT !.pve = op.pve, !.exec = op.exec],
                        Then("unwind"), Then("unwind"))
    /\ UNCHANGED orphaned

Unwind ==
    /\ At("bind", "unwind")
    /\ IF op.pve THEN Restart(Idle, Idle) ELSE Stop(Idle, Idle)

\* PreparePendingLocked: the request identifier is durable before it is sent.
PreparePending ==
    /\ At("bind", "pending")
    /\ Persist([disk EXCEPT !.pend[op.dom] = op.gen], Then("quiesce"), Idle)
    /\ UNCHANGED orphaned

\* Slip: an accepted stop job is taken for a stopped process.
QuiesceAccepted ==
    /\ At("bind", "quiesce")
    /\ Systemctl("stopped", proc, Then("send"), [Then("unsent") EXCEPT !.failed = TRUE])

Quiesce ==
    /\ At("bind", "quiesce")
    /\ Stop(Then("send"), [Then("unsent") EXCEPT !.failed = TRUE])

\* Slip: every error of the service is taken for a rejection.
EveryErrorRejects == IF op.frozen THEN Idle ELSE Then("unsent")

\* An error that leaves the outcome open keeps the request; while a commit is
\* open the agent stays stopped, otherwise the old generation is restarted.
NoAnswer == IF op.frozen THEN Idle ELSE Then("recover")

Rejected == IF op.frozen THEN Idle ELSE Then("unsent")

\* The website may refuse for good a request that it has not accepted.
WebsiteAnswers ==
    \/ op.gen \notin revoked["website"] /\ op' = Then("begin")
    \/ op.gen \notin issued["website"] /\ op' = Rejected
    \/ op.gen \in revoked["website"] \cap issued["website"] /\ op' = NoAnswer

\* Nothing that monitoring answers, except a binding, settles the outcome.
MonitoringAnswers ==
    IF op.gen \notin revoked["monitoring"] THEN op' = Then("begin") ELSE op' = NoAnswer

Accepted == [issued EXCEPT ![op.dom] = @ \cup {op.gen}]

Send ==
    /\ At("bind", "send")
    /\ \/ /\ IF op.dom = "website" THEN WebsiteAnswers ELSE MonitoringAnswers
          /\ issued' = IF op'.pc = "begin" THEN Accepted ELSE issued
          /\ faults' = faults
       \/ /\ faults < MaxFaults /\ faults' = faults + 1      \* the answer is lost,
          /\ op' = NoAnswer                                  \* or the request
          /\ \/ op.gen \notin revoked[op.dom] /\ issued' = Accepted
             \/ issued' = issued
    /\ UNCHANGED <<disk, revoked, svc, proc, crashes, orphaned, marked>>

\* restoreAfterUnsentBinding clears the request and restarts the service.  It
\* also runs when the service could not be stopped for a retry, whose first
\* attempt may have been accepted: `orphaned' records that case.
Unsent ==
    /\ At("bind", "unsent")
    /\ Persist([disk EXCEPT !.pend[op.dom] = 0], Then("recover"), Idle)
    /\ orphaned' = IF /\ op.failed /\ disk'.pend[op.dom] = 0
                      /\ op.gen \in issued[op.dom] \/ Committing(op.dom)
                   THEN orphaned \cup {op.dom} ELSE orphaned

\* recoverAgentBinding: restart and watch the health endpoint; whether the old
\* generation is seen healthy only decides what the operator is told.
Recover == At("bind", "recover") /\ Restart(Idle, Idle)

BeginCommit ==
    /\ At("bind", "begin")
    /\ IF op.frozen
       THEN /\ op' = IF disk.commit[op.dom] = op.gen THEN Then("assign") ELSE Idle
            /\ UNCHANGED <<disk, issued, revoked, svc, proc, faults, crashes, marked>>
       ELSE Persist([disk EXCEPT !.commit[op.dom] = op.gen], Then("assign"), Idle)
    /\ UNCHANGED orphaned

WriteInitialAssignment ==
    /\ At("bind", "assign")
    /\ IF op.dom = "website"
       THEN Persist(Assigned(op.gen, FALSE), Then("reset"), Idle)
       ELSE op' = Then("config") /\ UNCHANGED <<disk, issued, revoked, svc, proc, faults, crashes, marked>>
    /\ UNCHANGED orphaned

\* Slip: the refresh authority of the previous binding stays.
AuthorityKept ==
    /\ At("bind", "reset")
    /\ Persist(disk, Then("config"), Idle)
    /\ UNCHANGED orphaned

ResetAuthority ==
    /\ At("bind", "reset")
    /\ Persist([disk EXCEPT !.authority = 0], Then("config"), Idle)
    /\ UNCHANGED orphaned

\* applyBinding for the website, the destination fields for monitoring.
WebsiteBound(g) == [disk.cfg EXCEPT !["website"] = g]
MonitoringBound(g) == [disk.cfg EXCEPT !["monitoring"] = g]

Bound(d, g) ==
    LET cfg == IF d = "website" THEN WebsiteBound(g) ELSE MonitoringBound(g)
    IN  [disk EXCEPT !.cfg = cfg, !.exec = AutoEnable(cfg, d)]

WriteConfig ==
    /\ At("bind", "config")
    /\ Persist(Bound(op.dom, op.gen), Then("save"), Idle)
    /\ UNCHANGED orphaned

SaveState ==
    /\ At("bind", "save")
    /\ Persist([disk EXCEPT !.state[op.dom] = op.gen], Then("validate"), Idle)
    /\ UNCHANGED orphaned

\* finalizeWebsiteBindingCommit and finalizeMonitoringBindingCommit: check the
\* files, arm systemd, drop the request, drop the marker, check once more.
Validate ==
    /\ At("bind", "validate")
    /\ op' = IF DiskMatches(op.dom, op.gen) /\ disk.commit[op.dom] = op.gen
             THEN Then("arm") ELSE Idle
    /\ UNCHANGED <<disk, issued, revoked, svc, proc, faults, crashes, orphaned, marked>>

ArmBound == At("bind", "arm") /\ Arm(Then("clear"), Idle)

ClearPending ==
    /\ At("bind", "clear")
    /\ Persist([disk EXCEPT !.pend[op.dom] = 0], Then("finish"), Idle)
    /\ UNCHANGED orphaned

FinishCommit ==
    /\ At("bind", "finish")
    /\ Persist([disk EXCEPT !.commit[op.dom] = 0], Then("runtime"), Idle)
    /\ UNCHANGED orphaned

\* The marker is put back when the second check fails.  The armed agent may
\* have refreshed the assignments since the marker went, and then no later
\* check can succeed either: `orphaned' records that case.
Runtime ==
    /\ At("bind", "runtime")
    /\ IF DiskMatches(op.dom, op.gen) /\ Resolves(disk.cfg)
       THEN /\ op' = Then("activate")
            /\ UNCHANGED <<disk, issued, revoked, svc, proc, faults, crashes, orphaned, marked>>
       ELSE /\ Persist([disk EXCEPT !.commit[op.dom] = op.gen], Idle, Idle)
            /\ orphaned' = orphaned \cup {op.dom}

Activate == At("bind", "activate") /\ Restart(Idle, Idle)

BindNext ==
    \/ Prepare \/ Unprepared \/ Ready \/ Collect \/ Unready \/ Unwind \/ PreparePending
    \/ Quiesce \/ Send \/ Unsent \/ Recover \/ BeginCommit
    \/ WriteInitialAssignment \/ ResetAuthority \/ WriteConfig \/ SaveState
    \/ Validate \/ ArmBound \/ ClearPending \/ FinishCommit \/ Runtime \/ Activate

-----------------------------------------------------------------------------
(***************************************************************************)
(* Removing a binding: menuRemoveBinding, and resumeUnbindTransaction when *)
(* it finds its own journal.  A journal whose configuration is still on is *)
(* rolled back, one whose configuration is off is completed.               *)
(***************************************************************************)
ResumeUnbind(d) ==
    /\ Removing(d)
    /\ op' = [Command("unbind", d, IF disk.cfg[d] # 0 THEN "restore" ELSE "remove",
                      disk.unbind[d]) EXCEPT !.retry = TRUE]

RemoveBinding(d) ==
    /\ ~Removing(d) /\ Stored(d)
    /\ op' = Command("unbind", d, "backup", disk.state[d])

Unbind(d) ==
    /\ op = Idle
    /\ NoIncompleteTransactionExceptUnbind(d)
    /\ ResumeUnbind(d) \/ RemoveBinding(d)
    /\ UNCHANGED <<disk, issued, revoked, svc, proc, faults, crashes, orphaned, marked>>

Undo == IF op.retry THEN Idle ELSE Then("restore")

BackupState ==
    /\ At("unbind", "backup")
    /\ Persist([disk EXCEPT !.backup[op.dom] = op.gen], Then("journal"), Idle)
    /\ UNCHANGED orphaned

BeginUnbind ==
    /\ At("unbind", "journal")
    /\ Persist([disk EXCEPT !.unbind[op.dom] = op.gen], Then("restart"), Idle)
    /\ UNCHANGED orphaned

\* restartAgentForUnbind returns once the old main process is gone.
RestartForUnbind == At("unbind", "restart") /\ Restart(Then("config"), Undo)

\* Slip: only the website's removal switches execution off.
UnboundExecuting(d) == [disk EXCEPT !.cfg[d] = 0, !.exec = @ /\ d # "website"]

Unbound(d) == [disk EXCEPT !.cfg[d] = 0, !.exec = FALSE]

DisableConfig ==
    /\ At("unbind", "config")
    /\ Persist(Unbound(op.dom), Then("remove"), Undo)
    /\ UNCHANGED orphaned

\* On a resumed removal the service is restored first even when the private
\* state could not be removed; the failure ends the command afterwards.
RemoveState ==
    /\ At("unbind", "remove")
    /\ Persist([disk EXCEPT !.state[op.dom] = 0], Then("arm"),
               IF op.retry THEN [op EXCEPT !.pc = "arm", !.failed = TRUE] ELSE Undo)
    /\ UNCHANGED orphaned

ArmUnbound == At("unbind", "arm") /\ Arm(Then("activate"), Undo)

ActivateUnbound == At("unbind", "activate") /\ Restart(Then("confirm"), Undo)

Confirm ==
    /\ At("unbind", "confirm")
    /\ \/ /\ Running /\ proc.mem[op.dom] = 0
          /\ op' = IF op.failed THEN Idle ELSE Then("discard")
          /\ faults' = faults
       \/ faults < MaxFaults /\ faults' = faults + 1 /\ op' = Undo
    /\ UNCHANGED <<disk, issued, revoked, svc, proc, crashes, orphaned, marked>>

DiscardBackup ==
    /\ At("unbind", "discard")
    /\ Persist([disk EXCEPT !.backup[op.dom] = 0], Then("finish"), Idle)
    /\ UNCHANGED orphaned

FinishUnbind ==
    /\ At("unbind", "finish")
    /\ Persist([disk EXCEPT !.unbind[op.dom] = 0], Idle, Idle)
    /\ UNCHANGED orphaned

\* rollbackUnbindTransaction: private state, configuration, systemd armed, and
\* only then the journal; the backup goes last.
RestoreState ==
    /\ At("unbind", "restore")
    /\ IF disk.backup[op.dom] = 0
       THEN op' = Idle /\ UNCHANGED <<disk, issued, revoked, svc, proc, faults, crashes, marked>>
       ELSE Persist([disk EXCEPT !.state[op.dom] = disk.backup[op.dom]], Then("rewrite"), Idle)
    /\ UNCHANGED orphaned

RestoreConfig ==
    /\ At("unbind", "rewrite")
    /\ Persist([disk EXCEPT !.cfg = op.cfg, !.exec = op.exec],
               IF disk.state[op.dom] = op.gen THEN Then("rearm") ELSE Idle, Idle)
    /\ UNCHANGED orphaned

ArmRestored == At("unbind", "rearm") /\ Arm(Then("unmark"), Idle)

FinishRollback ==
    /\ At("unbind", "unmark")
    /\ Persist([disk EXCEPT !.unbind[op.dom] = 0], Then("revive"), Idle)
    /\ UNCHANGED orphaned

RecoverRestored == At("unbind", "revive") /\ Restart(Then("healthy"), Idle)

ConfirmRestored ==
    /\ At("unbind", "healthy")
    /\ \/ Running /\ proc.mem = disk.state /\ op' = Then("forget") /\ faults' = faults
       \/ faults < MaxFaults /\ faults' = faults + 1 /\ op' = Idle
    /\ UNCHANGED <<disk, issued, revoked, svc, proc, crashes, orphaned, marked>>

ForgetBackup ==
    /\ At("unbind", "forget")
    /\ Persist([disk EXCEPT !.backup[op.dom] = 0], Idle, Idle)
    /\ UNCHANGED orphaned

UnbindNext ==
    \/ BackupState \/ BeginUnbind \/ RestartForUnbind \/ DisableConfig
    \/ RemoveState \/ ArmUnbound \/ ActivateUnbound \/ Confirm
    \/ DiscardBackup \/ FinishUnbind \/ RestoreState \/ RestoreConfig
    \/ ArmRestored \/ FinishRollback \/ RecoverRestored \/ ConfirmRestored
    \/ ForgetBackup

-----------------------------------------------------------------------------
(***************************************************************************)
(* The operator, the services and the host.                                *)
(***************************************************************************)
\* The operator has a request whose outcome is open revoked on the service.
Revoke(d) ==
    /\ op = Idle
    /\ Requested(d) /\ disk.pend[d] \notin revoked[d]
    /\ ~Committing(d)
    /\ revoked' = [revoked EXCEPT ![d] = @ \cup {disk.pend[d]}]
    /\ UNCHANGED <<disk, issued, svc, proc, op, faults, crashes, orphaned, marked>>

\* menuDiscardPendingBinding, confirmed only after such a revocation.
DiscardPending(d) ==
    /\ op = Idle
    /\ NoUnbindTransaction
    /\ \A e \in Domain : ~Committing(e)
    /\ ~Stored(d)
    /\ Requested(d) /\ disk.pend[d] \in revoked[d]
    /\ Persist([disk EXCEPT !.pend[d] = 0], Idle, Idle)
    /\ UNCHANGED orphaned

\* The command dies; the kernel drops its lock, everything written stays.
CommandCrash ==
    /\ op # Idle /\ crashes < MaxCrashes
    /\ crashes' = crashes + 1
    /\ op' = Idle
    /\ UNCHANGED <<disk, issued, revoked, svc, proc, faults, orphaned, marked>>

\* The host restarts; the unit is enabled, so systemd starts it again.
Reboot ==
    /\ crashes < MaxCrashes
    /\ crashes' = crashes + 1
    /\ op' = Idle /\ svc' = "started" /\ proc' = Down
    /\ UNCHANGED <<disk, issued, revoked, faults, orphaned, marked>>

Next ==
    \/ AgentNext
    \/ BindNext
    \/ UnbindNext
    \/ WebsiteBind \/ MonitoringBind
    \/ \E d \in Domain : Unbind(d) \/ Revoke(d) \/ DiscardPending(d)
    \/ CommandCrash
    \/ Reboot

(***************************************************************************)
(* An operator told to retry with the same code does so, and a command     *)
(* that is running goes on; systemd restarts the unit it keeps.            *)
(***************************************************************************)
Fairness ==
    /\ WF_vars(LoadFile \/ Resolve \/ WriteAssignment)
    /\ WF_vars(BindNext \/ UnbindNext)
    /\ \A d \in Domain : WF_vars(Bind(d) /\ HasPendingState(d))
    /\ \A d \in Domain : WF_vars(Unbind(d) /\ Removing(d))

Spec == Init /\ [][Next]_vars /\ Fairness

-----------------------------------------------------------------------------
(***************************************************************************)
(* Properties.                                                             *)
(***************************************************************************)

\* A running agent has configuration, credentials and assignments of one
\* generation: no crash, failed write or retry lets it pair the public half of
\* one binding with the private half of another.  The overlay cannot see the
\* difference; the markers and the order of the writes must prevent it.
OneGeneration ==
    Running =>
        /\ \A d \in Domain : proc.mem[d] # 0 => proc.mem[d] = proc.cfg[d]
        /\ proc.mem["website"] # 0 => proc.assigned = proc.mem["website"]

\* Once the answer of a newer request has been recorded, credentials of an
\* older generation, which the service revoked when it issued the new ones,
\* are never loaded again: not by a rollback, a resumed removal or a retry.
NeverBackwards ==
    Running => \A d \in Domain : proc.mem[d] # 0 => proc.mem[d] >= marked[d]

\* No agent runs while a commit marker says that files are being replaced, and
\* none holds credentials of a domain that has been switched off under a
\* removal journal.
MarkersExclude ==
    Running =>
        \A d \in Domain :
            /\ disk.commit[d] # 0 => d \in orphaned
            /\ disk.unbind[d] # 0 /\ disk.cfg[d] = 0 => proc.mem[d] = 0

\* Real changes to guests need the audit channel: an agent that executes has
\* loaded both domains, whatever was bound, replaced or removed before.
MutationsAudited ==
    Running /\ proc.exec => \A d \in Domain : proc.mem[d] # 0

\* The identifier of a request that the service has accepted is not dropped
\* before its binding is saved, unless the operator had it revoked: a lost
\* answer must stay replayable.  (Not kept when the service cannot be stopped
\* for a retry: see Unsent.)
RequestKept ==
    [][\A d \in Domain :
        disk.pend[d] # 0 /\ disk'.pend[d] = 0 =>
            \/ disk.pend[d] \notin issued[d]
            \/ disk.pend[d] \in revoked[d]
            \/ disk.state[d] = disk.pend[d]
            \/ d \in orphaned']_vars

\* A transaction that froze the agent ends: if the operator retries, every
\* marker is eventually gone and the agent runs again, wherever the command,
\* the agent or the host stopped.
Thaws ==
    \A d \in Domain :
        (disk.commit[d] # 0 \/ disk.unbind[d] # 0) ~>
            \/ disk.commit[d] = 0 /\ disk.unbind[d] = 0 /\ Running
            \/ d \in orphaned
=============================================================================
