---------------------------- MODULE HostFirewall ----------------------------
(***************************************************************************)
(* The host firewall transaction: PVE protection is put in place, proven   *)
(* and committed, then UFW is removed for good.                            *)
(*                                                                         *)
(* A root helper runs one of activate, reconcile, rollback and rollback    *)
(* --uninstall at a time (the transaction lock); its memory is op and its  *)
(* only memory across a crash is the journal.  A supervisor keeps PVE's    *)
(* native INPUT jump first, under the netfilter lock the helper takes for  *)
(* its own netfilter work.  pve-firewall compiles the configuration in its *)
(* own time, other firewall managers insert rules, an administrator        *)
(* changes options, and the host may reboot.                               *)
(*                                                                         *)
(* Limitations.  A run of read-only checks is one step, so a change falls  *)
(* before or after the run and not inside it.  policy_in and policy_out    *)
(* are one option.  The INPUT chain always holds a rule of somebody else.  *)
(* Administrators do not edit the owned rules.                             *)
(***************************************************************************)
EXTENDS Integers, FiniteSets

CONSTANTS
  Interfaces,      \* interfaces that carry a default route
  Families,        \* address families, each with its own netfilter tables
  InitialOptions,  \* PVE options a host may have before the installation
  MaxStarts,       \* bound on commands of the helper
  MaxFaults,       \* bound on failing commands and journal writes
  MaxCrashes,      \* bound on kills of the helper and reboots
  MaxMeddles       \* bound on acts of other firewall managers and administrators

\* PVE options the transaction sets: cluster enable, cluster policy, node enable.
Options == {"enable", "policy", "node"}
ClusterOptions == {"enable", "policy"}
\* "on" is the value the transaction wants; "off" and "other" are two others.
Values == {"off", "on", "other"}
NoOptions == [o \in {} |-> "off"]

ASSUME FirewallAssumption ==
  /\ Interfaces # {} /\ IsFiniteSet(Interfaces)
  /\ Families # {} /\ IsFiniteSet(Families)
  /\ InitialOptions \subseteq [Options -> {"off", "on"}]
  /\ MaxStarts \in Nat /\ MaxFaults \in Nat /\ MaxCrashes \in Nat /\ MaxMeddles \in Nat

VARIABLES
  journal,    \* transaction.json
  opts,       \* the PVE options in force
  rules,      \* interface -> its owned Node rule
  chain,      \* family -> PVE's hooks in INPUT and FORWARD, and UFW's chains
  compiled,   \* interfaces whose DROP is in the running PVEFW-HOST-IN
  ufw,        \* how far the UFW package and unit are gone
  unit,       \* the supervisor's unit is enabled
  sup,        \* the supervisor process
  guardian,   \* the supervisor's or enforce's pass under the netfilter lock
  op,         \* the helper's command
  origin,     \* what the host was before: fresh, retained, uninstalled or legacy
  touched,    \* options an administrator changed
  starts, faults, crashes, meddles

pveVars == <<opts, rules>>
hostVars == <<chain, compiled, ufw>>
supVars == <<unit, sup, guardian>>
boundVars == <<starts, faults, crashes, meddles>>
vars == <<journal, pveVars, hostVars, supVars, op, origin, touched, boundVars>>

Phases == {"installing", "prepared", "rules-disabled", "options-applied",
           "rules-enabled", "committed", "rollback-pending", "rolled-back", "uninstalled"}
NoJournal == [phase |-> "none", ufw |-> "none", hooks |-> "none",
              planned |-> FALSE, pre |-> NoOptions]
\* hooks: no snapshot, captured at the tail, or retained at the first place;
\* planned: node, interfaces, preimage and owned rules are filled in.
Journals == [phase : Phases, ufw : {"none", "removing", "removed"},
             hooks : {"none", "tail", "first"}, planned : BOOLEAN,
             pre : [Options -> Values] \cup {NoOptions}]
InitialJournal == [NoJournal EXCEPT !.phase = "installing"]

Idle == [pc |-> "idle", mode |-> "none", j |-> NoJournal, armed |-> FALSE,
         uninstall |-> FALSE, resume |-> FALSE, left |-> {}, seen |-> NoOptions,
         drift |-> FALSE]
NoGuardian == [who |-> "none", left |-> {}, forward |-> FALSE]

\* What the node's rules and the UFW package may be found to be.
RuleStates == {"absent", "disabled", "enabled"}
UfwStates == {"active", "inert", "stopped", "purged", "gone"}
UfwBoots == ufw = "active"

AllOn == \A o \in Options : opts[o] = "on"
RulesAre(state) == \A i \in Interfaces : rules[i] = state
HooksFirst == \A f \in Families : chain[f].input = "first"
ForwardFirst == \A f \in Families : chain[f].forward = "first"

AtTail == \A f \in Families : chain[f].input = "tail"
RuntimeDrops == compiled = Interfaces
Persistent == unit /\ sup = "run"

\* Journal.validate: everything but an installing journal names its node.
Valid(j) == j.phase = "installing" \/ j.planned

\* allowsIngressGuard.
AllowsIngressGuard(j) ==
  \/ j.phase \in {"rules-enabled", "committed"}
  \/ j.phase = "uninstalled" /\ j.ufw = "removed"

\* verify and verifyEffective: configuration, guard, supervisor and runtime.
Verified == AllOn /\ RulesAre("enabled")
Guarded(j) == HooksFirst /\ (j.ufw # "none" => ForwardFirst)
Effective(j) == Verified /\ Guarded(j) /\ Persistent /\ RuntimeDrops
UFWAbsent == ufw = "gone" /\ HooksFirst /\ ForwardFirst /\ \A f \in Families : ~chain[f].ufw

-----------------------------------------------------------------------------
(* Helpers of the helper's steps.                                          *)

\* The deferred rollback of Activate runs on any error while it is armed.
Failed(o) ==
  IF o.armed THEN [Idle EXCEPT !.pc = "rollback", !.j = o.j] ELSE Idle
At(pc) == op.pc = pc
To(pc) == [op EXCEPT !.pc = pc]
Fail == op' = Failed(op)
Keep(v) == UNCHANGED v

\* store.save with the in-memory journal set to j first: it may fail before
\* the rename or after it, and refuses an invalid journal.
Save(j, next) ==
  \/ /\ Valid(j)
     /\ journal' = j /\ op' = IF next = Idle THEN Idle ELSE [next EXCEPT !.j = j]
     /\ Keep(faults)
  \/ /\ Valid(j) /\ faults < MaxFaults /\ faults' = faults + 1
     /\ journal' \in {journal, j}
     /\ op' = Failed([op EXCEPT !.j = j])
  \/ /\ ~Valid(j)
     /\ op' = Failed([op EXCEPT !.j = j])
     /\ Keep(<<journal, faults>>)

\* The netfilter lock: the helper holds it between these steps, and a step
\* that takes it needs it free.
LockHeld ==
  \/ op.pc \in {"forward", "ufwclean", "ufwretire", "ufwreclean", "tail", "tailcheck", "promote"}
  \/ op.pc = "guard" /\ op.left # Families
LockFree == guardian = NoGuardian

-----------------------------------------------------------------------------
(* Commands of the helper: what each does before its first slow step.      *)

\* Activate, up to the dispatch on the phase: uninstalled is refused, a
\* pending rollback is finished first, and rollback is armed otherwise.
Loaded(j) ==
  CASE j.phase \in {"none", "uninstalled"} -> Idle
    [] j.phase = "committed" ->
         [Idle EXCEPT !.pc = "snapshots", !.mode = "committed", !.j = j]
    [] j.phase = "rollback-pending" ->
         [Idle EXCEPT !.pc = "rollback", !.resume = TRUE, !.j = j]
    [] OTHER -> [Idle EXCEPT !.pc = "dispatch", !.mode = "activate", !.armed = TRUE, !.j = j]

CanStart == At("idle") /\ starts < MaxStarts /\ starts' = starts + 1

\* Classify on a host without a journal or evidence of an installation, and
\* ReconcileCommitted without a journal: store.createInitial.
Classify ==
  /\ CanStart /\ journal = NoJournal
  /\ journal' = InitialJournal
  /\ Keep(<<op, pveVars, hostVars, supVars, origin, touched, faults, crashes, meddles>>)

Activate ==
  /\ CanStart /\ journal # NoJournal
  /\ op' = Loaded(journal)
  /\ Keep(<<journal, pveVars, hostVars, supVars, origin, touched, faults, crashes, meddles>>)

\* ReconcileCommitted: enrols a host without a journal, reclaims an
\* uninstalled one, resumes an unfinished one, and otherwise verifies.
ReconcileCommitted ==
  /\ CanStart
  /\ \/ /\ journal = NoJournal
        /\ journal' = InitialJournal /\ op' = Loaded(InitialJournal)
     \/ /\ journal.phase = "uninstalled"
        /\ op' = IF journal.ufw = "removed" THEN [Idle EXCEPT !.pc = "reclaim", !.j = journal]
                 ELSE Idle
        /\ Keep(journal)
     \/ /\ journal.phase \notin {"none", "uninstalled", "committed"}
        /\ op' = Loaded(journal)
        /\ Keep(journal)
     \/ /\ journal.phase = "committed"
        /\ op' = [Idle EXCEPT !.pc = "snapshots", !.mode = "reconcile", !.j = journal]
        /\ Keep(journal)
  /\ Keep(<<pveVars, hostVars, supVars, origin, touched, faults, crashes, meddles>>)

\* The journal of an uninstalled host goes back to rules-enabled, then Activate.
Reclaim ==
  /\ At("reclaim")
  /\ LET j == [op.j EXCEPT !.ufw = "removing", !.phase = "rules-enabled"]
     IN  Save(j, Loaded(j))
  /\ Keep(<<pveVars, hostVars, supVars, origin, touched, starts, crashes, meddles>>)

\* Rollback(ctx, uninstall).
Rollback(uninstall) ==
  /\ CanStart /\ journal # NoJournal
  /\ op' = [Idle EXCEPT !.pc = "rollback", !.uninstall = uninstall, !.j = journal]
  /\ Keep(<<journal, pveVars, hostVars, supVars, origin, touched, faults, crashes, meddles>>)

-----------------------------------------------------------------------------
(* Activate, step by step.                                                 *)
worldVars == <<pveVars, hostVars, supVars, origin, touched, starts, crashes, meddles>>

\* The phases Activate resumes from.
Dispatch ==
  /\ At("dispatch")
  /\ op' = CASE op.j.phase \in {"installing", "rolled-back"} -> To("prepare")
             [] op.j.phase = "prepared" -> [To("create") EXCEPT !.left = Interfaces]
             [] op.j.phase = "rules-disabled" -> To("cluster")
             [] op.j.phase = "options-applied" -> [To("enable") EXCEPT !.left = Interfaces]
             [] op.j.phase = "rules-enabled" -> To("snapshots")
  /\ Keep(<<journal, faults, worldVars>>)

\* The local node, its default-route interfaces and the options it has now.
Planned(j) == [j EXCEPT !.planned = TRUE, !.pre = opts]

\* prepare on a host without owned rules: the preimage is taken.
Prepare ==
  /\ At("prepare") /\ RulesAre("absent")
  /\ Save([Planned(op.j) EXCEPT !.phase = "prepared"], To("dispatch"))
  /\ Keep(worldVars)

\* prepare on a host that kept PPFlight's rules: they are adopted when the
\* options are the wanted ones and every hook is first.  The plan is already
\* in memory when the hooks turn out not to be.
Adopt ==
  /\ At("prepare") /\ ~RulesAre("absent")
  /\ LET plan == Planned(op.j)
     IN  \/ /\ Verified /\ HooksFirst
            /\ Save([plan EXCEPT !.hooks = "first", !.ufw = "removing", !.phase = "rules-enabled"],
                    To("dispatch"))
         \/ /\ Verified /\ ~HooksFirst
            /\ op' = Failed([op EXCEPT !.j = [plan EXCEPT !.hooks = "none"]])
            /\ Keep(<<journal, faults>>)
         \/ /\ ~Verified /\ Fail
            /\ Keep(<<journal, faults>>)
  /\ Keep(worldVars)

\* prepare on a multi-node cluster whose firewall is off.
PrepareRefused ==
  /\ At("prepare") /\ opts["enable"] # "on"
  /\ Fail
  /\ Keep(<<journal, faults, worldVars>>)

\* ensureDisabledRules: one rule, and the verification and save at the end.
CreateRule(i) ==
  /\ At("create") /\ i \in op.left
  /\ \/ /\ rules[i] = "absent"
        /\ rules' = [rules EXCEPT ![i] = "disabled"]
        /\ op' = [op EXCEPT !.left = @ \ {i}]
     \/ /\ rules[i] = "disabled"
        /\ op' = [op EXCEPT !.left = @ \ {i}]
        /\ Keep(rules)
     \/ /\ rules[i] = "enabled" /\ Fail /\ Keep(rules)
  /\ Keep(<<journal, opts, hostVars, supVars, origin, touched, boundVars>>)

RulesCreated ==
  /\ At("create") /\ op.left = {} /\ RulesAre("disabled")
  /\ Save([op.j EXCEPT !.phase = "rules-disabled"], To("dispatch"))
  /\ Keep(worldVars)

\* verifyApplicableOptions over one group of options.
Applicable(group) == \A o \in group : opts[o] \in {"on", op.j.pre[o]}
UnchangedUnchecked(group) == TRUE
Unchanged(group) == \A o \in group : opts[o] = op.seen[o]

\* applyOptions reads a group, then writes it under the digest it read.
ReadOptions(pc, group, written, next) ==
  /\ At(pc)
  /\ IF ~Applicable(group) THEN Fail
     ELSE IF \E o \in group : opts[o] # "on"
     THEN op' = [To(written) EXCEPT !.seen = opts]
     ELSE op' = To(next)
  /\ Keep(<<journal, faults, worldVars>>)

WriteOptions(pc, group, next) ==
  /\ At(pc)
  /\ \/ /\ Unchanged(group)
        /\ opts' = [o \in Options |-> IF o \in group THEN "on" ELSE opts[o]]
        /\ op' = [To(next) EXCEPT !.seen = NoOptions]
     \/ ~Unchanged(group) /\ Fail /\ Keep(opts)
  /\ Keep(<<journal, rules, hostVars, supVars, origin, touched, boundVars>>)

ApplyOptions ==
  \/ ReadOptions("cluster", ClusterOptions, "setcluster", "node")
  \/ WriteOptions("setcluster", ClusterOptions, "node")
  \/ ReadOptions("node", {"node"}, "setnode", "applied")
  \/ WriteOptions("setnode", {"node"}, "applied")

OptionsApplied ==
  /\ At("applied")
  /\ \/ AllOn /\ Save([op.j EXCEPT !.phase = "options-applied"], To("dispatch"))
     \/ ~AllOn /\ Fail /\ Keep(<<journal, faults>>)
  /\ Keep(worldVars)

\* enableRules: one rule, and the verification and save at the end.
EnableRule(i) ==
  /\ At("enable") /\ i \in op.left
  /\ \/ /\ rules[i] # "absent"
        /\ rules' = [rules EXCEPT ![i] = "enabled"]
        /\ op' = [op EXCEPT !.left = @ \ {i}]
     \/ rules[i] = "absent" /\ Fail /\ Keep(rules)
  /\ Keep(<<journal, opts, hostVars, supVars, origin, touched, boundVars>>)

RulesEnabled ==
  /\ At("enable") /\ op.left = {}
  /\ \/ Verified /\ Save([op.j EXCEPT !.phase = "rules-enabled"], To("dispatch"))
     \/ ~Verified /\ Fail /\ Keep(<<journal, faults>>)
  /\ Keep(worldVars)

ToGuard(o) == [o EXCEPT !.pc = "guard", !.left = Families]

\* ensureNativeHookSnapshots: both hooks seen at PVE's own place, the tail,
\* within 15 seconds, and saved before the first of them is moved.
SnapshotsInMemory ==
  /\ At("snapshots") /\ AtTail
  /\ op' = ToGuard([op EXCEPT !.j.hooks = "tail"])
  /\ Keep(<<journal, faults, worldVars>>)
Snapshots ==
  /\ At("snapshots")
  /\ \/ op.j.hooks # "none" /\ op' = ToGuard(op) /\ Keep(<<journal, faults>>)
     \/ /\ op.j.hooks = "none" /\ AtTail
        /\ Save([op.j EXCEPT !.hooks = "tail"], ToGuard(op))
     \/ op.j.hooks = "none" /\ ~AtTail /\ Fail /\ Keep(<<journal, faults>>)
  /\ Keep(worldVars)

\* EnsureIngressGuard: each family's INPUT hook, then each FORWARD hook once
\* UFW's removal has begun, under the netfilter lock.
GuardInput(f) ==
  /\ At("guard") /\ LockFree /\ f \in op.left
  /\ \/ /\ chain[f].input # "absent"
        /\ chain' = [chain EXCEPT ![f].input = "first"]
        /\ op' = [op EXCEPT !.left = @ \ {f}]
     \/ chain[f].input = "absent" /\ Fail /\ Keep(chain)
  /\ Keep(<<journal, pveVars, compiled, ufw, supVars, origin, touched, boundVars>>)

InputGuarded ==
  /\ At("guard") /\ op.left = {}
  /\ op' = IF op.j.ufw # "none" THEN [To("forward") EXCEPT !.left = Families]
           ELSE To("persist")
  /\ Keep(<<journal, faults, worldVars>>)

GuardForward(f) ==
  /\ At("forward") /\ f \in op.left
  /\ \/ /\ chain[f].forward # "absent"
        /\ chain' = [chain EXCEPT ![f].forward = "first"]
        /\ op' = IF op.left = {f} THEN [To("persist") EXCEPT !.left = {}]
                 ELSE [op EXCEPT !.left = @ \ {f}]
     \/ chain[f].forward = "absent" /\ Fail /\ Keep(chain)
  /\ Keep(<<journal, pveVars, compiled, ufw, supVars, origin, touched, boundVars>>)

\* EnableIngressGuardPersistence; a reconciliation verifies first.
EnablePersistence ==
  /\ At("persist")
  /\ \/ /\ op.mode = "reconcile" => Verified
        /\ unit' = TRUE /\ sup' = "run" /\ op' = To("effective")
     \/ op.mode = "reconcile" /\ ~Verified /\ Fail /\ Keep(<<unit, sup>>)
  /\ Keep(<<guardian, journal, pveVars, hostVars, origin, touched, boundVars>>)

\* verifyEffective and Health, and what each mode does next.
VerifyEffective ==
  /\ At("effective")
  /\ \/ ~Effective(op.j) /\ Fail
     \/ /\ Effective(op.j)
        /\ \/ op.mode = "activate" /\ op' = To("commit")
           \/ op.mode \in {"committed", "reconcile"} /\ op' = To("removing")
           \/ op.mode = "final" /\ op' = To("removed")
           \/ op.mode = "keep" /\ op' = IF UFWAbsent THEN To("unpersist") ELSE Failed(op)
  /\ Keep(<<journal, faults, worldVars>>)

\* The commit: rollback is disarmed only once the save has succeeded.
Commit ==
  /\ At("commit")
  /\ Save([op.j EXCEPT !.phase = "committed"],
          [To("removing") EXCEPT !.mode = "committed", !.armed = FALSE])
  /\ Keep(worldVars)

-----------------------------------------------------------------------------
(* removeUFWCommitted and RemoveUFW.                                       *)

SaveRemovingInMemory ==
  /\ At("removing")
  /\ op' = [To("ufwcheck") EXCEPT !.mode = "final", !.j.ufw = "removing"]
  /\ Keep(<<journal, faults, worldVars>>)
SaveRemoving ==
  /\ At("removing")
  /\ Save([op.j EXCEPT !.ufw = "removing"], [To("ufwcheck") EXCEPT !.mode = "final"])
  /\ Keep(worldVars)

\* validatePVEProtectionTable for one family.
Replaced(f) == chain[f].input = "first" /\ chain[f].forward # "absent"

\* The preflight and the proof of the replacement in both families; a unit
\* left cached by an interrupted purge is dropped.
CheckReplacement ==
  /\ At("ufwcheck") /\ LockFree
  /\ \/ /\ \A f \in Families : Replaced(f)
        /\ ufw' = IF ufw = "purged" THEN "gone" ELSE ufw
        /\ op' = [To("ufwclean") EXCEPT !.left = Families]
     \/ (\E f \in Families : ~Replaced(f)) /\ Fail /\ Keep(ufw)
  /\ Keep(<<journal, pveVars, chain, compiled, supVars, origin, touched, boundVars>>)

\* The preflight finds a UFW it does not know: changed files or unit, an
\* unsafe boot configuration, an unexpected package.
UFWRefused ==
  /\ At("ufwcheck") /\ ufw # "gone" /\ Fail
  /\ Keep(<<journal, faults, worldVars>>)

\* cleanupUFWNetfilter for one family: one atomic batch removes UFW's chains
\* and puts PVE's FORWARD hook first.
CleanupUFW(pc, next, f) ==
  /\ At(pc) /\ f \in op.left
  /\ \/ /\ Replaced(f)
        /\ chain' = [chain EXCEPT ![f].ufw = FALSE, ![f].forward = "first"]
        /\ op' = IF op.left = {f} THEN [To(next) EXCEPT !.left = {}]
                 ELSE [op EXCEPT !.left = @ \ {f}]
     \/ ~Replaced(f) /\ Fail /\ Keep(chain)
  /\ Keep(<<journal, pveVars, compiled, ufw, supVars, origin, touched, boundVars>>)

\* The boot configuration, the unit, the package and systemd, one at a time.
Retired(state) ==
  CASE state = "active" -> "inert" [] state = "inert" -> "stopped"
    [] state = "stopped" -> "purged" [] state = "purged" -> "gone" [] OTHER -> state
RetireUFW ==
  /\ At("ufwretire")
  /\ ufw' = Retired(ufw)
  /\ op' = IF ufw = "gone" THEN [To("ufwreclean") EXCEPT !.left = Families] ELSE op
  /\ Keep(<<journal, pveVars, chain, compiled, supVars, origin, touched, boundVars>>)

\* VerifyUFWAbsent, and where each mode goes on.
VerifyUFWAbsent ==
  /\ At("absent")
  /\ op' = IF ~UFWAbsent THEN Failed(op)
           ELSE IF op.mode = "keep" THEN ToGuard(op) ELSE To("effective")
  /\ Keep(<<journal, faults, worldVars>>)

SaveRemoved ==
  /\ At("removed")
  /\ Save([op.j EXCEPT !.ufw = "removed"], Idle)
  /\ Keep(worldVars)

-----------------------------------------------------------------------------
(* rollback.                                                               *)

\* What a finished rollback does: Activate goes on from rolled-back.
RolledBack(j) == IF op.resume THEN Loaded(j) ELSE Idle
Target == IF op.uninstall THEN "uninstalled" ELSE "rolled-back"

\* Once UFW's removal is in the journal there is no way back, and a rollback
\* is in the journal before it takes anything away.
IrreversibleWhenRemoved(j) == j.ufw = "removed"
Irreversible(j) == j.ufw # "none"
MarkedAfterwards(j) == j
Marked(j) == [j EXCEPT !.phase = "rollback-pending"]

\* The dispatch: UFW's removal cannot be undone, so an uninstallation
\* finishes it and keeps PVE's protection; anything else undoes it.
BeginRollback ==
  /\ At("rollback")
  /\ LET j == op.j
         keep == [To("absent") EXCEPT !.mode = "keep"]
     IN  \/ /\ j.phase = "uninstalled" /\ j.ufw # "removed"
            /\ Save(j, RolledBack(j))
         \/ /\ j.phase = "uninstalled" /\ j.ufw = "removed"
            /\ op' = IF op.uninstall THEN keep ELSE Failed(op)
            /\ Keep(<<journal, faults>>)
         \/ /\ j.phase = "committed" /\ Irreversible(j) /\ op.uninstall
            /\ Save([j EXCEPT !.ufw = "removing"], [keep EXCEPT !.pc = "ufwcheck"])
         \/ /\ j.phase # "uninstalled" /\ Irreversible(j) /\ (~op.uninstall \/ j.phase # "committed")
            /\ Fail /\ Keep(<<journal, faults>>)
         \/ /\ ~Irreversible(j) /\ j.phase = "installing"
            /\ Save([j EXCEPT !.phase = Target], RolledBack([j EXCEPT !.phase = Target]))
         \/ /\ ~Irreversible(j) /\ j.phase \notin {"installing", "uninstalled"}
            /\ Save(Marked(j), To("unpersist"))
  /\ Keep(worldVars)

\* DisableIngressGuardPersistence: the supervisor is stopped, wherever it is.
DisablePersistenceLater ==
  /\ At("unpersist")
  /\ unit' = FALSE
  /\ op' = IF op.mode = "keep" THEN To("retained") ELSE To("remove")
  /\ Keep(<<sup, guardian, journal, pveVars, hostVars, origin, touched, boundVars>>)
DisablePersistence ==
  /\ At("unpersist")
  /\ unit' = FALSE /\ sup' = "off"
  /\ guardian' = IF guardian.who = "supervisor" THEN NoGuardian ELSE guardian
  /\ op' = IF op.mode = "keep" THEN To("retained") ELSE To("remove")
  /\ Keep(<<journal, pveVars, hostVars, origin, touched, boundVars>>)

\* verifyRetainedUninstallState, and the save that ends the uninstallation.
SaveRetained ==
  /\ At("retained")
  /\ \/ /\ UFWAbsent /\ Verified /\ Guarded(op.j) /\ RuntimeDrops
        /\ Save([op.j EXCEPT !.ufw = "removed", !.phase = "uninstalled"], Idle)
     \/ /\ ~(UFWAbsent /\ Verified /\ Guarded(op.j) /\ RuntimeDrops)
        /\ Fail /\ Keep(<<journal, faults>>)
  /\ Keep(worldVars)

\* removeOwnedRules: each rule is disabled, then deleted.
RemoveOwnedRule(i) ==
  /\ At("remove") /\ rules[i] # "absent"
  /\ rules' = [rules EXCEPT ![i] = IF @ = "enabled" THEN "disabled" ELSE "absent"]
  /\ Keep(<<op, journal, opts, hostVars, supVars, origin, touched, boundVars>>)

RulesRemoved ==
  /\ At("remove") /\ RulesAre("absent")
  /\ op' = [To("restore") EXCEPT !.left = Options]
  /\ Keep(<<journal, faults, worldVars>>)

\* restoreOption, in this order: what is neither the original nor PPFlight's
\* is an administrator's and stays.
NextOption == CHOOSE o \in op.left : "node" \in op.left => o = "node"
Restored(o, drift) ==
  op' = [To("restore") EXCEPT !.left = @ \ {o}, !.seen = NoOptions, !.drift = @ \/ drift]

RestoreOption ==
  /\ op.left # {}
  /\ LET o == NextOption
         group == IF o = "node" THEN {o} ELSE ClusterOptions
     IN  \/ /\ At("restore") /\ opts[o] = op.j.pre[o]
            /\ Restored(o, FALSE) /\ Keep(<<opts, faults>>)
         \/ /\ At("restore") /\ opts[o] # op.j.pre[o] /\ opts[o] # "on"
            /\ Restored(o, TRUE) /\ Keep(<<opts, faults>>)
         \/ /\ At("restore") /\ opts[o] # op.j.pre[o] /\ opts[o] = "on"
            /\ op' = [To("rewrite") EXCEPT !.seen = opts] /\ Keep(<<opts, faults>>)
         \/ /\ At("rewrite") /\ Unchanged(group)
            /\ opts' = [opts EXCEPT ![o] = op.j.pre[o]]
            /\ Restored(o, FALSE) /\ Keep(faults)
         \/ /\ At("rewrite") /\ ~Unchanged(group)
            /\ Restored(o, TRUE) /\ Keep(<<opts, faults>>)
         \/ /\ At("rewrite") /\ faults < MaxFaults /\ faults' = faults + 1
            /\ opts' = opts \/ (Unchanged(group) /\ opts' = [opts EXCEPT ![o] = op.j.pre[o]])
            /\ Restored(o, TRUE)
  /\ Keep(<<journal, rules, hostVars, supVars, origin, touched, starts, crashes, meddles>>)

OptionsRestoredAnyway ==
  /\ At("restore") /\ op.left = {}
  /\ op' = To("unhook")
  /\ Keep(<<journal, faults, worldVars>>)
OptionsRestored ==
  /\ At("restore") /\ op.left = {}
  /\ op' = IF op.drift THEN Failed(op) ELSE To("unhook")
  /\ Keep(<<journal, faults, worldVars>>)

\* RemoveIngressGuard: every hook must be first or gone; then each goes back
\* to the tail, and all are put first again when that does not hold.
BeginUnhook ==
  /\ At("unhook") /\ LockFree
  /\ LET displaced == {f \in Families : chain[f].input \notin {"absent", "first"}}
     IN  \/ op.j.hooks = "none" /\ op' = To("finish") /\ Keep(chain)
         \/ op.j.hooks = "first" /\ Fail /\ Keep(chain)
         \/ /\ op.j.hooks = "tail" /\ displaced # {}
            /\ \E f \in displaced : chain' = [chain EXCEPT ![f].input = "first"]
            /\ Fail
         \/ /\ op.j.hooks = "tail" /\ displaced = {}
            /\ op' = [To("tail") EXCEPT !.left = {f \in Families : chain[f].input = "first"}]
            /\ Keep(chain)
  /\ Keep(<<journal, pveVars, compiled, ufw, supVars, origin, touched, boundVars>>)

\* moveNativeHookAtomic to the tail; it fails when PVE took the hook away.
MoveToTail(f) ==
  /\ At("tail") /\ f \in op.left
  /\ \/ /\ chain[f].input # "absent"
        /\ chain' = [chain EXCEPT ![f].input = "tail"]
        /\ op' = [op EXCEPT !.left = @ \ {f}]
     \/ chain[f].input = "absent" /\ op' = To("promote") /\ Keep(chain)
  /\ Keep(<<journal, pveVars, compiled, ufw, supVars, origin, touched, boundVars>>)

TailMoved ==
  /\ At("tail") /\ op.left = {}
  /\ op' = IF \A f \in Families : chain[f].input \in {"absent", "tail"}
           THEN To("finish") ELSE To("promote")
  /\ Keep(<<journal, faults, worldVars>>)

\* promoteNativeHooksBestEffort, then the error.
PromoteHooks ==
  /\ At("promote")
  /\ chain' = [f \in Families |-> IF chain[f].input = "absent" THEN chain[f]
                                  ELSE [chain[f] EXCEPT !.input = "first"]]
  /\ Fail
  /\ Keep(<<journal, pveVars, compiled, ufw, supVars, origin, touched, boundVars>>)

FinishRollback ==
  /\ At("finish")
  /\ LET j == [op.j EXCEPT !.phase = Target] IN Save(j, RolledBack(j))
  /\ Keep(worldVars)

-----------------------------------------------------------------------------
(* The supervisor and enforce.                                             *)

\* superviseIteration and EnforceCommitted: the journal is read under the
\* netfilter lock, and a phase or a journal that does not allow the guard is
\* an error, which ends the supervisor.
BeginGuard(who) ==
  /\ LockFree /\ ~LockHeld
  /\ \/ /\ AllowsIngressGuard(journal) /\ journal.hooks # "none"
        /\ guardian' = [who |-> who, left |-> Families, forward |-> journal.ufw # "none"]
        /\ Keep(sup)
     \/ /\ ~(AllowsIngressGuard(journal) /\ journal.hooks # "none")
        /\ who = "supervisor" /\ sup' = "failed" /\ Keep(guardian)
  /\ Keep(<<unit, op, journal, pveVars, hostVars, origin, touched, faults, crashes, meddles>>)

Supervise == sup = "run" /\ BeginGuard("supervisor") /\ Keep(starts)
EnforceCommitted ==
  /\ starts < MaxStarts /\ starts' = starts + 1
  /\ BeginGuard("enforce")

\* maintainIngressGuard for one family: a hook that is there goes first.
Promoted(position) == IF position = "absent" THEN position ELSE "first"
MaintainGuard(f) ==
  /\ f \in guardian.left
  /\ chain' = [chain EXCEPT ![f].input = Promoted(@),
                            ![f].forward = IF guardian.forward THEN Promoted(@) ELSE @]
  /\ guardian' = IF guardian.left = {f} THEN NoGuardian
                 ELSE [guardian EXCEPT !.left = @ \ {f}]
  /\ Keep(<<unit, sup, op, journal, pveVars, compiled, ufw, origin, touched, boundVars>>)

\* systemd restarts a supervisor that failed.
RestartSupervisor ==
  /\ sup = "failed" /\ sup' = "run"
  /\ Keep(<<unit, guardian, op, journal, pveVars, hostVars, origin, touched, boundVars>>)

-----------------------------------------------------------------------------
(* What happens around the helper.                                         *)

\* pve-firewall applies the configuration: hooks are appended when missing
\* and removed with the cluster firewall.
CompilePVE ==
  /\ chain' = [f \in Families |->
       IF opts["enable"] # "on"
       THEN [chain[f] EXCEPT !.input = "absent", !.forward = "absent"]
       ELSE [chain[f] EXCEPT !.input = IF @ = "absent" THEN "tail" ELSE @,
                             !.forward = IF @ = "absent" THEN "behind" ELSE @]]
  /\ compiled' = IF opts["enable"] = "on" /\ opts["node"] = "on"
                 THEN {i \in Interfaces : rules[i] = "enabled"} ELSE {}
  /\ Keep(<<journal, pveVars, ufw, supVars, op, origin, touched, boundVars>>)

\* A command of the helper fails, or a check of a service or a time limit
\* does; a command that fails after taking effect fails at the next step.
CommandFails ==
  /\ op.pc \notin {"idle", "restore", "rewrite", "tail"} /\ faults < MaxFaults
  /\ faults' = faults + 1
  /\ Fail
  /\ Keep(<<journal, worldVars>>)

\* The batch that moves a hook to the tail fails.
TailFails ==
  /\ At("tail") /\ faults < MaxFaults /\ faults' = faults + 1
  /\ op' = To("promote")
  /\ Keep(<<journal, worldVars>>)

Kill ==
  /\ ~At("idle") /\ crashes < MaxCrashes /\ crashes' = crashes + 1
  /\ op' = Idle
  /\ Keep(<<journal, pveVars, hostVars, supVars, origin, touched, starts, faults, meddles>>)

\* A reboot: netfilter is empty, UFW comes back unless made inert, and the
\* supervisor starts when its unit is enabled.
Reboot ==
  /\ crashes < MaxCrashes /\ crashes' = crashes + 1
  /\ op' = Idle /\ guardian' = NoGuardian
  /\ sup' = IF unit THEN "run" ELSE "off"
  /\ chain' = [f \in Families |-> [input |-> "absent", forward |-> "absent", ufw |-> UfwBoots]]
  /\ compiled' = {}
  /\ Keep(<<unit, ufw, journal, pveVars, origin, touched, starts, faults, meddles>>)

\* Another firewall manager puts rules around PVE's INPUT hook.
Displace(f) ==
  /\ meddles < MaxMeddles /\ meddles' = meddles + 1
  /\ chain[f].input \in {"first", "tail"}
  /\ chain' = [chain EXCEPT ![f].input = "middle"]
  /\ Keep(<<journal, pveVars, compiled, ufw, supVars, op, origin, touched, starts, faults, crashes>>)

\* An administrator changes a PVE option.
ChangeOption(o, v) ==
  /\ meddles < MaxMeddles /\ meddles' = meddles + 1
  /\ opts[o] # v
  /\ opts' = [opts EXCEPT ![o] = v] /\ touched' = touched \cup {o}
  /\ Keep(<<journal, rules, hostVars, supVars, op, origin, starts, faults, crashes>>)

-----------------------------------------------------------------------------
Placed(input, forward, hasUFW) ==
  [f \in Families |-> [input |-> input, forward |-> forward, ufw |-> hasUFW]]

\* A host nobody installed on; one an uninstallation left protected, with its
\* journal or with the journal purged; and one committed by a release without
\* hook snapshots.
Init ==
  /\ unit = FALSE /\ sup = "off" /\ guardian = NoGuardian /\ op = Idle /\ touched = {}
  /\ starts = 0 /\ faults = 0 /\ crashes = 0 /\ meddles = 0
  /\ \/ /\ origin = "fresh" /\ journal = NoJournal
        /\ opts \in InitialOptions /\ rules = [i \in Interfaces |-> "absent"]
        /\ ufw \in {"active", "gone"} /\ compiled = {}
        /\ chain = IF opts["enable"] = "on" THEN Placed("tail", "behind", ufw = "active")
                   ELSE Placed("absent", "absent", ufw = "active")
     \/ /\ origin = "retained" /\ journal = NoJournal
        /\ opts = [o \in Options |-> "on"] /\ rules = [i \in Interfaces |-> "enabled"]
        /\ ufw = "gone" /\ compiled = Interfaces
        /\ chain = Placed("first", "first", FALSE)
     \/ /\ origin = "uninstalled"
        /\ \E pre \in InitialOptions :
             journal = [phase |-> "uninstalled", ufw |-> "removed", hooks |-> "tail",
                        planned |-> TRUE, pre |-> pre]
        /\ opts = [o \in Options |-> "on"] /\ rules = [i \in Interfaces |-> "enabled"]
        /\ ufw = "gone" /\ compiled = Interfaces
        /\ chain = Placed("first", "first", FALSE)
     \/ /\ origin = "legacy"
        /\ \E pre \in InitialOptions :
             journal = [phase |-> "committed", ufw |-> "none", hooks |-> "none",
                        planned |-> TRUE, pre |-> pre]
        /\ opts = [o \in Options |-> "on"] /\ rules = [i \in Interfaces |-> "enabled"]
        /\ ufw \in {"active", "gone"} /\ compiled = Interfaces
        /\ chain = Placed("tail", "behind", ufw = "active")

Command ==
  \/ Classify \/ Activate \/ ReconcileCommitted \/ \E u \in BOOLEAN : Rollback(u)

Step ==
  \/ Reclaim \/ Dispatch \/ Prepare \/ Adopt \/ PrepareRefused
  \/ \E i \in Interfaces : CreateRule(i) \/ EnableRule(i) \/ RemoveOwnedRule(i)
  \/ RulesCreated \/ ApplyOptions \/ OptionsApplied \/ RulesEnabled
  \/ Snapshots \/ InputGuarded \/ EnablePersistence \/ VerifyEffective \/ Commit
  \/ \E f \in Families :
       \/ GuardInput(f) \/ GuardForward(f) \/ MoveToTail(f)
       \/ CleanupUFW("ufwclean", "ufwretire", f) \/ CleanupUFW("ufwreclean", "absent", f)
  \/ SaveRemoving \/ CheckReplacement \/ UFWRefused \/ RetireUFW \/ VerifyUFWAbsent \/ SaveRemoved
  \/ BeginRollback \/ DisablePersistence \/ SaveRetained \/ RulesRemoved
  \/ RestoreOption \/ OptionsRestored \/ BeginUnhook \/ TailMoved \/ PromoteHooks
  \/ FinishRollback

Guardian == Supervise \/ EnforceCommitted \/ RestartSupervisor \/ \E f \in Families : MaintainGuard(f)

Environment ==
  \/ CompilePVE \/ CommandFails \/ TailFails \/ Kill \/ Reboot
  \/ \E f \in Families : Displace(f)
  \/ \E o \in Options, v \in Values : ChangeOption(o, v)

Next == Command \/ Step \/ Guardian \/ Environment

Spec == Init /\ [][Next]_vars

-----------------------------------------------------------------------------
\* The shape of the state; part of JournalTellsTruth.
TypeOK ==
  /\ journal \in Journals \cup {NoJournal}
  /\ opts \in [Options -> Values]
  /\ rules \in [Interfaces -> RuleStates]
  /\ chain \in [Families -> [input : {"absent", "first", "middle", "tail"},
                             forward : {"absent", "behind", "first"}, ufw : BOOLEAN]]
  /\ compiled \subseteq Interfaces
  /\ ufw \in UfwStates
  /\ unit \in BOOLEAN /\ sup \in {"off", "run", "failed"}
  /\ guardian.left \subseteq Families
  /\ op.j \in Journals \cup {NoJournal} /\ op.drift \in BOOLEAN
  /\ touched \subseteq Options

\* A step of the helper, not of an administrator or a reboot.
Own == meddles' = meddles /\ crashes' = crashes

\* Protections are exchanged in order.  UFW goes last: no chain, unit or
\* package of UFW is taken away before the journal on disk says that PVE's
\* protection is committed and UFW's removal has begun, and the rules and
\* options that replace it are in force, except options an administrator
\* changed (removeUFWCommitted, RemoveUFW).  Hooks are handed back last: one
\* goes from the first place to the tail only when every rule is gone and no
\* supervisor is left to move it again (rollback, RemoveIngressGuard).
HandoverOrder ==
  [][/\ Own /\ (ufw' # ufw \/ \E f \in Families : chain[f].ufw /\ ~chain'[f].ufw)
          => /\ journal.phase = "committed" /\ journal.ufw = "removing"
             /\ RulesAre("enabled") /\ \A o \in Options \ touched : opts[o] = "on"
     /\ (\E f \in Families : chain[f].input = "first" /\ chain'[f].input = "tail")
          => RulesAre("absent") /\ sup = "off" /\ journal.phase = "rollback-pending"]_vars

\* No way back: from the moment UFW's removal is in the journal, through
\* crashes, retries, rollbacks and the uninstallation, the helper weakens no
\* rule, changes no option and moves no hook away from the first place.
NoWayBack ==
  [][Own /\ journal.ufw # "none"
       => /\ opts' = opts
          /\ \A i \in Interfaces : rules[i] = "enabled" => rules'[i] = "enabled"
          /\ \A f \in Families : chain[f].input = "first" => chain'[f].input \in {"first", "absent"}]_vars

\* A rollback that says it is done has undone everything: no owned rule, every
\* option at its preimage unless an administrator changed it, no supervisor
\* and no hook before the host's own rules (rollback, restoreOption).
Undone ==
  journal.phase = "rolled-back" \/ (journal.phase = "uninstalled" /\ journal.ufw = "none")
RollbackExact ==
  Undone /\ origin # "retained" =>
    /\ RulesAre("absent") /\ ~unit
    /\ \A o \in Options \ touched : opts[o] = journal.pre[o]
    /\ \A f \in Families : chain[f].input # "first"

\* The helper overwrites an option only where it holds its preimage or the
\* value PPFlight gave it: a value an administrator set between the helper's
\* reading and its writing survives (the digest of setClusterOptions).
AdminPreserved ==
  [][Own => \A o \in Options :
       opts'[o] # opts[o] => opts[o] \in {"on", journal.pre[o]}]_vars

\* The journal is one the code accepts and tells the truth after any crash:
\* committed means rules enabled, options in force unless an administrator
\* changed them, hooks snapshotted; and "this atomic journal save must precede
\* the first native hook move" (ensureNativeHookSnapshots): a hook is first
\* only with a snapshot on disk to put it back from.
JournalTellsTruth ==
  /\ TypeOK
  /\ journal.phase = "committed" =>
       /\ RulesAre("enabled") /\ \A o \in Options \ touched : opts[o] = "on"
       /\ journal.hooks # "none" \/ origin = "legacy"
  /\ origin # "retained" /\ (\E f \in Families : chain[f].input = "first") => journal.hooks # "none"
=============================================================================
