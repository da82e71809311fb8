------------------------- MODULE HostFirewallProofs -------------------------
(***************************************************************************)
(* What holds of the firewall transaction for every set of interfaces and  *)
(* families, every initial configuration, and any number of commands,      *)
(* failures, crashes, reboots and acts of others.                          *)
(*                                                                         *)
(* The journal is the only memory across a crash, so the inductive         *)
(* invariant is stated around it: what a journal promises of the host      *)
(* (Fits), and at each step of the helper which journal it works on, which *)
(* phase that journal is in, and what the step has already established     *)
(* (OpInv).  The helper's copy differs from the file only between a failed *)
(* save and the rollback that follows it, and then it never forgets a      *)
(* removal or a snapshot that the file may hold.                           *)
(***************************************************************************)
EXTENDS HostFirewall, TLAPS

Hooks == [input : {"absent", "first", "middle", "tail"},
          forward : {"absent", "behind", "first"}, ufw : BOOLEAN]

ActivateSteps == {"dispatch", "prepare", "create", "cluster", "setcluster", "node", "setnode",
                  "applied", "enable", "snapshots", "guard", "forward", "persist", "effective",
                  "commit"}
RemovalSteps == {"removing", "ufwcheck", "ufwclean", "ufwretire", "ufwreclean", "absent", "removed"}
RollbackSteps == {"rollback", "unpersist", "retained", "remove", "restore", "rewrite", "unhook",
                  "tail", "promote", "finish"}
HelperSteps == {"idle", "reclaim"} \cup ActivateSteps \cup RemovalSteps \cup RollbackSteps
Modes == {"none", "activate", "committed", "reconcile", "final", "keep"}
OptionSets == [Options -> Values] \cup {NoOptions}

Ops == [pc : HelperSteps, mode : Modes, j : Journals \cup {NoJournal}, armed : BOOLEAN,
        uninstall : BOOLEAN, resume : BOOLEAN,
        left : SUBSET (Interfaces \cup Families \cup Options), seen : OptionSets,
        drift : BOOLEAN]
Guardians == [who : {"none", "supervisor", "enforce"}, left : SUBSET Families, forward : BOOLEAN]

TypeInv ==
  /\ journal \in Journals \cup {NoJournal}
  /\ opts \in [Options -> Values]
  /\ rules \in [Interfaces -> RuleStates]
  /\ chain \in [Families -> Hooks]
  /\ compiled \subseteq Interfaces
  /\ ufw \in UfwStates
  /\ unit \in BOOLEAN /\ sup \in {"off", "run", "failed"}
  /\ guardian \in Guardians
  /\ op \in Ops
  /\ touched \subseteq Options

\* Options an administrator has not changed.
Untouched == Options \ touched
Protected == RulesAre("enabled") /\ \A o \in Untouched : opts[o] = "on"
NoneFirst == \A f \in Families : chain[f].input # "first"
AtPreimage(j) == \A o \in Untouched : opts[o] = j.pre[o]

\* A journal the code accepts: what it says of UFW's removal and of the hooks
\* agrees with its phase.
JournalOK(j) ==
  /\ j \in Journals /\ Valid(j)
  /\ j.planned => j.pre \in [Options -> Values]
  /\ j.ufw # "none" => j.phase \in {"rules-enabled", "committed", "uninstalled"}
  /\ j.ufw # "none" => j.hooks # "none"
  /\ j.phase = "uninstalled" => j.ufw # "removing"
  /\ j.phase = "committed" => j.hooks # "none" \/ origin = "legacy"

UndoneBy(j) == j.phase = "rolled-back" \/ (j.phase = "uninstalled" /\ j.ufw = "none")
Early(j) ==
  \/ j.phase \in {"none", "installing", "prepared", "rules-disabled", "options-applied"}
  \/ UndoneBy(j)

\* What a journal promises on a host that was not found with the rules of an
\* earlier installation: before the rules are enabled and after a rollback no
\* guard is in place, and a guard always has its snapshot.
Clean(j) ==
  /\ j.phase = "installing" => ~j.planned
  /\ Early(j) => ~unit /\ guardian = NoGuardian /\ NoneFirst
  /\ j.phase \in {"none", "installing"} \/ UndoneBy(j) => RulesAre("absent")
  /\ UndoneBy(j) => AtPreimage(j)
  /\ ~NoneFirst \/ guardian # NoGuardian => j.hooks # "none"
  /\ guardian # NoGuardian => AllowsIngressGuard(j) \/ j.phase = "rollback-pending"

Fits(j) ==
  /\ j = NoJournal \/ JournalOK(j)
  /\ AllowsIngressGuard(j) => Protected
  /\ origin # "retained" => Clean(j)

\* The helper's copy after a failed save.
Remembers(j) ==
  /\ JournalOK(j)
  /\ journal.ufw # "none" => j.ufw # "none"
  /\ origin # "retained" /\ journal.hooks # "none" => j.hooks # "none"
  /\ origin # "retained" /\ j.phase = "installing" => ~j.planned
  /\ j.phase = "uninstalled" => j = journal

Undoing == {"remove", "restore", "rewrite", "unhook", "tail", "promote", "finish"}
Guarding == {"guard", "forward", "persist", "effective"}
Purging == {"ufwcheck", "ufwclean", "ufwretire", "ufwreclean"}

\* Which journal, phase and mode each step works with.
PhaseInv ==
  /\ op.armed => op.mode = "activate" /\ op.pc \in ActivateSteps
  /\ op.pc = "rollback" =>
       Remembers(op.j) /\ op.mode = "none" /\ (op.uninstall => op.j = journal)
  /\ op.pc \notin {"idle", "rollback"} => op.j = journal /\ journal # NoJournal
  /\ op.pc = "reclaim" => op.j.phase = "uninstalled" /\ op.j.ufw = "removed"
  /\ op.pc = "dispatch" => op.j.phase \notin {"committed", "uninstalled", "rollback-pending"}
  /\ op.pc = "prepare" => op.j.phase \in {"installing", "rolled-back"}
  /\ op.pc = "create" => op.j.phase = "prepared"
  /\ op.pc \in {"cluster", "setcluster", "node", "setnode", "applied"} =>
       op.j.phase = "rules-disabled"
  /\ op.pc = "enable" => op.j.phase = "options-applied"
  /\ op.pc \in {"snapshots", "commit"} \cup Guarding => AllowsIngressGuard(op.j)
  /\ op.pc \in {"commit", "removing", "removed", "retained"} \cup Guarding => op.j.hooks # "none"
  /\ op.pc \in {"snapshots"} \cup Guarding => op.mode # "none"
  /\ op.mode = "activate" => op.j.phase \notin {"committed", "uninstalled", "rollback-pending"}
  /\ op.mode \in {"committed", "reconcile", "final"} => op.j.phase = "committed"
  /\ op.mode \in {"final", "keep"} => op.j.ufw # "none"
  /\ op.mode = "keep" => op.j.phase \in {"committed", "uninstalled"}
  /\ op.pc \in {"dispatch", "prepare", "create", "cluster", "setcluster", "node", "setnode",
               "applied", "enable", "commit"} => op.mode = "activate"
  /\ op.pc = "removing" => op.mode \in {"committed", "reconcile"}
  /\ op.pc = "removed" => op.mode = "final"
  /\ op.pc \in {"absent"} \cup Purging => op.mode \in {"final", "keep"}
  /\ op.pc \in Purging => op.j.phase = "committed" /\ op.j.ufw = "removing"
  /\ op.pc = "retained" => op.mode = "keep"
  /\ op.pc \in Undoing \/ (op.pc = "unpersist" /\ op.mode # "keep") =>
       op.j.phase = "rollback-pending"

\* What a rollback and the writing of options have established so far.
ProgressInv ==
  /\ op.pc = "setcluster" => \A o \in ClusterOptions : op.seen[o] \in {"on", op.j.pre[o]}
  /\ op.pc = "setnode" => op.seen["node"] \in {"on", op.j.pre["node"]}
  /\ op.pc \in Undoing => sup = "off" /\ ~unit
  /\ op.pc \in Undoing \ {"remove"} => RulesAre("absent")
  /\ op.pc \in {"restore", "rewrite"} =>
       /\ op.left \subseteq Options
       /\ ~op.drift => \A o \in Untouched \ op.left : opts[o] = op.j.pre[o]
  /\ op.pc = "rewrite" => op.left # {} /\ op.seen[NextOption] = "on"
  /\ op.pc \in {"unhook", "tail", "promote", "finish"} => AtPreimage(op.j)
  /\ op.pc \in {"tail", "promote"} => op.j.hooks = "tail"
  /\ op.pc \in {"tail", "promote", "finish"} /\ origin # "retained" => guardian = NoGuardian
  /\ op.pc = "finish" /\ origin # "retained" => NoneFirst

OpInv == op = Idle \/ (op.pc # "idle" /\ PhaseInv /\ ProgressInv)

IInv == TypeInv /\ Fits(journal) /\ OpInv
-----------------------------------------------------------------------------
(***************************************************************************)
(* What every step may use.                                                *)
(***************************************************************************)

\* The records that stand for "nothing".
LEMMA Blank == Idle \in Ops /\ NoGuardian \in Guardians
<1>1. "idle" \in HelperSteps /\ "none" \in Modes /\ NoOptions \in OptionSets
  BY DEF HelperSteps, Modes, OptionSets
<1> QED
  BY <1>1 DEF Idle, Ops, NoGuardian, Guardians

\* The helper at work, except in a rollback that has not yet chosen its way:
\* its copy of the journal is the file.
LEMMA Working ==
    ASSUME IInv, op.pc \notin {"idle", "rollback"}
    PROVE  /\ PhaseInv /\ ProgressInv /\ op \in Ops
           /\ op.j = journal /\ journal \in Journals /\ JournalOK(journal)
<1>1. PhaseInv /\ ProgressInv /\ op \in Ops
  BY DEF IInv, OpInv, TypeInv, Idle
<1>2. op.j = journal /\ journal # NoJournal
  BY <1>1 DEF PhaseInv
<1> QED
  BY <1>1, <1>2 DEF IInv, Fits, JournalOK

\* Going on to a next step changes nothing else of the helper's memory.
LEMMA ToFields ==
    ASSUME op \in Ops, NEW pc \in HelperSteps
    PROVE  /\ To(pc) \in Ops
           /\ To(pc).pc = pc /\ To(pc).mode = op.mode /\ To(pc).j = op.j
           /\ To(pc).armed = op.armed /\ To(pc).uninstall = op.uninstall
           /\ To(pc).resume = op.resume /\ To(pc).left = op.left /\ To(pc).seen = op.seen
           /\ To(pc).drift = op.drift
BY DEF Ops, To

\* The file and the host are what they were, so the journal still fits.
LEMMA FitsKept ==
    ASSUME Fits(journal),
           UNCHANGED <<journal, opts, rules, chain, unit, guardian, origin, touched>>
    PROVE  Fits(journal)'
BY DEF Fits, JournalOK, Valid, AllowsIngressGuard, Protected, RulesAre, Untouched, Clean, Early,
   UndoneBy, NoneFirst, AtPreimage

\* The same, of a journal that is about to be written.
LEMMA FitsMoved ==
    ASSUME NEW j, Fits(j), journal' = j,
           UNCHANGED <<opts, rules, chain, unit, guardian, origin, touched>>
    PROVE  Fits(journal)'
BY DEF Fits, JournalOK, Valid, AllowsIngressGuard, Protected, RulesAre, Untouched, Clean, Early,
   UndoneBy, NoneFirst, AtPreimage

\* A helper that has ended relies on nothing.
LEMMA Ended ==
    ASSUME op' = Idle
    PROVE  OpInv' /\ op' \in Ops
BY Blank DEF OpInv

\* The deferred rollback begins with the journal j in memory.
LEMMA RollbackBegins ==
    ASSUME NEW j, j \in Journals, op' = [Idle EXCEPT !.pc = "rollback", !.j = j],
           Remembers(j)'
    PROVE  OpInv' /\ op' \in Ops
<1>1. /\ op'.pc = "rollback" /\ op'.mode = "none" /\ op'.j = j /\ op'.armed = FALSE
      /\ op'.uninstall = FALSE
  BY DEF Idle
<1>2. op' \in Ops
  BY Blank DEF Ops, HelperSteps, RollbackSteps
<1>3. PhaseInv'
  BY <1>1 DEF PhaseInv, ActivateSteps, Guarding, Purging, Undoing
<1>4. ProgressInv'
  BY <1>1 DEF ProgressInv, Undoing
<1> QED
  BY <1>1, <1>2, <1>3, <1>4 DEF OpInv

\* An error at any step: the helper ends, or rolls back when that is armed.
LEMMA FailOp ==
    ASSUME IInv, op' = Failed(op), journal' = journal, origin' = origin
    PROVE  OpInv' /\ op' \in Ops
<1>1. CASE op' = Idle
  BY <1>1, Ended
<1>2. CASE op.armed /\ op' = [Idle EXCEPT !.pc = "rollback", !.j = op.j]
  <2>1. op # Idle
    BY <1>2 DEF Idle
  <2>2. op.pc \notin {"idle", "rollback"} /\ op.mode = "activate" /\ PhaseInv
    BY <1>2, <2>1 DEF IInv, OpInv, PhaseInv, ActivateSteps
  <2>3. op.j = journal /\ journal \in Journals /\ JournalOK(journal)
    BY <2>2, Working
  <2>4. journal.phase # "uninstalled"
    BY <2>2, <2>3 DEF PhaseInv
  <2>5. origin # "retained" /\ journal.phase = "installing" => ~journal.planned
    BY DEF IInv, Fits, Clean
  <2>6. PICK j : j = journal
    OBVIOUS
  <2>7. Remembers(j)'
    BY <2>3, <2>4, <2>5, <2>6 DEF Remembers, JournalOK, Valid
  <2> QED
    BY <1>2, <2>3, <2>6, <2>7, RollbackBegins
<1> QED
  BY <1>1, <1>2 DEF Failed

\* A step that only looks at the host and the journal.
LEMMA LookStep ==
    ASSUME IInv, op' \in Ops, OpInv', UNCHANGED <<journal, pveVars, hostVars, supVars, origin, touched>>
    PROVE  IInv'
BY FitsKept DEF IInv, TypeInv, pveVars, hostVars, supVars

\* store.save: the journal on disk becomes j and the helper goes on, or the
\* error path is taken with the old or the new file and j in memory.
LEMMA SaveStep ==
    ASSUME IInv, op.pc # "idle", NEW j, NEW next, Save(j, next),
           UNCHANGED <<pveVars, hostVars, supVars, origin, touched>>,
           Valid(j) => Fits(j) /\ JournalOK(j),
           op.armed => Remembers(j) /\ j.phase # "uninstalled",
           Valid(j) /\ journal' = j /\ op' = [next EXCEPT !.j = j] => OpInv' /\ op' \in Ops
    PROVE  IInv'
<1>1. op \in Ops /\ UNCHANGED <<opts, rules, chain, compiled, ufw, unit, sup, guardian>>
  BY DEF IInv, TypeInv, pveVars, hostVars, supVars
<1>2. /\ op'= Idle \/ op' = [next EXCEPT !.j = j] \/ op' = Failed([op EXCEPT !.j = j])
      /\ journal' \in {journal, j} /\ (journal' = j \/ op' = Failed([op EXCEPT !.j = j]))
      /\ Valid(j) \/ (journal' = journal /\ op' = Failed([op EXCEPT !.j = j]))
  BY DEF Save, Keep
<1>3. journal' = journal \/ (journal' = j /\ Valid(j))
  BY <1>2
<1>4. Fits(journal)'
  BY <1>1, <1>3, FitsKept, FitsMoved DEF IInv
<1>5. journal' \in Journals \cup {NoJournal}
  BY <1>3 DEF IInv, TypeInv, JournalOK
<1>6. OpInv' /\ op' \in Ops
  <2>1. CASE op' = Idle
    BY <2>1, Ended
  <2>2. CASE op' = [next EXCEPT !.j = j] /\ Valid(j) /\ journal' = j
    BY <2>2
  <2>3. CASE op' = Failed([op EXCEPT !.j = j]) /\ op' # Idle
    <3>1. op.armed /\ op' = [Idle EXCEPT !.pc = "rollback", !.j = j]
      BY <1>1, <2>3 DEF Failed, Ops
    <3>2. Remembers(j) /\ j.phase # "uninstalled" /\ j \in Journals
      BY <3>1 DEF Remembers, JournalOK
    <3>3. Remembers(j)'
      BY <1>2, <3>2 DEF Remembers, JournalOK, Valid
    <3> QED
      BY <3>1, <3>2, <3>3, RollbackBegins
  <2> QED
    BY <1>2, <2>1, <2>2, <2>3
<1> QED
  BY <1>1, <1>4, <1>5, <1>6 DEF IInv, TypeInv

\* What Activate does with a journal j that is the file.
LEMMA LoadedOp ==
    ASSUME NEW j, j = NoJournal \/ JournalOK(j), origin' = origin, journal' = j,
           origin # "retained" /\ j.phase = "installing" => ~j.planned,
           op' = Loaded(j)
    PROVE  OpInv' /\ op' \in Ops
<1>1. CASE j.phase \in {"none", "uninstalled"}
  BY <1>1, Ended DEF Loaded
<1>2. j = NoJournal => j.phase = "none"
  BY DEF NoJournal
<1>3. CASE j.phase = "committed"
  <2>1. op' = [Idle EXCEPT !.pc = "snapshots", !.mode = "committed", !.j = j]
    BY <1>3 DEF Loaded
  <2>2. /\ op'.pc = "snapshots" /\ op'.mode = "committed" /\ op'.j = j /\ op'.armed = FALSE
    BY <2>1 DEF Idle
  <2>3. op' \in Ops
    BY <1>2, <1>3, <2>1, Blank DEF Ops, HelperSteps, ActivateSteps, Modes, JournalOK
  <2>4. PhaseInv'
    BY <1>2, <1>3, <2>2 DEF PhaseInv, ActivateSteps, Guarding, Purging, Undoing,
       AllowsIngressGuard
  <2>5. ProgressInv'
    BY <2>2 DEF ProgressInv, Undoing
  <2> QED
    BY <2>2, <2>3, <2>4, <2>5 DEF OpInv
<1>4. CASE j.phase = "rollback-pending"
  <2>1. op' = [Idle EXCEPT !.pc = "rollback", !.resume = TRUE, !.j = j]
    BY <1>4 DEF Loaded
  <2>2. /\ op'.pc = "rollback" /\ op'.mode = "none" /\ op'.j = j /\ op'.armed = FALSE
    BY <2>1 DEF Idle
  <2>3. op' \in Ops
    BY <1>2, <1>4, <2>1, Blank DEF Ops, HelperSteps, RollbackSteps, JournalOK
  <2>4. Remembers(j)'
    BY <1>2, <1>4 DEF Remembers, JournalOK, Valid
  <2>5. PhaseInv'
    BY <2>2, <2>4 DEF PhaseInv, ActivateSteps, Guarding, Purging, Undoing
  <2>6. ProgressInv'
    BY <2>2 DEF ProgressInv, Undoing
  <2> QED
    BY <2>2, <2>3, <2>5, <2>6 DEF OpInv
<1>5. CASE j.phase \notin {"none", "uninstalled", "committed", "rollback-pending"}
  <2>1. op' = [Idle EXCEPT !.pc = "dispatch", !.mode = "activate", !.armed = TRUE, !.j = j]
    BY <1>5 DEF Loaded
  <2>2. /\ op'.pc = "dispatch" /\ op'.mode = "activate" /\ op'.j = j /\ op'.armed = TRUE
    BY <2>1 DEF Idle
  <2>3. op' \in Ops
    BY <1>2, <1>5, <2>1, Blank DEF Ops, HelperSteps, ActivateSteps, Modes, JournalOK
  <2>4. PhaseInv'
    BY <1>2, <1>5, <2>2 DEF PhaseInv, ActivateSteps, Guarding, Purging, Undoing
  <2>5. ProgressInv'
    BY <2>2 DEF ProgressInv, Undoing
  <2> QED
    BY <2>2, <2>3, <2>4, <2>5 DEF OpInv
<1> QED
  BY <1>1, <1>3, <1>4, <1>5

\* Loaded keeps its journal, or ends.
LEMMA LoadedKeeps ==
    ASSUME NEW j, Loaded(j) # Idle
    PROVE  [Loaded(j) EXCEPT !.j = j] = Loaded(j)
<1>1. \/ Loaded(j) = Idle
      \/ Loaded(j) = [Idle EXCEPT !.pc = "snapshots", !.mode = "committed", !.j = j]
      \/ Loaded(j) = [Idle EXCEPT !.pc = "rollback", !.resume = TRUE, !.j = j]
      \/ Loaded(j) = [Idle EXCEPT !.pc = "dispatch", !.mode = "activate", !.armed = TRUE, !.j = j]
  BY DEF Loaded
<1> QED
  BY <1>1 DEF Idle

-----------------------------------------------------------------------------
(***************************************************************************)
(* Commands.                                                               *)
(***************************************************************************)

\* What the journal on disk gives to a command that starts.
LEMMA Starts ==
    ASSUME IInv
    PROVE  /\ journal = NoJournal \/ JournalOK(journal)
           /\ origin # "retained" /\ journal.phase = "installing" => ~journal.planned
BY DEF IInv, Fits, Clean

\* The first journal of a host without one.
LEMMA InitialFits ==
    ASSUME IInv, journal = NoJournal
    PROVE  Fits(InitialJournal) /\ JournalOK(InitialJournal) /\ ~InitialJournal.planned
<1>1. /\ InitialJournal.phase = "installing" /\ InitialJournal.ufw = "none"
      /\ InitialJournal.hooks = "none" /\ InitialJournal.planned = FALSE
      /\ InitialJournal \in Journals
  BY DEF InitialJournal, NoJournal, Journals, Phases
<1>2. JournalOK(InitialJournal)
  BY <1>1 DEF JournalOK, Valid
<1>3. origin # "retained" => Clean(InitialJournal)
  BY <1>1 DEF IInv, Fits, Clean, Early, UndoneBy, NoJournal
<1> QED
  BY <1>1, <1>2, <1>3 DEF Fits, AllowsIngressGuard

\* Classify writes the first journal.
LEMMA ClassifyStep == IInv /\ Classify => IInv'
<1> SUFFICES ASSUME IInv, Classify PROVE IInv'
  OBVIOUS
<1>1. /\ journal' = InitialJournal /\ journal = NoJournal /\ op.pc = "idle"
      /\ UNCHANGED <<op, opts, rules, chain, compiled, ufw, unit, sup, guardian, origin, touched>>
  BY DEF Classify, CanStart, At, Keep, worldVars, pveVars, hostVars, supVars, boundVars
<1>2. op = Idle
  BY <1>1 DEF IInv, OpInv
<1>3. Fits(journal)' /\ journal' \in Journals
  BY <1>1, InitialFits, FitsMoved DEF JournalOK
<1> QED
  BY <1>1, <1>2, <1>3, Ended DEF IInv, TypeInv

\* Activate loads the journal.
LEMMA ActivateStep == IInv /\ Activate => IInv'
<1> SUFFICES ASSUME IInv, Activate PROVE IInv'
  OBVIOUS
<1>1. op' = Loaded(journal) /\ UNCHANGED <<journal, pveVars, hostVars, supVars, origin, touched>>
  BY DEF Activate, Keep
<1> QED
  BY <1>1, Starts, LoadedOp, LookStep

\* Reconcile enrols, reclaims, resumes or verifies.
LEMMA ReconcileStep == IInv /\ ReconcileCommitted => IInv'
<1> SUFFICES ASSUME IInv, ReconcileCommitted PROVE IInv'
  OBVIOUS
<1>1. UNCHANGED <<pveVars, hostVars, supVars, origin, touched>>
  BY DEF ReconcileCommitted, Keep
<1>2. CASE journal = NoJournal /\ journal' = InitialJournal /\ op' = Loaded(InitialJournal)
  <2>1. Fits(journal)' /\ journal' \in Journals
    BY <1>1, <1>2, InitialFits, FitsMoved DEF JournalOK, pveVars, hostVars, supVars
  <2>2. OpInv' /\ op' \in Ops
    BY <1>1, <1>2, InitialFits, LoadedOp
  <2> QED
    BY <1>1, <2>1, <2>2 DEF IInv, TypeInv, pveVars, hostVars, supVars
<1>3. CASE op' = Idle /\ journal' = journal
  BY <1>1, <1>3, Ended, LookStep
<1>4. CASE op' = Loaded(journal) /\ journal' = journal
  BY <1>1, <1>4, Starts, LoadedOp, LookStep
<1>5. CASE /\ op' = [Idle EXCEPT !.pc = "reclaim", !.j = journal] /\ journal' = journal
           /\ journal.phase = "uninstalled" /\ journal.ufw = "removed"
  <2>1. op'.pc = "reclaim" /\ op'.mode = "none" /\ op'.j = journal /\ op'.armed = FALSE
    BY <1>5 DEF Idle
  <2>2. op' \in Ops
    BY <1>5, Blank DEF Ops, HelperSteps, IInv, TypeInv
  <2>3. PhaseInv'
    BY <1>5, <2>1 DEF PhaseInv, ActivateSteps, Guarding, Purging, Undoing, NoJournal
  <2>4. ProgressInv'
    BY <2>1 DEF ProgressInv, Undoing
  <2> QED
    BY <1>1, <1>5, <2>1, <2>2, <2>3, <2>4, LookStep DEF OpInv
<1>6. CASE /\ op' = [Idle EXCEPT !.pc = "snapshots", !.mode = "reconcile", !.j = journal]
           /\ journal' = journal /\ journal.phase = "committed"
  <2>1. op'.pc = "snapshots" /\ op'.mode = "reconcile" /\ op'.j = journal /\ op'.armed = FALSE
    BY <1>6 DEF Idle
  <2>2. op' \in Ops
    BY <1>6, Blank DEF Ops, HelperSteps, ActivateSteps, Modes, IInv, TypeInv
  <2>3. PhaseInv'
    BY <1>6, <2>1 DEF PhaseInv, ActivateSteps, Guarding, Purging, Undoing, NoJournal,
       AllowsIngressGuard
  <2>4. ProgressInv'
    BY <2>1 DEF ProgressInv, Undoing
  <2> QED
    BY <1>1, <1>6, <2>1, <2>2, <2>3, <2>4, LookStep DEF OpInv
<1> QED
  BY <1>2, <1>3, <1>4, <1>5, <1>6 DEF ReconcileCommitted, Keep

\* A rollback starts with the file in memory.
LEMMA RollbackStep ==
    ASSUME IInv, NEW u \in BOOLEAN, Rollback(u)
    PROVE  IInv'
<1>1. /\ op' = [Idle EXCEPT !.pc = "rollback", !.uninstall = u, !.j = journal]
      /\ journal # NoJournal /\ UNCHANGED <<journal, pveVars, hostVars, supVars, origin, touched>>
  BY DEF Rollback, Keep
<1>2. op'.pc = "rollback" /\ op'.mode = "none" /\ op'.j = journal /\ op'.armed = FALSE
  BY <1>1 DEF Idle
<1>3. op' \in Ops
  BY <1>1, Blank DEF Ops, HelperSteps, RollbackSteps, IInv, TypeInv
<1>4. PICK j : j = journal
  OBVIOUS
<1>5. Remembers(j)'
  BY <1>1, <1>4, Starts DEF Remembers, JournalOK, Valid
<1>6. PhaseInv'
  BY <1>1, <1>2, <1>4, <1>5 DEF PhaseInv, ActivateSteps, Guarding, Purging, Undoing
<1>7. ProgressInv'
  BY <1>2 DEF ProgressInv, Undoing
<1> QED
  BY <1>1, <1>2, <1>3, <1>6, <1>7, LookStep DEF OpInv

\* The reclaimed journal goes back to rules-enabled.
LEMMA ReclaimStep == IInv /\ Reclaim => IInv'
<1> SUFFICES ASSUME IInv, Reclaim PROVE IInv'
  OBVIOUS
<1> DEFINE j == [op.j EXCEPT !.ufw = "removing", !.phase = "rules-enabled"]
<1>1. /\ op.pc = "reclaim" /\ Save(j, Loaded(j))
      /\ UNCHANGED <<pveVars, hostVars, supVars, origin, touched>>
  BY DEF Reclaim, At, Keep
<1>2. PhaseInv /\ op.j = journal /\ JournalOK(journal) /\ op \in Ops
  BY <1>1, Working
<1>3. op.j.phase = "uninstalled" /\ op.j.ufw = "removed" /\ ~op.armed
  BY <1>1, <1>2 DEF PhaseInv, ActivateSteps
<1>4. /\ j.phase = "rules-enabled" /\ j.ufw = "removing" /\ j.hooks = op.j.hooks
      /\ j.planned = op.j.planned /\ j.pre = op.j.pre /\ j \in Journals
  BY <1>2 DEF JournalOK, Journals, Phases
<1> HIDE DEF j
<1>5. JournalOK(j)
  BY <1>2, <1>3, <1>4 DEF JournalOK, Valid
<1>6. Fits(j)
  BY <1>2, <1>3, <1>4, <1>5 DEF IInv, Fits, AllowsIngressGuard, Clean, Early, UndoneBy
<1>7. ASSUME journal' = j, op' = [Loaded(j) EXCEPT !.j = j] PROVE OpInv' /\ op' \in Ops
  <2>1. Loaded(j) # Idle
    BY <1>4 DEF Loaded, Idle
  <2>2. op' = Loaded(j)
    BY <1>7, <2>1, LoadedKeeps
  <2> QED
    BY <1>1, <1>4, <1>5, <1>7, <2>2, LoadedOp
<1> QED
  BY <1>1, <1>3, <1>5, <1>6, <1>7, SaveStep

-----------------------------------------------------------------------------
(***************************************************************************)
(* Activate, up to the commit.                                             *)
(***************************************************************************)

\* The phases Activate resumes from.
LEMMA DispatchStep == IInv /\ Dispatch => IInv'
<1> SUFFICES ASSUME IInv, Dispatch PROVE IInv'
  OBVIOUS
<1>1. op.pc = "dispatch"
      /\ UNCHANGED <<journal, pveVars, hostVars, supVars, origin, touched>>
  BY DEF Dispatch, At, Keep, worldVars, pveVars, hostVars, supVars, boundVars
<1>2. PhaseInv /\ ProgressInv /\ op \in Ops /\ op.j = journal /\ JournalOK(journal)
  BY <1>1, Working
<1>3. CASE op' = To("prepare") /\ op.j.phase \in {"installing", "rolled-back"}
  <2>1. /\ op' \in Ops /\ op'.pc = "prepare"
        /\ op'.mode = op.mode /\ op'.j = op.j /\ op'.armed = op.armed
    BY <1>1, <1>2, <1>3 DEF To, Ops, HelperSteps, ActivateSteps, RemovalSteps, RollbackSteps,
       Modes, OptionSets
  <2>2. PhaseInv'
    BY <1>1, <1>2, <1>3, <2>1 DEF PhaseInv, ActivateSteps, Guarding, Purging, Undoing,
       AllowsIngressGuard, JournalOK, NoJournal
  <2>3. ProgressInv'
    BY <1>1, <1>2, <1>3, <2>1 DEF ProgressInv, Undoing
  <2> QED
    BY <1>1, <2>1, <2>2, <2>3, LookStep DEF OpInv
<1>4. CASE op' = [To("create") EXCEPT !.left = Interfaces] /\ op.j.phase = "prepared"
  <2>1. /\ op' \in Ops /\ op'.pc = "create"
        /\ op'.mode = op.mode /\ op'.j = op.j /\ op'.armed = op.armed
    BY <1>1, <1>2, <1>4 DEF To, Ops, HelperSteps, ActivateSteps, RemovalSteps, RollbackSteps,
       Modes, OptionSets
  <2>2. PhaseInv'
    BY <1>1, <1>2, <1>4, <2>1 DEF PhaseInv, ActivateSteps, Guarding, Purging, Undoing,
       AllowsIngressGuard, JournalOK, NoJournal
  <2>3. ProgressInv'
    BY <1>1, <1>2, <1>4, <2>1 DEF ProgressInv, Undoing
  <2> QED
    BY <1>1, <2>1, <2>2, <2>3, LookStep DEF OpInv
<1>5. CASE op' = To("cluster") /\ op.j.phase = "rules-disabled"
  <2>1. /\ op' \in Ops /\ op'.pc = "cluster"
        /\ op'.mode = op.mode /\ op'.j = op.j /\ op'.armed = op.armed
    BY <1>1, <1>2, <1>5 DEF To, Ops, HelperSteps, ActivateSteps, RemovalSteps, RollbackSteps,
       Modes, OptionSets
  <2>2. PhaseInv'
    BY <1>1, <1>2, <1>5, <2>1 DEF PhaseInv, ActivateSteps, Guarding, Purging, Undoing,
       AllowsIngressGuard, JournalOK, NoJournal
  <2>3. ProgressInv'
    BY <1>1, <1>2, <1>5, <2>1 DEF ProgressInv, Undoing
  <2> QED
    BY <1>1, <2>1, <2>2, <2>3, LookStep DEF OpInv
<1>6. CASE op' = [To("enable") EXCEPT !.left = Interfaces] /\ op.j.phase = "options-applied"
  <2>1. /\ op' \in Ops /\ op'.pc = "enable"
        /\ op'.mode = op.mode /\ op'.j = op.j /\ op'.armed = op.armed
    BY <1>1, <1>2, <1>6 DEF To, Ops, HelperSteps, ActivateSteps, RemovalSteps, RollbackSteps,
       Modes, OptionSets
  <2>2. PhaseInv'
    BY <1>1, <1>2, <1>6, <2>1 DEF PhaseInv, ActivateSteps, Guarding, Purging, Undoing,
       AllowsIngressGuard, JournalOK, NoJournal
  <2>3. ProgressInv'
    BY <1>1, <1>2, <1>6, <2>1 DEF ProgressInv, Undoing
  <2> QED
    BY <1>1, <2>1, <2>2, <2>3, LookStep DEF OpInv
<1>7. CASE op' = To("snapshots") /\ op.j.phase = "rules-enabled"
  <2>1. /\ op' \in Ops /\ op'.pc = "snapshots"
        /\ op'.mode = op.mode /\ op'.j = op.j /\ op'.armed = op.armed
    BY <1>1, <1>2, <1>7 DEF To, Ops, HelperSteps, ActivateSteps, RemovalSteps, RollbackSteps,
       Modes, OptionSets
  <2>2. PhaseInv'
    BY <1>1, <1>2, <1>7, <2>1 DEF PhaseInv, ActivateSteps, Guarding, Purging, Undoing,
       AllowsIngressGuard, JournalOK, NoJournal
  <2>3. ProgressInv'
    BY <1>1, <1>2, <1>7, <2>1 DEF ProgressInv, Undoing
  <2> QED
    BY <1>1, <2>1, <2>2, <2>3, LookStep DEF OpInv
<1>8. op.j.phase \in {"installing", "rolled-back", "prepared", "rules-disabled",
                    "options-applied", "rules-enabled"}
  BY <1>1, <1>2 DEF PhaseInv, JournalOK, Journals, Phases
<1> QED
  BY <1>3, <1>4, <1>5, <1>6, <1>7, <1>8 DEF Dispatch

\* The preimage is taken on a host without owned rules.
LEMMA PrepareStep == IInv /\ Prepare => IInv'
<1> SUFFICES ASSUME IInv, Prepare PROVE IInv'
  OBVIOUS
<1>1. op.pc = "prepare"
      /\ Save([Planned(op.j) EXCEPT !.phase = "prepared"], To("dispatch")) /\ RulesAre("absent")
      /\ UNCHANGED <<pveVars, hostVars, supVars, origin, touched>>
  BY DEF Prepare, At, Keep, worldVars, pveVars, hostVars, supVars, boundVars
<1>2. PhaseInv /\ ProgressInv /\ op \in Ops /\ op.j = journal /\ JournalOK(journal)
  BY <1>1, Working
<1> DEFINE j == [Planned(op.j) EXCEPT !.phase = "prepared"]
<1>3. /\ j \in Journals /\ j.phase = "prepared" /\ j.ufw = op.j.ufw
      /\ j.hooks = op.j.hooks /\ j.planned = TRUE /\ j.pre = opts
  BY <1>1, <1>2 DEF JournalOK, Journals, Phases, IInv, TypeInv, Planned
<1> HIDE DEF j
<1>4. JournalOK(j)
  BY <1>1, <1>2, <1>3 DEF PhaseInv, JournalOK, Valid, AllowsIngressGuard, Guarding, Purging,
     Undoing, IInv, TypeInv
<1>5. Fits(j)
  BY <1>1, <1>2, <1>3, <1>4 DEF IInv, Fits, PhaseInv, ProgressInv, Undoing, Guarding, Purging,
     AllowsIngressGuard, Protected, Verified, AllOn, Untouched, Clean, Early, UndoneBy,
     AtPreimage
<1>6. op.armed => Remembers(j) /\ j.phase # "uninstalled"
  BY <1>1, <1>2, <1>3, <1>4 DEF Remembers, PhaseInv, ActivateSteps, IInv, Fits, Clean
<1>7. ASSUME journal' = j, op' = [To("dispatch") EXCEPT !.j = j] PROVE OpInv' /\ op' \in Ops
  <2>1. /\ op' \in Ops /\ op'.pc = "dispatch"
        /\ op'.mode = op.mode /\ op'.j = j /\ op'.armed = op.armed
    BY <1>1, <1>2, <1>3, <1>4, <1>7 DEF To, Ops, HelperSteps, ActivateSteps, RemovalSteps,
       RollbackSteps, Modes, OptionSets
  <2>2. PhaseInv'
    BY <1>1, <1>2, <1>3, <1>4, <1>7, <2>1 DEF PhaseInv, ActivateSteps, Guarding, Purging,
       Undoing, AllowsIngressGuard, JournalOK, NoJournal
  <2>3. ProgressInv'
    BY <1>1, <1>2, <1>3, <1>4, <1>7, <2>1 DEF ProgressInv, Undoing
  <2> QED
    BY <2>1, <2>2, <2>3 DEF OpInv
<1> QED
  BY <1>1, <1>4, <1>5, <1>6, <1>7, SaveStep DEF j

\* A cluster whose firewall is off is refused.
LEMMA PrepareRefusedStep == IInv /\ PrepareRefused => IInv'
<1> SUFFICES ASSUME IInv, PrepareRefused PROVE IInv'
  OBVIOUS
<1>1. op.pc = "prepare"
      /\ UNCHANGED <<journal, pveVars, hostVars, supVars, origin, touched>>
  BY DEF PrepareRefused, At, Keep, worldVars, pveVars, hostVars, supVars, boundVars
<1>2. PhaseInv /\ ProgressInv /\ op \in Ops /\ op.j = journal /\ JournalOK(journal)
  BY <1>1, Working
<1> QED
  BY <1>1, FailOp, LookStep DEF PrepareRefused, Fail

\* Rules of an earlier installation are adopted; only a host found with them
\* gets here.
LEMMA AdoptStep == IInv /\ Adopt => IInv'
<1> SUFFICES ASSUME IInv, Adopt PROVE IInv'
  OBVIOUS
<1>1. /\ op.pc = "prepare" /\ ~RulesAre("absent")
      /\ UNCHANGED <<pveVars, hostVars, supVars, origin, touched>>
  BY DEF Adopt, At, Keep, worldVars, pveVars, hostVars, supVars, boundVars
<1>2. PhaseInv /\ ProgressInv /\ op \in Ops /\ op.j = journal /\ JournalOK(journal)
  BY <1>1, Working
<1>3. op.j.phase \in {"installing", "rolled-back"} /\ op.j.ufw = "none"
  BY <1>1, <1>2 DEF PhaseInv, JournalOK
<1>4. origin = "retained"
  BY <1>1, <1>2, <1>3 DEF IInv, Fits, Clean, UndoneBy
<1> DEFINE plan == Planned(op.j)
           adopted == [plan EXCEPT !.hooks = "first", !.ufw = "removing", !.phase = "rules-enabled"]
           refused == [plan EXCEPT !.hooks = "none"]
<1>5. /\ adopted \in Journals /\ adopted.phase = "rules-enabled" /\ adopted.ufw = "removing"
      /\ adopted.hooks = "first" /\ adopted.planned = TRUE /\ adopted.pre = opts
  BY <1>2 DEF Planned, JournalOK, Journals, Phases, IInv, TypeInv
<1>6. /\ refused \in Journals /\ refused.phase = op.j.phase /\ refused.ufw = op.j.ufw
      /\ refused.hooks = "none" /\ refused.planned = TRUE /\ refused.pre = opts
  BY <1>2 DEF Planned, JournalOK, Journals, Phases, IInv, TypeInv
<1>7. CASE Verified /\ Save(adopted, To("dispatch"))
  <2> HIDE DEF adopted
  <2>1. JournalOK(adopted)
    BY <1>5 DEF JournalOK, Valid, IInv, TypeInv
  <2>2. Fits(adopted)
    BY <1>4, <1>5, <1>7, <2>1 DEF Fits, AllowsIngressGuard, Protected, Verified, AllOn,
       Untouched
  <2>3. Remembers(adopted) /\ adopted.phase # "uninstalled"
    BY <1>4, <1>5, <2>1 DEF Remembers
  <2>4. ASSUME journal' = adopted, op' = [To("dispatch") EXCEPT !.j = adopted]
        PROVE  OpInv' /\ op' \in Ops
    <3>1. /\ op' \in Ops /\ op'.pc = "dispatch" /\ op'.mode = op.mode /\ op'.armed = op.armed
          /\ op'.j = adopted
      BY <1>2, <1>5, <2>4 DEF To, Ops, HelperSteps, ActivateSteps, RemovalSteps, RollbackSteps,
         Modes, OptionSets
    <3>2. PhaseInv'
      BY <1>1, <1>2, <1>5, <2>1, <2>4, <3>1 DEF PhaseInv, ActivateSteps, Guarding, Purging,
         Undoing, JournalOK, NoJournal
    <3>3. ProgressInv'
      BY <3>1 DEF ProgressInv, Undoing
    <3> QED
      BY <3>1, <3>2, <3>3 DEF OpInv
  <2> QED
    BY <1>1, <1>7, <2>1, <2>2, <2>3, <2>4, SaveStep
<1>8. CASE op' = Failed([op EXCEPT !.j = refused]) /\ journal' = journal
  <2> HIDE DEF refused
  <2>1. CASE op' = Idle
    BY <1>1, <1>8, <2>1, Ended, LookStep
  <2>2. CASE op' = [Idle EXCEPT !.pc = "rollback", !.j = refused]
    <3>1. PICK j : j = refused
      OBVIOUS
    <3>2. JournalOK(j)
      BY <1>2, <1>3, <1>6, <3>1 DEF JournalOK, Valid, IInv, TypeInv
    <3>3. Remembers(j)'
      BY <1>1, <1>2, <1>3, <1>4, <1>6, <1>8, <3>1, <3>2 DEF Remembers, JournalOK, Valid
    <3> QED
      BY <1>1, <1>6, <1>8, <2>2, <3>1, <3>3, RollbackBegins, LookStep
  <2> QED
    BY <1>2, <1>8, <2>1, <2>2 DEF Failed, Ops
<1>9. CASE Fail /\ journal' = journal
  BY <1>1, <1>9, FailOp, LookStep DEF Fail
<1> QED
  BY <1>7, <1>8, <1>9 DEF Adopt, Keep

\* A step that changes the owned rules, in a phase that promises none of them.
LEMMA RulesStep ==
    ASSUME IInv, rules' \in [Interfaces -> RuleStates],
           UNCHANGED <<journal, opts, hostVars, supVars, origin, touched>>,
           journal.phase \in {"prepared", "rules-disabled", "options-applied", "rollback-pending"},
           op' \in Ops, OpInv'
    PROVE  IInv'
<1>1. ~AllowsIngressGuard(journal) /\ ~UndoneBy(journal)
  BY DEF AllowsIngressGuard, UndoneBy
<1>2. Fits(journal)'
  BY <1>1 DEF IInv, Fits, JournalOK, Valid, AllowsIngressGuard, Clean, Early, UndoneBy,
     NoneFirst, hostVars, supVars
<1> QED
  BY <1>2 DEF IInv, TypeInv, hostVars, supVars

\* A step that changes options, in a phase that promises none of them.
LEMMA OptionsStep ==
    ASSUME IInv, opts' \in [Options -> Values],
           UNCHANGED <<journal, rules, hostVars, supVars, origin, touched>>,
           journal.phase \in {"rules-disabled", "rollback-pending"},
           op' \in Ops, OpInv'
    PROVE  IInv'
<1>1. ~AllowsIngressGuard(journal) /\ ~UndoneBy(journal)
  BY DEF AllowsIngressGuard, UndoneBy
<1>2. Fits(journal)'
  BY <1>1 DEF IInv, Fits, JournalOK, Valid, AllowsIngressGuard, Clean, Early, UndoneBy,
     NoneFirst, RulesAre, hostVars, supVars
<1> QED
  BY <1>2 DEF IInv, TypeInv, hostVars, supVars

\* A step that moves hooks or removes UFW's chains: a hook is put first only
\* with a snapshot on disk, and never before the rules are enabled.
LEMMA ChainStep ==
    ASSUME IInv, chain' \in [Families -> Hooks], ufw' \in UfwStates, compiled' \subseteq Interfaces,
           UNCHANGED <<journal, pveVars, supVars, origin, touched>>,
           origin # "retained" /\ ~NoneFirst' => journal.hooks # "none" /\ ~Early(journal),
           op' \in Ops, OpInv'
    PROVE  IInv'
<1>1. Fits(journal)'
  BY DEF IInv, Fits, JournalOK, Valid, AllowsIngressGuard, Protected, Untouched, Clean, Early,
     UndoneBy, AtPreimage, RulesAre, pveVars, supVars
<1> QED
  BY <1>1 DEF IInv, TypeInv, pveVars, supVars

\* One owned rule is created disabled.
LEMMA CreateRuleStep ==
    ASSUME IInv, NEW i \in Interfaces, CreateRule(i)
    PROVE  IInv'
<1>1. op.pc = "create"
      /\ UNCHANGED <<journal, opts, hostVars, supVars, origin, touched>>
  BY DEF CreateRule, At, Keep, worldVars, pveVars, hostVars, supVars, boundVars
<1>2. PhaseInv /\ ProgressInv /\ op \in Ops /\ op.j = journal /\ JournalOK(journal)
  BY <1>1, Working
<1>3. journal.phase = "prepared" /\ rules \in [Interfaces -> RuleStates]
  BY <1>1, <1>2 DEF PhaseInv, IInv, TypeInv
<1>4. CASE Fail /\ rules' = rules
  <2>1. OpInv' /\ op' \in Ops
    BY <1>1, <1>4, FailOp DEF Fail
  <2> QED
    BY <1>1, <1>3, <1>4, <2>1, RulesStep
<1>5. CASE op' = [op EXCEPT !.left = @ \ {i}] /\ rules' \in {rules, [rules EXCEPT ![i] = "disabled"]}
  <2>1. /\ op' \in Ops /\ op'.pc = "create"
        /\ op'.mode = op.mode /\ op'.j = op.j /\ op'.armed = op.armed
    BY <1>1, <1>2, <1>5 DEF To, Ops, HelperSteps, ActivateSteps, RemovalSteps, RollbackSteps,
       Modes, OptionSets
  <2>2. PhaseInv'
    BY <1>1, <1>2, <1>5, <2>1 DEF PhaseInv, ActivateSteps, Guarding, Purging, Undoing,
       AllowsIngressGuard, JournalOK, NoJournal
  <2>3. ProgressInv'
    BY <1>1, <1>2, <1>5, <2>1 DEF ProgressInv, Undoing
  <2>4. rules' \in [Interfaces -> RuleStates]
    BY <1>3, <1>5 DEF RuleStates
  <2> QED
    BY <1>1, <1>3, <2>1, <2>2, <2>3, <2>4, RulesStep DEF OpInv
<1> QED
  BY <1>4, <1>5 DEF CreateRule, Keep

\* The rules are in place, disabled.
LEMMA RulesCreatedStep == IInv /\ RulesCreated => IInv'
<1> SUFFICES ASSUME IInv, RulesCreated PROVE IInv'
  OBVIOUS
<1>1. op.pc = "create"
      /\ Save([op.j EXCEPT !.phase = "rules-disabled"], To("dispatch"))
      /\ UNCHANGED <<pveVars, hostVars, supVars, origin, touched>>
  BY DEF RulesCreated, At, Keep, worldVars, pveVars, hostVars, supVars, boundVars
<1>2. PhaseInv /\ ProgressInv /\ op \in Ops /\ op.j = journal /\ JournalOK(journal)
  BY <1>1, Working
<1> DEFINE j == [op.j EXCEPT !.phase = "rules-disabled"]
<1>3. /\ j \in Journals /\ j.phase = "rules-disabled" /\ j.ufw = op.j.ufw
      /\ j.hooks = op.j.hooks /\ j.planned = op.j.planned /\ j.pre = op.j.pre
  BY <1>1, <1>2 DEF JournalOK, Journals, Phases, IInv, TypeInv
<1> HIDE DEF j
<1>4. JournalOK(j)
  BY <1>1, <1>2, <1>3 DEF PhaseInv, JournalOK, Valid, AllowsIngressGuard, Guarding, Purging,
     Undoing, IInv, TypeInv
<1>5. Fits(j)
  BY <1>1, <1>2, <1>3, <1>4 DEF IInv, Fits, PhaseInv, ProgressInv, Undoing, Guarding, Purging,
     AllowsIngressGuard, Protected, Verified, AllOn, Untouched, Clean, Early, UndoneBy,
     AtPreimage
<1>6. op.armed => Remembers(j) /\ j.phase # "uninstalled"
  BY <1>1, <1>2, <1>3, <1>4 DEF Remembers, PhaseInv, ActivateSteps, IInv, Fits, Clean
<1>7. ASSUME journal' = j, op' = [To("dispatch") EXCEPT !.j = j] PROVE OpInv' /\ op' \in Ops
  <2>1. /\ op' \in Ops /\ op'.pc = "dispatch"
        /\ op'.mode = op.mode /\ op'.j = j /\ op'.armed = op.armed
    BY <1>1, <1>2, <1>3, <1>4, <1>7 DEF To, Ops, HelperSteps, ActivateSteps, RemovalSteps,
       RollbackSteps, Modes, OptionSets
  <2>2. PhaseInv'
    BY <1>1, <1>2, <1>3, <1>4, <1>7, <2>1 DEF PhaseInv, ActivateSteps, Guarding, Purging,
       Undoing, AllowsIngressGuard, JournalOK, NoJournal
  <2>3. ProgressInv'
    BY <1>1, <1>2, <1>3, <1>4, <1>7, <2>1 DEF ProgressInv, Undoing
  <2> QED
    BY <2>1, <2>2, <2>3 DEF OpInv
<1> QED
  BY <1>1, <1>4, <1>5, <1>6, <1>7, SaveStep DEF j

\* The cluster options are read and found applicable.
LEMMA ReadClusterStep == IInv /\ ReadOptions("cluster", ClusterOptions, "setcluster", "node") => IInv'
<1> SUFFICES ASSUME IInv, ReadOptions("cluster", ClusterOptions, "setcluster", "node") PROVE IInv'
  OBVIOUS
<1>1. op.pc = "cluster" /\ UNCHANGED <<journal, pveVars, hostVars, supVars, origin, touched>>
  BY DEF ReadOptions, At, Keep, worldVars, pveVars, hostVars, supVars, boundVars
<1>2. PhaseInv /\ ProgressInv /\ op \in Ops /\ op.j = journal /\ JournalOK(journal)
      /\ opts \in [Options -> Values]
  BY <1>1, Working DEF IInv, TypeInv
<1>3. CASE Fail
  BY <1>1, <1>3, FailOp, LookStep DEF Fail
<1>4. CASE op' = [To("setcluster") EXCEPT !.seen = opts] /\ Applicable(ClusterOptions)
  <2>1. /\ op' \in Ops /\ op'.pc = "setcluster"
        /\ op'.mode = op.mode /\ op'.j = op.j /\ op'.armed = op.armed /\ op'.seen = opts
    BY <1>1, <1>2, <1>4 DEF To, Ops, HelperSteps, ActivateSteps, RemovalSteps, RollbackSteps,
       Modes, OptionSets
  <2>2. PhaseInv'
    BY <1>1, <1>2, <1>4, <2>1 DEF PhaseInv, ActivateSteps, Guarding, Purging, Undoing,
       AllowsIngressGuard, JournalOK, NoJournal
  <2>3. ProgressInv'
    BY <1>1, <1>2, <1>4, <2>1 DEF ProgressInv, Undoing, Applicable, ClusterOptions
  <2> QED
    BY <1>1, <2>1, <2>2, <2>3, LookStep DEF OpInv
<1>5. CASE op' = To("node")
  <2>1. /\ op' \in Ops /\ op'.pc = "node"
        /\ op'.mode = op.mode /\ op'.j = op.j /\ op'.armed = op.armed
    BY <1>1, <1>2, <1>5 DEF To, Ops, HelperSteps, ActivateSteps, RemovalSteps, RollbackSteps,
       Modes, OptionSets
  <2>2. PhaseInv'
    BY <1>1, <1>2, <1>5, <2>1 DEF PhaseInv, ActivateSteps, Guarding, Purging, Undoing,
       AllowsIngressGuard, JournalOK, NoJournal
  <2>3. ProgressInv'
    BY <1>1, <1>2, <1>5, <2>1 DEF ProgressInv, Undoing, Applicable
  <2> QED
    BY <1>1, <2>1, <2>2, <2>3, LookStep DEF OpInv
<1> QED
  BY <1>3, <1>4, <1>5 DEF ReadOptions

\* The cluster options are written under the digest read.
LEMMA WriteClusterStep == IInv /\ WriteOptions("setcluster", ClusterOptions, "node") => IInv'
<1> SUFFICES ASSUME IInv, WriteOptions("setcluster", ClusterOptions, "node") PROVE IInv'
  OBVIOUS
<1>1. op.pc = "setcluster" /\ UNCHANGED <<journal, rules, hostVars, supVars, origin, touched>>
  BY DEF WriteOptions, At, Keep, worldVars, pveVars, hostVars, supVars, boundVars
<1>2. PhaseInv /\ ProgressInv /\ op \in Ops /\ op.j = journal /\ JournalOK(journal)
      /\ opts \in [Options -> Values]
  BY <1>1, Working DEF IInv, TypeInv
<1>3. journal.phase = "rules-disabled"
  BY <1>1, <1>2 DEF PhaseInv
<1>4. CASE Fail /\ opts' = opts
  <2>1. OpInv' /\ op' \in Ops
    BY <1>1, <1>4, FailOp DEF Fail
  <2> QED
    BY <1>1, <1>2, <1>3, <1>4, <2>1, OptionsStep
<1>5. CASE /\ op' = [To("node") EXCEPT !.seen = NoOptions]
           /\ opts' = [o \in Options |-> IF o \in ClusterOptions THEN "on" ELSE opts[o]]
  <2>1. /\ op' \in Ops /\ op'.pc = "node"
        /\ op'.mode = op.mode /\ op'.j = op.j /\ op'.armed = op.armed
    BY <1>1, <1>2, <1>5 DEF To, Ops, HelperSteps, ActivateSteps, RemovalSteps, RollbackSteps,
       Modes, OptionSets
  <2>2. PhaseInv'
    BY <1>1, <1>2, <1>5, <2>1 DEF PhaseInv, ActivateSteps, Guarding, Purging, Undoing,
       AllowsIngressGuard, JournalOK, NoJournal
  <2>3. ProgressInv'
    BY <1>1, <1>2, <1>5, <2>1 DEF ProgressInv, Undoing
  <2>4. opts' \in [Options -> Values]
    BY <1>2, <1>5 DEF Values
  <2> QED
    BY <1>1, <1>3, <2>1, <2>2, <2>3, <2>4, OptionsStep DEF OpInv
<1> QED
  BY <1>4, <1>5 DEF WriteOptions, Keep

\* The node option is read and found applicable.
LEMMA ReadNodeStep == IInv /\ ReadOptions("node", {"node"}, "setnode", "applied") => IInv'
<1> SUFFICES ASSUME IInv, ReadOptions("node", {"node"}, "setnode", "applied") PROVE IInv'
  OBVIOUS
<1>1. op.pc = "node" /\ UNCHANGED <<journal, pveVars, hostVars, supVars, origin, touched>>
  BY DEF ReadOptions, At, Keep, worldVars, pveVars, hostVars, supVars, boundVars
<1>2. PhaseInv /\ ProgressInv /\ op \in Ops /\ op.j = journal /\ JournalOK(journal)
      /\ opts \in [Options -> Values]
  BY <1>1, Working DEF IInv, TypeInv
<1>3. CASE Fail
  BY <1>1, <1>3, FailOp, LookStep DEF Fail
<1>4. CASE op' = [To("setnode") EXCEPT !.seen = opts] /\ Applicable({"node"})
  <2>1. /\ op' \in Ops /\ op'.pc = "setnode"
        /\ op'.mode = op.mode /\ op'.j = op.j /\ op'.armed = op.armed /\ op'.seen = opts
    BY <1>1, <1>2, <1>4 DEF To, Ops, HelperSteps, ActivateSteps, RemovalSteps, RollbackSteps,
       Modes, OptionSets
  <2>2. PhaseInv'
    BY <1>1, <1>2, <1>4, <2>1 DEF PhaseInv, ActivateSteps, Guarding, Purging, Undoing,
       AllowsIngressGuard, JournalOK, NoJournal
  <2>3. ProgressInv'
    BY <1>1, <1>2, <1>4, <2>1 DEF ProgressInv, Undoing, Applicable, ClusterOptions
  <2> QED
    BY <1>1, <2>1, <2>2, <2>3, LookStep DEF OpInv
<1>5. CASE op' = To("applied")
  <2>1. /\ op' \in Ops /\ op'.pc = "applied"
        /\ op'.mode = op.mode /\ op'.j = op.j /\ op'.armed = op.armed
    BY <1>1, <1>2, <1>5 DEF To, Ops, HelperSteps, ActivateSteps, RemovalSteps, RollbackSteps,
       Modes, OptionSets
  <2>2. PhaseInv'
    BY <1>1, <1>2, <1>5, <2>1 DEF PhaseInv, ActivateSteps, Guarding, Purging, Undoing,
       AllowsIngressGuard, JournalOK, NoJournal
  <2>3. ProgressInv'
    BY <1>1, <1>2, <1>5, <2>1 DEF ProgressInv, Undoing, Applicable
  <2> QED
    BY <1>1, <2>1, <2>2, <2>3, LookStep DEF OpInv
<1> QED
  BY <1>3, <1>4, <1>5 DEF ReadOptions

\* The node option is written under the digest read.
LEMMA WriteNodeStep == IInv /\ WriteOptions("setnode", {"node"}, "applied") => IInv'
<1> SUFFICES ASSUME IInv, WriteOptions("setnode", {"node"}, "applied") PROVE IInv'
  OBVIOUS
<1>1. op.pc = "setnode" /\ UNCHANGED <<journal, rules, hostVars, supVars, origin, touched>>
  BY DEF WriteOptions, At, Keep, worldVars, pveVars, hostVars, supVars, boundVars
<1>2. PhaseInv /\ ProgressInv /\ op \in Ops /\ op.j = journal /\ JournalOK(journal)
      /\ opts \in [Options -> Values]
  BY <1>1, Working DEF IInv, TypeInv
<1>3. journal.phase = "rules-disabled"
  BY <1>1, <1>2 DEF PhaseInv
<1>4. CASE Fail /\ opts' = opts
  <2>1. OpInv' /\ op' \in Ops
    BY <1>1, <1>4, FailOp DEF Fail
  <2> QED
    BY <1>1, <1>2, <1>3, <1>4, <2>1, OptionsStep
<1>5. CASE /\ op' = [To("applied") EXCEPT !.seen = NoOptions]
           /\ opts' = [o \in Options |-> IF o \in {"node"} THEN "on" ELSE opts[o]]
  <2>1. /\ op' \in Ops /\ op'.pc = "applied"
        /\ op'.mode = op.mode /\ op'.j = op.j /\ op'.armed = op.armed
    BY <1>1, <1>2, <1>5 DEF To, Ops, HelperSteps, ActivateSteps, RemovalSteps, RollbackSteps,
       Modes, OptionSets
  <2>2. PhaseInv'
    BY <1>1, <1>2, <1>5, <2>1 DEF PhaseInv, ActivateSteps, Guarding, Purging, Undoing,
       AllowsIngressGuard, JournalOK, NoJournal
  <2>3. ProgressInv'
    BY <1>1, <1>2, <1>5, <2>1 DEF ProgressInv, Undoing
  <2>4. opts' \in [Options -> Values]
    BY <1>2, <1>5 DEF Values
  <2> QED
    BY <1>1, <1>3, <2>1, <2>2, <2>3, <2>4, OptionsStep DEF OpInv
<1> QED
  BY <1>4, <1>5 DEF WriteOptions, Keep

\* The options are seen in force.
LEMMA OptionsAppliedStep == IInv /\ OptionsApplied => IInv'
<1> SUFFICES ASSUME IInv, OptionsApplied PROVE IInv'
  OBVIOUS
<1>1. op.pc = "applied"
      /\ UNCHANGED <<pveVars, hostVars, supVars, origin, touched>>
  BY DEF OptionsApplied, At, Keep, worldVars, pveVars, hostVars, supVars, boundVars
<1>2. PhaseInv /\ ProgressInv /\ op \in Ops /\ op.j = journal /\ JournalOK(journal)
  BY <1>1, Working
<1>3. CASE AllOn /\ Save([op.j EXCEPT !.phase = "options-applied"], To("dispatch"))
  <2> DEFINE j == [op.j EXCEPT !.phase = "options-applied"]
  <2>1. /\ j \in Journals /\ j.phase = "options-applied" /\ j.ufw = op.j.ufw
        /\ j.hooks = op.j.hooks /\ j.planned = op.j.planned /\ j.pre = op.j.pre
    BY <1>1, <1>2, <1>3 DEF JournalOK, Journals, Phases, IInv, TypeInv
  <2> HIDE DEF j
  <2>2. JournalOK(j)
    BY <1>1, <1>2, <1>3, <2>1 DEF PhaseInv, JournalOK, Valid, AllowsIngressGuard, Guarding,
       Purging, Undoing, IInv, TypeInv
  <2>3. Fits(j)
    BY <1>1, <1>2, <1>3, <2>1, <2>2 DEF IInv, Fits, PhaseInv, ProgressInv, Undoing, Guarding,
       Purging, AllowsIngressGuard, Protected, Verified, AllOn, Untouched, Clean, Early,
       UndoneBy, AtPreimage
  <2>4. op.armed => Remembers(j) /\ j.phase # "uninstalled"
    BY <1>1, <1>2, <1>3, <2>1, <2>2 DEF Remembers, PhaseInv, ActivateSteps, IInv, Fits, Clean
  <2>5. ASSUME journal' = j, op' = [To("dispatch") EXCEPT !.j = j] PROVE OpInv' /\ op' \in Ops
    <3>1. /\ op' \in Ops /\ op'.pc = "dispatch"
          /\ op'.mode = op.mode /\ op'.j = j /\ op'.armed = op.armed
      BY <1>1, <1>2, <1>3, <2>1, <2>2, <2>5 DEF To, Ops, HelperSteps, ActivateSteps,
         RemovalSteps, RollbackSteps, Modes, OptionSets
    <3>2. PhaseInv'
      BY <1>1, <1>2, <1>3, <2>1, <2>2, <2>5, <3>1 DEF PhaseInv, ActivateSteps, Guarding,
         Purging, Undoing, AllowsIngressGuard, JournalOK, NoJournal
    <3>3. ProgressInv'
      BY <1>1, <1>2, <1>3, <2>1, <2>2, <2>5, <3>1 DEF ProgressInv, Undoing
    <3> QED
      BY <3>1, <3>2, <3>3 DEF OpInv
  <2> QED
    BY <1>1, <1>3, <2>2, <2>3, <2>4, <2>5, SaveStep DEF j
<1>4. CASE Fail /\ journal' = journal
  BY <1>1, <1>4, FailOp, LookStep DEF Fail
<1> QED
  BY <1>3, <1>4 DEF OptionsApplied, Keep

\* One owned rule is enabled.
LEMMA EnableRuleStep ==
    ASSUME IInv, NEW i \in Interfaces, EnableRule(i)
    PROVE  IInv'
<1>1. op.pc = "enable"
      /\ UNCHANGED <<journal, opts, hostVars, supVars, origin, touched>>
  BY DEF EnableRule, At, Keep, worldVars, pveVars, hostVars, supVars, boundVars
<1>2. PhaseInv /\ ProgressInv /\ op \in Ops /\ op.j = journal /\ JournalOK(journal)
  BY <1>1, Working
<1>3. journal.phase = "options-applied" /\ rules \in [Interfaces -> RuleStates]
  BY <1>1, <1>2 DEF PhaseInv, IInv, TypeInv
<1>4. CASE Fail /\ rules' = rules
  <2>1. OpInv' /\ op' \in Ops
    BY <1>1, <1>4, FailOp DEF Fail
  <2> QED
    BY <1>1, <1>3, <1>4, <2>1, RulesStep
<1>5. CASE op' = [op EXCEPT !.left = @ \ {i}] /\ rules' \in {rules, [rules EXCEPT ![i] = "enabled"]}
  <2>1. /\ op' \in Ops /\ op'.pc = "enable"
        /\ op'.mode = op.mode /\ op'.j = op.j /\ op'.armed = op.armed
    BY <1>1, <1>2, <1>5 DEF To, Ops, HelperSteps, ActivateSteps, RemovalSteps, RollbackSteps,
       Modes, OptionSets
  <2>2. PhaseInv'
    BY <1>1, <1>2, <1>5, <2>1 DEF PhaseInv, ActivateSteps, Guarding, Purging, Undoing,
       AllowsIngressGuard, JournalOK, NoJournal
  <2>3. ProgressInv'
    BY <1>1, <1>2, <1>5, <2>1 DEF ProgressInv, Undoing
  <2>4. rules' \in [Interfaces -> RuleStates]
    BY <1>3, <1>5 DEF RuleStates
  <2> QED
    BY <1>1, <1>3, <2>1, <2>2, <2>3, <2>4, RulesStep DEF OpInv
<1> QED
  BY <1>4, <1>5 DEF EnableRule, Keep

\* The rules are seen enabled.
LEMMA RulesEnabledStep == IInv /\ RulesEnabled => IInv'
<1> SUFFICES ASSUME IInv, RulesEnabled PROVE IInv'
  OBVIOUS
<1>1. op.pc = "enable"
      /\ UNCHANGED <<pveVars, hostVars, supVars, origin, touched>>
  BY DEF RulesEnabled, At, Keep, worldVars, pveVars, hostVars, supVars, boundVars
<1>2. PhaseInv /\ ProgressInv /\ op \in Ops /\ op.j = journal /\ JournalOK(journal)
  BY <1>1, Working
<1>3. CASE Verified /\ Save([op.j EXCEPT !.phase = "rules-enabled"], To("dispatch"))
  <2> DEFINE j == [op.j EXCEPT !.phase = "rules-enabled"]
  <2>1. /\ j \in Journals /\ j.phase = "rules-enabled" /\ j.ufw = op.j.ufw
        /\ j.hooks = op.j.hooks /\ j.planned = op.j.planned /\ j.pre = op.j.pre
    BY <1>1, <1>2, <1>3 DEF JournalOK, Journals, Phases, IInv, TypeInv
  <2> HIDE DEF j
  <2>2. JournalOK(j)
    BY <1>1, <1>2, <1>3, <2>1 DEF PhaseInv, JournalOK, Valid, AllowsIngressGuard, Guarding,
       Purging, Undoing, IInv, TypeInv
  <2>3. Fits(j)
    BY <1>1, <1>2, <1>3, <2>1, <2>2 DEF IInv, Fits, PhaseInv, ProgressInv, Undoing, Guarding,
       Purging, AllowsIngressGuard, Protected, Verified, AllOn, Untouched, Clean, Early,
       UndoneBy, AtPreimage
  <2>4. op.armed => Remembers(j) /\ j.phase # "uninstalled"
    BY <1>1, <1>2, <1>3, <2>1, <2>2 DEF Remembers, PhaseInv, ActivateSteps, IInv, Fits, Clean
  <2>5. ASSUME journal' = j, op' = [To("dispatch") EXCEPT !.j = j] PROVE OpInv' /\ op' \in Ops
    <3>1. /\ op' \in Ops /\ op'.pc = "dispatch"
          /\ op'.mode = op.mode /\ op'.j = j /\ op'.armed = op.armed
      BY <1>1, <1>2, <1>3, <2>1, <2>2, <2>5 DEF To, Ops, HelperSteps, ActivateSteps,
         RemovalSteps, RollbackSteps, Modes, OptionSets
    <3>2. PhaseInv'
      BY <1>1, <1>2, <1>3, <2>1, <2>2, <2>5, <3>1 DEF PhaseInv, ActivateSteps, Guarding,
         Purging, Undoing, AllowsIngressGuard, JournalOK, NoJournal
    <3>3. ProgressInv'
      BY <1>1, <1>2, <1>3, <2>1, <2>2, <2>5, <3>1 DEF ProgressInv, Undoing
    <3> QED
      BY <3>1, <3>2, <3>3 DEF OpInv
  <2> QED
    BY <1>1, <1>3, <2>2, <2>3, <2>4, <2>5, SaveStep DEF j
<1>4. CASE Fail /\ journal' = journal
  BY <1>1, <1>4, FailOp, LookStep DEF Fail
<1> QED
  BY <1>3, <1>4 DEF RulesEnabled, Keep

\* Both hooks are captured at the tail before the first is moved.
LEMMA SnapshotsStep == IInv /\ Snapshots => IInv'
<1> SUFFICES ASSUME IInv, Snapshots PROVE IInv'
  OBVIOUS
<1>1. op.pc = "snapshots"
      /\ UNCHANGED <<pveVars, hostVars, supVars, origin, touched>>
  BY DEF Snapshots, At, Keep, worldVars, pveVars, hostVars, supVars, boundVars
<1>2. PhaseInv /\ ProgressInv /\ op \in Ops /\ op.j = journal /\ JournalOK(journal)
  BY <1>1, Working
<1>3. CASE op.j.hooks = "none" /\ Save([op.j EXCEPT !.hooks = "tail"], ToGuard(op))
  <2> DEFINE j == [op.j EXCEPT !.hooks = "tail"]
  <2>1. /\ j \in Journals /\ j.phase = op.j.phase /\ j.ufw = op.j.ufw
        /\ j.hooks = "tail" /\ j.planned = op.j.planned /\ j.pre = op.j.pre
    BY <1>1, <1>2, <1>3 DEF JournalOK, Journals, Phases, IInv, TypeInv
  <2> HIDE DEF j
  <2>2. JournalOK(j)
    BY <1>1, <1>2, <1>3, <2>1 DEF PhaseInv, JournalOK, Valid, AllowsIngressGuard, Guarding,
       Purging, Undoing, IInv, TypeInv
  <2>3. Fits(j)
    BY <1>1, <1>2, <1>3, <2>1, <2>2 DEF IInv, Fits, PhaseInv, ProgressInv, Undoing, Guarding,
       Purging, AllowsIngressGuard, Protected, Verified, AllOn, Untouched, Clean, Early,
       UndoneBy, AtPreimage
  <2>4. op.armed => Remembers(j) /\ j.phase # "uninstalled"
    BY <1>1, <1>2, <1>3, <2>1, <2>2 DEF Remembers, PhaseInv, ActivateSteps, IInv, Fits, Clean
  <2>5. ASSUME journal' = j, op' = [ToGuard(op) EXCEPT !.j = j] PROVE OpInv' /\ op' \in Ops
    <3>1. /\ op' \in Ops /\ op'.pc = "guard"
          /\ op'.mode = op.mode /\ op'.j = j /\ op'.armed = op.armed
      BY <1>1, <1>2, <1>3, <2>1, <2>2, <2>5 DEF To, Ops, HelperSteps, ActivateSteps,
         RemovalSteps, RollbackSteps, Modes, OptionSets, ToGuard
    <3>2. PhaseInv'
      BY <1>1, <1>2, <1>3, <2>1, <2>2, <2>5, <3>1 DEF PhaseInv, ActivateSteps, Guarding,
         Purging, Undoing, AllowsIngressGuard, JournalOK, NoJournal
    <3>3. ProgressInv'
      BY <1>1, <1>2, <1>3, <2>1, <2>2, <2>5, <3>1 DEF ProgressInv, Undoing
    <3> QED
      BY <3>1, <3>2, <3>3 DEF OpInv
  <2> QED
    BY <1>1, <1>3, <2>2, <2>3, <2>4, <2>5, SaveStep DEF j
<1>4. CASE op' = ToGuard(op) /\ op.j.hooks # "none" /\ journal' = journal
  <2>1. /\ op' \in Ops /\ op'.pc = "guard"
        /\ op'.mode = op.mode /\ op'.j = op.j /\ op'.armed = op.armed
    BY <1>1, <1>2, <1>4 DEF To, Ops, HelperSteps, ActivateSteps, RemovalSteps, RollbackSteps,
       Modes, OptionSets, ToGuard
  <2>2. PhaseInv'
    BY <1>1, <1>2, <1>4, <2>1 DEF PhaseInv, ActivateSteps, Guarding, Purging, Undoing,
       AllowsIngressGuard, JournalOK, NoJournal
  <2>3. ProgressInv'
    BY <1>1, <1>2, <1>4, <2>1 DEF ProgressInv, Undoing
  <2> QED
    BY <1>1, <1>4, <2>1, <2>2, <2>3, LookStep DEF OpInv
<1>5. CASE Fail /\ journal' = journal
  BY <1>1, <1>5, FailOp, LookStep DEF Fail
<1> QED
  BY <1>3, <1>4, <1>5 DEF Snapshots, Keep

-----------------------------------------------------------------------------
(***************************************************************************)
(* The guard, its persistence and the commit.                              *)
(***************************************************************************)

\* One family's INPUT hook is put first.
LEMMA GuardInputStep ==
    ASSUME IInv, NEW f \in Families, GuardInput(f)
    PROVE  IInv'
<1>1. op.pc = "guard"
      /\ UNCHANGED <<journal, pveVars, compiled, ufw, supVars, origin, touched>>
  BY DEF GuardInput, At, Keep, worldVars, pveVars, hostVars, supVars, boundVars
<1>2. PhaseInv /\ ProgressInv /\ op \in Ops /\ op.j = journal /\ JournalOK(journal)
  BY <1>1, Working
<1>3. chain \in [Families -> Hooks] /\ ufw \in UfwStates /\ compiled \subseteq Interfaces
  BY DEF IInv, TypeInv
<1>4. CASE Fail /\ chain' = chain
  <2>1. OpInv' /\ op' \in Ops
    BY <1>1, <1>4, FailOp DEF Fail
  <2> QED
    BY <1>1, <1>4, <2>1, LookStep DEF hostVars
<1>5. CASE op' = [op EXCEPT !.left = @ \ {f}] /\ chain' = [chain EXCEPT ![f].input = "first"]
  <2>1. /\ op' \in Ops /\ op'.pc = "guard"
        /\ op'.mode = op.mode /\ op'.j = op.j /\ op'.armed = op.armed
    BY <1>1, <1>2, <1>5 DEF To, Ops, HelperSteps, ActivateSteps, RemovalSteps, RollbackSteps,
       Modes, OptionSets
  <2>2. PhaseInv'
    BY <1>1, <1>2, <1>5, <2>1 DEF PhaseInv, ActivateSteps, Guarding, Purging, Undoing,
       AllowsIngressGuard, JournalOK, NoJournal
  <2>3. ProgressInv'
    BY <1>1, <1>2, <1>5, <2>1 DEF ProgressInv, Undoing
  <2>4. chain' \in [Families -> Hooks]
    BY <1>3, <1>5 DEF Hooks
  <2>5. ~Early(journal) /\ journal.hooks # "none"
    BY <1>1, <1>2 DEF PhaseInv, ActivateSteps, Guarding, Purging, Undoing, JournalOK,
       AllowsIngressGuard, Early, UndoneBy
  <2> QED
    BY <1>1, <1>3, <2>1, <2>2, <2>3, <2>4, <2>5, ChainStep DEF OpInv
<1> QED
  BY <1>4, <1>5 DEF GuardInput, Keep

\* The FORWARD hooks follow once UFW is being removed.
LEMMA InputGuardedStep == IInv /\ InputGuarded => IInv'
<1> SUFFICES ASSUME IInv, InputGuarded PROVE IInv'
  OBVIOUS
<1>1. op.pc = "guard"
      /\ UNCHANGED <<journal, pveVars, hostVars, supVars, origin, touched>>
  BY DEF InputGuarded, At, Keep, worldVars, pveVars, hostVars, supVars, boundVars
<1>2. PhaseInv /\ ProgressInv /\ op \in Ops /\ op.j = journal /\ JournalOK(journal)
  BY <1>1, Working
<1>3. CASE op' = [To("forward") EXCEPT !.left = Families]
  <2>1. /\ op' \in Ops /\ op'.pc = "forward"
        /\ op'.mode = op.mode /\ op'.j = op.j /\ op'.armed = op.armed
    BY <1>1, <1>2, <1>3 DEF To, Ops, HelperSteps, ActivateSteps, RemovalSteps, RollbackSteps,
       Modes, OptionSets
  <2>2. PhaseInv'
    BY <1>1, <1>2, <1>3, <2>1 DEF PhaseInv, ActivateSteps, Guarding, Purging, Undoing,
       AllowsIngressGuard, JournalOK, NoJournal
  <2>3. ProgressInv'
    BY <1>1, <1>2, <1>3, <2>1 DEF ProgressInv, Undoing
  <2> QED
    BY <1>1, <2>1, <2>2, <2>3, LookStep DEF OpInv
<1>4. CASE op' = To("persist")
  <2>1. /\ op' \in Ops /\ op'.pc = "persist"
        /\ op'.mode = op.mode /\ op'.j = op.j /\ op'.armed = op.armed
    BY <1>1, <1>2, <1>4 DEF To, Ops, HelperSteps, ActivateSteps, RemovalSteps, RollbackSteps,
       Modes, OptionSets
  <2>2. PhaseInv'
    BY <1>1, <1>2, <1>4, <2>1 DEF PhaseInv, ActivateSteps, Guarding, Purging, Undoing,
       AllowsIngressGuard, JournalOK, NoJournal
  <2>3. ProgressInv'
    BY <1>1, <1>2, <1>4, <2>1 DEF ProgressInv, Undoing
  <2> QED
    BY <1>1, <2>1, <2>2, <2>3, LookStep DEF OpInv
<1> QED
  BY <1>3, <1>4 DEF InputGuarded

\* One family's FORWARD hook is put first.
LEMMA GuardForwardStep ==
    ASSUME IInv, NEW f \in Families, GuardForward(f)
    PROVE  IInv'
<1>1. op.pc = "forward"
      /\ UNCHANGED <<journal, pveVars, compiled, ufw, supVars, origin, touched>>
  BY DEF GuardForward, At, Keep, worldVars, pveVars, hostVars, supVars, boundVars
<1>2. PhaseInv /\ ProgressInv /\ op \in Ops /\ op.j = journal /\ JournalOK(journal)
  BY <1>1, Working
<1>3. chain \in [Families -> Hooks] /\ ufw \in UfwStates /\ compiled \subseteq Interfaces
  BY DEF IInv, TypeInv
<1>4. CASE Fail /\ chain' = chain
  <2>1. OpInv' /\ op' \in Ops
    BY <1>1, <1>4, FailOp DEF Fail
  <2> QED
    BY <1>1, <1>4, <2>1, LookStep DEF hostVars
<1>5. CASE op' = [To("persist") EXCEPT !.left = {}] /\ chain' = [chain EXCEPT ![f].forward = "first"]
  <2>1. /\ op' \in Ops /\ op'.pc = "persist"
        /\ op'.mode = op.mode /\ op'.j = op.j /\ op'.armed = op.armed
    BY <1>1, <1>2, <1>5 DEF To, Ops, HelperSteps, ActivateSteps, RemovalSteps, RollbackSteps,
       Modes, OptionSets
  <2>2. PhaseInv'
    BY <1>1, <1>2, <1>5, <2>1 DEF PhaseInv, ActivateSteps, Guarding, Purging, Undoing,
       AllowsIngressGuard, JournalOK, NoJournal
  <2>3. ProgressInv'
    BY <1>1, <1>2, <1>5, <2>1 DEF ProgressInv, Undoing
  <2>4. chain' \in [Families -> Hooks]
    BY <1>3, <1>5 DEF Hooks
  <2>5. ~Early(journal) /\ journal.hooks # "none"
    BY <1>1, <1>2 DEF PhaseInv, ActivateSteps, Guarding, Purging, Undoing, JournalOK,
       AllowsIngressGuard, Early, UndoneBy
  <2> QED
    BY <1>1, <1>3, <2>1, <2>2, <2>3, <2>4, <2>5, ChainStep DEF OpInv
<1>6. CASE op' = [op EXCEPT !.left = @ \ {f}] /\ chain' = [chain EXCEPT ![f].forward = "first"]
  <2>1. /\ op' \in Ops /\ op'.pc = "forward"
        /\ op'.mode = op.mode /\ op'.j = op.j /\ op'.armed = op.armed
    BY <1>1, <1>2, <1>6 DEF To, Ops, HelperSteps, ActivateSteps, RemovalSteps, RollbackSteps,
       Modes, OptionSets
  <2>2. PhaseInv'
    BY <1>1, <1>2, <1>6, <2>1 DEF PhaseInv, ActivateSteps, Guarding, Purging, Undoing,
       AllowsIngressGuard, JournalOK, NoJournal
  <2>3. ProgressInv'
    BY <1>1, <1>2, <1>6, <2>1 DEF ProgressInv, Undoing
  <2>4. chain' \in [Families -> Hooks]
    BY <1>3, <1>6 DEF Hooks
  <2>5. ~Early(journal) /\ journal.hooks # "none"
    BY <1>1, <1>2 DEF PhaseInv, ActivateSteps, Guarding, Purging, Undoing, JournalOK,
       AllowsIngressGuard, Early, UndoneBy
  <2> QED
    BY <1>1, <1>3, <2>1, <2>2, <2>3, <2>4, <2>5, ChainStep DEF OpInv
<1> QED
  BY <1>4, <1>5, <1>6 DEF GuardForward, Keep

\* The supervisor is enabled and started.
LEMMA EnablePersistenceStep == IInv /\ EnablePersistence => IInv'
<1> SUFFICES ASSUME IInv, EnablePersistence PROVE IInv'
  OBVIOUS
<1>1. op.pc = "persist"
      /\ UNCHANGED <<guardian, journal, pveVars, hostVars, origin, touched>>
  BY DEF EnablePersistence, At, Keep, worldVars, pveVars, hostVars, supVars, boundVars
<1>2. PhaseInv /\ ProgressInv /\ op \in Ops /\ op.j = journal /\ JournalOK(journal)
  BY <1>1, Working
<1>3. CASE Fail /\ UNCHANGED <<unit, sup>>
  <2>1. OpInv' /\ op' \in Ops
    BY <1>1, <1>3, FailOp DEF Fail
  <2> QED
    BY <1>1, <1>3, <2>1, LookStep DEF supVars
<1>4. CASE op' = To("effective") /\ unit' = TRUE /\ sup' = "run"
  <2>1. /\ op' \in Ops /\ op'.pc = "effective"
        /\ op'.mode = op.mode /\ op'.j = op.j /\ op'.armed = op.armed
    BY <1>1, <1>2, <1>4 DEF To, Ops, HelperSteps, ActivateSteps, RemovalSteps, RollbackSteps,
       Modes, OptionSets
  <2>2. PhaseInv'
    BY <1>1, <1>2, <1>4, <2>1 DEF PhaseInv, ActivateSteps, Guarding, Purging, Undoing,
       AllowsIngressGuard, JournalOK, NoJournal
  <2>3. ProgressInv'
    BY <1>1, <1>2, <1>4, <2>1 DEF ProgressInv, Undoing
  <2>4. ~Early(journal)
    BY <1>1, <1>2 DEF PhaseInv, Guarding, AllowsIngressGuard, Early, UndoneBy
  <2>5. Fits(journal)'
    BY <1>1, <1>4, <2>4 DEF IInv, Fits, JournalOK, Valid, AllowsIngressGuard, Protected,
       Untouched, Clean, Early, UndoneBy, AtPreimage, NoneFirst, RulesAre, pveVars, hostVars
  <2> QED
    BY <1>1, <1>4, <2>1, <2>2, <2>3, <2>5 DEF IInv, OpInv, TypeInv, pveVars, hostVars
<1> QED
  BY <1>3, <1>4 DEF EnablePersistence, Keep

\* Protection is seen effective, and each mode goes on.
LEMMA VerifyEffectiveStep == IInv /\ VerifyEffective => IInv'
<1> SUFFICES ASSUME IInv, VerifyEffective PROVE IInv'
  OBVIOUS
<1>1. op.pc = "effective"
      /\ UNCHANGED <<journal, pveVars, hostVars, supVars, origin, touched>>
  BY DEF VerifyEffective, At, Keep, worldVars, pveVars, hostVars, supVars, boundVars
<1>2. PhaseInv /\ ProgressInv /\ op \in Ops /\ op.j = journal /\ JournalOK(journal)
  BY <1>1, Working
<1>3. CASE Fail
  BY <1>1, <1>3, FailOp, LookStep DEF Fail
<1>4. CASE op' = To("commit") /\ op.mode = "activate"
  <2>1. /\ op' \in Ops /\ op'.pc = "commit"
        /\ op'.mode = op.mode /\ op'.j = op.j /\ op'.armed = op.armed
    BY <1>1, <1>2, <1>4 DEF To, Ops, HelperSteps, ActivateSteps, RemovalSteps, RollbackSteps,
       Modes, OptionSets
  <2>2. PhaseInv'
    BY <1>1, <1>2, <1>4, <2>1 DEF PhaseInv, ActivateSteps, Guarding, Purging, Undoing,
       AllowsIngressGuard, JournalOK, NoJournal
  <2>3. ProgressInv'
    BY <1>1, <1>2, <1>4, <2>1 DEF ProgressInv, Undoing
  <2> QED
    BY <1>1, <2>1, <2>2, <2>3, LookStep DEF OpInv
<1>5. CASE op' = To("removing") /\ op.mode \in {"committed", "reconcile"}
  <2>1. /\ op' \in Ops /\ op'.pc = "removing"
        /\ op'.mode = op.mode /\ op'.j = op.j /\ op'.armed = op.armed
    BY <1>1, <1>2, <1>5 DEF To, Ops, HelperSteps, ActivateSteps, RemovalSteps, RollbackSteps,
       Modes, OptionSets
  <2>2. PhaseInv'
    BY <1>1, <1>2, <1>5, <2>1 DEF PhaseInv, ActivateSteps, Guarding, Purging, Undoing,
       AllowsIngressGuard, JournalOK, NoJournal
  <2>3. ProgressInv'
    BY <1>1, <1>2, <1>5, <2>1 DEF ProgressInv, Undoing
  <2> QED
    BY <1>1, <2>1, <2>2, <2>3, LookStep DEF OpInv
<1>6. CASE op' = To("removed") /\ op.mode = "final"
  <2>1. /\ op' \in Ops /\ op'.pc = "removed"
        /\ op'.mode = op.mode /\ op'.j = op.j /\ op'.armed = op.armed
    BY <1>1, <1>2, <1>6 DEF To, Ops, HelperSteps, ActivateSteps, RemovalSteps, RollbackSteps,
       Modes, OptionSets
  <2>2. PhaseInv'
    BY <1>1, <1>2, <1>6, <2>1 DEF PhaseInv, ActivateSteps, Guarding, Purging, Undoing,
       AllowsIngressGuard, JournalOK, NoJournal
  <2>3. ProgressInv'
    BY <1>1, <1>2, <1>6, <2>1 DEF ProgressInv, Undoing
  <2> QED
    BY <1>1, <2>1, <2>2, <2>3, LookStep DEF OpInv
<1>7. CASE op' = To("unpersist") /\ op.mode = "keep"
  <2>1. /\ op' \in Ops /\ op'.pc = "unpersist"
        /\ op'.mode = op.mode /\ op'.j = op.j /\ op'.armed = op.armed
    BY <1>1, <1>2, <1>7 DEF To, Ops, HelperSteps, ActivateSteps, RemovalSteps, RollbackSteps,
       Modes, OptionSets
  <2>2. PhaseInv'
    BY <1>1, <1>2, <1>7, <2>1 DEF PhaseInv, ActivateSteps, Guarding, Purging, Undoing,
       AllowsIngressGuard, JournalOK, NoJournal
  <2>3. ProgressInv'
    BY <1>1, <1>2, <1>7, <2>1 DEF ProgressInv, Undoing
  <2> QED
    BY <1>1, <2>1, <2>2, <2>3, LookStep DEF OpInv
<1> QED
  BY <1>3, <1>4, <1>5, <1>6, <1>7 DEF VerifyEffective, Fail

\* The commit; rollback is disarmed with it.
LEMMA CommitStep == IInv /\ Commit => IInv'
<1> SUFFICES ASSUME IInv, Commit PROVE IInv'
  OBVIOUS
<1>1. op.pc = "commit"
      /\ Save([op.j EXCEPT !.phase = "committed"], [To("removing") EXCEPT !.mode = "committed", !.armed = FALSE])
      /\ UNCHANGED <<pveVars, hostVars, supVars, origin, touched>>
  BY DEF Commit, At, Keep, worldVars, pveVars, hostVars, supVars, boundVars
<1>2. PhaseInv /\ ProgressInv /\ op \in Ops /\ op.j = journal /\ JournalOK(journal)
  BY <1>1, Working
<1> DEFINE j == [op.j EXCEPT !.phase = "committed"]
<1>3. /\ j \in Journals /\ j.phase = "committed" /\ j.ufw = op.j.ufw
      /\ j.hooks = op.j.hooks /\ j.planned = op.j.planned /\ j.pre = op.j.pre
  BY <1>1, <1>2 DEF JournalOK, Journals, Phases, IInv, TypeInv
<1> HIDE DEF j
<1>4. JournalOK(j)
  BY <1>1, <1>2, <1>3 DEF PhaseInv, JournalOK, Valid, AllowsIngressGuard, Guarding, Purging,
     Undoing, IInv, TypeInv
<1>5. Fits(j)
  BY <1>1, <1>2, <1>3, <1>4 DEF IInv, Fits, PhaseInv, ProgressInv, Undoing, Guarding, Purging,
     AllowsIngressGuard, Protected, Verified, AllOn, Untouched, Clean, Early, UndoneBy,
     AtPreimage
<1>6. op.armed => Remembers(j) /\ j.phase # "uninstalled"
  BY <1>1, <1>2, <1>3, <1>4 DEF Remembers, PhaseInv, ActivateSteps, IInv, Fits, Clean
<1>7. ASSUME journal' = j, op' = [[To("removing") EXCEPT !.mode = "committed", !.armed = FALSE] EXCEPT !.j = j] PROVE OpInv' /\ op' \in Ops
  <2>1. /\ op' \in Ops /\ op'.pc = "removing"
        /\ op'.mode = "committed" /\ op'.j = j /\ op'.armed = FALSE
    BY <1>1, <1>2, <1>3, <1>4, <1>7 DEF To, Ops, HelperSteps, ActivateSteps, RemovalSteps,
       RollbackSteps, Modes, OptionSets
  <2>2. PhaseInv'
    BY <1>1, <1>2, <1>3, <1>4, <1>7, <2>1 DEF PhaseInv, ActivateSteps, Guarding, Purging,
       Undoing, AllowsIngressGuard, JournalOK, NoJournal
  <2>3. ProgressInv'
    BY <1>1, <1>2, <1>3, <1>4, <1>7, <2>1 DEF ProgressInv, Undoing
  <2> QED
    BY <2>1, <2>2, <2>3 DEF OpInv
<1> QED
  BY <1>1, <1>4, <1>5, <1>6, <1>7, SaveStep DEF j

-----------------------------------------------------------------------------
(***************************************************************************)
(* UFW is removed.                                                         *)
(***************************************************************************)

\* The removal is in the journal before it begins.
LEMMA SaveRemovingStep == IInv /\ SaveRemoving => IInv'
<1> SUFFICES ASSUME IInv, SaveRemoving PROVE IInv'
  OBVIOUS
<1>1. op.pc = "removing"
      /\ Save([op.j EXCEPT !.ufw = "removing"], [To("ufwcheck") EXCEPT !.mode = "final"])
      /\ UNCHANGED <<pveVars, hostVars, supVars, origin, touched>>
  BY DEF SaveRemoving, At, Keep, worldVars, pveVars, hostVars, supVars, boundVars
<1>2. PhaseInv /\ ProgressInv /\ op \in Ops /\ op.j = journal /\ JournalOK(journal)
  BY <1>1, Working
<1> DEFINE j == [op.j EXCEPT !.ufw = "removing"]
<1>3. /\ j \in Journals /\ j.phase = op.j.phase /\ j.ufw = "removing"
      /\ j.hooks = op.j.hooks /\ j.planned = op.j.planned /\ j.pre = op.j.pre
  BY <1>1, <1>2 DEF JournalOK, Journals, Phases, IInv, TypeInv
<1> HIDE DEF j
<1>4. JournalOK(j)
  BY <1>1, <1>2, <1>3 DEF PhaseInv, JournalOK, Valid, AllowsIngressGuard, Guarding, Purging,
     Undoing, IInv, TypeInv
<1>5. Fits(j)
  BY <1>1, <1>2, <1>3, <1>4 DEF IInv, Fits, PhaseInv, ProgressInv, Undoing, Guarding, Purging,
     AllowsIngressGuard, Protected, Verified, AllOn, Untouched, Clean, Early, UndoneBy,
     AtPreimage
<1>6. op.armed => Remembers(j) /\ j.phase # "uninstalled"
  BY <1>1, <1>2, <1>3, <1>4 DEF Remembers, PhaseInv, ActivateSteps, IInv, Fits, Clean
<1>7. ASSUME journal' = j, op' = [[To("ufwcheck") EXCEPT !.mode = "final"] EXCEPT !.j = j] PROVE OpInv' /\ op' \in Ops
  <2>1. /\ op' \in Ops /\ op'.pc = "ufwcheck"
        /\ op'.mode = "final" /\ op'.j = j /\ op'.armed = op.armed
    BY <1>1, <1>2, <1>3, <1>4, <1>7 DEF To, Ops, HelperSteps, ActivateSteps, RemovalSteps,
       RollbackSteps, Modes, OptionSets
  <2>2. PhaseInv'
    BY <1>1, <1>2, <1>3, <1>4, <1>7, <2>1 DEF PhaseInv, ActivateSteps, Guarding, Purging,
       Undoing, AllowsIngressGuard, JournalOK, NoJournal
  <2>3. ProgressInv'
    BY <1>1, <1>2, <1>3, <1>4, <1>7, <2>1 DEF ProgressInv, Undoing
  <2> QED
    BY <2>1, <2>2, <2>3 DEF OpInv
<1> QED
  BY <1>1, <1>4, <1>5, <1>6, <1>7, SaveStep DEF j

\* The replacement is proven in both families.
LEMMA CheckReplacementStep == IInv /\ CheckReplacement => IInv'
<1> SUFFICES ASSUME IInv, CheckReplacement PROVE IInv'
  OBVIOUS
<1>1. op.pc = "ufwcheck"
      /\ UNCHANGED <<journal, pveVars, chain, compiled, supVars, origin, touched>>
  BY DEF CheckReplacement, At, Keep, worldVars, pveVars, hostVars, supVars, boundVars
<1>2. PhaseInv /\ ProgressInv /\ op \in Ops /\ op.j = journal /\ JournalOK(journal)
  BY <1>1, Working
<1>3. CASE Fail /\ ufw' = ufw
  <2>1. OpInv' /\ op' \in Ops
    BY <1>1, <1>3, FailOp DEF Fail
  <2> QED
    BY <1>1, <1>3, <2>1, LookStep DEF hostVars
<1>4. CASE /\ op' = [To("ufwclean") EXCEPT !.left = Families]
           /\ ufw' = IF ufw = "purged" THEN "gone" ELSE ufw
  <2>1. /\ op' \in Ops /\ op'.pc = "ufwclean"
        /\ op'.mode = op.mode /\ op'.j = op.j /\ op'.armed = op.armed
    BY <1>1, <1>2, <1>4 DEF To, Ops, HelperSteps, ActivateSteps, RemovalSteps, RollbackSteps,
       Modes, OptionSets
  <2>2. PhaseInv'
    BY <1>1, <1>2, <1>4, <2>1 DEF PhaseInv, ActivateSteps, Guarding, Purging, Undoing,
       AllowsIngressGuard, JournalOK, NoJournal
  <2>3. ProgressInv'
    BY <1>1, <1>2, <1>4, <2>1 DEF ProgressInv, Undoing
  <2>4. origin # "retained" /\ ~NoneFirst' => journal.hooks # "none" /\ ~Early(journal)
    BY <1>1, <1>2 DEF PhaseInv, ActivateSteps, Guarding, Purging, Undoing, JournalOK,
       AllowsIngressGuard, Early, UndoneBy
  <2>5. chain' \in [Families -> Hooks] /\ ufw' \in UfwStates /\ compiled' \subseteq Interfaces
    BY <1>1, <1>4 DEF IInv, TypeInv, UfwStates, Retired
  <2> QED
    BY <1>1, <2>1, <2>2, <2>3, <2>4, <2>5, ChainStep DEF OpInv
<1> QED
  BY <1>3, <1>4 DEF CheckReplacement, Keep

\* A UFW the preflight does not know is refused.
LEMMA UFWRefusedStep == IInv /\ UFWRefused => IInv'
<1> SUFFICES ASSUME IInv, UFWRefused PROVE IInv'
  OBVIOUS
<1>1. op.pc = "ufwcheck"
      /\ UNCHANGED <<journal, pveVars, hostVars, supVars, origin, touched>>
  BY DEF UFWRefused, At, Keep, worldVars, pveVars, hostVars, supVars, boundVars
<1>2. PhaseInv /\ ProgressInv /\ op \in Ops /\ op.j = journal /\ JournalOK(journal)
  BY <1>1, Working
<1> QED
  BY <1>1, FailOp, LookStep DEF UFWRefused, Fail

\* UFW's chains go, family by family.
LEMMA CleanStep ==
    ASSUME IInv, NEW f \in Families, CleanupUFW("ufwclean", "ufwretire", f)
    PROVE  IInv'
<1>1. op.pc = "ufwclean"
      /\ UNCHANGED <<journal, pveVars, compiled, ufw, supVars, origin, touched>>
  BY DEF CleanupUFW, At, Keep, worldVars, pveVars, hostVars, supVars, boundVars
<1>2. PhaseInv /\ ProgressInv /\ op \in Ops /\ op.j = journal /\ JournalOK(journal)
  BY <1>1, Working
<1>3. chain \in [Families -> Hooks] /\ ufw \in UfwStates /\ compiled \subseteq Interfaces
  BY DEF IInv, TypeInv
<1>4. CASE Fail /\ chain' = chain
  <2>1. OpInv' /\ op' \in Ops
    BY <1>1, <1>4, FailOp DEF Fail
  <2> QED
    BY <1>1, <1>4, <2>1, LookStep DEF hostVars
<1>5. CASE op' = [To("ufwretire") EXCEPT !.left = {}] /\ chain' = [chain EXCEPT ![f].ufw = FALSE, ![f].forward = "first"]
  <2>1. /\ op' \in Ops /\ op'.pc = "ufwretire"
        /\ op'.mode = op.mode /\ op'.j = op.j /\ op'.armed = op.armed
    BY <1>1, <1>2, <1>5 DEF To, Ops, HelperSteps, ActivateSteps, RemovalSteps, RollbackSteps,
       Modes, OptionSets
  <2>2. PhaseInv'
    BY <1>1, <1>2, <1>5, <2>1 DEF PhaseInv, ActivateSteps, Guarding, Purging, Undoing,
       AllowsIngressGuard, JournalOK, NoJournal
  <2>3. ProgressInv'
    BY <1>1, <1>2, <1>5, <2>1 DEF ProgressInv, Undoing
  <2>4. chain' \in [Families -> Hooks]
    BY <1>3, <1>5 DEF Hooks
  <2>5. ~Early(journal) /\ journal.hooks # "none"
    BY <1>1, <1>2 DEF PhaseInv, ActivateSteps, Guarding, Purging, Undoing, JournalOK,
       AllowsIngressGuard, Early, UndoneBy
  <2> QED
    BY <1>1, <1>3, <2>1, <2>2, <2>3, <2>4, <2>5, ChainStep DEF OpInv
<1>6. CASE op' = [op EXCEPT !.left = @ \ {f}] /\ chain' = [chain EXCEPT ![f].ufw = FALSE, ![f].forward = "first"]
  <2>1. /\ op' \in Ops /\ op'.pc = "ufwclean"
        /\ op'.mode = op.mode /\ op'.j = op.j /\ op'.armed = op.armed
    BY <1>1, <1>2, <1>6 DEF To, Ops, HelperSteps, ActivateSteps, RemovalSteps, RollbackSteps,
       Modes, OptionSets
  <2>2. PhaseInv'
    BY <1>1, <1>2, <1>6, <2>1 DEF PhaseInv, ActivateSteps, Guarding, Purging, Undoing,
       AllowsIngressGuard, JournalOK, NoJournal
  <2>3. ProgressInv'
    BY <1>1, <1>2, <1>6, <2>1 DEF ProgressInv, Undoing
  <2>4. chain' \in [Families -> Hooks]
    BY <1>3, <1>6 DEF Hooks
  <2>5. ~Early(journal) /\ journal.hooks # "none"
    BY <1>1, <1>2 DEF PhaseInv, ActivateSteps, Guarding, Purging, Undoing, JournalOK,
       AllowsIngressGuard, Early, UndoneBy
  <2> QED
    BY <1>1, <1>3, <2>1, <2>2, <2>3, <2>4, <2>5, ChainStep DEF OpInv
<1> QED
  BY <1>4, <1>5, <1>6 DEF CleanupUFW, Keep

\* The boot configuration, the unit and the package go.
LEMMA RetireUFWStep == IInv /\ RetireUFW => IInv'
<1> SUFFICES ASSUME IInv, RetireUFW PROVE IInv'
  OBVIOUS
<1>1. op.pc = "ufwretire"
      /\ UNCHANGED <<journal, pveVars, chain, compiled, supVars, origin, touched>>
      /\ ufw' = Retired(ufw)
  BY DEF RetireUFW, At, Keep, worldVars, pveVars, hostVars, supVars, boundVars
<1>2. PhaseInv /\ ProgressInv /\ op \in Ops /\ op.j = journal /\ JournalOK(journal)
  BY <1>1, Working
<1>3. CASE op' = [To("ufwreclean") EXCEPT !.left = Families]
  <2>1. /\ op' \in Ops /\ op'.pc = "ufwreclean"
        /\ op'.mode = op.mode /\ op'.j = op.j /\ op'.armed = op.armed
    BY <1>1, <1>2, <1>3 DEF To, Ops, HelperSteps, ActivateSteps, RemovalSteps, RollbackSteps,
       Modes, OptionSets
  <2>2. PhaseInv'
    BY <1>1, <1>2, <1>3, <2>1 DEF PhaseInv, ActivateSteps, Guarding, Purging, Undoing,
       AllowsIngressGuard, JournalOK, NoJournal
  <2>3. ProgressInv'
    BY <1>1, <1>2, <1>3, <2>1 DEF ProgressInv, Undoing
  <2>4. origin # "retained" /\ ~NoneFirst' => journal.hooks # "none" /\ ~Early(journal)
    BY <1>1, <1>2 DEF PhaseInv, ActivateSteps, Guarding, Purging, Undoing, JournalOK,
       AllowsIngressGuard, Early, UndoneBy
  <2>5. chain' \in [Families -> Hooks] /\ ufw' \in UfwStates /\ compiled' \subseteq Interfaces
    BY <1>1, <1>3 DEF IInv, TypeInv, UfwStates, Retired
  <2> QED
    BY <1>1, <2>1, <2>2, <2>3, <2>4, <2>5, ChainStep DEF OpInv
<1>4. CASE op' = op
  <2>1. /\ op' \in Ops /\ op'.pc = "ufwretire"
        /\ op'.mode = op.mode /\ op'.j = op.j /\ op'.armed = op.armed
    BY <1>1, <1>2, <1>4 DEF To, Ops, HelperSteps, ActivateSteps, RemovalSteps, RollbackSteps,
       Modes, OptionSets
  <2>2. PhaseInv'
    BY <1>1, <1>2, <1>4, <2>1 DEF PhaseInv, ActivateSteps, Guarding, Purging, Undoing,
       AllowsIngressGuard, JournalOK, NoJournal
  <2>3. ProgressInv'
    BY <1>1, <1>2, <1>4, <2>1 DEF ProgressInv, Undoing
  <2>4. origin # "retained" /\ ~NoneFirst' => journal.hooks # "none" /\ ~Early(journal)
    BY <1>1, <1>2 DEF PhaseInv, ActivateSteps, Guarding, Purging, Undoing, JournalOK,
       AllowsIngressGuard, Early, UndoneBy
  <2>5. chain' \in [Families -> Hooks] /\ ufw' \in UfwStates /\ compiled' \subseteq Interfaces
    BY <1>1, <1>4 DEF IInv, TypeInv, UfwStates, Retired
  <2> QED
    BY <1>1, <2>1, <2>2, <2>3, <2>4, <2>5, ChainStep DEF OpInv
<1> QED
  BY <1>3, <1>4 DEF RetireUFW

\* What came back of UFW's chains goes.
LEMMA RecleanStep ==
    ASSUME IInv, NEW f \in Families, CleanupUFW("ufwreclean", "absent", f)
    PROVE  IInv'
<1>1. op.pc = "ufwreclean"
      /\ UNCHANGED <<journal, pveVars, compiled, ufw, supVars, origin, touched>>
  BY DEF CleanupUFW, At, Keep, worldVars, pveVars, hostVars, supVars, boundVars
<1>2. PhaseInv /\ ProgressInv /\ op \in Ops /\ op.j = journal /\ JournalOK(journal)
  BY <1>1, Working
<1>3. chain \in [Families -> Hooks] /\ ufw \in UfwStates /\ compiled \subseteq Interfaces
  BY DEF IInv, TypeInv
<1>4. CASE Fail /\ chain' = chain
  <2>1. OpInv' /\ op' \in Ops
    BY <1>1, <1>4, FailOp DEF Fail
  <2> QED
    BY <1>1, <1>4, <2>1, LookStep DEF hostVars
<1>5. CASE op' = [To("absent") EXCEPT !.left = {}] /\ chain' = [chain EXCEPT ![f].ufw = FALSE, ![f].forward = "first"]
  <2>1. /\ op' \in Ops /\ op'.pc = "absent"
        /\ op'.mode = op.mode /\ op'.j = op.j /\ op'.armed = op.armed
    BY <1>1, <1>2, <1>5 DEF To, Ops, HelperSteps, ActivateSteps, RemovalSteps, RollbackSteps,
       Modes, OptionSets
  <2>2. PhaseInv'
    BY <1>1, <1>2, <1>5, <2>1 DEF PhaseInv, ActivateSteps, Guarding, Purging, Undoing,
       AllowsIngressGuard, JournalOK, NoJournal
  <2>3. ProgressInv'
    BY <1>1, <1>2, <1>5, <2>1 DEF ProgressInv, Undoing
  <2>4. chain' \in [Families -> Hooks]
    BY <1>3, <1>5 DEF Hooks
  <2>5. ~Early(journal) /\ journal.hooks # "none"
    BY <1>1, <1>2 DEF PhaseInv, ActivateSteps, Guarding, Purging, Undoing, JournalOK,
       AllowsIngressGuard, Early, UndoneBy
  <2> QED
    BY <1>1, <1>3, <2>1, <2>2, <2>3, <2>4, <2>5, ChainStep DEF OpInv
<1>6. CASE op' = [op EXCEPT !.left = @ \ {f}] /\ chain' = [chain EXCEPT ![f].ufw = FALSE, ![f].forward = "first"]
  <2>1. /\ op' \in Ops /\ op'.pc = "ufwreclean"
        /\ op'.mode = op.mode /\ op'.j = op.j /\ op'.armed = op.armed
    BY <1>1, <1>2, <1>6 DEF To, Ops, HelperSteps, ActivateSteps, RemovalSteps, RollbackSteps,
       Modes, OptionSets
  <2>2. PhaseInv'
    BY <1>1, <1>2, <1>6, <2>1 DEF PhaseInv, ActivateSteps, Guarding, Purging, Undoing,
       AllowsIngressGuard, JournalOK, NoJournal
  <2>3. ProgressInv'
    BY <1>1, <1>2, <1>6, <2>1 DEF ProgressInv, Undoing
  <2>4. chain' \in [Families -> Hooks]
    BY <1>3, <1>6 DEF Hooks
  <2>5. ~Early(journal) /\ journal.hooks # "none"
    BY <1>1, <1>2 DEF PhaseInv, ActivateSteps, Guarding, Purging, Undoing, JournalOK,
       AllowsIngressGuard, Early, UndoneBy
  <2> QED
    BY <1>1, <1>3, <2>1, <2>2, <2>3, <2>4, <2>5, ChainStep DEF OpInv
<1> QED
  BY <1>4, <1>5, <1>6 DEF CleanupUFW, Keep

\* UFW is seen gone.
LEMMA VerifyUFWAbsentStep == IInv /\ VerifyUFWAbsent => IInv'
<1> SUFFICES ASSUME IInv, VerifyUFWAbsent PROVE IInv'
  OBVIOUS
<1>1. op.pc = "absent"
      /\ UNCHANGED <<journal, pveVars, hostVars, supVars, origin, touched>>
  BY DEF VerifyUFWAbsent, At, Keep, worldVars, pveVars, hostVars, supVars, boundVars
<1>2. PhaseInv /\ ProgressInv /\ op \in Ops /\ op.j = journal /\ JournalOK(journal)
  BY <1>1, Working
<1>3. CASE Fail
  BY <1>1, <1>3, FailOp, LookStep DEF Fail
<1>4. CASE op' = ToGuard(op) /\ op.mode = "keep"
  <2>1. /\ op' \in Ops /\ op'.pc = "guard"
        /\ op'.mode = op.mode /\ op'.j = op.j /\ op'.armed = op.armed
    BY <1>1, <1>2, <1>4 DEF To, Ops, HelperSteps, ActivateSteps, RemovalSteps, RollbackSteps,
       Modes, OptionSets, ToGuard
  <2>2. PhaseInv'
    BY <1>1, <1>2, <1>4, <2>1 DEF PhaseInv, ActivateSteps, Guarding, Purging, Undoing,
       AllowsIngressGuard, JournalOK, NoJournal, Journals
  <2>3. ProgressInv'
    BY <1>1, <1>2, <1>4, <2>1 DEF ProgressInv, Undoing
  <2> QED
    BY <1>1, <2>1, <2>2, <2>3, LookStep DEF OpInv
<1>5. CASE op' = To("effective") /\ op.mode # "keep"
  <2>1. /\ op' \in Ops /\ op'.pc = "effective"
        /\ op'.mode = op.mode /\ op'.j = op.j /\ op'.armed = op.armed
    BY <1>1, <1>2, <1>5 DEF To, Ops, HelperSteps, ActivateSteps, RemovalSteps, RollbackSteps,
       Modes, OptionSets
  <2>2. PhaseInv'
    BY <1>1, <1>2, <1>5, <2>1 DEF PhaseInv, ActivateSteps, Guarding, Purging, Undoing,
       AllowsIngressGuard, JournalOK, NoJournal
  <2>3. ProgressInv'
    BY <1>1, <1>2, <1>5, <2>1 DEF ProgressInv, Undoing
  <2> QED
    BY <1>1, <2>1, <2>2, <2>3, LookStep DEF OpInv
<1> QED
  BY <1>3, <1>4, <1>5 DEF VerifyUFWAbsent, Fail

\* A save that ends the command.
LEMMA SaveEnds ==
    ASSUME IInv, op.pc # "idle", NEW j, Save(j, Idle),
           UNCHANGED <<pveVars, hostVars, supVars, origin, touched>>,
           Valid(j) => Fits(j) /\ JournalOK(j),
           op.armed => Remembers(j) /\ j.phase # "uninstalled"
    PROVE  IInv'
<1>1. op \in Ops /\ UNCHANGED <<opts, rules, chain, compiled, ufw, unit, sup, guardian>>
  BY DEF IInv, TypeInv, pveVars, hostVars, supVars
<1>2. /\ op' = Idle \/ op' = Failed([op EXCEPT !.j = j])
      /\ journal' = journal \/ (journal' = j /\ Valid(j))
  BY DEF Save, Keep
<1>3. Fits(journal)'
  BY <1>1, <1>2, FitsKept, FitsMoved DEF IInv
<1>4. journal' \in Journals \cup {NoJournal}
  BY <1>2 DEF IInv, TypeInv, JournalOK
<1>5. OpInv' /\ op' \in Ops
  <2>1. CASE op' = Idle
    BY <2>1, Ended
  <2>2. CASE op' = Failed([op EXCEPT !.j = j]) /\ op' # Idle
    <3>1. op.armed /\ op' = [Idle EXCEPT !.pc = "rollback", !.j = j]
      BY <1>1, <2>2 DEF Failed, Ops
    <3>2. Remembers(j) /\ j.phase # "uninstalled" /\ j \in Journals
      BY <3>1 DEF Remembers, JournalOK
    <3>3. Remembers(j)'
      BY <1>2, <3>2 DEF Remembers, JournalOK, Valid
    <3> QED
      BY <3>1, <3>2, <3>3, RollbackBegins
  <2> QED
    BY <1>2, <2>1, <2>2
<1> QED
  BY <1>1, <1>3, <1>4, <1>5 DEF IInv, TypeInv

\* The removal is done.
LEMMA SaveRemovedStep == IInv /\ SaveRemoved => IInv'
<1> SUFFICES ASSUME IInv, SaveRemoved PROVE IInv'
  OBVIOUS
<1>1. op.pc = "removed"
      /\ Save([op.j EXCEPT !.ufw = "removed"], Idle)
      /\ UNCHANGED <<pveVars, hostVars, supVars, origin, touched>>
  BY DEF SaveRemoved, At, Keep, worldVars, pveVars, hostVars, supVars, boundVars
<1>2. PhaseInv /\ ProgressInv /\ op \in Ops /\ op.j = journal /\ JournalOK(journal)
  BY <1>1, Working
<1> DEFINE j == [op.j EXCEPT !.ufw = "removed"]
<1>3. /\ j \in Journals /\ j.phase = op.j.phase /\ j.ufw = "removed"
      /\ j.hooks = op.j.hooks /\ j.planned = op.j.planned /\ j.pre = op.j.pre
  BY <1>1, <1>2 DEF JournalOK, Journals, Phases, IInv, TypeInv
<1> HIDE DEF j
<1>4. JournalOK(j)
  BY <1>1, <1>2, <1>3 DEF PhaseInv, JournalOK, Valid, AllowsIngressGuard, Guarding, Purging,
     Undoing, IInv, TypeInv
<1>5. Fits(j)
  BY <1>1, <1>2, <1>3, <1>4 DEF IInv, Fits, PhaseInv, ProgressInv, Undoing, Guarding, Purging,
     AllowsIngressGuard, Protected, Verified, AllOn, Untouched, Clean, Early, UndoneBy,
     AtPreimage
<1>6. op.armed => Remembers(j) /\ j.phase # "uninstalled"
  BY <1>1, <1>2, <1>3, <1>4 DEF Remembers, PhaseInv, ActivateSteps, IInv, Fits, Clean
<1> QED
  BY <1>1, <1>4, <1>5, <1>6, SaveEnds DEF j

-----------------------------------------------------------------------------
(***************************************************************************)
(* Rolling back.                                                           *)
(***************************************************************************)

\* The rollback chooses its way from the journal in memory.
LEMMA BeginRollbackStep == IInv /\ BeginRollback => IInv'
<1> SUFFICES ASSUME IInv, BeginRollback PROVE IInv'
  OBVIOUS
<1>1. op.pc = "rollback" /\ UNCHANGED <<pveVars, hostVars, supVars, origin, touched>>
  BY DEF BeginRollback, At, Keep, worldVars, pveVars, hostVars, supVars, boundVars
<1>2. PhaseInv /\ op \in Ops
  BY <1>1 DEF IInv, OpInv, TypeInv, Idle
<1>3. /\ Remembers(op.j) /\ op.mode = "none" /\ ~op.armed /\ JournalOK(op.j) /\ op.j \in Journals
      /\ op.uninstall => op.j = journal
      /\ op.j.phase = "uninstalled" => op.j = journal
  BY <1>1, <1>2 DEF PhaseInv, Remembers, JournalOK, ActivateSteps
<1> DEFINE keep == [To("absent") EXCEPT !.mode = "keep"]
<1>4. CASE op.j.phase = "uninstalled" /\ Save(op.j, RolledBack(op.j))
  <2>1. RolledBack(op.j) = Idle
    BY <1>4 DEF RolledBack, Loaded
  <2>2. Fits(op.j)
    BY <1>3, <1>4 DEF IInv
  <2> QED
    BY <1>1, <1>3, <1>4, <2>1, <2>2, SaveEnds
<1>5. CASE op.j.phase = "uninstalled" /\ op.j.ufw = "removed" /\ op' = keep /\ journal' = journal
  <2>1. /\ op' \in Ops /\ op'.pc = "absent"
        /\ op'.mode = "keep" /\ op'.j = op.j /\ op'.armed = op.armed
    BY <1>1, <1>2, <1>3, <1>5 DEF To, Ops, HelperSteps, ActivateSteps, RemovalSteps,
       RollbackSteps, Modes, OptionSets
  <2>2. PhaseInv'
    BY <1>1, <1>2, <1>3, <1>5, <2>1 DEF PhaseInv, ActivateSteps, Guarding, Purging, Undoing,
       AllowsIngressGuard, JournalOK, NoJournal
  <2>3. ProgressInv'
    BY <1>1, <1>2, <1>3, <1>5, <2>1 DEF ProgressInv, Undoing
  <2> QED
    BY <1>1, <1>5, <2>1, <2>2, <2>3, LookStep DEF OpInv
<1>6. CASE Fail /\ journal' = journal
  BY <1>1, <1>6, FailOp, LookStep DEF Fail
<1>7. CASE /\ op.j.phase = "committed" /\ Irreversible(op.j) /\ op.uninstall
           /\ Save([op.j EXCEPT !.ufw = "removing"], [keep EXCEPT !.pc = "ufwcheck"])
  <2> DEFINE j == [op.j EXCEPT !.ufw = "removing"]
  <2>1. /\ j \in Journals /\ j.phase = "committed" /\ j.ufw = "removing"
        /\ j.hooks = op.j.hooks /\ j.planned = op.j.planned /\ j.pre = op.j.pre
    BY <1>3, <1>7 DEF Journals
  <2> HIDE DEF j
  <2>2. JournalOK(j)
    BY <1>3, <1>7, <2>1 DEF JournalOK, Valid, Irreversible
  <2>3. Fits(j)
    BY <1>3, <1>7, <2>1, <2>2 DEF IInv, Fits, AllowsIngressGuard, Clean, Early, UndoneBy
  <2>4. ASSUME journal' = j, op' = [[keep EXCEPT !.pc = "ufwcheck"] EXCEPT !.j = j]
        PROVE  OpInv' /\ op' \in Ops
    <3>1. /\ op' \in Ops /\ op'.pc = "ufwcheck"
          /\ op'.mode = "keep" /\ op'.j = j /\ op'.armed = op.armed
      BY <1>1, <1>2, <1>3, <2>1, <2>2, <2>4 DEF To, Ops, HelperSteps, ActivateSteps,
         RemovalSteps, RollbackSteps, Modes, OptionSets
    <3>2. PhaseInv'
      BY <1>1, <1>2, <1>3, <2>1, <2>2, <2>4, <3>1 DEF PhaseInv, ActivateSteps, Guarding,
         Purging, Undoing, AllowsIngressGuard, JournalOK, NoJournal
    <3>3. ProgressInv'
      BY <1>1, <1>2, <1>3, <2>1, <2>2, <2>4, <3>1 DEF ProgressInv, Undoing
    <3> QED
      BY <3>1, <3>2, <3>3 DEF OpInv
  <2> QED
    BY <1>1, <1>3, <1>7, <2>2, <2>3, <2>4, SaveStep DEF j
<1>8. CASE /\ op.j.phase = "installing" /\ ~Irreversible(op.j)
           /\ LET j == [op.j EXCEPT !.phase = Target] IN Save(j, RolledBack(j))
  <2>0. PICK j : j = [op.j EXCEPT !.phase = Target]
    OBVIOUS
  <2>1. /\ j \in Journals /\ j.phase \in {"uninstalled", "rolled-back"} /\ j.ufw = "none"
        /\ j.hooks = op.j.hooks /\ j.planned = op.j.planned /\ j.pre = op.j.pre
    BY <1>3, <1>8, <2>0 DEF Journals, Phases, Target, Irreversible
  <2>2. Valid(j) => origin = "retained" /\ JournalOK(j)
    BY <1>3, <1>8, <2>1 DEF JournalOK, Valid, Remembers
  <2>3. Valid(j) => Fits(j)
    BY <2>1, <2>2 DEF Fits, AllowsIngressGuard
  <2>4. CASE Loaded(j) = Idle \/ ~op.resume
    BY <1>1, <1>3, <1>8, <2>0, <2>2, <2>3, <2>4, SaveEnds DEF RolledBack
  <2>5. CASE Loaded(j) # Idle /\ op.resume
    <3>1. ASSUME Valid(j), journal' = j, op' = [Loaded(j) EXCEPT !.j = j]
          PROVE  OpInv' /\ op' \in Ops
      BY <1>1, <2>1, <2>2, <2>5, <3>1, LoadedKeeps, LoadedOp
    <3> QED
      BY <1>1, <1>3, <1>8, <2>0, <2>2, <2>3, <2>5, <3>1, SaveStep DEF RolledBack
  <2> QED
    BY <2>4, <2>5
<1>9. CASE /\ op.j.phase \notin {"installing", "uninstalled"} /\ ~Irreversible(op.j)
           /\ Save(Marked(op.j), To("unpersist"))
  <2> DEFINE j == Marked(op.j)
  <2>1. /\ j \in Journals /\ j.phase = "rollback-pending" /\ j.ufw = "none"
        /\ j.hooks = op.j.hooks /\ j.planned = op.j.planned /\ j.pre = op.j.pre
    BY <1>3, <1>9 DEF Journals, Phases, Marked, Irreversible
  <2> HIDE DEF j
  <2>2. JournalOK(j)
    BY <1>3, <1>9, <2>1 DEF JournalOK, Valid
  <2>3. Fits(j)
    BY <1>3, <2>1, <2>2 DEF IInv, Fits, AllowsIngressGuard, Clean, Early, UndoneBy, Remembers
  <2>4. ASSUME journal' = j, op' = [To("unpersist") EXCEPT !.j = j]
        PROVE  OpInv' /\ op' \in Ops
    <3>1. /\ op' \in Ops /\ op'.pc = "unpersist"
          /\ op'.mode = op.mode /\ op'.j = j /\ op'.armed = op.armed
      BY <1>1, <1>2, <1>3, <2>1, <2>2, <2>4 DEF To, Ops, HelperSteps, ActivateSteps,
         RemovalSteps, RollbackSteps, Modes, OptionSets
    <3>2. PhaseInv'
      BY <1>1, <1>2, <1>3, <2>1, <2>2, <2>4, <3>1 DEF PhaseInv, ActivateSteps, Guarding,
         Purging, Undoing, AllowsIngressGuard, JournalOK, NoJournal
    <3>3. ProgressInv'
      BY <1>1, <1>2, <1>3, <2>1, <2>2, <2>4, <3>1 DEF ProgressInv, Undoing
    <3> QED
      BY <3>1, <3>2, <3>3 DEF OpInv
  <2> QED
    BY <1>1, <1>3, <1>9, <2>2, <2>3, <2>4, SaveStep DEF j
<1> QED
  BY <1>4, <1>5, <1>6, <1>7, <1>8, <1>9 DEF BeginRollback, Keep, Fail

\* The supervisor is stopped, wherever it is.
LEMMA DisablePersistenceStep == IInv /\ DisablePersistence => IInv'
<1> SUFFICES ASSUME IInv, DisablePersistence PROVE IInv'
  OBVIOUS
<1>1. op.pc = "unpersist"
      /\ UNCHANGED <<journal, pveVars, hostVars, origin, touched>> /\ unit' = FALSE /\ sup' = "off"
      /\ guardian' \in {guardian, NoGuardian}
  BY DEF DisablePersistence, At, Keep, worldVars, pveVars, hostVars, supVars, boundVars
<1>2. PhaseInv /\ ProgressInv /\ op \in Ops /\ op.j = journal /\ JournalOK(journal)
  BY <1>1, Working
<1>3. Fits(journal)'
  BY <1>1 DEF IInv, Fits, JournalOK, Valid, AllowsIngressGuard, Protected, Untouched, Clean,
     Early,
     UndoneBy, AtPreimage, NoneFirst, RulesAre, pveVars, hostVars
<1>4. OpInv' /\ op' \in Ops
  <2>1. CASE op' = To("retained") /\ op.mode = "keep"
    <3>1. /\ op' \in Ops /\ op'.pc = "retained"
          /\ op'.mode = op.mode /\ op'.j = op.j /\ op'.armed = op.armed
      BY <1>1, <1>2, <2>1 DEF To, Ops, HelperSteps, ActivateSteps, RemovalSteps, RollbackSteps,
         Modes, OptionSets
    <3>2. PhaseInv'
      BY <1>1, <1>2, <2>1, <3>1 DEF PhaseInv, ActivateSteps, Guarding, Purging, Undoing,
         AllowsIngressGuard, JournalOK, NoJournal
    <3>3. ProgressInv'
      BY <1>1, <1>2, <2>1, <3>1 DEF ProgressInv, Undoing
    <3> QED
      BY <3>1, <3>2, <3>3 DEF OpInv
  <2>2. CASE op' = To("remove") /\ op.mode # "keep"
    <3>1. /\ op' \in Ops /\ op'.pc = "remove"
          /\ op'.mode = op.mode /\ op'.j = op.j /\ op'.armed = op.armed
      BY <1>1, <1>2, <2>2 DEF To, Ops, HelperSteps, ActivateSteps, RemovalSteps, RollbackSteps,
         Modes, OptionSets
    <3>2. PhaseInv'
      BY <1>1, <1>2, <2>2, <3>1 DEF PhaseInv, ActivateSteps, Guarding, Purging, Undoing,
         AllowsIngressGuard, JournalOK, NoJournal
    <3>3. ProgressInv'
      BY <1>1, <1>2, <2>2, <3>1 DEF ProgressInv, Undoing
    <3> QED
      BY <3>1, <3>2, <3>3 DEF OpInv
  <2> QED
    BY <2>1, <2>2 DEF DisablePersistence
<1> QED
  BY <1>1, <1>3, <1>4, Blank DEF IInv, TypeInv, pveVars, hostVars

\* The uninstallation ends with the protection kept.
LEMMA SaveRetainedStep == IInv /\ SaveRetained => IInv'
<1> SUFFICES ASSUME IInv, SaveRetained PROVE IInv'
  OBVIOUS
<1>1. op.pc = "retained"
      /\ UNCHANGED <<pveVars, hostVars, supVars, origin, touched>>
  BY DEF SaveRetained, At, Keep, worldVars, pveVars, hostVars, supVars, boundVars
<1>2. PhaseInv /\ ProgressInv /\ op \in Ops /\ op.j = journal /\ JournalOK(journal)
  BY <1>1, Working
<1>3. CASE Verified /\ Save([op.j EXCEPT !.ufw = "removed", !.phase = "uninstalled"], Idle)
  <2> DEFINE j == [op.j EXCEPT !.ufw = "removed", !.phase = "uninstalled"]
  <2>1. /\ j \in Journals /\ j.phase = "uninstalled" /\ j.ufw = "removed"
        /\ j.hooks = op.j.hooks /\ j.planned = op.j.planned /\ j.pre = op.j.pre
    BY <1>1, <1>2, <1>3 DEF JournalOK, Journals, Phases, IInv, TypeInv
  <2> HIDE DEF j
  <2>2. JournalOK(j)
    BY <1>1, <1>2, <1>3, <2>1 DEF PhaseInv, JournalOK, Valid, AllowsIngressGuard, Guarding,
       Purging, Undoing, IInv, TypeInv
  <2>3. Fits(j)
    BY <1>1, <1>2, <1>3, <2>1, <2>2 DEF IInv, Fits, PhaseInv, ProgressInv, Undoing, Guarding,
       Purging, AllowsIngressGuard, Protected, Verified, AllOn, Untouched, Clean, Early,
       UndoneBy, AtPreimage
  <2>4. op.armed => Remembers(j) /\ j.phase # "uninstalled"
    BY <1>1, <1>2, <1>3, <2>1, <2>2 DEF Remembers, PhaseInv, ActivateSteps, IInv, Fits, Clean
  <2> QED
    BY <1>1, <1>3, <2>2, <2>3, <2>4, SaveEnds DEF j
<1>4. CASE Fail /\ journal' = journal
  BY <1>1, <1>4, FailOp, LookStep DEF Fail
<1> QED
  BY <1>3, <1>4 DEF SaveRetained, Keep

\* One owned rule is disabled, or deleted.
LEMMA RemoveOwnedRuleStep ==
    ASSUME IInv, NEW i \in Interfaces, RemoveOwnedRule(i)
    PROVE  IInv'
<1>1. op.pc = "remove"
      /\ UNCHANGED <<op, journal, opts, hostVars, supVars, origin, touched>>
  BY DEF RemoveOwnedRule, At, Keep, worldVars, pveVars, hostVars, supVars, boundVars
<1>2. PhaseInv /\ ProgressInv /\ op \in Ops /\ op.j = journal /\ JournalOK(journal)
  BY <1>1, Working
<1>3. rules' \in [Interfaces -> RuleStates] /\ journal.phase = "rollback-pending"
  BY <1>1, <1>2 DEF RemoveOwnedRule, RuleStates, IInv, TypeInv, PhaseInv, Undoing
<1>4. PhaseInv'
  BY <1>1, <1>2 DEF PhaseInv, ActivateSteps, Guarding, Purging, Undoing
<1>5. ProgressInv'
  BY <1>1, <1>2 DEF ProgressInv, Undoing, supVars
<1> QED
  BY <1>1, <1>2, <1>3, <1>4, <1>5, RulesStep DEF OpInv

\* Every owned rule is gone.
LEMMA RulesRemovedStep == IInv /\ RulesRemoved => IInv'
<1> SUFFICES ASSUME IInv, RulesRemoved PROVE IInv'
  OBVIOUS
<1>1. op.pc = "remove"
      /\ UNCHANGED <<journal, pveVars, hostVars, supVars, origin, touched>> /\ RulesAre("absent")
  BY DEF RulesRemoved, At, Keep, worldVars, pveVars, hostVars, supVars, boundVars
<1>2. PhaseInv /\ ProgressInv /\ op \in Ops /\ op.j = journal /\ JournalOK(journal)
  BY <1>1, Working
<1>3. CASE op' = [To("restore") EXCEPT !.left = Options]
  <2>1. /\ op' \in Ops /\ op'.pc = "restore"
        /\ op'.mode = op.mode /\ op'.j = op.j /\ op'.armed = op.armed
        /\ op'.left = Options /\ op'.drift = op.drift
    BY <1>1, <1>2, <1>3 DEF To, Ops, HelperSteps, ActivateSteps, RemovalSteps, RollbackSteps,
       Modes, OptionSets
  <2>2. PhaseInv'
    BY <1>1, <1>2, <1>3, <2>1 DEF PhaseInv, ActivateSteps, Guarding, Purging, Undoing,
       AllowsIngressGuard, JournalOK, NoJournal
  <2>3. ProgressInv'
    BY <1>1, <1>2, <1>3, <2>1 DEF ProgressInv, Undoing, RulesAre, Untouched, supVars, pveVars
  <2> QED
    BY <1>1, <2>1, <2>2, <2>3, LookStep DEF OpInv
<1> QED
  BY <1>3 DEF RulesRemoved

\* The option that is restored next is one that is left.
LEMMA NextIsLeft ==
    ASSUME op.left # {}, op.left \subseteq Options
    PROVE  NextOption \in op.left /\ NextOption \in Options
<1>1. \E o \in op.left : "node" \in op.left => o = "node"
  OBVIOUS
<1> QED
  BY <1>1 DEF NextOption

\* One option goes back to its preimage, or is left to its administrator.
LEMMA RestoreOptionStep == IInv /\ RestoreOption => IInv'
<1> SUFFICES ASSUME IInv, RestoreOption PROVE IInv'
  OBVIOUS
<1>1. /\ op.pc \in {"restore", "rewrite"} /\ op.left # {}
      /\ UNCHANGED <<journal, rules, hostVars, supVars, origin, touched>>
  BY DEF RestoreOption, At, Keep, worldVars, pveVars, hostVars, supVars, boundVars
<1>2. PhaseInv /\ ProgressInv /\ op \in Ops /\ op.j = journal /\ JournalOK(journal)
      /\ opts \in [Options -> Values]
  BY <1>1, Working DEF IInv, TypeInv
<1>3. journal.phase = "rollback-pending" /\ journal.pre \in [Options -> Values]
  BY <1>1, <1>2 DEF PhaseInv, Undoing, JournalOK, Valid
<1>4. PICK n : n = NextOption
  OBVIOUS
<1>5. n \in op.left /\ n \in Options
  BY <1>1, <1>2, <1>4, NextIsLeft DEF ProgressInv
<1>6. CASE op' = [To("rewrite") EXCEPT !.seen = opts] /\ opts' = opts /\ opts[n] = "on"
  <2>1. /\ op' \in Ops /\ op'.pc = "rewrite" /\ op'.mode = op.mode /\ op'.j = op.j
        /\ op'.armed = op.armed /\ op'.left = op.left /\ op'.drift = op.drift /\ op'.seen = opts
    BY <1>1, <1>2, <1>6 DEF To, Ops, HelperSteps, ActivateSteps, RemovalSteps, RollbackSteps,
       Modes, OptionSets
  <2>2. NextOption' = n
    BY <1>4, <2>1 DEF NextOption
  <2>3. PhaseInv'
    BY <1>1, <1>2, <2>1 DEF PhaseInv, ActivateSteps, Guarding, Purging, Undoing
  <2>4. ProgressInv'
    BY <1>1, <1>2, <1>6, <2>1, <2>2 DEF ProgressInv, Undoing, RulesAre, Untouched, supVars
  <2> QED
    BY <1>1, <1>2, <1>3, <1>6, <2>1, <2>3, <2>4, OptionsStep DEF OpInv
<1>7. ASSUME NEW drift \in BOOLEAN, Restored(n, drift), opts' \in {opts, [opts EXCEPT ![n] = journal.pre[n]]},
             ~drift => opts'[n] = journal.pre[n]
      PROVE  IInv'
  <2>1. op' = [op EXCEPT !.pc = "restore", !.left = op.left \ {n}, !.seen = NoOptions,
                         !.drift = op.drift \/ drift]
    BY <1>2, <1>7 DEF Restored, To, Ops
  <2>2. /\ op'.pc = "restore" /\ op'.mode = op.mode /\ op'.j = op.j
        /\ op'.armed = op.armed /\ op'.left = op.left \ {n} /\ op'.drift = (op.drift \/ drift)
    BY <1>2, <2>1 DEF Ops
  <2>3. op' \in Ops
    <3>1. op.drift \/ drift \in BOOLEAN
      BY <1>2, <1>7 DEF Ops
    <3> QED
      BY <1>2, <2>1 DEF Ops, HelperSteps, RollbackSteps, OptionSets
  <2>4. opts' \in [Options -> Values]
    BY <1>2, <1>3, <1>5, <1>7
  <2>5. PhaseInv'
    BY <1>1, <1>2, <2>2 DEF PhaseInv, ActivateSteps, Guarding, Purging, Undoing
  <2>6. ASSUME ~op'.drift, NEW o \in Untouched', o \notin op'.left PROVE opts'[o] = journal.pre[o]
    <3>1. ~op.drift /\ ~drift
      BY <1>2, <1>7, <2>2, <2>6 DEF Ops
    <3>2. o \in Untouched /\ o \in Options
      BY <1>1, <2>6 DEF Untouched
    <3>3. CASE o = n
      BY <1>7, <3>1, <3>3
    <3>4. CASE o # n
      <4>1. o \notin op.left
        BY <2>2, <2>6, <3>4
      <4>2. opts[o] = journal.pre[o]
        BY <1>1, <1>2, <3>1, <3>2, <4>1 DEF ProgressInv
      <4> QED
        BY <1>2, <1>7, <3>2, <3>4, <4>2
    <3> QED
      BY <3>3, <3>4
  <2>7. ProgressInv'
    BY <1>1, <1>2, <2>2, <2>6 DEF ProgressInv, Undoing, RulesAre, supVars
  <2> QED
    BY <1>1, <1>3, <2>2, <2>3, <2>4, <2>5, <2>7, OptionsStep DEF OpInv
<1>8. \/ op' = [To("rewrite") EXCEPT !.seen = opts] /\ opts' = opts /\ opts[n] = "on"
      \/ /\ Restored(n, FALSE) /\ opts'[n] = journal.pre[n]
         /\ opts' \in {opts, [opts EXCEPT ![n] = journal.pre[n]]}
      \/ Restored(n, TRUE) /\ opts' \in {opts, [opts EXCEPT ![n] = journal.pre[n]]}
  BY <1>2, <1>4, <1>5 DEF RestoreOption, Keep
<1> QED
  BY <1>6, <1>7, <1>8

\* Every option has been looked at.
LEMMA OptionsRestoredStep == IInv /\ OptionsRestored => IInv'
<1> SUFFICES ASSUME IInv, OptionsRestored PROVE IInv'
  OBVIOUS
<1>1. op.pc = "restore"
      /\ UNCHANGED <<journal, pveVars, hostVars, supVars, origin, touched>> /\ op.left = {}
  BY DEF OptionsRestored, At, Keep, worldVars, pveVars, hostVars, supVars, boundVars
<1>2. PhaseInv /\ ProgressInv /\ op \in Ops /\ op.j = journal /\ JournalOK(journal)
  BY <1>1, Working
<1>3. CASE Fail
  BY <1>1, <1>3, FailOp, LookStep DEF Fail
<1>4. CASE op' = To("unhook") /\ ~op.drift
  <2>1. /\ op' \in Ops /\ op'.pc = "unhook"
        /\ op'.mode = op.mode /\ op'.j = op.j /\ op'.armed = op.armed
    BY <1>1, <1>2, <1>4 DEF To, Ops, HelperSteps, ActivateSteps, RemovalSteps, RollbackSteps,
       Modes, OptionSets
  <2>2. PhaseInv'
    BY <1>1, <1>2, <1>4, <2>1 DEF PhaseInv, ActivateSteps, Guarding, Purging, Undoing,
       AllowsIngressGuard, JournalOK, NoJournal
  <2>3. ProgressInv'
    BY <1>1, <1>2, <1>4, <2>1 DEF ProgressInv, Undoing, RulesAre, AtPreimage, Untouched,
       supVars, pveVars
  <2> QED
    BY <1>1, <2>1, <2>2, <2>3, LookStep DEF OpInv
<1> QED
  BY <1>3, <1>4 DEF OptionsRestored, Fail

\* The hooks are found where they can be handed back.
LEMMA BeginUnhookStep == IInv /\ BeginUnhook => IInv'
<1> SUFFICES ASSUME IInv, BeginUnhook PROVE IInv'
  OBVIOUS
<1>1. op.pc = "unhook"
      /\ UNCHANGED <<journal, pveVars, compiled, ufw, supVars, origin, touched>> /\ guardian = NoGuardian
  BY DEF BeginUnhook, At, Keep, worldVars, pveVars, hostVars, supVars, boundVars, LockFree
<1>2. PhaseInv /\ ProgressInv /\ op \in Ops /\ op.j = journal /\ JournalOK(journal)
  BY <1>1, Working
<1>3. /\ chain \in [Families -> Hooks] /\ ufw \in UfwStates /\ compiled \subseteq Interfaces
      /\ journal.phase = "rollback-pending" /\ ~Early(journal)
  BY <1>1, <1>2 DEF IInv, TypeInv, PhaseInv, Undoing, Early, UndoneBy
<1>4. CASE Fail
  <2>1. OpInv' /\ op' \in Ops
    BY <1>1, <1>4, FailOp DEF Fail
  <2>2. CASE chain' = chain
    BY <1>1, <2>1, <2>2, LookStep DEF hostVars
  <2>3. CASE journal.hooks = "tail" /\ \E f \in Families : chain' = [chain EXCEPT ![f].input = "first"]
    <3>1. chain' \in [Families -> Hooks]
      BY <1>3, <2>3 DEF Hooks
    <3> QED
      BY <1>1, <1>3, <2>1, <2>3, <3>1, ChainStep
  <2> QED
    BY <1>2, <2>2, <2>3 DEF BeginUnhook, Keep
<1>5. CASE op' = To("finish") /\ chain' = chain /\ op.j.hooks = "none"
  <2>0. origin # "retained" => NoneFirst
    BY <1>2, <1>5 DEF IInv, Fits, Clean
  <2>1. /\ op' \in Ops /\ op'.pc = "finish"
        /\ op'.mode = op.mode /\ op'.j = op.j /\ op'.armed = op.armed
    BY <1>1, <1>2, <1>5, <2>0 DEF To, Ops, HelperSteps, ActivateSteps, RemovalSteps,
       RollbackSteps, Modes, OptionSets
  <2>2. PhaseInv'
    BY <1>1, <1>2, <1>5, <2>0, <2>1 DEF PhaseInv, ActivateSteps, Guarding, Purging, Undoing,
       AllowsIngressGuard, JournalOK, NoJournal
  <2>3. ProgressInv'
    BY <1>1, <1>2, <1>5, <2>0, <2>1 DEF ProgressInv, Undoing, RulesAre, AtPreimage, Untouched,
       NoneFirst, supVars, pveVars, hostVars
  <2> QED
    BY <1>1, <1>5, <2>1, <2>2, <2>3, LookStep DEF OpInv, hostVars
<1>6. CASE /\ op' = [To("tail") EXCEPT !.left = {f \in Families : chain[f].input = "first"}]
           /\ chain' = chain /\ op.j.hooks = "tail"
  <2>1. /\ op' \in Ops /\ op'.pc = "tail"
        /\ op'.mode = op.mode /\ op'.j = op.j /\ op'.armed = op.armed
    BY <1>1, <1>2, <1>6 DEF To, Ops, HelperSteps, ActivateSteps, RemovalSteps, RollbackSteps,
       Modes, OptionSets
  <2>2. PhaseInv'
    BY <1>1, <1>2, <1>6, <2>1 DEF PhaseInv, ActivateSteps, Guarding, Purging, Undoing,
       AllowsIngressGuard, JournalOK, NoJournal
  <2>3. ProgressInv'
    BY <1>1, <1>2, <1>6, <2>1 DEF ProgressInv, Undoing, RulesAre, AtPreimage, Untouched,
       NoneFirst, supVars, pveVars, hostVars
  <2> QED
    BY <1>1, <1>6, <2>1, <2>2, <2>3, LookStep DEF OpInv, hostVars
<1> QED
  BY <1>4, <1>5, <1>6 DEF BeginUnhook, Keep

\* One hook goes back to the tail.
LEMMA MoveToTailStep ==
    ASSUME IInv, NEW f \in Families, MoveToTail(f)
    PROVE  IInv'
<1>1. op.pc = "tail"
      /\ UNCHANGED <<journal, pveVars, compiled, ufw, supVars, origin, touched>>
  BY DEF MoveToTail, At, Keep, worldVars, pveVars, hostVars, supVars, boundVars
<1>2. PhaseInv /\ ProgressInv /\ op \in Ops /\ op.j = journal /\ JournalOK(journal)
  BY <1>1, Working
<1>3. /\ chain \in [Families -> Hooks] /\ ufw \in UfwStates /\ compiled \subseteq Interfaces
      /\ journal.phase = "rollback-pending" /\ ~Early(journal) /\ journal.hooks = "tail"
  BY <1>1, <1>2 DEF IInv, TypeInv, PhaseInv, ProgressInv, Undoing, Early, UndoneBy
<1>4. chain' \in [Families -> Hooks]
  BY <1>3 DEF MoveToTail, Hooks, Keep
<1>5. CASE op' = To("promote")
  <2>1. /\ op' \in Ops /\ op'.pc = "promote"
        /\ op'.mode = op.mode /\ op'.j = op.j /\ op'.armed = op.armed
    BY <1>1, <1>2, <1>5 DEF To, Ops, HelperSteps, ActivateSteps, RemovalSteps, RollbackSteps,
       Modes, OptionSets
  <2>2. PhaseInv'
    BY <1>1, <1>2, <1>5, <2>1 DEF PhaseInv, ActivateSteps, Guarding, Purging, Undoing,
       AllowsIngressGuard, JournalOK, NoJournal
  <2>3. ProgressInv'
    BY <1>1, <1>2, <1>5, <2>1 DEF ProgressInv, Undoing, RulesAre, AtPreimage, Untouched,
       NoneFirst, supVars, pveVars, hostVars
  <2> QED
    BY <1>1, <1>3, <1>4, <2>1, <2>2, <2>3, ChainStep DEF OpInv
<1>6. CASE op' = [op EXCEPT !.left = @ \ {f}]
  <2>1. /\ op' \in Ops /\ op'.pc = "tail"
        /\ op'.mode = op.mode /\ op'.j = op.j /\ op'.armed = op.armed
    BY <1>1, <1>2, <1>6 DEF To, Ops, HelperSteps, ActivateSteps, RemovalSteps, RollbackSteps,
       Modes, OptionSets
  <2>2. PhaseInv'
    BY <1>1, <1>2, <1>6, <2>1 DEF PhaseInv, ActivateSteps, Guarding, Purging, Undoing,
       AllowsIngressGuard, JournalOK, NoJournal
  <2>3. ProgressInv'
    BY <1>1, <1>2, <1>6, <2>1 DEF ProgressInv, Undoing, RulesAre, AtPreimage, Untouched,
       NoneFirst, supVars, pveVars, hostVars
  <2> QED
    BY <1>1, <1>3, <1>4, <2>1, <2>2, <2>3, ChainStep DEF OpInv
<1> QED
  BY <1>5, <1>6 DEF MoveToTail

\* All hooks are at the tail, or are put first again.
LEMMA TailMovedStep == IInv /\ TailMoved => IInv'
<1> SUFFICES ASSUME IInv, TailMoved PROVE IInv'
  OBVIOUS
<1>1. op.pc = "tail"
      /\ UNCHANGED <<journal, pveVars, hostVars, supVars, origin, touched>>
  BY DEF TailMoved, At, Keep, worldVars, pveVars, hostVars, supVars, boundVars
<1>2. PhaseInv /\ ProgressInv /\ op \in Ops /\ op.j = journal /\ JournalOK(journal)
  BY <1>1, Working
<1>3. CASE op' = To("finish") /\ \A f \in Families : chain[f].input \in {"absent", "tail"}
  <2>1. /\ op' \in Ops /\ op'.pc = "finish"
        /\ op'.mode = op.mode /\ op'.j = op.j /\ op'.armed = op.armed
    BY <1>1, <1>2, <1>3 DEF To, Ops, HelperSteps, ActivateSteps, RemovalSteps, RollbackSteps,
       Modes, OptionSets
  <2>2. PhaseInv'
    BY <1>1, <1>2, <1>3, <2>1 DEF PhaseInv, ActivateSteps, Guarding, Purging, Undoing,
       AllowsIngressGuard, JournalOK, NoJournal
  <2>3. ProgressInv'
    BY <1>1, <1>2, <1>3, <2>1 DEF ProgressInv, Undoing, RulesAre, AtPreimage, Untouched,
       NoneFirst, supVars, pveVars, hostVars
  <2> QED
    BY <1>1, <2>1, <2>2, <2>3, LookStep DEF OpInv
<1>4. CASE op' = To("promote")
  <2>1. /\ op' \in Ops /\ op'.pc = "promote"
        /\ op'.mode = op.mode /\ op'.j = op.j /\ op'.armed = op.armed
    BY <1>1, <1>2, <1>4 DEF To, Ops, HelperSteps, ActivateSteps, RemovalSteps, RollbackSteps,
       Modes, OptionSets
  <2>2. PhaseInv'
    BY <1>1, <1>2, <1>4, <2>1 DEF PhaseInv, ActivateSteps, Guarding, Purging, Undoing,
       AllowsIngressGuard, JournalOK, NoJournal
  <2>3. ProgressInv'
    BY <1>1, <1>2, <1>4, <2>1 DEF ProgressInv, Undoing, RulesAre, AtPreimage, Untouched,
       NoneFirst, supVars, pveVars, hostVars
  <2> QED
    BY <1>1, <2>1, <2>2, <2>3, LookStep DEF OpInv
<1> QED
  BY <1>3, <1>4 DEF TailMoved

\* The hooks are put first again before the error is reported.
LEMMA PromoteHooksStep == IInv /\ PromoteHooks => IInv'
<1> SUFFICES ASSUME IInv, PromoteHooks PROVE IInv'
  OBVIOUS
<1>1. op.pc = "promote"
      /\ UNCHANGED <<journal, pveVars, compiled, ufw, supVars, origin, touched>> /\ Fail
  BY DEF PromoteHooks, At, Keep, worldVars, pveVars, hostVars, supVars, boundVars
<1>2. PhaseInv /\ ProgressInv /\ op \in Ops /\ op.j = journal /\ JournalOK(journal)
  BY <1>1, Working
<1>3. /\ chain \in [Families -> Hooks] /\ ufw \in UfwStates /\ compiled \subseteq Interfaces
      /\ journal.phase = "rollback-pending" /\ ~Early(journal) /\ journal.hooks = "tail"
  BY <1>1, <1>2 DEF IInv, TypeInv, PhaseInv, ProgressInv, Undoing, Early, UndoneBy
<1>4. chain' \in [Families -> Hooks]
  BY <1>3 DEF PromoteHooks, Hooks
<1>5. OpInv' /\ op' \in Ops
  BY <1>1, FailOp DEF Fail
<1> QED
  BY <1>1, <1>3, <1>4, <1>5, ChainStep

\* The rollback is done and says so.
LEMMA FinishRollbackStep == IInv /\ FinishRollback => IInv'
<1> SUFFICES ASSUME IInv, FinishRollback PROVE IInv'
  OBVIOUS
<1>0. PICK j : j = [op.j EXCEPT !.phase = Target]
  OBVIOUS
<1>1. /\ op.pc = "finish" /\ Save(j, RolledBack(j))
      /\ UNCHANGED <<pveVars, hostVars, supVars, origin, touched>>
  BY <1>0 DEF FinishRollback, At, Keep, worldVars, pveVars, hostVars, supVars, boundVars
<1>2. /\ PhaseInv /\ ProgressInv /\ op \in Ops /\ op.j = journal /\ JournalOK(journal)
      /\ journal \in Journals /\ op.j.phase = "rollback-pending" /\ ~op.armed /\ op.j.ufw = "none"
  <2>1. PhaseInv /\ ProgressInv /\ op \in Ops /\ op.j = journal /\ JournalOK(journal) /\ journal \in Journals
    BY <1>1, Working
  <2> QED
    BY <1>1, <2>1 DEF PhaseInv, Undoing, ActivateSteps, JournalOK
<1>3. /\ j \in Journals /\ j.phase \in {"uninstalled", "rolled-back"} /\ j.ufw = "none"
      /\ j.hooks = op.j.hooks /\ j.planned = op.j.planned /\ j.pre = op.j.pre
  BY <1>0, <1>2 DEF Journals, Phases, Target
<1>4. JournalOK(j)
  BY <1>2, <1>3 DEF JournalOK, Valid
<1>5. AtPreimage(op.j) => AtPreimage(j)
  BY <1>3 DEF AtPreimage
<1>6. Fits(j)
  BY <1>1, <1>2, <1>3, <1>4, <1>5 DEF IInv, Fits, AllowsIngressGuard, Clean, Early, UndoneBy,
     ProgressInv, Undoing
<1>7. CASE Loaded(j) = Idle \/ ~op.resume
  BY <1>1, <1>2, <1>4, <1>6, <1>7, SaveEnds DEF RolledBack
<1>8. CASE Loaded(j) # Idle /\ op.resume
  <2>1. ASSUME Valid(j), journal' = j, op' = [Loaded(j) EXCEPT !.j = j]
        PROVE  OpInv' /\ op' \in Ops
    BY <1>1, <1>3, <1>4, <1>8, <2>1, LoadedKeeps, LoadedOp
  <2> QED
    BY <1>1, <1>2, <1>4, <1>6, <1>8, <2>1, SaveStep DEF RolledBack
<1> QED
  BY <1>7, <1>8

-----------------------------------------------------------------------------
(***************************************************************************)
(* The supervisor, enforce and everything around the helper.               *)
(***************************************************************************)

\* The helper has not moved: what it has established still stands when nobody
\* restarts a supervisor, takes the lock or puts a hook first behind its back.
LEMMA OpStays ==
    ASSUME OpInv, UNCHANGED <<op, journal, rules, origin>>,
           op.pc \in Undoing => UNCHANGED <<sup, unit>>,
           \A o \in Untouched' : o \in Untouched /\ opts'[o] = opts[o],
           op.pc \in {"tail", "promote", "finish"} /\ origin # "retained" =>
             (guardian = NoGuardian => guardian' = NoGuardian),
           op.pc = "finish" /\ origin # "retained" => (NoneFirst => NoneFirst')
    PROVE  OpInv'
<1>1. CASE op = Idle
  BY <1>1, Ended
<1>2. CASE op.pc # "idle" /\ PhaseInv /\ ProgressInv
  <2>1. PhaseInv'
    BY <1>2 DEF PhaseInv, Remembers, JournalOK, Valid, AllowsIngressGuard
  <2>2. ProgressInv'
    BY <1>2 DEF ProgressInv, RulesAre, AtPreimage, NextOption, Undoing
  <2> QED
    BY <1>2, <2>1, <2>2 DEF OpInv
<1> QED
  BY <1>1, <1>2 DEF OpInv

\* A guardian begins only on a journal that allows it.
LEMMA BeginGuardStep ==
    ASSUME IInv, NEW who \in {"supervisor", "enforce"}, BeginGuard(who),
           who = "supervisor" => sup = "run"
    PROVE  IInv'
<1>1. UNCHANGED <<unit, op, journal, pveVars, hostVars, origin, touched>>
  BY DEF BeginGuard, Keep
<1>2. guardian' \in Guardians /\ sup' \in {"off", "run", "failed"}
      /\ (sup' = sup \/ sup = "run")
  <2>1. (journal.ufw # "none") \in BOOLEAN
    OBVIOUS
  <2>2. [who |-> who, left |-> Families, forward |-> journal.ufw # "none"] \in Guardians
    BY <2>1 DEF Guardians
  <2>3. guardian' = guardian
          \/ guardian' = [who |-> who, left |-> Families, forward |-> journal.ufw # "none"]
    BY DEF BeginGuard, Keep
  <2>4. sup' = sup \/ (sup = "run" /\ sup' = "failed")
    BY DEF BeginGuard, Keep
  <2> QED
    BY <2>2, <2>3, <2>4 DEF IInv, TypeInv
<1>3. guardian' = guardian \/ (AllowsIngressGuard(journal) /\ journal.hooks # "none")
  BY DEF BeginGuard, Keep
<1>4. AllowsIngressGuard(journal) => ~Early(journal) /\ journal.phase # "rollback-pending"
  BY DEF AllowsIngressGuard, Early, UndoneBy
<1>5. Fits(journal)'
  BY <1>1, <1>3, <1>4 DEF IInv, Fits, JournalOK, Valid, AllowsIngressGuard, Protected, RulesAre,
     Untouched, Clean, Early, UndoneBy, NoneFirst, AtPreimage, pveVars, hostVars
<1>6. op.pc \in Undoing => PhaseInv /\ ProgressInv /\ op.j = journal
  <2>1. op.pc \in Undoing => op.pc \notin {"idle", "rollback"}
    BY DEF Undoing
  <2> QED
    BY <2>1, Working
<1>7. op.pc \in Undoing => sup = "off" /\ journal.phase = "rollback-pending"
  BY <1>6 DEF PhaseInv, ProgressInv
<1>8. {"tail", "promote", "finish"} \subseteq Undoing
  BY DEF Undoing
<1>9. \A o \in Untouched' : o \in Untouched /\ opts'[o] = opts[o]
  BY <1>1 DEF Untouched, pveVars
<1>10. OpInv'
  BY <1>1, <1>2, <1>3, <1>4, <1>7, <1>8, <1>9, OpStays DEF IInv, pveVars, hostVars, NoneFirst
<1> QED
  BY <1>1, <1>2, <1>5, <1>10 DEF IInv, TypeInv, pveVars, hostVars

\* The supervisor's next pass, or its failure.
LEMMA SuperviseStep == IInv /\ Supervise => IInv'
BY BeginGuardStep DEF Supervise

\* enforce.
LEMMA EnforceCommittedStep == IInv /\ EnforceCommitted => IInv'
BY BeginGuardStep DEF EnforceCommitted

\* systemd restarts the supervisor, which a rollback has already stopped.
LEMMA RestartSupervisorStep == IInv /\ RestartSupervisor => IInv'
<1> SUFFICES ASSUME IInv, RestartSupervisor PROVE IInv'
  OBVIOUS
<1>1. /\ sup = "failed" /\ sup' = "run"
      /\ UNCHANGED <<unit, guardian, op, journal, pveVars, hostVars, origin, touched>>
  BY DEF RestartSupervisor, Keep
<1>2. op.pc \in Undoing => op.pc \notin {"idle", "rollback"}
  BY DEF Undoing
<1>3. op.pc \notin Undoing
  BY <1>1, <1>2, Working DEF ProgressInv
<1>4. \A o \in Untouched' : o \in Untouched /\ opts'[o] = opts[o]
  BY <1>1 DEF Untouched, pveVars
<1>5. OpInv'
  BY <1>1, <1>3, <1>4, OpStays DEF IInv, pveVars, hostVars, NoneFirst
<1>6. Fits(journal)'
  BY <1>1, FitsKept DEF IInv, pveVars, hostVars
<1> QED
  BY <1>1, <1>5, <1>6 DEF IInv, TypeInv, pveVars, hostVars

\* The guardian puts one family's hooks first.
LEMMA MaintainGuardStep ==
    ASSUME IInv, NEW f \in Families, MaintainGuard(f)
    PROVE  IInv'
<1>1. UNCHANGED <<unit, sup, op, journal, pveVars, compiled, ufw, origin, touched>>
  BY DEF MaintainGuard, Keep
<1>2. guardian \in Guardians /\ guardian # NoGuardian /\ guardian' \in Guardians
  BY DEF MaintainGuard, NoGuardian, Guardians, IInv, TypeInv
<1>3. chain' \in [Families -> Hooks]
  <2>1. chain \in [Families -> Hooks] /\ chain[f] \in Hooks
    BY DEF IInv, TypeInv
  <2>2. PICK b : b = IF guardian.forward THEN Promoted(chain[f].forward) ELSE chain[f].forward
    OBVIOUS
  <2>3. b \in {"absent", "behind", "first"}
        /\ Promoted(chain[f].input) \in {"absent", "first", "middle", "tail"}
    BY <2>1, <2>2 DEF Promoted, Hooks
  <2>4. chain' = [chain EXCEPT ![f] =
                   [chain[f] EXCEPT !.input = Promoted(chain[f].input), !.forward = b]]
    BY <2>1, <2>2 DEF MaintainGuard, Hooks
  <2> QED
    BY <2>1, <2>3, <2>4 DEF Hooks
<1>4. origin # "retained" =>
        /\ journal.hooks # "none" /\ ~Early(journal)
        /\ AllowsIngressGuard(journal) \/ journal.phase = "rollback-pending"
  BY <1>2 DEF IInv, Fits, Clean
<1>5. Fits(journal)'
  BY <1>1, <1>4 DEF IInv, Fits, JournalOK, Valid, AllowsIngressGuard, Protected, RulesAre,
     Untouched, Clean, Early, UndoneBy, AtPreimage, pveVars
<1>6. op.pc \in {"tail", "promote", "finish"} => origin = "retained"
  BY <1>2, Working DEF ProgressInv
<1>7. \A o \in Untouched' : o \in Untouched /\ opts'[o] = opts[o]
  BY <1>1 DEF Untouched, pveVars
<1>8. OpInv'
  BY <1>1, <1>6, <1>7, OpStays DEF IInv, pveVars
<1> QED
  BY <1>1, <1>2, <1>3, <1>5, <1>8 DEF IInv, TypeInv, pveVars

\* pve-firewall appends a missing hook and never puts one first.
LEMMA CompilePVEStep == IInv /\ CompilePVE => IInv'
<1> SUFFICES ASSUME IInv, CompilePVE PROVE IInv'
  OBVIOUS
<1>1. UNCHANGED <<journal, pveVars, ufw, supVars, op, origin, touched>>
  BY DEF CompilePVE, Keep
<1>2. chain' \in [Families -> Hooks] /\ (NoneFirst => NoneFirst')
  BY DEF CompilePVE, Hooks, NoneFirst, IInv, TypeInv
<1>3. compiled' \subseteq Interfaces /\ ufw' \in UfwStates /\ op' \in Ops
  BY <1>1 DEF CompilePVE, IInv, TypeInv
<1>4. origin # "retained" /\ ~NoneFirst' => journal.hooks # "none" /\ ~Early(journal)
  BY <1>2 DEF IInv, Fits, Clean
<1>5. \A o \in Untouched' : o \in Untouched /\ opts'[o] = opts[o]
  BY <1>1 DEF Untouched, pveVars
<1>6. OpInv'
  BY <1>1, <1>2, <1>5, OpStays DEF IInv, pveVars, supVars
<1> QED
  BY <1>1, <1>2, <1>3, <1>4, <1>6, ChainStep

\* Another firewall manager displaces a hook.
LEMMA DisplaceStep ==
    ASSUME IInv, NEW f \in Families, Displace(f)
    PROVE  IInv'
<1>1. UNCHANGED <<journal, pveVars, compiled, ufw, supVars, op, origin, touched>>
  BY DEF Displace, Keep
<1>2. chain' \in [Families -> Hooks] /\ (NoneFirst => NoneFirst')
  BY DEF Displace, Hooks, NoneFirst, IInv, TypeInv
<1>3. compiled' \subseteq Interfaces /\ ufw' \in UfwStates /\ op' \in Ops
  BY <1>1 DEF IInv, TypeInv
<1>4. origin # "retained" /\ ~NoneFirst' => journal.hooks # "none" /\ ~Early(journal)
  BY <1>2 DEF IInv, Fits, Clean
<1>5. \A o \in Untouched' : o \in Untouched /\ opts'[o] = opts[o]
  BY <1>1 DEF Untouched, pveVars
<1>6. OpInv'
  BY <1>1, <1>2, <1>5, OpStays DEF IInv, pveVars, supVars
<1> QED
  BY <1>1, <1>2, <1>3, <1>4, <1>6, ChainStep

\* An administrator's option is promised by nobody from then on.
LEMMA ChangeOptionStep ==
    ASSUME IInv, NEW o \in Options, NEW v \in Values, ChangeOption(o, v)
    PROVE  IInv'
<1>1. /\ UNCHANGED <<journal, rules, hostVars, supVars, op, origin>>
      /\ opts' = [opts EXCEPT ![o] = v] /\ touched' = touched \cup {o}
  BY DEF ChangeOption, Keep
<1>2. opts' \in [Options -> Values] /\ touched' \subseteq Options
  BY <1>1 DEF IInv, TypeInv
<1>3. \A p \in Untouched' : p \in Untouched /\ opts'[p] = opts[p]
  BY <1>1 DEF Untouched, IInv, TypeInv
<1>4. Fits(journal)'
  BY <1>1, <1>3 DEF IInv, Fits, JournalOK, Valid, AllowsIngressGuard, Protected, RulesAre,
     Clean,
     Early, UndoneBy, NoneFirst, AtPreimage, hostVars, supVars
<1>5. OpInv'
  BY <1>1, <1>3, OpStays DEF IInv, hostVars, supVars, NoneFirst
<1> QED
  BY <1>1, <1>2, <1>4, <1>5 DEF IInv, TypeInv, hostVars, supVars

\* A command of the helper fails.
LEMMA CommandFailsStep == IInv /\ CommandFails => IInv'
BY FailOp, LookStep DEF CommandFails, Fail, Keep, worldVars

\* The batch that moves a hook fails, and the hooks are put first again.
LEMMA TailFailsStep == IInv /\ TailFails => IInv'
<1> SUFFICES ASSUME IInv, TailFails PROVE IInv'
  OBVIOUS
<1>1. op.pc = "tail" /\ op' = To("promote")
      /\ UNCHANGED <<journal, pveVars, hostVars, supVars, origin, touched>>
  BY DEF TailFails, At, Keep, worldVars
<1>2. PhaseInv /\ ProgressInv /\ op \in Ops /\ op.j = journal /\ JournalOK(journal)
  BY <1>1, Working
<1>3. /\ op' \in Ops /\ op'.pc = "promote"
      /\ op'.mode = op.mode /\ op'.j = op.j /\ op'.armed = op.armed
  BY <1>1, <1>2 DEF To, Ops, HelperSteps, RollbackSteps
<1>4. PhaseInv'
  BY <1>1, <1>2, <1>3 DEF PhaseInv, ActivateSteps, Guarding, Purging, Undoing
<1>5. ProgressInv'
  BY <1>1, <1>2, <1>3 DEF ProgressInv, Undoing, RulesAre, AtPreimage, Untouched, supVars,
     pveVars
<1> QED
  BY <1>1, <1>3, <1>4, <1>5, LookStep DEF OpInv

\* The helper is killed: only the journal is left, and it fits.
LEMMA KillStep == IInv /\ Kill => IInv'
BY Ended, LookStep DEF Kill, Keep

\* A reboot empties netfilter and takes every process away.
LEMMA RebootStep == IInv /\ Reboot => IInv'
<1> SUFFICES ASSUME IInv, Reboot PROVE IInv'
  OBVIOUS
<1>1. /\ UNCHANGED <<unit, ufw, journal, pveVars, origin, touched>>
      /\ op' = Idle /\ guardian' = NoGuardian /\ compiled' = {} /\ sup' \in {"off", "run"}
  BY DEF Reboot, Keep
<1>2. chain' \in [Families -> Hooks] /\ NoneFirst'
  BY DEF Reboot, Hooks, NoneFirst, UfwBoots
<1>3. Fits(journal)'
  BY <1>1, <1>2 DEF IInv, Fits, JournalOK, Valid, AllowsIngressGuard, Protected, RulesAre,
     Untouched, Clean, Early, UndoneBy, AtPreimage, pveVars
<1> QED
  BY <1>1, <1>2, <1>3, Ended, Blank DEF IInv, TypeInv, pveVars

-----------------------------------------------------------------------------
(***************************************************************************)
(* The inductive invariant.                                                *)
(***************************************************************************)

\* Every host the program may find fits its journal.
LEMMA InitIInv == Init => IInv
<1> SUFFICES ASSUME Init PROVE IInv
  OBVIOUS
<1>1. /\ unit = FALSE /\ sup = "off" /\ guardian = NoGuardian /\ op = Idle /\ touched = {}
      /\ OpInv /\ op \in Ops /\ guardian \in Guardians /\ Untouched = Options
  BY Blank DEF Init, OpInv, Untouched
<1>2. \A a \in {"absent", "first", "tail"}, b \in {"absent", "behind", "first"}, c \in BOOLEAN :
        /\ Placed(a, b, c) \in [Families -> Hooks]
        /\ \A f \in Families : Placed(a, b, c)[f].input = a
  BY DEF Placed, Hooks
<1>3. \A pre \in InitialOptions : pre \in [Options -> Values]
  BY FirewallAssumption DEF Values
<1>4. [o \in Options |-> "on"] \in [Options -> Values]
      /\ \A r \in RuleStates : [i \in Interfaces |-> r] \in [Interfaces -> RuleStates]
  BY DEF Values
<1>5. CASE /\ origin = "fresh" /\ journal = NoJournal
           /\ opts \in InitialOptions /\ rules = [i \in Interfaces |-> "absent"]
           /\ ufw \in {"active", "gone"} /\ compiled = {}
           /\ chain = IF opts["enable"] = "on" THEN Placed("tail", "behind", ufw = "active")
                      ELSE Placed("absent", "absent", ufw = "active")
  <2>1. chain \in [Families -> Hooks] /\ NoneFirst
    BY <1>2, <1>5 DEF NoneFirst
  <2>2. RulesAre("absent") /\ rules \in [Interfaces -> RuleStates]
    BY <1>4, <1>5 DEF RulesAre, RuleStates
  <2>3. Fits(journal)
    BY <1>1, <1>5, <2>1, <2>2 DEF Fits, NoJournal, AllowsIngressGuard, Clean, UndoneBy
  <2> QED
    BY <1>1, <1>3, <1>5, <2>1, <2>2, <2>3 DEF IInv, TypeInv, UfwStates
<1>6. CASE /\ origin = "retained" /\ journal = NoJournal
           /\ opts = [o \in Options |-> "on"] /\ rules = [i \in Interfaces |-> "enabled"]
           /\ ufw = "gone" /\ compiled = Interfaces
           /\ chain = Placed("first", "first", FALSE)
  <2>1. Fits(journal)
    BY <1>6 DEF Fits, NoJournal, AllowsIngressGuard
  <2>2. chain \in [Families -> Hooks] /\ rules \in [Interfaces -> RuleStates]
    BY <1>2, <1>4, <1>6 DEF RuleStates
  <2> QED
    BY <1>1, <1>4, <1>6, <2>1, <2>2 DEF IInv, TypeInv, UfwStates
<1>7. ASSUME opts = [o \in Options |-> "on"], rules = [i \in Interfaces |-> "enabled"]
      PROVE  Protected /\ opts \in [Options -> Values] /\ rules \in [Interfaces -> RuleStates]
  BY <1>1, <1>4, <1>7 DEF Protected, RulesAre, RuleStates
<1>8. CASE /\ origin = "uninstalled"
           /\ \E pre \in InitialOptions :
                journal = [phase |-> "uninstalled", ufw |-> "removed", hooks |-> "tail",
                           planned |-> TRUE, pre |-> pre]
           /\ opts = [o \in Options |-> "on"] /\ rules = [i \in Interfaces |-> "enabled"]
           /\ ufw = "gone" /\ compiled = Interfaces
           /\ chain = Placed("first", "first", FALSE)
  <2>1. /\ journal \in Journals /\ journal.phase = "uninstalled" /\ journal.ufw = "removed"
        /\ journal.hooks = "tail" /\ journal.planned /\ journal.pre \in [Options -> Values]
    BY <1>3, <1>8 DEF Journals, Phases
  <2>2. Fits(journal)
    BY <1>1, <1>7, <1>8, <2>1 DEF Fits, JournalOK, Valid, Clean, Early, UndoneBy
  <2>3. chain \in [Families -> Hooks]
    BY <1>2, <1>8
  <2> QED
    BY <1>1, <1>7, <1>8, <2>1, <2>2, <2>3 DEF IInv, TypeInv, UfwStates
<1>9. CASE /\ origin = "legacy"
           /\ \E pre \in InitialOptions :
                journal = [phase |-> "committed", ufw |-> "none", hooks |-> "none",
                           planned |-> TRUE, pre |-> pre]
           /\ opts = [o \in Options |-> "on"] /\ rules = [i \in Interfaces |-> "enabled"]
           /\ ufw \in {"active", "gone"} /\ compiled = Interfaces
           /\ chain = Placed("tail", "behind", ufw = "active")
  <2>1. /\ journal \in Journals /\ journal.phase = "committed" /\ journal.ufw = "none"
        /\ journal.hooks = "none" /\ journal.planned /\ journal.pre \in [Options -> Values]
    BY <1>3, <1>9 DEF Journals, Phases
  <2>2. chain \in [Families -> Hooks] /\ NoneFirst
    BY <1>2, <1>9 DEF NoneFirst
  <2>3. Fits(journal)
    BY <1>1, <1>7, <1>9, <2>1, <2>2 DEF Fits, JournalOK, Valid, Clean, Early, UndoneBy
  <2> QED
    BY <1>1, <1>7, <1>9, <2>1, <2>2, <2>3 DEF IInv, TypeInv, UfwStates
<1> QED
  BY <1>5, <1>6, <1>8, <1>9 DEF Init

\* Every step keeps the inductive invariant.
LEMMA NextIInv == IInv /\ [Next]_vars => IInv'
<1> SUFFICES ASSUME IInv, [Next]_vars PROVE IInv'
  OBVIOUS
<1>1. CASE Command
  BY <1>1, ClassifyStep, ActivateStep, ReconcileStep, RollbackStep DEF Command
<1>2. CASE \/ Reclaim \/ Dispatch \/ Prepare \/ Adopt \/ PrepareRefused
           \/ \E i \in Interfaces : CreateRule(i) \/ EnableRule(i) \/ RemoveOwnedRule(i)
           \/ RulesCreated \/ ApplyOptions \/ OptionsApplied \/ RulesEnabled
  BY <1>2, ReclaimStep, DispatchStep, PrepareStep, AdoptStep, PrepareRefusedStep,
     CreateRuleStep,
     EnableRuleStep, RemoveOwnedRuleStep, RulesCreatedStep, ReadClusterStep, WriteClusterStep,
     ReadNodeStep, WriteNodeStep, OptionsAppliedStep, RulesEnabledStep DEF ApplyOptions
<1>3. CASE \/ Snapshots \/ InputGuarded \/ EnablePersistence \/ VerifyEffective \/ Commit
           \/ \E f \in Families :
                \/ GuardInput(f) \/ GuardForward(f) \/ MoveToTail(f)
                \/ CleanupUFW("ufwclean", "ufwretire", f) \/ CleanupUFW("ufwreclean", "absent", f)
  BY <1>3, SnapshotsStep, InputGuardedStep, EnablePersistenceStep, VerifyEffectiveStep,
     CommitStep,
     GuardInputStep, GuardForwardStep, MoveToTailStep, CleanStep, RecleanStep
<1>4. CASE \/ SaveRemoving \/ CheckReplacement \/ UFWRefused \/ RetireUFW \/ VerifyUFWAbsent
           \/ SaveRemoved
  BY <1>4, SaveRemovingStep, CheckReplacementStep, UFWRefusedStep, RetireUFWStep,
     VerifyUFWAbsentStep, SaveRemovedStep
<1>5. CASE \/ BeginRollback \/ DisablePersistence \/ SaveRetained \/ RulesRemoved
           \/ RestoreOption \/ OptionsRestored \/ BeginUnhook \/ TailMoved \/ PromoteHooks
           \/ FinishRollback
  BY <1>5, BeginRollbackStep, DisablePersistenceStep, SaveRetainedStep, RulesRemovedStep,
     RestoreOptionStep, OptionsRestoredStep, BeginUnhookStep, TailMovedStep, PromoteHooksStep,
     FinishRollbackStep
<1>6. CASE Guardian
  BY <1>6, SuperviseStep, EnforceCommittedStep, RestartSupervisorStep, MaintainGuardStep DEF
     Guardian
<1>7. CASE Environment
  BY <1>7, CompilePVEStep, CommandFailsStep, TailFailsStep, KillStep, RebootStep, DisplaceStep,
     ChangeOptionStep DEF Environment
<1>8. CASE UNCHANGED vars
  <2>1. UNCHANGED <<journal, pveVars, hostVars, supVars, op, origin, touched>>
    BY <1>8 DEF vars
  <2>2. \A o \in Untouched' : o \in Untouched /\ opts'[o] = opts[o]
    BY <2>1 DEF Untouched, pveVars
  <2>3. OpInv' /\ op' \in Ops
    BY <2>1, <2>2, OpStays DEF IInv, TypeInv, pveVars, hostVars, supVars, NoneFirst
  <2> QED
    BY <2>1, <2>3, LookStep
<1> QED
  BY <1>1, <1>2, <1>3, <1>4, <1>5, <1>6, <1>7, <1>8 DEF Next, Step

\* IInv is an invariant of the transaction.
THEOREM Invariant == Spec => []IInv
BY InitIInv, NextIInv, PTL DEF Spec

\* The journal on disk tells the truth in every state, whatever crashed: see
\* JournalTellsTruth.
THEOREM TruthTold == Spec => []JournalTellsTruth
<1>1. IInv => JournalTellsTruth
  <2> SUFFICES ASSUME IInv PROVE JournalTellsTruth
    OBVIOUS
  <2>1. TypeOK
    <3>1. guardian.left \subseteq Families /\ op.j \in Journals \cup {NoJournal}
          /\ op.drift \in BOOLEAN
      BY DEF IInv, TypeInv, Guardians, Ops
    <3> QED
      BY <3>1 DEF IInv, TypeInv, TypeOK, Hooks
  <2>2. journal.phase = "committed" =>
          /\ RulesAre("enabled") /\ \A o \in Options \ touched : opts[o] = "on"
          /\ journal.hooks # "none" \/ origin = "legacy"
    BY DEF IInv, Fits, JournalOK, NoJournal, AllowsIngressGuard, Protected, Untouched
  <2>3. origin # "retained" /\ (\E f \in Families : chain[f].input = "first")
          => journal.hooks # "none"
    BY DEF IInv, Fits, Clean, NoneFirst
  <2> QED
    BY <2>1, <2>2, <2>3 DEF JournalTellsTruth
<1> QED
  BY <1>1, Invariant, PTL

\* A rollback that says it is done has undone everything: see RollbackExact.
THEOREM UndoneExactly == Spec => []RollbackExact
<1>1. IInv => RollbackExact
  BY DEF IInv, Fits, Clean, Early, UndoneBy, RollbackExact, Undone, AtPreimage, Untouched,
     NoneFirst
<1> QED
  BY <1>1, Invariant, PTL

-----------------------------------------------------------------------------
(***************************************************************************)
(* What a step may do.  Most steps touch neither configuration nor hooks   *)
(* nor UFW; the others are few, and the step of the helper that each needs *)
(* says what the journal on disk is then.                                  *)
(***************************************************************************)
RuleMove == \E i \in Interfaces : CreateRule(i) \/ EnableRule(i) \/ RemoveOwnedRule(i)
OptionMove ==
  \/ WriteOptions("setcluster", ClusterOptions, "node") \/ WriteOptions("setnode", {"node"}, "applied")
  \/ RestoreOption
Promotion ==
  \/ \E f \in Families : GuardInput(f) \/ GuardForward(f) \/ MaintainGuard(f)
  \/ BeginUnhook \/ PromoteHooks \/ CompilePVE
UFWMove ==
  \/ \E f \in Families :
       CleanupUFW("ufwclean", "ufwretire", f) \/ CleanupUFW("ufwreclean", "absent", f)
  \/ CheckReplacement \/ RetireUFW
Demotion == \E f \in Families : MoveToTail(f)
Outside ==
  \/ Reboot \/ \E f \in Families : Displace(f)
  \/ \E o \in Options, v \in Values : ChangeOption(o, v)

\* The two counters that tell others' acts from the program's.
Counters == meddles \in Nat /\ crashes \in Nat

\* Every step that changes configuration, hooks or UFW is one of these.
LEMMA Movers ==
    ASSUME [Next]_vars
    PROVE  \/ UNCHANGED <<opts, rules, chain, ufw>>
           \/ RuleMove \/ OptionMove \/ Promotion \/ UFWMove \/ Demotion \/ Outside
<1> USE DEF Keep, worldVars, pveVars, hostVars
<1>1. CASE Command
  BY <1>1 DEF Command, Classify, Activate, ReconcileCommitted, Rollback
<1>2. CASE Reclaim \/ Dispatch \/ Prepare \/ Adopt \/ PrepareRefused \/ RulesCreated \/ OptionsApplied
           \/ RulesEnabled \/ Snapshots \/ InputGuarded \/ EnablePersistence \/ VerifyEffective
           \/ Commit
  BY <1>2 DEF Reclaim, Dispatch, Prepare, Adopt, PrepareRefused, RulesCreated, OptionsApplied,
     RulesEnabled, Snapshots, InputGuarded, EnablePersistence, VerifyEffective, Commit
<1>3. CASE SaveRemoving \/ UFWRefused \/ VerifyUFWAbsent \/ SaveRemoved \/ BeginRollback
           \/ DisablePersistence \/ SaveRetained \/ RulesRemoved \/ OptionsRestored \/ TailMoved
           \/ FinishRollback
  BY <1>3 DEF SaveRemoving, UFWRefused, VerifyUFWAbsent, SaveRemoved, BeginRollback,
     DisablePersistence, SaveRetained, RulesRemoved, OptionsRestored, TailMoved, FinishRollback
<1>4. CASE ApplyOptions
  BY <1>4 DEF ApplyOptions, ReadOptions, OptionMove
<1>5. CASE \/ \E i \in Interfaces : CreateRule(i) \/ EnableRule(i) \/ RemoveOwnedRule(i)
           \/ \E f \in Families :
                \/ GuardInput(f) \/ GuardForward(f) \/ MoveToTail(f)
                \/ CleanupUFW("ufwclean", "ufwretire", f) \/ CleanupUFW("ufwreclean", "absent", f)
           \/ CheckReplacement \/ RetireUFW \/ RestoreOption \/ BeginUnhook \/ PromoteHooks
  BY <1>5 DEF RuleMove, OptionMove, Promotion, UFWMove, Demotion
<1>6. CASE Guardian
  BY <1>6 DEF Guardian, Supervise, EnforceCommitted, BeginGuard, RestartSupervisor, Promotion
<1>7. CASE Environment
  BY <1>7 DEF Environment, CommandFails, TailFails, Kill, Promotion, Outside
<1>8. CASE UNCHANGED vars
  BY <1>8 DEF vars
<1> QED
  BY <1>1, <1>2, <1>3, <1>4, <1>5, <1>6, <1>7, <1>8 DEF Next, Step

\* Only others' acts are counted as such.
LEMMA Counting ==
    ASSUME Counters, [Next]_vars
    PROVE  Counters' /\ (Outside => ~Own)
<1> USE DEF Keep, worldVars, boundVars
<1>1. ASSUME UNCHANGED <<meddles, crashes>>, ~Outside PROVE Counters' /\ (Outside => ~Own)
  BY <1>1 DEF Counters
<1>2. CASE Outside
  <2>1. \/ crashes' = crashes + 1 /\ meddles' = meddles
        \/ meddles' = meddles + 1 /\ crashes' = crashes
    BY <1>2 DEF Outside, Reboot, Displace, ChangeOption
  <2> QED
    BY <2>1 DEF Counters, Own
<1>3. CASE ~Outside
  <2>1. CASE Command
    BY <1>1, <1>3, <2>1 DEF Command, Classify, Activate, ReconcileCommitted, Rollback
  <2>2. CASE Reclaim \/ Dispatch \/ Prepare \/ Adopt \/ PrepareRefused \/ RulesCreated
             \/ OptionsApplied \/ RulesEnabled \/ Snapshots \/ InputGuarded \/ EnablePersistence
             \/ VerifyEffective \/ Commit
    BY <1>1, <1>3, <2>2 DEF Reclaim, Dispatch, Prepare, Adopt, PrepareRefused, RulesCreated,
       OptionsApplied, RulesEnabled, Snapshots, InputGuarded, EnablePersistence, VerifyEffective,
       Commit
  <2>3. CASE SaveRemoving \/ UFWRefused \/ VerifyUFWAbsent \/ SaveRemoved \/ BeginRollback
             \/ DisablePersistence \/ SaveRetained \/ RulesRemoved \/ OptionsRestored \/ TailMoved
             \/ FinishRollback
    BY <1>1, <1>3, <2>3 DEF SaveRemoving, UFWRefused, VerifyUFWAbsent, SaveRemoved,
       BeginRollback,
       DisablePersistence, SaveRetained, RulesRemoved, OptionsRestored, TailMoved, FinishRollback
  <2>4. CASE ApplyOptions \/ RestoreOption
    BY <1>1, <1>3, <2>4 DEF ApplyOptions, ReadOptions, WriteOptions, RestoreOption
  <2>5. CASE \/ \E i \in Interfaces : CreateRule(i) \/ EnableRule(i) \/ RemoveOwnedRule(i)
             \/ \E f \in Families :
                  \/ GuardInput(f) \/ GuardForward(f) \/ MoveToTail(f)
                  \/ CleanupUFW("ufwclean", "ufwretire", f) \/ CleanupUFW("ufwreclean", "absent", f)
             \/ CheckReplacement \/ RetireUFW \/ BeginUnhook \/ PromoteHooks
    BY <1>1, <1>3, <2>5 DEF CreateRule, EnableRule, RemoveOwnedRule, GuardInput, GuardForward,
       MoveToTail, CleanupUFW, CheckReplacement, RetireUFW, BeginUnhook, PromoteHooks
  <2>6. CASE Guardian
    BY <1>1, <1>3, <2>6 DEF Guardian, Supervise, EnforceCommitted, BeginGuard,
       RestartSupervisor,
       MaintainGuard
  <2>7. CASE Kill
    BY <1>3, <2>7 DEF Kill, Counters
  <2>8. CASE CompilePVE \/ CommandFails \/ TailFails
    BY <1>1, <1>3, <2>8 DEF CompilePVE, CommandFails, TailFails
  <2>9. CASE UNCHANGED vars
    BY <1>1, <1>3, <2>9 DEF vars
  <2> QED
    BY <1>3, <2>1, <2>2, <2>3, <2>4, <2>5, <2>6, <2>7, <2>8, <2>9
       DEF Next, Step, Environment, Outside
<1> QED
  BY <1>2, <1>3

\* The counters count.
LEMMA Counted == Spec => []Counters
<1>1. Init => Counters
  BY DEF Init, Counters
<1>2. Counters /\ [Next]_vars => Counters'
  BY Counting
<1> QED
  BY <1>1, <1>2, PTL DEF Spec

\* A rule is written only in a phase before the rules are enabled or in a
\* rollback; an enabled one is weakened only in a rollback.
LEMMA RuleMoves ==
    ASSUME IInv, RuleMove
    PROVE  /\ UNCHANGED <<opts, chain, ufw>>
           /\ \/ journal.phase = "rollback-pending"
              \/ \A i \in Interfaces : rules[i] = "enabled" => rules'[i] = "enabled"
<1>1. PICK i \in Interfaces : CreateRule(i) \/ EnableRule(i) \/ RemoveOwnedRule(i)
  BY DEF RuleMove
<1>2. UNCHANGED <<opts, chain, ufw>> /\ rules \in [Interfaces -> RuleStates]
  BY <1>1 DEF CreateRule, EnableRule, RemoveOwnedRule, Keep, hostVars, IInv, TypeInv
<1>3. CASE CreateRule(i) \/ EnableRule(i)
  BY <1>2, <1>3 DEF CreateRule, EnableRule, Keep
<1>4. CASE RemoveOwnedRule(i)
  <2>1. op.pc = "remove"
    BY <1>4 DEF RemoveOwnedRule, At
  <2>2. journal.phase = "rollback-pending"
    BY <2>1, Working DEF PhaseInv, Undoing
  <2> QED
    BY <1>2, <2>2
<1> QED
  BY <1>1, <1>2, <1>3, <1>4

\* An option is written only before the rules are enabled or in a rollback,
\* and only over PPFlight's value or the preimage.
LEMMA OptionMoves ==
    ASSUME IInv, OptionMove
    PROVE  /\ UNCHANGED <<rules, chain, ufw>>
           /\ journal.phase \in {"rules-disabled", "rollback-pending"} \/ opts' = opts
           /\ \A o \in Options : opts'[o] # opts[o] => opts[o] \in {"on", journal.pre[o]}
<1>0. opts \in [Options -> Values]
  BY DEF IInv, TypeInv
<1>1. CASE WriteOptions("setcluster", ClusterOptions, "node")
  <2>1. op.pc = "setcluster" /\ UNCHANGED <<rules, chain, ufw>>
    BY <1>1 DEF WriteOptions, At, Keep, hostVars
  <2>2. /\ op.j = journal /\ journal.phase = "rules-disabled"
        /\ \A o \in ClusterOptions : op.seen[o] \in {"on", op.j.pre[o]}
    BY <2>1, Working DEF PhaseInv, ProgressInv
  <2>3. \/ opts' = opts
        \/ /\ Unchanged(ClusterOptions)
           /\ opts' = [o \in Options |-> IF o \in ClusterOptions THEN "on" ELSE opts[o]]
    BY <1>1 DEF WriteOptions, Keep
  <2> QED
    BY <1>0, <2>1, <2>2, <2>3 DEF Unchanged
<1>2. CASE WriteOptions("setnode", {"node"}, "applied")
  <2>1. op.pc = "setnode" /\ UNCHANGED <<rules, chain, ufw>>
    BY <1>2 DEF WriteOptions, At, Keep, hostVars
  <2>2. /\ op.j = journal /\ journal.phase = "rules-disabled"
        /\ op.seen["node"] \in {"on", op.j.pre["node"]}
    BY <2>1, Working DEF PhaseInv, ProgressInv
  <2>3. \/ opts' = opts
        \/ /\ Unchanged({"node"})
           /\ opts' = [o \in Options |-> IF o \in {"node"} THEN "on" ELSE opts[o]]
    BY <1>2 DEF WriteOptions, Keep
  <2> QED
    BY <1>0, <2>1, <2>2, <2>3 DEF Unchanged
<1>3. CASE RestoreOption
  <2>1. op.pc \in {"restore", "rewrite"} /\ op.left # {} /\ UNCHANGED <<rules, chain, ufw>>
    BY <1>3 DEF RestoreOption, At, Keep, hostVars
  <2>2. /\ op.j = journal /\ journal.phase = "rollback-pending" /\ op.left \subseteq Options
        /\ op.pc = "rewrite" => op.seen[NextOption] = "on"
    BY <2>1, Working DEF PhaseInv, ProgressInv, Undoing
  <2>3. PICK o : o = NextOption
    OBVIOUS
  <2>4. o \in Options
    BY <2>1, <2>2, <2>3, NextIsLeft
  <2>5. PICK group : group = IF o = "node" THEN {o} ELSE ClusterOptions
    OBVIOUS
  <2>6. o \in group
    BY <2>4, <2>5 DEF Options, ClusterOptions
  <2>7. \/ opts' = opts
        \/ op.pc = "rewrite" /\ Unchanged(group) /\ opts' = [opts EXCEPT ![o] = op.j.pre[o]]
    BY <1>3, <2>3, <2>5 DEF RestoreOption, At, Keep
  <2>8. op.pc = "rewrite" /\ Unchanged(group) => opts[o] = "on"
    BY <2>2, <2>3, <2>6 DEF Unchanged
  <2> QED
    BY <1>0, <2>1, <2>2, <2>4, <2>7, <2>8
<1> QED
  BY <1>1, <1>2, <1>3 DEF OptionMove

\* These steps put hooks first, or pve-firewall takes them away altogether.
LEMMA Promotions ==
    ASSUME IInv, Promotion
    PROVE  /\ UNCHANGED <<opts, rules, ufw>>
           /\ \A f \in Families : /\ chain[f].input = "first" => chain'[f].input \in {"first", "absent"}
                                  /\ chain'[f].ufw = chain[f].ufw
<1>0. chain \in [Families -> Hooks]
  BY DEF IInv, TypeInv
<1>1. UNCHANGED <<opts, rules, ufw>>
  BY DEF Promotion, GuardInput, GuardForward, MaintainGuard, BeginUnhook, PromoteHooks,
     CompilePVE,
     Keep, pveVars, hostVars
<1>2. ASSUME NEW g \in Families, GuardInput(g) \/ GuardForward(g)
      PROVE  \A f \in Families :
               /\ chain[f].input = "first" => chain'[f].input \in {"first", "absent"}
               /\ chain'[f].ufw = chain[f].ufw
  BY <1>0, <1>2 DEF GuardInput, GuardForward, Keep, Hooks
<1>3. ASSUME NEW g \in Families, MaintainGuard(g)
      PROVE  \A f \in Families :
               /\ chain[f].input = "first" => chain'[f].input \in {"first", "absent"}
               /\ chain'[f].ufw = chain[f].ufw
  <2>1. PICK b : b = IF guardian.forward THEN Promoted(chain[g].forward) ELSE chain[g].forward
    OBVIOUS
  <2>2. chain' = [chain EXCEPT ![g] =
                   [chain[g] EXCEPT !.input = Promoted(chain[g].input), !.forward = b]]
    BY <1>0, <1>3, <2>1 DEF MaintainGuard, Hooks
  <2> QED
    BY <1>0, <2>2 DEF Hooks, Promoted
<1>4. CASE BeginUnhook
  <2>1. chain' = chain \/ \E g \in Families : chain' = [chain EXCEPT ![g].input = "first"]
    BY <1>4 DEF BeginUnhook, Keep
  <2> QED
    BY <1>0, <1>1, <2>1 DEF Hooks
<1>5. CASE PromoteHooks
  BY <1>0, <1>1, <1>5 DEF PromoteHooks, Hooks
<1>6. CASE CompilePVE
  BY <1>0, <1>1, <1>6 DEF CompilePVE, Hooks
<1> QED
  BY <1>1, <1>2, <1>3, <1>4, <1>5, <1>6 DEF Promotion

\* UFW is taken away only while the journal on disk is committed and says that
\* its removal has begun.
LEMMA UFWMoves ==
    ASSUME IInv, UFWMove
    PROVE  /\ UNCHANGED <<opts, rules>>
           /\ \A f \in Families : chain'[f].input = chain[f].input
           /\ journal.phase = "committed" /\ journal.ufw = "removing" /\ Protected
<1>0. chain \in [Families -> Hooks]
  BY DEF IInv, TypeInv
<1>1. op.pc \in Purging /\ UNCHANGED <<opts, rules>>
  BY DEF UFWMove, CleanupUFW, CheckReplacement, RetireUFW, At, Keep, pveVars, Purging
<1>2. journal.phase = "committed" /\ journal.ufw = "removing"
  BY <1>1, Working DEF PhaseInv, Purging
<1>3. Protected
  BY <1>2 DEF IInv, Fits, AllowsIngressGuard
<1>4. \/ chain' = chain
      \/ \E g \in Families : chain' = [chain EXCEPT ![g].ufw = FALSE, ![g].forward = "first"]
  BY DEF UFWMove, CleanupUFW, CheckReplacement, RetireUFW, Keep
<1>5. \A f \in Families : chain'[f].input = chain[f].input
  <2>1. ASSUME NEW g \in Families,
               chain' = [chain EXCEPT ![g].ufw = FALSE, ![g].forward = "first"]
        PROVE  \A f \in Families : chain'[f].input = chain[f].input
    <3>1. chain' = [chain EXCEPT ![g] = [chain[g] EXCEPT !.ufw = FALSE, !.forward = "first"]]
      BY <1>0, <2>1 DEF Hooks
    <3> QED
      BY <1>0, <3>1 DEF Hooks
  <2> QED
    BY <1>4, <2>1
<1> QED
  BY <1>1, <1>2, <1>3, <1>5

\* A hook is handed back only by a rollback that has removed every rule and
\* stopped the supervisor.
LEMMA Demotions ==
    ASSUME IInv, Demotion
    PROVE  /\ UNCHANGED <<opts, rules, ufw>>
           /\ \A f \in Families : chain'[f].ufw = chain[f].ufw
           /\ RulesAre("absent") /\ sup = "off" /\ journal.phase = "rollback-pending"
<1>0. chain \in [Families -> Hooks]
  BY DEF IInv, TypeInv
<1>1. op.pc = "tail" /\ UNCHANGED <<opts, rules, ufw>>
  BY DEF Demotion, MoveToTail, At, Keep, pveVars
<1>2. RulesAre("absent") /\ sup = "off" /\ journal.phase = "rollback-pending"
  BY <1>1, Working DEF PhaseInv, ProgressInv, Undoing
<1>3. chain' = chain \/ \E g \in Families : chain' = [chain EXCEPT ![g].input = "tail"]
  BY DEF Demotion, MoveToTail, Keep
<1>4. \A f \in Families : chain'[f].ufw = chain[f].ufw
  BY <1>0, <1>3 DEF Hooks
<1> QED
  BY <1>1, <1>2, <1>4

\* Nobody else puts a hook at the tail from the first place.
LEMMA OutsideMoves ==
    ASSUME IInv, Outside, NEW f \in Families, chain[f].input = "first"
    PROVE  chain'[f].input # "tail"
<1>0. chain \in [Families -> Hooks]
  BY DEF IInv, TypeInv
<1>1. CASE Reboot
  BY <1>1 DEF Reboot
<1>2. ASSUME NEW g \in Families, Displace(g) PROVE chain'[f].input # "tail"
  BY <1>0, <1>2 DEF Displace, Hooks
<1>3. ASSUME NEW o \in Options, NEW v \in Values, ChangeOption(o, v) PROVE chain'[f].input # "tail"
  BY <1>3 DEF ChangeOption, Keep, hostVars
<1> QED
  BY <1>1, <1>2, <1>3 DEF Outside

\* Once UFW's removal is in the journal the program weakens nothing, through
\* every crash, retry, rollback and uninstallation: see NoWayBack.
THEOREM ProtectionStays == Spec => NoWayBack
<1> DEFINE Kept ==
      Own /\ journal.ufw # "none"
       => /\ opts' = opts
          /\ \A i \in Interfaces : rules[i] = "enabled" => rules'[i] = "enabled"
          /\ \A f \in Families : chain[f].input = "first" => chain'[f].input \in {"first", "absent"}
<1>1. IInv /\ Counters /\ [Next]_vars => Kept
  <2> SUFFICES ASSUME IInv, Counters, [Next]_vars, Own, journal.ufw # "none"
               PROVE  /\ opts' = opts
                      /\ \A i \in Interfaces : rules[i] = "enabled" => rules'[i] = "enabled"
                      /\ \A f \in Families :
                           chain[f].input = "first" => chain'[f].input \in {"first", "absent"}
    BY DEF Kept
  <2>1. journal.phase \notin {"rules-disabled", "rollback-pending"}
    BY DEF IInv, Fits, JournalOK, NoJournal
  <2>2. \/ UNCHANGED <<opts, rules, chain, ufw>>
        \/ RuleMove \/ OptionMove \/ Promotion \/ UFWMove
    BY <2>1, Movers, Counting, Demotions
  <2> QED
    BY <2>1, <2>2, RuleMoves, OptionMoves, Promotions, UFWMoves
<1> QED
  BY <1>1, Invariant, Counted, PTL DEF Spec, NoWayBack

\* An option an administrator set survives the program's writing: see
\* AdminPreserved.
THEOREM AdminKept == Spec => AdminPreserved
<1> DEFINE Kept ==
      Own => \A o \in Options : opts'[o] # opts[o] => opts[o] \in {"on", journal.pre[o]}
<1>1. IInv /\ Counters /\ [Next]_vars => Kept
  BY Movers, Counting, RuleMoves, OptionMoves, Promotions, UFWMoves, Demotions
<1> QED
  BY <1>1, Invariant, Counted, PTL DEF Spec, AdminPreserved

\* Protections are exchanged in order, UFW last and the hooks last: see
\* HandoverOrder.
THEOREM HandedOver == Spec => HandoverOrder
<1> DEFINE UFWLast ==
      Own /\ (ufw' # ufw \/ \E f \in Families : chain[f].ufw /\ ~chain'[f].ufw)
          => /\ journal.phase = "committed" /\ journal.ufw = "removing"
             /\ RulesAre("enabled") /\ \A o \in Options \ touched : opts[o] = "on"
    HooksLast ==
      (\E f \in Families : chain[f].input = "first" /\ chain'[f].input = "tail")
          => RulesAre("absent") /\ sup = "off" /\ journal.phase = "rollback-pending"
<1>1. IInv /\ Counters /\ [Next]_vars => UFWLast
  <2> SUFFICES ASSUME IInv, Counters, [Next]_vars, Own,
                      ufw' # ufw \/ \E f \in Families : chain[f].ufw /\ ~chain'[f].ufw
               PROVE  /\ journal.phase = "committed" /\ journal.ufw = "removing"
                      /\ RulesAre("enabled") /\ \A o \in Options \ touched : opts[o] = "on"
    OBVIOUS
  <2>1. UFWMove
    BY Movers, Counting, RuleMoves, OptionMoves, Promotions, Demotions
  <2> QED
    BY <2>1, UFWMoves DEF Protected, Untouched
<1>2. IInv /\ [Next]_vars => HooksLast
  <2> SUFFICES ASSUME IInv, [Next]_vars,
                      NEW f \in Families, chain[f].input = "first", chain'[f].input = "tail"
               PROVE  RulesAre("absent") /\ sup = "off" /\ journal.phase = "rollback-pending"
    OBVIOUS
  <2>1. Demotion
    BY Movers, RuleMoves, OptionMoves, Promotions, UFWMoves, OutsideMoves
  <2> QED
    BY <2>1, Demotions
<1> QED
  BY <1>1, <1>2, Invariant, Counted, PTL DEF Spec, HandoverOrder
=============================================================================
