------------------------ MODULE UpgradeHandoffProofs ------------------------
(***************************************************************************)
(* What holds of one agent.upgrade for every number of deaths of the two   *)
(* processes and of failing result files.                                  *)
(*                                                                         *)
(* The three properties that TLC checks of UpgradeHandoff are consequences *)
(* of the invariant IInv, whose parts say what each step of the helper may *)
(* rely on when it is entered: nothing the helper does after a crash can   *)
(* be trusted to its memory, so every part is about what is on disk.       *)
(***************************************************************************)
EXTENDS UpgradeHandoff, TLAPS

Whys == {"none", "handoff", "verify", "check", "install", "postflight", "rotate"}

TypeInv ==
  /\ TypeOK
  /\ helper \in [pc : HelperSteps, version : Versions, why : Whys]
  /\ kills \in Nat /\ faults \in Nat

\* The helper is in the middle of a request.
Working == helper.pc \notin {"idle", "cleanup"}

\* The journal shows the command handed over, or the helper has answered.
Handed == record \in {"submitted", "waiting"} \/ result # "none"

\* The agent's worker owns the record until it is submitted, and what
\* reconciliation has read is what is in the result file.
AgentInv ==
  /\ agent.pc \in {"prepare", "complete"} => record = "running"
  /\ agent.pc = "record" =>
       /\ record \in {"submitted", "waiting"} /\ agent.read # "none"
       /\ agent.read # "pending" => result # "none" /\ (faults = 0 => agent.read = result)
  /\ faults = 0 /\ record = "succeeded" => result = "succeeded"

\* Nothing of the host changes, and no helper works, before the handoff.
HandoffInv ==
  \/ Handed
  \/ /\ request # "request" /\ helper.pc = "idle"
     /\ installed = "old" /\ key = "old" /\ ~firewall

\* The binary: from the replacement on the candidate is installed, the old
\* binary is in the backup, and a rollback has put it back.
BinaryInv ==
  /\ backup \in {"none", "old"}
  /\ installed = "new" => backup = "old"
  /\ helper.pc \in {"replace", "restart", "health", "restore"} => backup = "old"
  /\ helper.pc \in {"restart", "health", "postflight", "stage", "restartKey",
                    "healthKey", "save", "unrotate", "restartUnrotated"} => installed = "new"
  /\ helper.pc \in {"rollbackRestart", "rollbackHealth", "rolledBack"} => installed = "old"
  /\ helper.pc \in {"postflight", "stage", "restartKey", "healthKey", "save",
                    "unrotate", "restartUnrotated"} => upgrade.healthy
  /\ helper.pc \in {"stage", "restartKey", "healthKey", "save",
                    "unrotate", "restartUnrotated"} => firewall

\* The signing key: old until it is staged, new until it is put back.
KeyInv ==
  /\ key = "new" => upgrade.rotates
  /\ helper.pc \in {"stage", "restartKey", "healthKey", "unrotate", "restartUnrotated"} =>
       upgrade.rotates
  /\ helper.pc \in {"check", "backup", "replace", "restart", "health", "postflight", "stage",
                    "restore", "rollbackRestart", "rollbackHealth", "rolledBack"} => key = "old"
  /\ helper.pc \in {"restartKey", "healthKey", "unrotate"} => key = "new"
  /\ helper.pc = "save" /\ upgrade.rotates => key = "new"

\* A helper at work has no result yet, except a success whose file was
\* written although its write reported an error.
ResultInv ==
  /\ Working => result \in {"none", "succeeded"}
  /\ Working /\ result = "succeeded" =>
       faults > 0 /\ helper.pc \in {"unrotate", "restartUnrotated", "failing"}
  /\ result = "rolledBack" => installed = "old" /\ key = "old"
  /\ faults = 0 /\ result = "succeeded" =>
       /\ installed = "new" /\ upgrade.healthy /\ firewall
       /\ upgrade.rotates => key = "new"

\* While nobody kills the helper, an unhealthy binary and an unconfirmed key
\* are only there at the steps that still undo them.
UndoInv ==
  kills = 0 =>
    /\ installed = "new" /\ ~upgrade.healthy => helper.pc \in {"restart", "health", "restore"}
    /\ key = "new" => \/ helper.pc \in {"restartKey", "healthKey", "save", "unrotate"}
                      \/ ~Working /\ result = "succeeded"

IInv == TypeInv /\ AgentInv /\ HandoffInv /\ BinaryInv /\ KeyInv /\ ResultInv /\ UndoInv


-----------------------------------------------------------------------------
(* The invariant is preserved, action by action.                           *)

\* A command just claimed, with nothing prepared, satisfies the invariant.
LEMMA InitIInv == Init => IInv
  <1> SUFFICES ASSUME Init PROVE IInv
    OBVIOUS
  <1> USE DEF Init, IdleHelper, Upgrades, Versions
  <1>1. TypeInv
    BY DEF TypeInv, TypeOK, Whys, RecordStates, Resolutions, HelperSteps
  <1>2. AgentInv /\ HandoffInv /\ BinaryInv /\ KeyInv
    BY DEF AgentInv, HandoffInv, Handed, BinaryInv, KeyInv
  <1>3. ResultInv /\ UndoInv
    BY DEF ResultInv, UndoInv, Working
  <1> QED
    BY <1>1, <1>2, <1>3 DEF IInv

\* Where the helper is after Fail(why).
LEMMA FailStep ==
  ASSUME NEW why \in Whys, TypeInv, Fail(why)
  PROVE  /\ helper' \in [pc : HelperSteps, version : Versions, why : Whys]
         /\ helper'.pc = "failing" /\ helper'.version = helper.version
  BY DEF TypeInv, Fail, HelperSteps

\* The agent's own steps (Prepare, ReconcileOnce) keep the invariant.
LEMMA AgentStepIInv == IInv /\ AgentStep => IInv'
  <1> SUFFICES ASSUME IInv, AgentStep PROVE IInv'
    OBVIOUS
  <1> USE DEF IInv, TypeInv, TypeOK, AgentInv, HandoffInv, Handed, BinaryInv, KeyInv,
              ResultInv, UndoInv, Working, Upgrades, Versions, RecordStates, Resolutions,
              boundVars
  <1> UNCHANGED upgrade
    BY DEF AgentStep
  <1>1. CASE Prepare
    BY <1>1 DEF Prepare
  <1>2. CASE PrepareFails
    BY <1>2 DEF PrepareFails
  <1>3. CASE Complete
    BY <1>3 DEF Complete
  <1>4. CASE ResolveUpgrade
    BY <1>4 DEF ResolveUpgrade
  <1>5. CASE CompleteSubmitted
    BY <1>5 DEF CompleteSubmitted, ReceiptState
  <1> QED
    BY <1>1, <1>2, <1>3, <1>4, <1>5 DEF AgentStep

\* Every step of the root helper keeps the invariant, whichever way it ends.
LEMMA HelperStepIInv == IInv /\ HelperStep => IInv'
  <1> SUFFICES ASSUME IInv, HelperStep PROVE IInv'
    OBVIOUS
  <1> USE DEF IInv, TypeInv, TypeOK, AgentInv, HandoffInv, Handed, BinaryInv, KeyInv,
              ResultInv, UndoInv, Working, Upgrades, Versions, RecordStates, Resolutions,
              boundVars, diskVars, HelperSteps, Whys
  <1> UNCHANGED upgrade
    BY DEF HelperStep
  <1>1. CASE HelperStart
    BY <1>1 DEF HelperStart, IdleHelper
  <1>2. CASE Validate
    BY <1>2 DEF Validate, Go
  <1>3. CASE HandoffTimeout
    BY <1>3, FailStep DEF HandoffTimeout
  <1>4. CASE ValidateFails
    BY <1>4, FailStep DEF ValidateFails
  <1>5. CASE Check
    BY <1>5, FailStep DEF Check, Go
  <1>6. CASE Backup
    BY <1>6 DEF Backup, Go
  <1>7. CASE Replace
    BY <1>7, FailStep DEF Replace, Go
  <1>8. CASE Restart
    BY <1>8 DEF Restart, RestartService, Restarted, Go
  <1>9. CASE HealthCheck
    BY <1>9 DEF HealthCheck, WaitForStatus, Passes, AgentRuns, Go
  <1>10. CASE Postflight
    <2>1. CASE firewall' = TRUE /\ upgrade.rotates /\ Go("stage")
      BY <1>10, <2>1 DEF Postflight, Go
    <2>2. CASE firewall' = TRUE /\ ~upgrade.rotates /\ Go("save")
      BY <1>10, <2>2 DEF Postflight, Go
    <2>3. CASE Fail("postflight") /\ UNCHANGED firewall
      BY <1>10, <2>3, FailStep DEF Postflight
    <2> QED
      BY <1>10, <2>1, <2>2, <2>3 DEF Postflight
  <1>11. CASE Stage
    BY <1>11, FailStep DEF Stage, Go
  <1>12. CASE RestartKey
    BY <1>12 DEF RestartKey, RestartService, Restarted, Go
  <1>13. CASE HealthKey
    BY <1>13 DEF HealthKey, WaitForStatus, Passes, AgentRuns, Go
  <1>14. CASE Unrotate
    BY <1>14 DEF Unrotate, Go
  <1>15. CASE RestartUnrotated
    BY <1>15 DEF RestartUnrotated, RestartService, Restarted, Go
  <1>16. CASE SaveSuccess
    BY <1>16 DEF SaveSuccess, Go
  <1>17. CASE Cleanup
    BY <1>17 DEF Cleanup, IdleHelper
  <1>18. CASE Restore
    BY <1>18 DEF Restore, Go
  <1>19. CASE RollbackRestart
    BY <1>19 DEF RollbackRestart, RestartService, Restarted, Go
  <1>20. CASE RollbackHealth
    BY <1>20 DEF RollbackHealth, WaitForStatus, Passes, AgentRuns, Go
  <1>21. CASE WriteFailed
    BY <1>21 DEF WriteFailed, WriteResult, Go, IdleHelper
  <1>22. CASE WriteRolledBack
    BY <1>22 DEF WriteRolledBack, WriteResult, Go, IdleHelper
  <1> QED
    BY <1>1, <1>2, <1>3, <1>4, <1>5, <1>6, <1>7, <1>8, <1>9, <1>10, <1>11, <1>12, <1>13, <1>14,
       <1>15, <1>16, <1>17, <1>18, <1>19, <1>20, <1>21, <1>22
       DEF HelperStep, HelperWork

\* A death of either process, or of both, keeps the invariant: the service is
\* started again from the disk and the helper's memory is gone.
LEMMA DeathIInv == IInv /\ Death => IInv'
  <1> SUFFICES ASSUME IInv, Death PROVE IInv'
    OBVIOUS
  <1> USE DEF IInv, TypeInv, TypeOK, AgentInv, HandoffInv, Handed, BinaryInv, KeyInv,
              ResultInv, UndoInv, Working, Upgrades, Versions, RecordStates, Resolutions,
              HelperSteps, Whys
  <1> UNCHANGED upgrade
    BY DEF Death
  <1>1. CASE AgentCrash
    BY <1>1 DEF AgentCrash, Kill, Restarted
  <1>2. CASE HelperKilled
    BY <1>2 DEF HelperKilled, Kill, Restarted, IdleHelper
  <1> QED
    BY <1>1, <1>2 DEF Death

\* IInv is an invariant of the handoff, for every bound on deaths and faults.
LEMMA Invariance == Spec => []IInv
  <1>1. Init => IInv
    BY InitIInv
  <1>2. IInv /\ [Next]_vars => IInv'
    <2> SUFFICES ASSUME IInv, [Next]_vars PROVE IInv'
      OBVIOUS
    <2>1. CASE Next
      BY <2>1, AgentStepIInv, HelperStepIInv, DeathIInv DEF Next
    <2>2. CASE UNCHANGED vars
      BY <2>2 DEF vars, diskVars, procVars, boundVars, IInv, TypeInv, TypeOK, AgentInv,
                  HandoffInv, Handed, BinaryInv, KeyInv, ResultInv, UndoInv, Working
    <2> QED
      BY <2>1, <2>2
  <1> QED
    BY <1>1, <1>2, PTL DEF Spec

-----------------------------------------------------------------------------
(* The properties.                                                         *)

\* Until the root helper has saved a result, a command that is not submitted
\* or already answered has changed nothing of the host (AuthorizeUpgrade's
\* gate): for any number of deaths of the agent and the helper.
THEOREM NothingBeforeHandoff == Spec => []NoEarlyAnswer
  <1>1. IInv => NoEarlyAnswer
    BY DEF IInv, HandoffInv, Handed, NoEarlyAnswer, Final
  <1> QED
    BY <1>1, Invariance, PTL

\* While every result file is saved, a success in the result file or in the
\* receipt is of a healthy installed candidate with its firewall reconciled
\* and its new key in force (RunHelper's order of checks).
THEOREM SuccessEarned == Spec => []SuccessIsEarned
  <1>1. IInv => SuccessIsEarned
    BY DEF IInv, AgentInv, ResultInv, SuccessIsEarned
  <1> QED
    BY <1>1, Invariance, PTL

\* A rolled_back result means the old binary and the old key are back, and a
\* helper that is not killed leaves no unhealthy binary and no unconfirmed
\* key behind (rollback, recoverRotation); the state keeps its type.
THEOREM FailureUndone == Spec => []FailureIsUndone
  <1>1. IInv => FailureIsUndone
    BY DEF IInv, TypeInv, ResultInv, UndoInv, Working, FailureIsUndone, TypeOK, Versions
  <1> QED
    BY <1>1, Invariance, PTL
=============================================================================
