------------------------ MODULE ControlServiceSafety ------------------------
(***************************************************************************)
(* The types and the safety of ControlService, for every number of commands, *)
(* every mix of kinds, resources and lanes, and every number of crashes    *)
(* and failed writes.                                                      *)
(***************************************************************************)
EXTENDS ControlService, TLAPS

TypeInv == TypeOK /\ RecordShape /\ AdmissionShape

-----------------------------------------------------------------------------
(* What the journal's writers build.                                       *)

\* A record built by completeLocked carries its receipt.
LEMMA WithReceiptShaped ==
  ASSUME TypeInv, NEW c \in Commands, NEW st \in ReceiptStates, NEW hasTask \in BOOLEAN
  PROVE  WithReceipt(c, Fresh(c), st, hasTask) \in Shaped
<1>1. Fresh(c) \in Nat /\ Fresh(c) # 0
  BY DEF TypeInv, TypeOK, JournalType, Fresh
<1>2. journal[c] \in Records
  BY DEF TypeInv, TypeOK, JournalType
<1>3. WithReceipt(c, Fresh(c), st, hasTask) \in Records
  BY <1>1, <1>2 DEF WithReceipt, Records, ReceiptStates
<1>4. /\ WithReceipt(c, Fresh(c), st, hasTask).rid = Fresh(c)
      /\ WithReceipt(c, Fresh(c), st, hasTask).state = st
  BY DEF WithReceipt
<1> QED BY <1>1, <1>3, <1>4 DEF Shaped, ReceiptStates

LEMMA AcknowledgedShaped ==
  ASSUME NEW r \in Shaped
  PROVE  AuditAcknowledged(r) \in Shaped /\ ReceiptAcknowledged(r) \in Shaped
<1>1. r \in Records /\ (r.rid = 0 <=> r.state \in {"absent", "received"}) /\ (r.pending => r.rid # 0)
  BY DEF Shaped
<1>2. AuditAcknowledged(r) \in Shaped
  BY <1>1 DEF AuditAcknowledged, Shaped, Records
<1>3. ReceiptAcknowledged(r) \in Shaped
  BY <1>1 DEF ReceiptAcknowledged, Shaped, Records
<1> QED BY <1>2, <1>3

LEMMA ClaimedShaped ==
  ASSUME NEW r \in Shaped, r.state = "absent"
  PROVE  Claimed(r) \in Shaped
<1>1. r \in Records /\ r.rid = 0 /\ ~r.pending
  BY DEF Shaped, Records
<1>2. Claimed(r) \in Records
  BY <1>1 DEF Claimed, Records, RecordStates
<1>3. Claimed(r).state = "received" /\ Claimed(r).rid = 0 /\ ~Claimed(r).pending
  BY <1>1 DEF Claimed, Records
<1> QED BY <1>2, <1>3 DEF Shaped

LEMMA RunningShaped ==
  ASSUME NEW r \in Shaped, NEW id \in Nat, id # 0
  PROVE  Running(r, id) \in Shaped
<1>1. r \in Records
  BY DEF Shaped
<1>2. Running(r, id) \in Records
  BY <1>1 DEF Running, Records, RecordStates
<1>3. Running(r, id).state = "running" /\ Running(r, id).rid = id
  BY <1>1 DEF Running, Records
<1> QED BY <1>2, <1>3 DEF Shaped

\* Writing one shaped record keeps the journal.
LEMMA JournalWrite ==
  ASSUME RecordShape, NEW c \in Commands, NEW r \in Shaped,
         journal' = journal \/ journal' = [journal EXCEPT ![c] = r]
  PROVE  RecordShape'
BY DEF RecordShape

LEMMA ShapedRecords == RecordShape => journal \in [Commands -> Records]
BY DEF RecordShape, Shaped

LEMMA FreshType == ASSUME TypeInv, NEW c \in Commands PROVE Fresh(c) \in Nat \ {0}
BY DEF TypeInv, TypeOK, JournalType, Fresh

LEMMA CallInCalls ==
  ASSUME NEW c \in Commands, NEW id \in Nat, NEW st \in ReceiptStates
  PROVE  Call(c, id, st) \in Calls
BY DEF Call, Calls, CallSteps, AnswerStates

LEMMA IdleTypes == IdleCall \in Calls /\ IdleWorker \in Workers
<1>1. IdleCall \in Calls
  BY ConstantsAssumption DEF IdleCall, Calls, CallSteps, Commands, AnswerStates, ReceiptStates, RecordStates
<1>2. IdleWorker \in Workers
  BY DEF IdleWorker, Workers, WorkerPcs, ReceiptStates, RecordStates
<1> QED BY <1>1, <1>2

LEMMA WorkerThread == ASSUME NEW t \in Threads, t # LoopThread PROVE t \in Commands
BY ConstantsAssumption DEF Threads, LoopThread, Commands

LEMMA ThreadTypes == LoopThread \in Threads /\ Commands \subseteq Threads
BY ConstantsAssumption DEF Threads, LoopThread, Commands

LEMMA OfferedType == ASSUME TypeInv, cursor < N PROVE Offered \in Commands
BY ConstantsAssumption DEF TypeInv, TypeOK, JournalType, Offered, Commands

\* The loop's variables when one of its calls returns.
LEMMA ReturnType ==
  ASSUME ReconcileOk \/ ReconcileFailed \/ PollReturned
  PROVE  LoopType' /\ pc' \notin AdmissionPcs
BY DEF ReconcileOk, ReconcileFailed, PollReturned, LoopType, LoopPcs, AdmissionPcs

\* What the end of an enqueueJournaled call does keeps the types.
LEMMA CallReturnType ==
  ASSUME TypeInv, NEW t \in Threads, CallDone(t) \/ CallFailed(t), cursor' = cursor
  PROVE  CallType' /\ LoopType' /\ worker' \in [Commands -> Workers] /\ AdmissionShape'
<1>1. CallType'
  BY IdleTypes DEF CallDone, CallFailed, TypeInv, TypeOK, CallType
<1>2. worker' = worker \/ (t \in Commands /\ worker' = [worker EXCEPT ![t] = IdleWorker])
  BY WorkerThread DEF CallDone, CallFailed
<1>3. worker' \in [Commands -> Workers]
  BY <1>2, IdleTypes DEF TypeInv, TypeOK, DispatchType
<1>4. CASE CallDone(t)
  <2>1. UNCHANGED <<phase, todo, replaying>> /\ (pc' \in AdmissionPcs => pc \in AdmissionPcs)
        /\ pc' \in LoopPcs
    BY <1>4 DEF CallDone, loopVars, AdmissionPcs, LoopPcs, TypeInv, TypeOK, LoopType
  <2> QED BY <1>1, <1>3, <2>1 DEF TypeInv, TypeOK, LoopType, AdmissionShape
<1>5. CASE CallFailed(t)
  <2>1. \/ ReconcileFailed \/ PollReturned
        \/ UNCHANGED <<pc, phase, todo, replaying>>
    BY <1>5 DEF CallFailed, loopVars
  <2>2. CASE UNCHANGED <<pc, phase, todo, replaying>>
    BY <1>1, <1>3, <2>2 DEF TypeInv, TypeOK, LoopType, AdmissionShape
  <2>3. CASE ReconcileFailed \/ PollReturned
    BY <1>1, <1>3, <2>3, ReturnType DEF AdmissionShape
  <2> QED BY <2>1, <2>2, <2>3
<1> QED BY <1>4, <1>5

-----------------------------------------------------------------------------
(* Every action keeps TypeInv.                                             *)

LEMMA LookupAuditType ==
  ASSUME TypeInv, NEW t \in Threads, LookupAudit(t)
  PROVE  TypeInv'
<1> DEFINE call == enq[t]
<1>1. call \in Calls
  BY DEF TypeInv, TypeOK, CallType
<1>2. UNCHANGED <<journal, minted, cursor, cursorFile, receiptLog, lane, effect, executions, crashes, faults>>
  BY DEF LookupAudit, cursorVars, providerVars, envVars
<1>3. RecordShape' /\ JournalType' /\ ProviderType' /\ EnvType'
  BY <1>2 DEF TypeInv, TypeOK, RecordShape, JournalType, ProviderType, EnvType
<1>4. CASE CallFailed(t) /\ UNCHANGED auditLog
  <2>1. OutboxType'
    BY <1>2, <1>4 DEF TypeInv, TypeOK, OutboxType
  <2>2. CallType' /\ LoopType' /\ worker' \in [Commands -> Workers] /\ AdmissionShape'
    BY <1>2, <1>4, CallReturnType
  <2>3. DispatchType'
    BY <1>2, <2>2 DEF TypeInv, TypeOK, DispatchType
  <2> QED BY <1>3, <2>1, <2>2, <2>3 DEF TypeInv, TypeOK
<1>5. CASE ~(CallFailed(t) /\ UNCHANGED auditLog)
  <2>1. /\ \/ auditLog' = auditLog
           \/ auditLog' = [auditLog EXCEPT ![call.cmd] = @ \cup {[rid |-> call.rid, st |-> call.st]}]
        /\ \E s \in CallSteps : enq' = [enq EXCEPT ![t].step = s]
        /\ UNCHANGED <<pc, phase, todo, replaying, worker>>
    BY <1>5 DEF LookupAudit, loopVars, CallSteps
  <2>2. auditLog[call.cmd] \cup {[rid |-> call.rid, st |-> call.st]} \in SUBSET Receipts
    BY <1>1 DEF TypeInv, TypeOK, OutboxType, Receipts, Calls
  <2>3. OutboxType'
    BY <1>1, <1>2, <2>1, <2>2 DEF TypeInv, TypeOK, OutboxType, Calls
  <2>4. CallType'
    BY <2>1 DEF TypeInv, TypeOK, CallType, Calls
  <2>5. LoopType' /\ AdmissionShape'
    BY <1>2, <2>1 DEF TypeInv, TypeOK, LoopType, AdmissionShape
  <2>6. DispatchType'
    BY <1>2, <2>1 DEF TypeInv, TypeOK, DispatchType
  <2> QED BY <1>3, <2>3, <2>4, <2>5, <2>6 DEF TypeInv, TypeOK
<1> QED BY <1>4, <1>5

LEMMA MarkAuditType ==
  ASSUME TypeInv, NEW t \in Threads, MarkAuditQueued(t)
  PROVE  TypeInv'
<1>1. enq[t] \in Calls /\ enq[t].cmd \in Commands
  BY DEF TypeInv, TypeOK, CallType, Calls
<1>2. UNCHANGED <<minted, cursor, cursorFile, receiptLog, auditLog, lane, effect, executions, crashes, faults>>
  BY DEF MarkAuditQueued, cursorVars, outboxVars, providerVars, envVars
<1>3. OutboxType' /\ ProviderType' /\ EnvType'
  BY <1>2 DEF TypeInv, TypeOK, OutboxType, ProviderType, EnvType
<1>4. \/ CallFailed(t) /\ journal' = journal
      \/ /\ journal' = [journal EXCEPT ![enq[t].cmd] = AuditAcknowledged(journal[enq[t].cmd])]
         /\ enq' = [enq EXCEPT ![t].step = "enqueue"]
         /\ UNCHANGED <<pc, phase, todo, replaying, worker>>
  BY DEF MarkAuditQueued, loopVars
<1>5. AuditAcknowledged(journal[enq[t].cmd]) \in Shaped
  BY <1>1, AcknowledgedShaped DEF TypeInv, RecordShape
<1>6. RecordShape'
  <2>1. \/ journal' = journal
        \/ journal' = [journal EXCEPT ![enq[t].cmd] = AuditAcknowledged(journal[enq[t].cmd])]
    BY <1>4
  <2> QED BY <1>1, <1>5, <2>1, JournalWrite DEF TypeInv
<1>7. JournalType'
  BY <1>2, <1>6 DEF TypeInv, TypeOK, JournalType, RecordShape, Shaped
<1>8. CallType' /\ LoopType' /\ AdmissionShape' /\ worker' \in [Commands -> Workers]
  <2>1. CASE CallFailed(t)
    BY <1>2, <2>1, CallReturnType
  <2>2. CASE ~CallFailed(t)
    <3>1. enq' = [enq EXCEPT ![t].step = "enqueue"] /\ UNCHANGED <<pc, phase, todo, replaying, worker>>
      BY <1>4, <2>2
    <3>2. CallType'
      BY <3>1 DEF TypeInv, TypeOK, CallType, Calls, CallSteps
    <3> QED BY <1>2, <3>1, <3>2 DEF TypeInv, TypeOK, LoopType, AdmissionShape, DispatchType
  <2> QED BY <2>1, <2>2
<1>9. DispatchType'
  BY <1>2, <1>8 DEF TypeInv, TypeOK, DispatchType
<1> QED BY <1>3, <1>6, <1>7, <1>8, <1>9 DEF TypeInv, TypeOK

LEMMA EnqueueReceiptType ==
  ASSUME TypeInv, NEW t \in Threads, EnqueueReceipt(t)
  PROVE  TypeInv'
<1> DEFINE call == enq[t]
<1>1. call \in Calls /\ call.cmd \in Commands
  BY DEF TypeInv, TypeOK, CallType, Calls
<1>2. UNCHANGED <<journal, minted, cursor, cursorFile, auditLog, pc, phase, todo, replaying, lane, worker,
                  effect, executions, crashes, faults>>
  BY DEF EnqueueReceipt, cursorVars, loopVars, dispatchVars, providerVars, envVars
<1>3. /\ RecordShape' /\ AdmissionShape' /\ JournalType' /\ LoopType' /\ DispatchType'
      /\ ProviderType' /\ EnvType'
  BY <1>2 DEF TypeInv, TypeOK, RecordShape, AdmissionShape, JournalType, LoopType, DispatchType,
              ProviderType, EnvType
<1>4. [rid |-> call.rid, st |-> call.st] \in Receipts
  BY <1>1 DEF Receipts, Calls
<1>5. Queued(call.cmd, [rid |-> call.rid, st |-> call.st]) \in Seq(Receipts)
  BY <1>1, <1>4 DEF Queued, TypeInv, TypeOK, OutboxType
<1>6. OutboxType'
  BY <1>1, <1>2, <1>5 DEF EnqueueReceipt, TypeInv, TypeOK, OutboxType
<1>7. CallType'
  BY DEF EnqueueReceipt, TypeInv, TypeOK, CallType, Calls, CallSteps
<1> QED BY <1>3, <1>6, <1>7 DEF TypeInv, TypeOK

LEMMA MarkReceiptType ==
  ASSUME TypeInv, NEW t \in Threads, MarkReceiptQueued(t)
  PROVE  TypeInv'
<1>1. enq[t].cmd \in Commands
  BY DEF TypeInv, TypeOK, CallType, Calls
<1>2. UNCHANGED <<minted, cursor, cursorFile, receiptLog, auditLog, lane, effect, executions, crashes, faults>>
  BY DEF MarkReceiptQueued, cursorVars, outboxVars, providerVars, envVars
<1>3. OutboxType' /\ ProviderType' /\ EnvType'
  BY <1>2 DEF TypeInv, TypeOK, OutboxType, ProviderType, EnvType
<1>4. CallDone(t) \/ CallFailed(t)
  BY DEF MarkReceiptQueued
<1>5. \/ journal' = journal
      \/ journal' = [journal EXCEPT ![enq[t].cmd] = ReceiptAcknowledged(journal[enq[t].cmd])]
  BY DEF MarkReceiptQueued
<1>6. ReceiptAcknowledged(journal[enq[t].cmd]) \in Shaped
  BY <1>1, AcknowledgedShaped DEF TypeInv, RecordShape
<1>7. RecordShape'
  BY <1>1, <1>5, <1>6, JournalWrite DEF TypeInv
<1>8. JournalType'
  BY <1>2, <1>7 DEF TypeInv, TypeOK, JournalType, RecordShape, Shaped
<1>9. CallType' /\ LoopType' /\ AdmissionShape' /\ worker' \in [Commands -> Workers]
  BY <1>2, <1>4, CallReturnType
<1>10. DispatchType'
  BY <1>2, <1>9 DEF TypeInv, TypeOK, DispatchType
<1> QED BY <1>3, <1>7, <1>8, <1>9, <1>10 DEF TypeInv, TypeOK

\* A receipt put in its queue.
LEMMA QueuedType ==
  ASSUME TypeInv, NEW t \in Threads
  PROVE  LET call == enq[t]
             sent == [rid |-> call.rid, st |-> call.st]
         IN /\ call.cmd \in Commands /\ sent \in Receipts
            /\ [receiptLog EXCEPT ![call.cmd] = Queued(call.cmd, sent)]
                 \in [Commands -> Seq(Receipts)]
            /\ [auditLog EXCEPT ![call.cmd] = @ \cup {sent}] \in [Commands -> SUBSET Receipts]
<1> DEFINE call == enq[t]
           sent == [rid |-> call.rid, st |-> call.st]
<1>1. call \in Calls /\ call.cmd \in Commands
  BY DEF TypeInv, TypeOK, CallType, Calls
<1>2. sent \in Receipts
  BY <1>1 DEF Receipts, Calls
<1>3. Queued(call.cmd, sent) \in Seq(Receipts)
  BY <1>1, <1>2 DEF Queued, TypeInv, TypeOK, OutboxType
<1>4. [receiptLog EXCEPT ![call.cmd] = Queued(call.cmd, sent)] \in [Commands -> Seq(Receipts)]
  BY <1>1, <1>3 DEF TypeInv, TypeOK, OutboxType
<1>5. [auditLog EXCEPT ![call.cmd] = @ \cup {sent}] \in [Commands -> SUBSET Receipts]
  <2>1. auditLog[call.cmd] \cup {sent} \in SUBSET Receipts
    BY <1>1, <1>2 DEF TypeInv, TypeOK, OutboxType
  <2> QED BY <1>1, <2>1 DEF TypeInv, TypeOK, OutboxType
<1> QED BY <1>1, <1>2, <1>4, <1>5

LEMMA SendDeniedType ==
  ASSUME TypeInv, NEW t \in Threads, SendDenied(t)
  PROVE  TypeInv'
<1>1. UNCHANGED <<journal, minted, cursor, cursorFile, auditLog, lane, effect, executions, crashes, faults>>
  BY DEF SendDenied, cursorVars, providerVars, envVars
<1>2. CallDone(t)
  BY DEF SendDenied
<1>3. RecordShape' /\ JournalType' /\ ProviderType' /\ EnvType'
  BY <1>1 DEF TypeInv, TypeOK, RecordShape, JournalType, ProviderType, EnvType
<1>4. CallType' /\ LoopType' /\ AdmissionShape' /\ worker' \in [Commands -> Workers]
  BY <1>1, <1>2, CallReturnType
<1>5. receiptLog' \in [Commands -> Seq(Receipts)]
  BY QueuedType DEF SendDenied
<1>6. OutboxType' /\ DispatchType'
  BY <1>1, <1>4, <1>5 DEF TypeInv, TypeOK, OutboxType, DispatchType
<1> QED BY <1>3, <1>4, <1>6 DEF TypeInv, TypeOK

LEMMA EnqueueFaultType ==
  ASSUME TypeInv, NEW t \in Threads, EnqueueFault(t)
  PROVE  TypeInv'
<1> DEFINE call == enq[t]
           sent == [rid |-> call.rid, st |-> call.st]
<1>1. UNCHANGED <<minted, cursor, cursorFile, lane, effect, executions, crashes>>
  BY DEF EnqueueFault, cursorVars, providerVars
<1>2. CallFailed(t) /\ faults' = faults + 1
  BY DEF EnqueueFault, Fault
<1>3. ProviderType' /\ EnvType'
  BY <1>1, <1>2 DEF TypeInv, TypeOK, ProviderType, EnvType
<1>4. CallType' /\ LoopType' /\ AdmissionShape' /\ worker' \in [Commands -> Workers]
  BY <1>1, <1>2, CallReturnType
<1>5. DispatchType'
  BY <1>1, <1>4 DEF TypeInv, TypeOK, DispatchType
<1>6. /\ \/ journal' = journal
         \/ journal' = [journal EXCEPT ![call.cmd] = AuditAcknowledged(journal[call.cmd])]
         \/ journal' = [journal EXCEPT ![call.cmd] = ReceiptAcknowledged(journal[call.cmd])]
      /\ \/ receiptLog' = receiptLog
         \/ receiptLog' = [receiptLog EXCEPT ![call.cmd] = Queued(call.cmd, sent)]
      /\ \/ auditLog' = auditLog
         \/ auditLog' = [auditLog EXCEPT ![call.cmd] = @ \cup {sent}]
  BY DEF EnqueueFault, outboxVars
<1>7. call.cmd \in Commands
  BY QueuedType
<1>8. RecordShape'
  <2>1. AuditAcknowledged(journal[call.cmd]) \in Shaped /\ ReceiptAcknowledged(journal[call.cmd]) \in Shaped
    BY <1>7, AcknowledgedShaped DEF TypeInv, RecordShape
  <2>2. PICK c \in Commands : c = call.cmd
    BY <1>7
  <2>3. PICK r \in Shaped : journal' = journal \/ journal' = [journal EXCEPT ![c] = r]
    BY <1>6, <2>1, <2>2
  <2> QED BY <2>3, JournalWrite DEF TypeInv
<1>9. JournalType'
  BY <1>1, <1>8 DEF TypeInv, TypeOK, JournalType, RecordShape, Shaped
<1>10. OutboxType'
  <2>1. /\ [receiptLog EXCEPT ![call.cmd] = Queued(call.cmd, sent)] \in [Commands -> Seq(Receipts)]
        /\ [auditLog EXCEPT ![call.cmd] = @ \cup {sent}] \in [Commands -> SUBSET Receipts]
    BY QueuedType
  <2>2. receiptLog \in [Commands -> Seq(Receipts)] /\ auditLog \in [Commands -> SUBSET Receipts]
    BY DEF TypeInv, TypeOK, OutboxType
  <2> HIDE DEF call, sent
  <2> QED BY <1>6, <2>1, <2>2 DEF OutboxType
<1> QED BY <1>3, <1>4, <1>5, <1>8, <1>9, <1>10 DEF TypeInv, TypeOK

\* Actions that touch nothing but the loop's own variables and the counters.
LEMMA LoopOnlyType ==
  ASSUME TypeInv, LoopType', pc' \in AdmissionPcs => cursor < N, cursorFile' \in 0..N,
         UNCHANGED <<journal, minted, cursor, receiptLog, auditLog, enq, lane, worker,
                     effect, executions>>,
         EnvType'
  PROVE  TypeInv'
<1>1. /\ RecordShape' /\ AdmissionShape' /\ JournalType' /\ OutboxType' /\ CallType'
      /\ DispatchType' /\ ProviderType'
  BY DEF TypeInv, TypeOK, RecordShape, AdmissionShape, JournalType, OutboxType, CallType,
         DispatchType, ProviderType
<1> QED BY <1>1 DEF TypeInv, TypeOK

LEMMA FaultType == ASSUME TypeInv, Fault, UNCHANGED crashes PROVE EnvType'
BY DEF Fault, TypeInv, TypeOK, EnvType

LEMMA EnvKept == ASSUME TypeInv, UNCHANGED envVars PROVE EnvType'
BY DEF TypeInv, TypeOK, EnvType, envVars

\* The recovered receipt is one the website can be sent.
LEMMA RecoveredType == ASSUME NEW c \in Commands PROVE RecoveredState(c) \in ReceiptStates
BY DEF RecoveredState, ReceiptStates, RecordStates

\* Recovering any set of records keeps the journal.
LEMMA RecoverRecordsType ==
  ASSUME TypeInv, NEW S \in SUBSET Commands, RecoverRecords(S), UNCHANGED <<cursor, cursorFile>>
  PROVE  RecordShape' /\ JournalType'
<1>1. RecordShape'
  <2>1. ASSUME NEW c \in Commands PROVE WithReceipt(c, Fresh(c), RecoveredState(c), FALSE) \in Shaped
    BY RecoveredType, WithReceiptShaped
  <2>2. ASSUME NEW c \in Commands PROVE journal[c] \in Shaped
    BY DEF TypeInv, RecordShape
  <2>3. journal' = [c \in Commands |->
                   IF c \in S
                   THEN WithReceipt(c, Fresh(c), RecoveredState(c), FALSE)
                   ELSE journal[c]]
    BY DEF RecoverRecords
  <2> QED BY <2>1, <2>2, <2>3 DEF RecordShape
<1>2. minted' \in [Commands -> Nat]
  <2>1. minted' = [c \in Commands |-> IF c \in S THEN Fresh(c) ELSE minted[c]]
    BY DEF RecoverRecords
  <2> QED BY <2>1, FreshType DEF TypeInv, TypeOK, JournalType
<1> QED BY <1>1, <1>2 DEF TypeInv, TypeOK, JournalType, RecordShape, Shaped

LEMMA RecoverType ==
  ASSUME TypeInv, RecoverIncomplete
  PROVE  TypeInv'
<1>1. UNCHANGED <<cursor, cursorFile, receiptLog, auditLog, phase, replaying, enq, lane, worker,
                  effect, executions, crashes, faults>>
  BY DEF RecoverIncomplete, cursorVars, outboxVars, dispatchVars, providerVars, envVars
<1>2. OutboxType' /\ CallType' /\ DispatchType' /\ ProviderType' /\ EnvType'
  BY <1>1 DEF TypeInv, TypeOK, OutboxType, CallType, DispatchType, ProviderType, EnvType
<1>3. InterruptedCommands \in SUBSET Commands
  BY DEF InterruptedCommands
<1>4. RecordShape' /\ JournalType'
  BY <1>1, <1>3, RecoverRecordsType DEF RecoverIncomplete
<1>6. todo' \in SUBSET Items
  <2>1. todo' = {[cmd |-> c, rid |-> Fresh(c), st |-> RecoveredState(c)] : c \in InterruptedCommands}
    BY DEF RecoverIncomplete
  <2>2. ASSUME NEW c \in Commands
        PROVE  [cmd |-> c, rid |-> Fresh(c), st |-> RecoveredState(c)] \in Items
    BY FreshType, RecoveredType DEF Items
  <2> QED BY <1>3, <2>1, <2>2
<1>7. LoopType' /\ AdmissionShape'
  BY <1>1, <1>6 DEF RecoverIncomplete, TypeInv, TypeOK, LoopType, LoopPcs, AdmissionShape,
                    AdmissionPcs
<1> QED BY <1>2, <1>4, <1>7 DEF TypeInv, TypeOK

LEMMA RecoverFaultType ==
  ASSUME TypeInv, RecoverFault
  PROVE  TypeInv'
<1>1. UNCHANGED <<cursor, cursorFile, receiptLog, auditLog, enq, lane, worker, effect, executions>>
  BY DEF RecoverFault, cursorVars, outboxVars, dispatchVars, providerVars
<1>2. OutboxType' /\ CallType' /\ DispatchType' /\ ProviderType'
  BY <1>1 DEF TypeInv, TypeOK, OutboxType, CallType, DispatchType, ProviderType
<1>3. EnvType'
  BY FaultType DEF RecoverFault
<1>4. PICK S \in SUBSET InterruptedCommands : RecoverRecords(S)
  BY DEF RecoverFault
<1>5. S \in SUBSET Commands
  BY DEF InterruptedCommands
<1>6. RecordShape' /\ JournalType'
  BY <1>1, <1>4, <1>5, RecoverRecordsType
<1>7. LoopType' /\ AdmissionShape'
  BY ReturnType DEF RecoverFault, AdmissionShape
<1> QED BY <1>2, <1>3, <1>6, <1>7 DEF TypeInv, TypeOK

LEMMA FlushOneType ==
  ASSUME TypeInv, FlushOne
  PROVE  TypeInv'
<1>1. UNCHANGED <<journal, minted, cursor, cursorFile, receiptLog, auditLog, pc, phase, replaying, lane, worker,
                  effect, executions, crashes, faults>>
  BY DEF FlushOne, cursorVars, outboxVars, dispatchVars, providerVars, envVars
<1>2. PICK item \in todo :
        /\ enq' = [enq EXCEPT ![LoopThread] = Call(item.cmd, item.rid, item.st)]
        /\ todo' = todo \ {item}
  BY DEF FlushOne
<1>3. item \in Items
  BY DEF TypeInv, TypeOK, LoopType
<1>4. Call(item.cmd, item.rid, item.st) \in Calls
  BY <1>3, CallInCalls DEF Items
<1>5. CallType'
  BY <1>2, <1>4, ThreadTypes DEF TypeInv, TypeOK, CallType
<1>6. LoopType'
  BY <1>1, <1>2 DEF TypeInv, TypeOK, LoopType
<1>7. /\ RecordShape' /\ AdmissionShape' /\ JournalType' /\ OutboxType' /\ DispatchType'
      /\ ProviderType' /\ EnvType'
  BY <1>1 DEF TypeInv, TypeOK, RecordShape, AdmissionShape, JournalType, OutboxType, DispatchType,
              ProviderType, EnvType
<1> QED BY <1>5, <1>6, <1>7 DEF TypeInv, TypeOK

\* A listing of journaled receipts.
LEMMA ListedType ==
  ASSUME TypeInv, NEW S \in SUBSET Commands, \A c \in S : journal[c].state \in ReceiptStates
  PROVE  {[cmd |-> c, rid |-> journal[c].rid, st |-> journal[c].state] : c \in S} \in SUBSET Items
<1>1. ASSUME NEW c \in S
      PROVE  [cmd |-> c, rid |-> journal[c].rid, st |-> journal[c].state] \in Items
  BY DEF TypeInv, TypeOK, JournalType, Records, Items
<1> QED BY <1>1

LEMMA PendingType ==
  ASSUME TypeInv, PendingReceipts
  PROVE  TypeInv'
<1>1. UNCHANGED <<journal, minted, cursor, cursorFile, receiptLog, auditLog, phase, enq, lane, worker,
                  effect, executions>> /\ UNCHANGED envVars
  BY DEF PendingReceipts, cursorVars, outboxVars, dispatchVars, providerVars
<1>2. \A c \in {d \in Commands : journal[d].pending} : journal[c].state \in ReceiptStates
  BY DEF TypeInv, RecordShape, Shaped, Records, ReceiptStates
<1>3. todo' \in SUBSET Items
  BY <1>2, ListedType DEF PendingReceipts
<1>4. replaying' \in BOOLEAN /\ pc' = "flushPending"
  BY DEF PendingReceipts
<1>5. LoopType' /\ pc' \notin AdmissionPcs
  BY <1>1, <1>3, <1>4 DEF TypeInv, TypeOK, LoopType, LoopPcs, AdmissionPcs
<1>6. cursorFile' \in 0..N
  BY <1>1 DEF TypeInv, TypeOK, JournalType
<1> QED BY <1>1, <1>5, <1>6, EnvKept, LoopOnlyType

LEMMA SubmittedType ==
  ASSUME TypeInv, SubmittedWaiting
  PROVE  TypeInv'
<1>1. UNCHANGED <<journal, minted, cursor, cursorFile, receiptLog, auditLog, enq, lane, worker,
                  effect, executions>> /\ UNCHANGED envVars
  BY DEF SubmittedWaiting, cursorVars, outboxVars, dispatchVars, providerVars
<1>2. LoopType' /\ pc' \notin AdmissionPcs
  <2>1. CASE replaying
    BY <2>1, ReturnType DEF SubmittedWaiting
  <2>2. CASE ~replaying
    <3> DEFINE S == {d \in Commands : journal[d].state \in {"submitted", "waiting"} /\ journal[d].task}
    <3>1. \A c \in S : journal[c].state \in ReceiptStates
      BY DEF ReceiptStates, RecordStates
    <3>2. /\ todo' = {[cmd |-> c, rid |-> journal[c].rid, st |-> journal[c].state] : c \in S}
          /\ pc' = "resolve" /\ UNCHANGED <<phase, replaying>>
      BY <2>2 DEF SubmittedWaiting
    <3>3. {[cmd |-> c, rid |-> journal[c].rid, st |-> journal[c].state] : c \in S} \in SUBSET Items
      BY <3>1, ListedType
    <3> QED BY <3>2, <3>3 DEF TypeInv, TypeOK, LoopType, LoopPcs, AdmissionPcs
  <2> QED BY <2>1, <2>2
<1>3. cursorFile' \in 0..N
  BY <1>1 DEF TypeInv, TypeOK, JournalType
<1> QED BY <1>1, <1>2, <1>3, EnvKept, LoopOnlyType

LEMMA ResolveType ==
  ASSUME TypeInv, ResolveTask
  PROVE  TypeInv'
<1>1. UNCHANGED <<cursor, cursorFile, receiptLog, auditLog, pc, phase, replaying, lane, worker,
                  executions, crashes, faults>>
  BY DEF ResolveTask, cursorVars, outboxVars, dispatchVars, envVars
<1>2. PICK item \in todo, st \in ReceiptStates :
        /\ minted' = [minted EXCEPT ![item.cmd] = Fresh(item.cmd)]
        /\ journal' = [journal EXCEPT ![item.cmd] = WithReceipt(item.cmd, Fresh(item.cmd), st, TRUE)]
        /\ effect' = [effect EXCEPT ![item.cmd] = IF @ = "prepared" THEN "running" ELSE @]
        /\ enq' = [enq EXCEPT ![LoopThread] = Call(item.cmd, Fresh(item.cmd), st)]
        /\ todo' = todo \ {item}
  BY DEF ResolveTask
<1> DEFINE c == item.cmd
<1>3. c \in Commands
  BY DEF TypeInv, TypeOK, LoopType, Items
<1>4. WithReceipt(c, Fresh(c), st, TRUE) \in Shaped
  BY <1>3, WithReceiptShaped
<1>5. RecordShape'
  <2>1. journal' = [journal EXCEPT ![c] = WithReceipt(c, Fresh(c), st, TRUE)]
    BY <1>2
  <2> HIDE DEF c
  <2> QED BY <1>3, <1>4, <2>1, JournalWrite DEF TypeInv
<1>6. Fresh(c) \in Nat
  BY <1>3, FreshType
<1>7. JournalType'
  BY <1>1, <1>2, <1>5, <1>6 DEF TypeInv, TypeOK, JournalType, RecordShape, Shaped
<1>8. Call(c, Fresh(c), st) \in Calls
  BY <1>3, <1>6, CallInCalls
<1>9. CallType'
  BY <1>2, <1>8, ThreadTypes DEF TypeInv, TypeOK, CallType
<1>10. ProviderType'
  BY <1>1, <1>2 DEF TypeInv, TypeOK, ProviderType, Effects
<1>11. LoopType' /\ AdmissionShape' /\ OutboxType' /\ DispatchType' /\ EnvType'
  BY <1>1, <1>2 DEF TypeInv, TypeOK, LoopType, AdmissionShape, OutboxType, DispatchType, EnvType
<1> QED BY <1>5, <1>7, <1>9, <1>10, <1>11 DEF TypeInv, TypeOK

LEMMA ResolveFaultType ==
  ASSUME TypeInv, ResolveFault
  PROVE  TypeInv'
<1>1. UNCHANGED <<cursor, cursorFile, receiptLog, auditLog, enq, lane, worker, executions>>
  BY DEF ResolveFault, cursorVars, outboxVars, dispatchVars
<1>2. PICK item \in todo, st \in ReceiptStates :
        /\ \/ minted' = minted
           \/ minted' = [minted EXCEPT ![item.cmd] = Fresh(item.cmd)]
        /\ \/ journal' = journal
           \/ journal' = [journal EXCEPT ![item.cmd] = WithReceipt(item.cmd, Fresh(item.cmd), st, TRUE)]
        /\ effect' = [effect EXCEPT ![item.cmd] = IF @ = "prepared" THEN "running" ELSE @]
  BY DEF ResolveFault
<1>3. PICK c \in Commands : c = item.cmd
  BY DEF TypeInv, TypeOK, LoopType, Items
<1>4. PICK r \in Shaped : journal' = journal \/ journal' = [journal EXCEPT ![c] = r]
  BY <1>2, <1>3, WithReceiptShaped
<1>5. RecordShape'
  BY <1>4, JournalWrite DEF TypeInv
<1>6. minted' \in [Commands -> Nat]
  BY <1>2, <1>3, FreshType DEF TypeInv, TypeOK, JournalType
<1>7. JournalType'
  BY <1>1, <1>5, <1>6 DEF TypeInv, TypeOK, JournalType, RecordShape, Shaped
<1>8. ProviderType'
  BY <1>1, <1>2 DEF TypeInv, TypeOK, ProviderType, Effects
<1>9. EnvType'
  BY FaultType DEF ResolveFault
<1>10. LoopType' /\ AdmissionShape'
  BY ReturnType DEF ResolveFault, AdmissionShape
<1>11. OutboxType' /\ CallType' /\ DispatchType'
  BY <1>1 DEF TypeInv, TypeOK, OutboxType, CallType, DispatchType
<1> QED BY <1>5, <1>7, <1>8, <1>9, <1>10, <1>11 DEF TypeInv, TypeOK

LEMMA ReconcileEndType ==
  ASSUME TypeInv, ReconcileDone \/ ReconcileFault
  PROVE  TypeInv'
<1>1. UNCHANGED <<journal, minted, cursor, cursorFile, receiptLog, auditLog, enq, lane, worker,
                  effect, executions>>
  BY DEF ReconcileDone, cursorVars, ReconcileFault, outboxVars, dispatchVars, providerVars
<1>2. EnvType'
  BY FaultType, EnvKept DEF ReconcileDone, ReconcileFault
<1>3. LoopType' /\ pc' \notin AdmissionPcs
  BY ReturnType DEF ReconcileDone, ReconcileFault
<1>4. cursorFile' \in 0..N
  BY <1>1 DEF TypeInv, TypeOK, JournalType
<1> QED BY <1>1, <1>2, <1>3, <1>4, LoopOnlyType

LEMMA PollReturnType ==
  ASSUME TypeInv, PollNothing \/ PollLaneFull \/ PollFault
  PROVE  TypeInv'
<1>1. UNCHANGED <<journal, minted, cursor, receiptLog, auditLog, enq, lane, worker,
                  effect, executions>>
  BY DEF PollNothing, PollLaneFull, PollFault, cursorVars, outboxVars, dispatchVars, providerVars
<1>2. EnvType'
  BY FaultType, EnvKept DEF PollNothing, PollLaneFull, PollFault
<1>3. LoopType' /\ pc' \notin AdmissionPcs
  BY ReturnType DEF PollNothing, PollLaneFull, PollFault
<1>4. cursorFile' = cursorFile \/ (pc = "saveCursor" /\ cursorFile' = Offered)
  BY DEF PollNothing, PollLaneFull, PollFault, cursorVars
<1>5. cursorFile' \in 0..N
  <2>1. pc = "saveCursor" => cursor < N
    BY DEF TypeInv, AdmissionShape, AdmissionPcs
  <2> QED BY <1>4, <2>1, ConstantsAssumption DEF Offered, TypeInv, TypeOK, JournalType
<1> QED BY <1>1, <1>2, <1>3, <1>5, LoopOnlyType

\* A refusal reaches the audit outbox and leaves a typed call to make.
LEMMA RejectType ==
  ASSUME TypeInv, NEW c \in Commands, NEW authenticated \in BOOLEAN, Reject(c, authenticated),
         cursor < N, UNCHANGED cursor
  PROVE  minted' \in [Commands -> Nat] /\ OutboxType' /\ LoopType' /\ AdmissionShape' /\ CallType'
<1> DEFINE st == IF authenticated THEN "rejected" ELSE "unauthenticated"
<1>1. Fresh(c) \in Nat
  BY FreshType
<1>2. minted' \in [Commands -> Nat]
  BY <1>1 DEF Reject, TypeInv, TypeOK, JournalType
<1>3. st \in AnswerStates /\ [rid |-> Fresh(c), st |-> st] \in Receipts
  BY <1>1 DEF Receipts, AnswerStates, ReceiptStates, RecordStates
<1>4. auditLog' \in [Commands -> SUBSET Receipts]
  <2>1. auditLog[c] \cup {[rid |-> Fresh(c), st |-> st]} \in SUBSET Receipts
    BY <1>3 DEF TypeInv, TypeOK, OutboxType
  <2> QED BY <2>1 DEF Reject, TypeInv, TypeOK, OutboxType
<1>5. OutboxType'
  BY <1>4 DEF Reject, TypeInv, TypeOK, OutboxType
<1>6. LoopType' /\ AdmissionShape'
  BY DEF Reject, TypeInv, TypeOK, LoopType, LoopPcs, AdmissionShape
<1>7. [Call(c, Fresh(c), st) EXCEPT !.step = "deny"] \in Calls
  BY <1>1, <1>3 DEF Call, Calls, CallSteps
<1>8. CallType'
  BY <1>7, ThreadTypes DEF Reject, TypeInv, TypeOK, CallType
<1> QED BY <1>2, <1>5, <1>6, <1>8

LEMMA RefusedType ==
  ASSUME TypeInv, PollRefused
  PROVE  TypeInv'
<1>1. UNCHANGED <<journal, cursor, cursorFile, lane, worker, effect, executions, crashes, faults>>
  BY DEF PollRefused, cursorVars, dispatchVars, providerVars, envVars
<1>2. PICK authenticated \in BOOLEAN : Reject(Offered, authenticated)
  BY DEF PollRefused
<1>3. cursor < N /\ Offered \in Commands
  BY OfferedType DEF PollRefused
<1>4. minted' \in [Commands -> Nat] /\ OutboxType' /\ LoopType' /\ AdmissionShape' /\ CallType'
  BY <1>1, <1>2, <1>3, RejectType
<1>5. RecordShape' /\ DispatchType' /\ ProviderType' /\ EnvType'
  BY <1>1 DEF TypeInv, TypeOK, RecordShape, DispatchType, ProviderType, EnvType
<1>6. JournalType'
  BY <1>1, <1>4 DEF TypeInv, TypeOK, JournalType
<1> QED BY <1>4, <1>5, <1>6 DEF TypeInv, TypeOK

LEMMA ClaimNewType ==
  ASSUME TypeInv, ClaimNew \/ ClaimFault
  PROVE  TypeInv'
<1> DEFINE c == Offered
<1>1. UNCHANGED <<cursor, cursorFile, lane, worker, effect, executions>>
  BY DEF ClaimNew, cursorVars, ClaimFault, dispatchVars, providerVars
<1>2. cursor < N /\ c \in Commands /\ journal[c].state = "absent"
  BY OfferedType DEF ClaimNew, ClaimFault, Admissible
<1>3. DispatchType' /\ ProviderType'
  BY <1>1 DEF TypeInv, TypeOK, DispatchType, ProviderType
<1>4. EnvType'
  BY FaultType, EnvKept DEF ClaimNew, ClaimFault
<1>5. \/ journal' = journal
      \/ journal' = [journal EXCEPT ![c] = Claimed(journal[c])]
  BY DEF ClaimNew, ClaimFault
<1>6. Claimed(journal[c]) \in Shaped
  BY <1>2, ClaimedShaped DEF TypeInv, RecordShape
<1>7. RecordShape'
  BY <1>2, <1>5, <1>6, JournalWrite DEF TypeInv
<1>8. minted' \in [Commands -> Nat] /\ OutboxType' /\ LoopType' /\ AdmissionShape' /\ CallType'
  <2>1. CASE Reject(c, TRUE)
    BY <1>1, <1>2, <2>1, RejectType
  <2>2. CASE ~Reject(c, TRUE)
    <3>1. pc' = "begin" /\ UNCHANGED <<minted, receiptLog, auditLog, enq, phase, todo, replaying>>
      BY <2>2 DEF ClaimNew, ClaimFault, outboxVars
    <3>2. minted' \in [Commands -> Nat] /\ OutboxType' /\ CallType'
      BY <3>1 DEF TypeInv, TypeOK, JournalType, OutboxType, CallType
    <3> QED BY <1>1, <1>2, <3>1, <3>2 DEF TypeInv, TypeOK, LoopType, LoopPcs, AdmissionShape
  <2> QED BY <2>1, <2>2
<1>9. JournalType'
  BY <1>1, <1>7, <1>8 DEF TypeInv, TypeOK, JournalType, RecordShape, Shaped
<1> QED BY <1>3, <1>4, <1>7, <1>8, <1>9 DEF TypeInv, TypeOK

LEMMA ClaimDuplicateType ==
  ASSUME TypeInv, ClaimDuplicate
  PROVE  TypeInv'
<1> DEFINE c == Offered
<1>1. UNCHANGED <<journal, minted, cursor, cursorFile, receiptLog, auditLog, phase, todo, replaying, lane, worker,
                  effect, executions, crashes, faults>>
  BY DEF ClaimDuplicate, cursorVars, outboxVars, dispatchVars, providerVars, envVars
<1>2. cursor < N /\ c \in Commands /\ journal[c].rid # 0
  BY OfferedType DEF ClaimDuplicate, Admissible
<1>3. journal[c].rid \in Nat /\ journal[c].state \in ReceiptStates
  BY <1>2 DEF TypeInv, RecordShape, Shaped, Records, ReceiptStates
<1>4. Call(c, journal[c].rid, journal[c].state) \in Calls
  BY <1>2, <1>3, CallInCalls
<1>5. CallType'
  BY <1>4, ThreadTypes DEF ClaimDuplicate, TypeInv, TypeOK, CallType
<1>6. LoopType' /\ AdmissionShape'
  BY <1>1, <1>2 DEF ClaimDuplicate, TypeInv, TypeOK, LoopType, LoopPcs, AdmissionShape
<1>7. RecordShape' /\ JournalType' /\ OutboxType' /\ DispatchType' /\ ProviderType' /\ EnvType'
  BY <1>1 DEF TypeInv, TypeOK, RecordShape, JournalType, OutboxType, DispatchType,
              ProviderType, EnvType
<1> QED BY <1>5, <1>6, <1>7 DEF TypeInv, TypeOK

\* Steps of admission that may write one record with a fresh receipt and
\* may begin to queue it.
LEMMA AdmissionWriteType ==
  ASSUME TypeInv, NEW c \in Commands, NEW r \in Shaped, NEW st \in ReceiptStates,
         journal' = journal \/ journal' = [journal EXCEPT ![c] = r],
         minted' = minted \/ minted' = [minted EXCEPT ![c] = Fresh(c)],
         enq' = enq \/ enq' = [enq EXCEPT ![LoopThread] = Call(c, Fresh(c), st)],
         UNCHANGED <<cursor, cursorFile, receiptLog, auditLog, lane, worker, effect, executions>>,
         cursor < N, LoopType', EnvType'
  PROVE  TypeInv'
<1>1. RecordShape'
  BY JournalWrite DEF TypeInv
<1>2. Fresh(c) \in Nat
  BY FreshType
<1>3. JournalType'
  BY <1>1, <1>2 DEF TypeInv, TypeOK, JournalType, RecordShape, Shaped
<1>4. Call(c, Fresh(c), st) \in Calls
  BY <1>2, CallInCalls
<1>5. CallType'
  BY <1>4, ThreadTypes DEF TypeInv, TypeOK, CallType
<1>6. AdmissionShape' /\ OutboxType' /\ DispatchType' /\ ProviderType'
  BY DEF TypeInv, TypeOK, AdmissionShape, OutboxType, DispatchType, ProviderType
<1> QED BY <1>1, <1>3, <1>5, <1>6 DEF TypeInv, TypeOK

LEMMA ClaimAgainType ==
  ASSUME TypeInv, ClaimAgain
  PROVE  TypeInv'
<1> DEFINE c == Offered
           r == WithReceipt(c, Fresh(c), "indeterminate", FALSE)
<1>1. UNCHANGED <<cursor, cursorFile, receiptLog, auditLog, lane, worker, effect, executions>>
  BY DEF ClaimAgain, cursorVars, outboxVars, dispatchVars, providerVars
<1>2. cursor < N /\ c \in Commands
  BY OfferedType DEF ClaimAgain, Admissible
<1>3. LoopType'
  BY DEF ClaimAgain, TypeInv, TypeOK, LoopType, LoopPcs
<1>4. "indeterminate" \in ReceiptStates
  BY DEF ReceiptStates, RecordStates
<1>5. r \in Shaped
  BY <1>2, <1>4, WithReceiptShaped
<1>6. /\ journal' = journal \/ journal' = [journal EXCEPT ![c] = r]
      /\ minted' = minted \/ minted' = [minted EXCEPT ![c] = Fresh(c)]
      /\ enq' = enq \/ enq' = [enq EXCEPT ![LoopThread] = Call(c, Fresh(c), "indeterminate")]
  BY DEF ClaimAgain
<1>7. EnvType'
  BY EnvKept DEF ClaimAgain
<1> HIDE DEF c, r
<1> QED BY <1>1, <1>2, <1>3, <1>4, <1>5, <1>6, <1>7, AdmissionWriteType

LEMMA BeginType ==
  ASSUME TypeInv, BeginRunning \/ BeginFault
  PROVE  TypeInv'
<1> DEFINE c == Offered
           r == Running(journal[c], Fresh(c))
<1>1. UNCHANGED <<cursor, cursorFile, receiptLog, auditLog, lane, worker, effect, executions>>
  BY DEF BeginRunning, cursorVars, BeginFault, outboxVars, dispatchVars, providerVars
<1>2. cursor < N
  BY DEF BeginRunning, BeginFault, TypeInv, AdmissionShape, AdmissionPcs
<1>3. c \in Commands
  BY <1>2, OfferedType
<1>4. LoopType'
  BY ReturnType DEF BeginRunning, BeginFault, TypeInv, TypeOK, LoopType, LoopPcs
<1>5. "running" \in ReceiptStates
  BY DEF ReceiptStates, RecordStates
<1>6. r \in Shaped
  BY <1>3, FreshType, RunningShaped DEF TypeInv, RecordShape
<1>7. /\ journal' = journal \/ journal' = [journal EXCEPT ![c] = r]
      /\ minted' = minted \/ minted' = [minted EXCEPT ![c] = Fresh(c)]
      /\ enq' = enq \/ enq' = [enq EXCEPT ![LoopThread] = Call(c, Fresh(c), "running")]
  BY DEF BeginRunning, BeginFault
<1>8. EnvType'
  BY EnvKept, FaultType DEF BeginRunning, BeginFault
<1> HIDE DEF c, r
<1> QED BY <1>1, <1>2, <1>3, <1>4, <1>5, <1>6, <1>7, <1>8, AdmissionWriteType

LEMMA SubmitType ==
  ASSUME TypeInv, Submit
  PROVE  TypeInv'
<1> DEFINE c == Offered
<1>1. UNCHANGED <<journal, minted, cursor, cursorFile, receiptLog, auditLog, enq, effect, executions, crashes, faults>>
  BY DEF Submit, cursorVars, outboxVars, providerVars, envVars
<1>2. cursor < N
  BY DEF Submit, TypeInv, AdmissionShape, AdmissionPcs
<1>3. c \in Commands
  BY <1>2, OfferedType
<1>4. LoopType'
  BY ReturnType DEF Submit, TypeInv, TypeOK, LoopType, LoopPcs
<1>5. \/ lane' = lane
      \/ lane' = [lane EXCEPT ![LaneOf[c]] = Append(@, c)]
  BY DEF Submit, dispatchVars
<1>6. \/ worker' = worker
      \/ worker' = [worker EXCEPT ![c].pc = "queued"]
  BY DEF Submit, dispatchVars
<1>7. lane' \in [Lanes -> Seq(Commands)]
  <2>1. LaneOf[c] \in Lanes
    BY <1>3, ConstantsAssumption
  <2>2. Append(lane[LaneOf[c]], c) \in Seq(Commands)
    BY <1>3, <2>1 DEF TypeInv, TypeOK, DispatchType
  <2> QED BY <1>5, <2>1, <2>2 DEF TypeInv, TypeOK, DispatchType
<1>8. worker' \in [Commands -> Workers]
  BY <1>6 DEF TypeInv, TypeOK, DispatchType, Workers, WorkerPcs
<1>9. /\ RecordShape' /\ AdmissionShape' /\ JournalType' /\ OutboxType' /\ CallType'
      /\ ProviderType' /\ EnvType'
  BY <1>1, <1>2 DEF TypeInv, TypeOK, RecordShape, AdmissionShape, JournalType, OutboxType, CallType,
              ProviderType, EnvType
<1> QED BY <1>4, <1>7, <1>8, <1>9 DEF TypeInv, TypeOK, DispatchType

LEMMA SaveCursorType ==
  ASSUME TypeInv, SaveCursor
  PROVE  TypeInv'
<1>1. UNCHANGED <<journal, minted, receiptLog, auditLog, enq, lane, worker, effect, executions,
                  crashes, faults>>
  BY DEF SaveCursor, outboxVars, dispatchVars, providerVars, envVars
<1>2. cursor < N
  BY DEF SaveCursor, TypeInv, AdmissionShape, AdmissionPcs
<1>3. cursor' \in 0..N /\ cursorFile' \in 0..N
  BY <1>2, ConstantsAssumption DEF SaveCursor, Offered, TypeInv, TypeOK, JournalType
<1>4. LoopType' /\ pc' \notin AdmissionPcs
  BY ReturnType DEF SaveCursor
<1>5. /\ RecordShape' /\ JournalType' /\ OutboxType' /\ CallType' /\ DispatchType'
      /\ ProviderType' /\ EnvType'
  BY <1>1, <1>3 DEF TypeInv, TypeOK, RecordShape, JournalType, OutboxType, CallType, DispatchType,
              ProviderType, EnvType
<1> QED BY <1>4, <1>5 DEF TypeInv, TypeOK, AdmissionShape

LEMMA HeadType ==
  ASSUME TypeInv, NEW l \in Lanes, lane[l] # <<>>
  PROVE  Head(lane[l]) \in Commands /\ Tail(lane[l]) \in Seq(Commands)
BY DEF TypeInv, TypeOK, DispatchType

LEMMA StartWorkType ==
  ASSUME TypeInv, NEW l \in Lanes, StartWork(l)
  PROVE  TypeInv'
<1>1. UNCHANGED <<journal, minted, cursor, cursorFile, receiptLog, auditLog, pc, phase, todo, replaying, enq,
                  effect, crashes, faults>>
  BY DEF StartWork, cursorVars, outboxVars, loopVars, envVars
<1>2. Head(lane[l]) \in Commands /\ Tail(lane[l]) \in Seq(Commands)
  BY HeadType DEF StartWork
<1>3. lane' \in [Lanes -> Seq(Commands)]
  BY <1>2 DEF StartWork, TypeInv, TypeOK, DispatchType
<1>4. worker' \in [Commands -> Workers]
  BY DEF StartWork, TypeInv, TypeOK, DispatchType, Workers, WorkerPcs
<1>5. executions' \in [Commands -> Nat]
  <2>1. PICK h \in Commands : executions' = [executions EXCEPT ![h] = executions[h] + 1]
    BY <1>2 DEF StartWork
  <2>2. executions[h] + 1 \in Nat
    BY DEF TypeInv, TypeOK, ProviderType
  <2> QED BY <2>1, <2>2 DEF TypeInv, TypeOK, ProviderType
<1>6. /\ RecordShape' /\ AdmissionShape' /\ JournalType' /\ OutboxType' /\ LoopType' /\ CallType'
      /\ EnvType'
  BY <1>1 DEF TypeInv, TypeOK, RecordShape, AdmissionShape, JournalType, OutboxType, LoopType,
              CallType, EnvType
<1> QED BY <1>1, <1>3, <1>4, <1>5, <1>6 DEF TypeInv, TypeOK, DispatchType, ProviderType

\* The executor's answers are receipt states, its effects provider effects.
LEMMA OutcomeType ==
  ASSUME NEW c \in Commands, NEW o \in Outcomes(c)
  PROVE  o[1] \in ReceiptStates /\ o[2] \in Effects
BY ConstantsAssumption DEF Outcomes, ReceiptStates, RecordStates, Effects, Kinds

LEMMA ExecuteType ==
  ASSUME TypeInv, NEW c \in Commands, Execute(c)
  PROVE  TypeInv'
<1>1. UNCHANGED <<journal, minted, cursor, cursorFile, receiptLog, auditLog, pc, phase, todo, replaying, enq, lane,
                  executions, crashes, faults>>
  BY DEF Execute, cursorVars, outboxVars, loopVars, envVars
<1>2. PICK o \in Outcomes(c) :
        /\ worker' = [worker EXCEPT ![c] = [pc |-> "executed", st |-> o[1]]]
        /\ effect' = [effect EXCEPT ![c] = o[2]]
  BY DEF Execute
<1>3. o[1] \in ReceiptStates /\ o[2] \in Effects
  BY OutcomeType
<1>4. [pc |-> "executed", st |-> o[1]] \in Workers
  BY <1>3 DEF Workers, WorkerPcs
<1>5. DispatchType'
  BY <1>1, <1>2, <1>4 DEF TypeInv, TypeOK, DispatchType
<1>6. ProviderType'
  BY <1>1, <1>2, <1>3 DEF TypeInv, TypeOK, ProviderType
<1>7. /\ RecordShape' /\ AdmissionShape' /\ JournalType' /\ OutboxType' /\ LoopType' /\ CallType'
      /\ EnvType'
  BY <1>1 DEF TypeInv, TypeOK, RecordShape, AdmissionShape, JournalType, OutboxType, LoopType,
              CallType, EnvType
<1> QED BY <1>5, <1>6, <1>7 DEF TypeInv, TypeOK

LEMMA CompleteType ==
  ASSUME TypeInv, NEW c \in Commands, Complete(c) \/ CompleteFault(c)
  PROVE  TypeInv'
<1> DEFINE st == worker[c].st
           r == WithReceipt(c, Fresh(c), st, st = "submitted")
<1>1. UNCHANGED <<cursor, cursorFile, receiptLog, auditLog, pc, phase, todo, replaying, lane, effect, executions>>
  BY DEF Complete, cursorVars, CompleteFault, outboxVars, loopVars, providerVars
<1>2. st \in ReceiptStates
  BY DEF TypeInv, TypeOK, DispatchType, Workers
<1>3. r \in Shaped
  BY <1>2, WithReceiptShaped
<1>4. /\ journal' = journal \/ journal' = [journal EXCEPT ![c] = r]
      /\ minted' = minted \/ minted' = [minted EXCEPT ![c] = Fresh(c)]
      /\ enq' = enq \/ enq' = [enq EXCEPT ![c] = Call(c, Fresh(c), st)]
  BY DEF Complete, CompleteFault
<1>5. \/ worker' = [worker EXCEPT ![c].pc = "queueing"]
      \/ worker' = [worker EXCEPT ![c] = IdleWorker]
  BY DEF Complete, CompleteFault
<1>6. RecordShape'
  <2> HIDE DEF r
  <2> QED BY <1>3, <1>4, JournalWrite DEF TypeInv
<1>7. Fresh(c) \in Nat
  BY FreshType
<1>8. JournalType'
  BY <1>1, <1>4, <1>6, <1>7 DEF TypeInv, TypeOK, JournalType, RecordShape, Shaped
<1>9. Call(c, Fresh(c), st) \in Calls
  BY <1>2, <1>7, CallInCalls
<1>10. CallType'
  BY <1>4, <1>9, ThreadTypes DEF TypeInv, TypeOK, CallType
<1>11. worker' \in [Commands -> Workers]
  <2>1. CASE worker' = [worker EXCEPT ![c].pc = "queueing"]
    BY <2>1 DEF TypeInv, TypeOK, DispatchType, Workers, WorkerPcs
  <2>2. CASE worker' = [worker EXCEPT ![c] = IdleWorker]
    BY <2>2, IdleTypes DEF TypeInv, TypeOK, DispatchType
  <2> QED BY <1>5, <2>1, <2>2
<1>12. EnvType'
  BY EnvKept, FaultType DEF Complete, CompleteFault
<1>13. AdmissionShape' /\ OutboxType' /\ LoopType' /\ ProviderType'
  BY <1>1 DEF TypeInv, TypeOK, AdmissionShape, OutboxType, LoopType, ProviderType
<1> QED BY <1>1, <1>6, <1>8, <1>10, <1>11, <1>12, <1>13 DEF TypeInv, TypeOK, DispatchType

LEMMA TaskEndsType ==
  ASSUME TypeInv, NEW c \in Commands, TaskEnds(c)
  PROVE  TypeInv'
<1>1. UNCHANGED <<journal, minted, cursor, cursorFile, receiptLog, auditLog, pc, phase, todo, replaying, enq, lane,
                  worker, executions, crashes, faults>>
  BY DEF TaskEnds, cursorVars, outboxVars, loopVars, dispatchVars, envVars
<1>2. ProviderType'
  BY <1>1 DEF TaskEnds, TypeInv, TypeOK, ProviderType, Effects
<1>3. /\ RecordShape' /\ AdmissionShape' /\ JournalType' /\ OutboxType' /\ LoopType' /\ CallType'
      /\ DispatchType' /\ EnvType'
  BY <1>1 DEF TypeInv, TypeOK, RecordShape, AdmissionShape, JournalType, OutboxType, LoopType,
              CallType, DispatchType, EnvType
<1> QED BY <1>2, <1>3 DEF TypeInv, TypeOK

LEMMA CrashType ==
  ASSUME TypeInv, Crash
  PROVE  TypeInv'
<1>1. /\ UNCHANGED <<journal, minted, cursorFile, receiptLog, auditLog, effect, executions, faults>>
      /\ cursor' = cursorFile
  BY DEF Crash, outboxVars, providerVars
<1>2. LoopType' /\ AdmissionShape'
  BY DEF Crash, LoopType, LoopPcs, AdmissionShape, AdmissionPcs
<1>3. CallType'
  BY IdleTypes DEF Crash, CallType
<1>4. DispatchType'
  BY IdleTypes DEF Crash, DispatchType
<1>5. EnvType'
  BY <1>1 DEF Crash, TypeInv, TypeOK, EnvType
<1>6. RecordShape' /\ JournalType' /\ OutboxType' /\ ProviderType'
  BY <1>1 DEF TypeInv, TypeOK, RecordShape, JournalType, OutboxType, ProviderType
<1> QED BY <1>2, <1>3, <1>4, <1>5, <1>6 DEF TypeInv, TypeOK

LEMMA InitType == Init => TypeInv
<1> SUFFICES ASSUME Init PROVE TypeInv
  OBVIOUS
<1>1. NoRecord \in Shaped
  BY DEF NoRecord, Shaped, Records, RecordStates
<1>2. RecordShape
  BY <1>1 DEF Init, RecordShape
<1>3. JournalType
  BY <1>2, ShapedRecords, ConstantsAssumption DEF Init, JournalType
<1>4. LoopType /\ AdmissionShape
  BY DEF Init, LoopType, LoopPcs, AdmissionShape, AdmissionPcs
<1>7. OutboxType
  <2>1. <<>> \in Seq(Receipts) /\ {} \in SUBSET Receipts
    OBVIOUS
  <2> QED BY <2>1 DEF Init, OutboxType
<1>5. CallType /\ DispatchType
  BY IdleTypes DEF Init, CallType, DispatchType
<1>6. ProviderType /\ EnvType
  BY DEF Init, ProviderType, Effects, EnvType
<1> QED BY <1>2, <1>3, <1>4, <1>5, <1>6, <1>7 DEF TypeInv, TypeOK

LEMMA StutterType == ASSUME TypeInv, UNCHANGED vars PROVE TypeInv'
BY DEF TypeInv, TypeOK, RecordShape, AdmissionShape, JournalType, OutboxType, LoopType, CallType,
       DispatchType, ProviderType, EnvType, vars, cursorVars, outboxVars, loopVars, dispatchVars,
       providerVars, envVars

LEMMA EnqueueStepType ==
  ASSUME TypeInv, NEW t \in Threads, EnqueueStep(t)
  PROVE  TypeInv'
BY LookupAuditType, MarkAuditType, EnqueueReceiptType, MarkReceiptType, SendDeniedType
DEF EnqueueStep

LEMMA NextType == TypeInv /\ [Next]_vars => TypeInv'
<1> SUFFICES ASSUME TypeInv, [Next]_vars PROVE TypeInv'
  OBVIOUS
<1>1. CASE ReconcileStep
  BY <1>1, RecoverType, FlushOneType, PendingType, SubmittedType, ResolveType, ReconcileEndType
  DEF ReconcileStep
<1>2. CASE PollStep
  BY <1>2, PollReturnType, RefusedType, ClaimNewType, ClaimDuplicateType, ClaimAgainType,
     BeginType, SubmitType, SaveCursorType DEF PollStep, Delivery
<1>3. ASSUME NEW t \in Threads, EnqueueStep(t) \/ EnqueueFault(t)
      PROVE  TypeInv'
  BY <1>3, EnqueueStepType, EnqueueFaultType
<1>4. ASSUME NEW l \in Lanes, StartWork(l)
      PROVE  TypeInv'
  BY <1>4, StartWorkType
<1>5. ASSUME NEW c \in Commands, Execute(c) \/ Complete(c) \/ CompleteFault(c) \/ TaskEnds(c)
      PROVE  TypeInv'
  BY <1>5, ExecuteType, CompleteType, TaskEndsType
<1>6. CASE RecoverFault \/ ResolveFault \/ ReconcileFault \/ PollFault \/ ClaimFault \/ BeginFault \/ Crash
  BY <1>6, RecoverFaultType, ResolveFaultType, ReconcileEndType, PollReturnType, ClaimNewType, BeginType, CrashType
<1>7. CASE UNCHANGED vars
  BY <1>7, StutterType
<1> QED BY <1>1, <1>2, <1>3, <1>4, <1>5, <1>6, <1>7, ThreadTypes
        DEF Next, LoopStep, WorkerStep

\* The variables keep the types their declarations give them, with any
\* number of commands, lanes, crashes and failed writes.
THEOREM Typed == Spec => []TypeOK
<1>1. Spec => []TypeInv
  BY InitType, NextType, PTL DEF Spec
<1>2. TypeInv => TypeOK
  BY DEF TypeInv
<1> QED BY <1>1, <1>2, PTL

-----------------------------------------------------------------------------
(* Safety: the inductive invariant TypeInv /\ SafeInv.                      *)

SafeInv ==
  /\ AdmissionFresh /\ UnstartedIdle /\ OwnedRunning /\ QueuedFresh /\ LaneShape
  /\ CallShape /\ TodoShape /\ ReportFits /\ EffectShape /\ OneHolder /\ HonestOutcome

AdmittingPcs == {"begin", "started", "submit"}

\* No record changes its state in this step.
StatesKept == \A c \in Commands : journal'[c].state = journal[c].state

\* A worker's call only goes on or ends.
CallsKept == \A c \in Commands : enq'[c].step # "idle" => enq[c].step # "idle"

-----------------------------------------------------------------------------
\* A step that changes no record's state, no worker, lane or provider, and
\* neither enters an admission nor adds to the tasks being resolved.
LEMMA QuietStep ==
  ASSUME TypeInv, SafeInv, StatesKept, CallsKept,
         UNCHANGED <<lane, worker, effect, executions>>,
         pc' \in AdmittingPcs => /\ pc \in AdmittingPcs /\ UNCHANGED cursor
                                 /\ pc' = "begin" <=> pc = "begin",
         pc' = "resolve" => pc = "resolve" /\ todo' \subseteq todo
  PROVE  SafeInv'
<1>1. AdmissionFresh'
  <2>1. CASE pc' \in AdmittingPcs
    <3>1. cursor < N
      BY <2>1 DEF TypeInv, AdmissionShape, AdmissionPcs, AdmittingPcs
    <3>2. Offered \in Commands /\ Offered' = Offered
      BY <2>1, <3>1, OfferedType DEF Offered
    <3> QED BY <2>1, <3>2 DEF SafeInv, AdmissionFresh, StatesKept, AdmittingPcs
  <2>2. CASE pc' \notin AdmittingPcs
    BY <2>2 DEF AdmissionFresh, AdmittingPcs
  <2> QED BY <2>1, <2>2
<1>2. UnstartedIdle'
  BY DEF SafeInv, UnstartedIdle, StatesKept
<1>3. OwnedRunning'
  BY DEF SafeInv, OwnedRunning, StatesKept
<1>4. QueuedFresh'
  BY DEF SafeInv, QueuedFresh
<1>5. LaneShape'
  BY DEF SafeInv, LaneShape
<1>6. CallShape'
  BY DEF SafeInv, CallShape, CallsKept
<1>7. TodoShape'
  <2>1. \A item \in todo : item.cmd \in Commands
    BY DEF TypeInv, TypeOK, LoopType, Items
  <2> QED BY <2>1 DEF SafeInv, TodoShape, StatesKept
<1>8. ReportFits'
  BY DEF SafeInv, ReportFits
<1>9. EffectShape'
  BY DEF SafeInv, EffectShape, StatesKept
<1>10. OneHolder'
  BY DEF SafeInv, OneHolder, StatesKept
<1>11. HonestOutcome'
  BY DEF SafeInv, HonestOutcome, StatesKept
<1> QED BY <1>1, <1>2, <1>3, <1>4, <1>5, <1>6, <1>7, <1>8, <1>9, <1>10, <1>11 DEF SafeInv

\* A worker that was queueing its receipt ends.
LEMMA WorkerEnds ==
  ASSUME TypeInv, SafeInv, StatesKept, CallsKept, NEW c \in Commands,
         worker[c].pc = "queueing", worker' = [worker EXCEPT ![c] = IdleWorker],
         enq'[c].step = "idle",
         UNCHANGED <<lane, effect, executions, cursor, pc, todo>>
  PROVE  SafeInv'
<1>1. \A d \in Commands : d # c => worker'[d] = worker[d]
  BY DEF TypeInv, TypeOK, DispatchType
<1>2. worker'[c].pc = "idle"
  BY DEF TypeInv, TypeOK, DispatchType, IdleWorker
<1>3. AdmissionFresh'
  <2>1. CASE pc \in AdmittingPcs
    <3>1. cursor < N
      BY <2>1 DEF TypeInv, AdmissionShape, AdmissionPcs, AdmittingPcs
    <3>2. Offered \in Commands /\ Offered' = Offered
      BY <2>1, <3>1, OfferedType DEF Offered
    <3> QED BY <1>1, <1>2, <2>1, <3>2 DEF SafeInv, AdmissionFresh, StatesKept, AdmittingPcs
  <2>2. CASE pc \notin AdmittingPcs
    BY <2>2 DEF AdmissionFresh, AdmittingPcs
  <2> QED BY <2>1, <2>2
<1>4. UnstartedIdle'
  BY <1>1, <1>2 DEF SafeInv, UnstartedIdle, StatesKept
<1>5. OwnedRunning'
  BY <1>1, <1>2 DEF SafeInv, OwnedRunning, StatesKept
<1>6. QueuedFresh'
  BY <1>1, <1>2 DEF SafeInv, QueuedFresh
<1>7. LaneShape'
  <2>1. \A l \in Lanes : \A i \in 1..Len(lane[l]) : lane[l][i] \in Commands /\ lane[l][i] # c
    BY DEF TypeInv, TypeOK, DispatchType, SafeInv, LaneShape
  <2> QED BY <1>1, <2>1 DEF SafeInv, LaneShape
<1>8. CallShape'
  BY <1>1, <1>2 DEF SafeInv, CallShape, CallsKept
<1>9. TodoShape'
  <2>1. \A item \in todo : item.cmd \in Commands
    BY DEF TypeInv, TypeOK, LoopType, Items
  <2> QED BY <2>1 DEF SafeInv, TodoShape, StatesKept
<1>10. ReportFits'
  BY <1>1, <1>2 DEF SafeInv, ReportFits
<1>11. EffectShape' /\ OneHolder' /\ HonestOutcome'
  BY DEF SafeInv, EffectShape, OneHolder, HonestOutcome, StatesKept
<1> QED BY <1>3, <1>4, <1>5, <1>6, <1>7, <1>8, <1>9, <1>10, <1>11 DEF SafeInv

\* The end of an enqueueJournaled call, in the loop or in a worker.
LEMMA CallReturnSafe ==
  ASSUME TypeInv, SafeInv, StatesKept, NEW t \in Threads, enq[t].step # "idle",
         CallDone(t) \/ CallFailed(t), UNCHANGED <<cursor, lane, effect, executions>>
  PROVE  SafeInv'
<1>1. enq' = [enq EXCEPT ![t] = IdleCall]
  BY DEF CallDone, CallFailed
<1>2. enq'[t].step = "idle" /\ CallsKept
  BY <1>1, ThreadTypes DEF CallsKept, IdleCall, TypeInv, TypeOK, CallType
<1>3. CASE t = LoopThread
  <2>1. UNCHANGED worker
    BY <1>3 DEF CallDone, CallFailed
  <2>2. \/ pc' = "recover"
        \/ UNCHANGED todo /\ (pc' = pc \/ (pc = "started" /\ pc' = "submit") \/ pc' = "saveCursor")
    BY <1>3 DEF CallDone, CallFailed, PollReturned, ReconcileFailed
  <2> QED BY <1>2, <2>1, <2>2, QuietStep DEF AdmittingPcs
<1>4. CASE t # LoopThread
  <2>1. t \in Commands
    BY <1>4, WorkerThread
  <2>2. worker[t].pc = "queueing"
    BY <2>1 DEF SafeInv, CallShape
  <2>3. worker' = [worker EXCEPT ![t] = IdleWorker] /\ UNCHANGED <<pc, todo>>
    BY <1>4 DEF CallDone, CallFailed, loopVars
  <2> QED BY <1>2, <2>1, <2>2, <2>3, WorkerEnds
<1> QED BY <1>3, <1>4

\* Acknowledging a record leaves its state.
LEMMA AcknowledgedState ==
  ASSUME NEW r \in Records
  PROVE  AuditAcknowledged(r).state = r.state /\ ReceiptAcknowledged(r).state = r.state
BY DEF AuditAcknowledged, ReceiptAcknowledged, Records

LEMMA JournalRecords == ASSUME TypeInv PROVE journal \in [Commands -> Records]
BY DEF TypeInv, TypeOK, JournalType

LEMMA EnqueueSafe ==
  ASSUME TypeInv, SafeInv, NEW t \in Threads, EnqueueStep(t) \/ EnqueueFault(t)
  PROVE  SafeInv'
<1>1. UNCHANGED <<cursor, lane, effect, executions>> /\ enq[t].step # "idle"
  BY DEF EnqueueStep, cursorVars, EnqueueFault, LookupAudit, MarkAuditQueued, EnqueueReceipt,
         MarkReceiptQueued, SendDenied, dispatchVars, providerVars
<1>2. enq[t].cmd \in Commands
  BY DEF TypeInv, TypeOK, CallType, Calls
<1>3. \/ journal' = journal
      \/ journal' = [journal EXCEPT ![enq[t].cmd] = AuditAcknowledged(journal[enq[t].cmd])]
      \/ journal' = [journal EXCEPT ![enq[t].cmd] = ReceiptAcknowledged(journal[enq[t].cmd])]
  BY DEF EnqueueStep, EnqueueFault, LookupAudit, MarkAuditQueued, EnqueueReceipt, MarkReceiptQueued,
         SendDenied
<1>4. StatesKept
  BY <1>2, <1>3, AcknowledgedState, JournalRecords DEF StatesKept
<1>5. CASE CallDone(t) \/ CallFailed(t)
  BY <1>1, <1>4, <1>5, CallReturnSafe
<1>6. CASE ~(CallDone(t) \/ CallFailed(t))
  <2>1. /\ \E s \in CallSteps : enq' = [enq EXCEPT ![t].step = s]
        /\ UNCHANGED <<pc, todo, worker>>
    BY <1>6 DEF EnqueueStep, EnqueueFault, LookupAudit, MarkAuditQueued, EnqueueReceipt,
                MarkReceiptQueued, SendDenied, CallSteps, loopVars, dispatchVars
  <2>2. CallsKept
    BY <1>1, <2>1, ThreadTypes DEF CallsKept, TypeInv, TypeOK, CallType
  <2> QED BY <1>1, <1>4, <2>1, <2>2, QuietStep DEF AdmittingPcs
<1> QED BY <1>5, <1>6

\* Steps of the loop that only list, replay, refuse, observe nothing, fail
\* or save the cursor.
LEMMA LoopQuietSafe ==
  ASSUME TypeInv, SafeInv,
         \/ FlushOne \/ PendingReceipts \/ ReconcileDone \/ ReconcileFault
         \/ PollNothing \/ PollRefused \/ PollLaneFull \/ PollFault \/ ClaimDuplicate
         \/ SaveCursor
  PROVE  SafeInv'
<1>1. UNCHANGED <<journal, lane, worker, effect, executions>>
  BY DEF FlushOne, PendingReceipts, ReconcileDone, ReconcileFault, PollNothing, PollRefused,
         PollLaneFull, PollFault, ClaimDuplicate, SaveCursor, dispatchVars, providerVars
<1>2. StatesKept
  BY <1>1 DEF StatesKept
<1>3. \/ enq' = enq
      \/ \E x : enq' = [enq EXCEPT ![LoopThread] = x]
  <2>1. CASE FlushOne \/ ClaimDuplicate \/ PollRefused
    BY <2>1 DEF FlushOne, ClaimDuplicate, PollRefused, Reject
  <2>2. CASE ~(FlushOne \/ ClaimDuplicate \/ PollRefused)
    BY <2>2 DEF PendingReceipts, ReconcileDone, ReconcileFault, PollNothing, PollLaneFull,
                PollFault, SaveCursor
  <2> QED BY <2>1, <2>2
<1>4. CallsKept
  BY <1>3, ConstantsAssumption DEF CallsKept, TypeInv, TypeOK, CallType, LoopThread, Threads, Commands
<1>5. pc' \notin AdmittingPcs /\ pc' # "resolve"
  <2>1. CASE ReconcileDone \/ ReconcileFault \/ PollNothing \/ PollLaneFull \/ PollFault \/ SaveCursor
    BY <2>1 DEF ReconcileDone, ReconcileFault, PollNothing, PollLaneFull, PollFault, SaveCursor,
         ReconcileOk, ReconcileFailed, PollReturned, AdmittingPcs
  <2>2. CASE FlushOne \/ PendingReceipts \/ PollRefused \/ ClaimDuplicate
    BY <2>2 DEF FlushOne, PendingReceipts, PollRefused, Reject, ClaimDuplicate, AdmittingPcs
  <2> QED BY <2>1, <2>2
<1> QED BY <1>1, <1>2, <1>4, <1>5, QuietStep

\* Record c may move to its new state while worker, lane and provider rest.
MayMove(c) ==
  /\ worker[c].pc \notin {"queued", "executing", "executed"}
  /\ journal'[c].state \in {"absent", "received"} => journal[c].state \in {"absent", "received"}
  /\ effect[c] = "running" => journal'[c].state \in Busy
  /\ Kind[c] = "upgrade" /\ journal'[c].state \in {"received", "running"}
     => effect[c] \in {"none", "prepared"}
  /\ Mutating(c) =>
       /\ journal'[c].state = "succeeded" => effect[c] = "done"
       /\ journal'[c].state \in {"failed", "rejected"} => effect[c] \in {"none", "prepared", "failed"}

LEMMA RecordStep ==
  ASSUME TypeInv, SafeInv, CallsKept, UNCHANGED <<lane, worker, effect, executions>>,
         \A c \in Commands : journal'[c].state = journal[c].state \/ MayMove(c),
         AdmissionFresh', TodoShape', OneHolder'
  PROVE  SafeInv'
<1>1. UnstartedIdle'
  BY DEF SafeInv, UnstartedIdle, MayMove
<1>2. OwnedRunning'
  BY DEF SafeInv, OwnedRunning, MayMove
<1>3. QueuedFresh'
  BY DEF SafeInv, QueuedFresh
<1>4. LaneShape'
  BY DEF SafeInv, LaneShape
<1>5. CallShape'
  BY DEF SafeInv, CallShape, CallsKept
<1>6. ReportFits'
  BY DEF SafeInv, ReportFits
<1>7. EffectShape'
  BY DEF SafeInv, EffectShape, MayMove
<1>8. HonestOutcome'
  BY DEF SafeInv, HonestOutcome, MayMove
<1> QED BY <1>1, <1>2, <1>3, <1>4, <1>5, <1>6, <1>7, <1>8 DEF SafeInv

\* Records that do not become busy leave OneHolder.
LEMMA HolderKept ==
  ASSUME SafeInv, \A c \in Commands : journal'[c].state \in Busy => journal[c].state \in Busy
  PROVE  OneHolder'
BY DEF SafeInv, OneHolder

\* The state completeLocked writes.
LEMMA WithReceiptState ==
  ASSUME NEW c, NEW id, NEW st, NEW hasTask
  PROVE  WithReceipt(c, id, st, hasTask).state = st
BY DEF WithReceipt

LEMMA RecoverSafe ==
  ASSUME TypeInv, SafeInv, RecoverIncomplete \/ RecoverFault
  PROVE  SafeInv'
<1>1. UNCHANGED <<enq, lane, worker, effect, executions>> /\ pc' \in {"flushRecovered", "recover"}
  BY DEF RecoverIncomplete, RecoverFault, ReconcileFailed, dispatchVars, providerVars
<1>2. CallsKept /\ AdmissionFresh' /\ TodoShape'
  BY <1>1 DEF CallsKept, AdmissionFresh, TodoShape
<1> PICK lost \in SUBSET InterruptedCommands : RecoverRecords(lost)
  BY DEF RecoverIncomplete, RecoverFault
<1>0. lost \subseteq Commands
  BY DEF InterruptedCommands
<1>3. \A c \in Commands :
        IF c \in lost THEN journal'[c].state = RecoveredState(c) ELSE journal'[c] = journal[c]
  <2>1. \A c \in Commands :
          journal'[c] = IF c \in lost THEN WithReceipt(c, Fresh(c), RecoveredState(c), FALSE)
                                      ELSE journal[c]
    BY DEF RecoverRecords
  <2>2. ASSUME NEW c \in lost PROVE journal'[c].state = RecoveredState(c)
    <3>1. journal'[c] = WithReceipt(c, Fresh(c), RecoveredState(c), FALSE)
      BY <1>0, <2>1
    <3>2. WithReceipt(c, Fresh(c), RecoveredState(c), FALSE).state = RecoveredState(c)
      BY DEF WithReceipt
    <3> QED BY <3>1, <3>2
  <2>3. ASSUME NEW c \in Commands, c \notin lost PROVE journal'[c] = journal[c]
    BY <2>1, <2>3
  <2> QED BY <2>2, <2>3
<1>4. ASSUME NEW c \in lost PROVE MayMove(c) /\ journal[c].state \in Busy
  <2>1. journal'[c].state = RecoveredState(c)
    BY <1>0, <1>3
  <2>2. journal[c].state \in {"received", "running"} /\ worker[c].pc = "idle"
    BY DEF InterruptedCommands, Interrupted, Active
  <2>3. RecoveredState(c) \in {"failed", "indeterminate"}
    BY DEF RecoveredState
  <2>4. RecoveredState(c) = "failed" => effect[c] \in {"none", "prepared"}
    BY <1>0, <2>2 DEF RecoveredState, SafeInv, EffectShape
  <2> QED BY <2>1, <2>2, <2>3, <2>4 DEF MayMove, Busy
<1>5. \A c \in Commands : journal'[c].state = journal[c].state \/ MayMove(c)
  BY <1>3, <1>4
<1>6. OneHolder'
  BY <1>3, <1>4, HolderKept
<1> QED BY <1>1, <1>2, <1>5, <1>6, RecordStep

LEMMA SubmittedSafe ==
  ASSUME TypeInv, SafeInv, SubmittedWaiting
  PROVE  SafeInv'
<1>1. UNCHANGED <<journal, cursor, enq, lane, worker, effect, executions>>
  BY DEF SubmittedWaiting, cursorVars, dispatchVars, providerVars
<1>2. pc' \notin AdmittingPcs
  BY DEF SubmittedWaiting, ReconcileOk, AdmittingPcs
<1>3. AdmissionFresh' /\ CallsKept
  BY <1>1, <1>2 DEF AdmissionFresh, AdmittingPcs, CallsKept
<1>4. TodoShape'
  <2>1. CASE pc' # "resolve"
    BY <2>1 DEF TodoShape
  <2>2. CASE pc' = "resolve"
    <3> DEFINE S == {d \in Commands : journal[d].state \in {"submitted", "waiting"} /\ journal[d].task}
    <3>1. todo' = {[cmd |-> c, rid |-> journal[c].rid, st |-> journal[c].state] : c \in S}
      BY <2>2 DEF SubmittedWaiting, ReconcileOk
    <3>2. \A i \in todo' : i.cmd \in S /\ i = [cmd |-> i.cmd, rid |-> journal[i.cmd].rid, st |-> journal[i.cmd].state]
      BY <3>1
    <3>3. \A i \in todo' : journal'[i.cmd].state \in {"submitted", "waiting"}
      BY <1>1, <3>2
    <3>4. \A i, k \in todo' : i.cmd = k.cmd => i = k
      BY <3>2
    <3> QED BY <3>3, <3>4 DEF TodoShape
  <2> QED BY <2>1, <2>2
<1>5. OneHolder'
  BY <1>1, HolderKept
<1>6. \A c \in Commands : journal'[c].state = journal[c].state
  BY <1>1
<1> QED BY <1>1, <1>3, <1>4, <1>5, <1>6, RecordStep

LEMMA ResolveSafe ==
  ASSUME TypeInv, SafeInv, ResolveTask \/ ResolveFault
  PROVE  SafeInv'
<1>1. UNCHANGED <<cursor, lane, worker, executions>> /\ pc = "resolve" /\ pc' \in {"resolve", "recover"}
  BY DEF ResolveTask, ResolveFault, ReconcileFailed, cursorVars, dispatchVars
<1>2. PICK item \in todo, st \in ReceiptStates :
        /\ st \in Observations(item.cmd)
        /\ \/ journal' = journal /\ pc' = "recover"
           \/ journal' = [journal EXCEPT ![item.cmd] = WithReceipt(item.cmd, Fresh(item.cmd), st, TRUE)]
        /\ effect' = [effect EXCEPT ![item.cmd] = IF @ = "prepared" THEN "running" ELSE @]
        /\ enq' = enq \/ enq' = [enq EXCEPT ![LoopThread] = Call(item.cmd, Fresh(item.cmd), st)]
        /\ pc' = "resolve" => todo' = todo \ {item}
  <2>1. CASE ResolveTask
    BY <2>1 DEF ResolveTask
  <2>2. CASE ResolveFault
    BY <2>2 DEF ResolveFault, ReconcileFailed
  <2> QED BY <2>1, <2>2
<1>3. PICK c \in Commands : c = item.cmd
  BY DEF TypeInv, TypeOK, LoopType, Items
<1>4. journal[c].state \in {"submitted", "waiting"}
  BY <1>1, <1>3 DEF SafeInv, TodoShape
<1>5. worker[c].pc \notin {"queued", "executing", "executed"}
  BY <1>4 DEF SafeInv, OwnedRunning
<1>6. \A d \in Commands : d # c => journal'[d] = journal[d] /\ effect'[d] = effect[d]
  BY <1>2, <1>3 DEF TypeInv, TypeOK, JournalType, ProviderType
<1>7. journal'[c] = journal[c] \/ journal'[c].state = st
  <2>1. journal'[c] = journal[c] \/ journal'[c] = WithReceipt(c, Fresh(c), st, TRUE)
    BY <1>2, <1>3 DEF TypeInv, TypeOK, JournalType
  <2> QED BY <2>1 DEF WithReceipt
<1>8. effect'[c] = IF effect[c] = "prepared" THEN "running" ELSE effect[c]
  BY <1>2, <1>3 DEF TypeInv, TypeOK, ProviderType
<1>9. /\ st \in {"waiting", "succeeded", "failed"}
      /\ st = "succeeded" => effect[c] = "done"
      /\ st = "failed" => effect[c] = "failed"
  BY <1>2, <1>3 DEF Observations
<1>10. AdmissionFresh'
  BY <1>1 DEF AdmissionFresh
<1>11. UnstartedIdle' /\ OwnedRunning'
  BY <1>1, <1>4, <1>5, <1>6, <1>7, <1>9 DEF SafeInv, UnstartedIdle, OwnedRunning
<1>12. QueuedFresh'
  BY <1>1, <1>5, <1>6 DEF SafeInv, QueuedFresh
<1>13. LaneShape'
  BY <1>1 DEF SafeInv, LaneShape
<1>14. CallShape'
  <2>1. \A d \in Commands : enq'[d] = enq[d]
    BY <1>2, ConstantsAssumption DEF TypeInv, TypeOK, CallType, LoopThread, Threads, Commands
  <2> QED BY <1>1, <2>1 DEF SafeInv, CallShape
<1>15. TodoShape'
  <2>1. \A i \in todo : i.cmd \in Commands
    BY DEF TypeInv, TypeOK, LoopType, Items
  <2>2. pc' = "resolve" => \A i \in todo' : i \in todo /\ i.cmd # c
    BY <1>1, <1>2, <1>3 DEF SafeInv, TodoShape
  <2> QED BY <1>1, <1>6, <2>1, <2>2 DEF SafeInv, TodoShape
<1>16. ReportFits'
  BY <1>1, <1>5, <1>6 DEF SafeInv, ReportFits
<1>17. EffectShape'
  BY <1>4, <1>6, <1>7, <1>8, <1>9 DEF SafeInv, EffectShape, Busy
<1>18. OneHolder'
  BY <1>4, <1>6, HolderKept DEF Busy
<1>19. HonestOutcome'
  BY <1>4, <1>6, <1>7, <1>8, <1>9 DEF SafeInv, HonestOutcome
<1> QED BY <1>10, <1>11, <1>12, <1>13, <1>14, <1>15, <1>16, <1>17, <1>18, <1>19 DEF SafeInv

\* A claim takes a resource no unresolved record holds.
LEMMA ClaimSafe ==
  ASSUME TypeInv, SafeInv, ClaimNew \/ ClaimFault
  PROVE  SafeInv'
<1>1. UNCHANGED <<cursor, lane, worker, effect, executions>>
  BY DEF ClaimNew, cursorVars, ClaimFault, dispatchVars, providerVars
<1>2. PICK c \in Commands : c = Offered
  BY OfferedType DEF ClaimNew, ClaimFault, Admissible
<1>3. journal[c].state = "absent" /\ Offered' = c
  BY <1>1, <1>2 DEF ClaimNew, ClaimFault, Offered
<1>4. CallsKept
  <2>1. enq' = enq \/ \E x : enq' = [enq EXCEPT ![LoopThread] = x]
    BY DEF ClaimNew, ClaimFault, Reject
  <2> QED BY <2>1, ConstantsAssumption DEF CallsKept, TypeInv, TypeOK, CallType, LoopThread, Threads,
       Commands
<1>5. CASE journal' = journal
  <2>1. pc' = "deny"
    <3>1. CASE ClaimFault
      BY <3>1 DEF ClaimFault, Reject
    <3>2. CASE ClaimNew
      <4>1. journal' # [journal EXCEPT ![c] = Claimed(journal[c])]
        <5>1. Claimed(journal[c]).state = "received"
          BY JournalRecords DEF Claimed, Records
        <5> QED BY <1>3, <1>5, <5>1 DEF TypeInv, TypeOK, JournalType
      <4> QED BY <1>2, <3>2, <4>1 DEF ClaimNew, Reject
    <3> QED BY <3>1, <3>2
  <2>2. StatesKept
    BY <1>5 DEF StatesKept
  <2> QED BY <1>1, <1>4, <2>1, <2>2, QuietStep DEF AdmittingPcs
<1>6. CASE journal' # journal
  <2>1. /\ ~(Mutating(c) /\ ResourceBusy(c))
        /\ journal' = [journal EXCEPT ![c] = Claimed(journal[c])]
        /\ pc' \in {"begin", "deny"}
    BY <1>2, <1>6 DEF ClaimNew, ClaimFault, Reject
  <2>2. \A d \in Commands : d # c => journal'[d] = journal[d]
    BY <2>1 DEF TypeInv, TypeOK, JournalType
  <2>3. journal'[c].state = "received"
    <3>1. journal'[c] = Claimed(journal[c])
      BY <2>1 DEF TypeInv, TypeOK, JournalType
    <3> QED BY <3>1, JournalRecords DEF Claimed, Records
  <2>4. worker[c].pc = "idle" /\ executions[c] = 0 /\ effect[c] = "none"
    BY <1>3 DEF SafeInv, UnstartedIdle
  <2>5. AdmissionFresh' /\ TodoShape'
    BY <1>1, <1>3, <2>1, <2>3, <2>4 DEF AdmissionFresh, TodoShape
  <2>6. OneHolder'
    BY <2>1, <2>2, <2>3 DEF SafeInv, OneHolder, ResourceBusy
  <2>7. \A d \in Commands : journal'[d].state = journal[d].state \/ MayMove(d)
    BY <1>3, <2>2, <2>3, <2>4 DEF MayMove
  <2> QED BY <1>1, <1>4, <2>5, <2>6, <2>7, RecordStep
<1> QED BY <1>5, <1>6

\* A later admission step writes one record that stays unresolved.
LEMMA AdmissionSafe ==
  ASSUME TypeInv, SafeInv, ClaimAgain \/ BeginRunning \/ BeginFault
  PROVE  SafeInv'
<1>1. UNCHANGED <<cursor, lane, worker, effect, executions>>
  BY DEF ClaimAgain, cursorVars, BeginRunning, BeginFault, dispatchVars, providerVars
<1>2. cursor < N
  BY DEF ClaimAgain, Admissible, BeginRunning, BeginFault, TypeInv, AdmissionShape, AdmissionPcs
<1>3. PICK c \in Commands : c = Offered
  BY <1>2, OfferedType
<1>4. Offered' = c
  BY <1>1, <1>3 DEF Offered
<1>5. journal[c].state = "received"
  BY <1>3 DEF ClaimAgain, BeginRunning, BeginFault, SafeInv, AdmissionFresh
<1>6. worker[c].pc = "idle" /\ executions[c] = 0 /\ effect[c] = "none"
  BY <1>5 DEF SafeInv, UnstartedIdle
<1>7. CallsKept
  <2>1. enq' = enq \/ \E x : enq' = [enq EXCEPT ![LoopThread] = x]
    BY DEF ClaimAgain, BeginRunning, BeginFault
  <2> QED BY <2>1, ConstantsAssumption DEF CallsKept, TypeInv, TypeOK, CallType, LoopThread, Threads,
       Commands
<1>8. /\ \A d \in Commands : d # c => journal'[d] = journal[d]
      /\ \/ journal'[c].state = "received" /\ pc' \in {"begin", "recover"}
         \/ journal'[c].state = "running" /\ pc' \in {"started", "recover"}
         \/ journal'[c].state = "indeterminate" /\ pc' = "duplicate"
  <2>1. Running(journal[c], Fresh(c)).state = "running"
    BY JournalRecords DEF Running, Records
  <2>2. CASE ClaimAgain
    <3>1. CASE Mutating(c)
      <4>1. journal' = [journal EXCEPT ![c] = WithReceipt(c, Fresh(c), "indeterminate", FALSE)]
            /\ pc' = "duplicate"
        BY <1>3, <2>2, <3>1 DEF ClaimAgain
      <4>2. WithReceipt(c, Fresh(c), "indeterminate", FALSE).state = "indeterminate"
        BY DEF WithReceipt
      <4> QED BY <4>1, <4>2 DEF TypeInv, TypeOK, JournalType
    <3>2. CASE ~Mutating(c)
      BY <1>3, <1>5, <2>2, <3>2 DEF ClaimAgain
    <3> QED BY <3>1, <3>2
  <2>3. CASE BeginRunning
    <3>1. journal' = [journal EXCEPT ![c] = Running(journal[c], Fresh(c))] /\ pc' = "started"
      BY <1>3, <2>3 DEF BeginRunning
    <3> QED BY <2>1, <3>1 DEF TypeInv, TypeOK, JournalType
  <2>4. CASE BeginFault
    <3>1. /\ journal' = journal \/ journal' = [journal EXCEPT ![c] = Running(journal[c], Fresh(c))]
          /\ pc' = "recover"
      BY <1>3, <2>4 DEF BeginFault, PollReturned
    <3> QED BY <1>5, <2>1, <3>1 DEF TypeInv, TypeOK, JournalType
  <2> QED BY <2>2, <2>3, <2>4
<1>9. AdmissionFresh' /\ TodoShape'
  BY <1>1, <1>4, <1>6, <1>8 DEF AdmissionFresh, TodoShape
<1>10. OneHolder'
  BY <1>5, <1>8, HolderKept DEF Busy
<1>11. \A d \in Commands : journal'[d].state = journal[d].state \/ MayMove(d)
  BY <1>5, <1>6, <1>8 DEF MayMove
<1> QED BY <1>1, <1>7, <1>9, <1>10, <1>11, RecordStep

LEMMA SubmitSafe ==
  ASSUME TypeInv, SafeInv, Submit
  PROVE  SafeInv'
<1>1. UNCHANGED <<journal, cursor, enq, effect, executions>> /\ pc = "submit"
  BY DEF Submit, cursorVars, providerVars
<1>2. cursor < N
  BY <1>1 DEF TypeInv, AdmissionShape, AdmissionPcs
<1>3. PICK c \in Commands : c = Offered
  BY <1>2, OfferedType
<1>4. pc' \in {"saveCursor", "recover"}
  BY DEF Submit, PollReturned
<1>5. StatesKept /\ CallsKept
  BY <1>1 DEF StatesKept, CallsKept
<1>6. /\ journal[c].state = "running" /\ worker[c].pc = "idle"
      /\ executions[c] = 0 /\ effect[c] = "none"
  BY <1>1, <1>3 DEF SafeInv, AdmissionFresh
<1>7. CASE UNCHANGED dispatchVars
  BY <1>1, <1>4, <1>5, <1>7, QuietStep DEF dispatchVars, AdmittingPcs
<1>8. CASE ~UNCHANGED dispatchVars
  <2>1. /\ lane' = [lane EXCEPT ![LaneOf[c]] = Append(lane[LaneOf[c]], c)]
        /\ worker' = [worker EXCEPT ![c].pc = "queued"]
    BY <1>3, <1>8 DEF Submit, dispatchVars
  <2>2. LaneOf[c] \in Lanes
    BY ConstantsAssumption
  <2>3. /\ worker'[c].pc = "queued"
        /\ \A d \in Commands : d # c => worker'[d] = worker[d]
    BY <2>1 DEF TypeInv, TypeOK, DispatchType, Workers
  <2>4. AdmissionFresh' /\ TodoShape'
    BY <1>4 DEF AdmissionFresh, TodoShape
  <2>5. UnstartedIdle'
    BY <1>1, <1>6, <2>3 DEF SafeInv, UnstartedIdle
  <2>6. OwnedRunning'
    BY <1>1, <1>6, <2>3 DEF SafeInv, OwnedRunning
  <2>7. QueuedFresh'
    BY <1>1, <1>6, <2>3 DEF SafeInv, QueuedFresh
  <2>8. CallShape'
    BY <1>1, <1>6, <2>3 DEF SafeInv, CallShape
  <2>9. ReportFits'
    BY <1>1, <2>3 DEF SafeInv, ReportFits
  <2>10. EffectShape' /\ OneHolder' /\ HonestOutcome'
    BY <1>1 DEF SafeInv, EffectShape, OneHolder, HonestOutcome
  <2>11. LaneShape'
    <3> DEFINE q == lane[LaneOf[c]]
    <3>1. q \in Seq(Commands) /\ lane'[LaneOf[c]] = Append(q, c)
      BY <2>1, <2>2 DEF TypeInv, TypeOK, DispatchType
    <3>2. \A l \in Lanes : l # LaneOf[c] => lane'[l] = lane[l]
      BY <2>1 DEF TypeInv, TypeOK, DispatchType
    <3>3. \A l \in Lanes : \A i \in 1..Len(lane[l]) : lane[l][i] \in Commands /\ lane[l][i] # c
      BY <1>6 DEF TypeInv, TypeOK, DispatchType, SafeInv, LaneShape
    <3>4. /\ Len(Append(q, c)) = Len(q) + 1
          /\ \A i \in 1..Len(q) : Append(q, c)[i] = q[i]
          /\ Append(q, c)[Len(q) + 1] = c
      BY <3>1
    <3>5. Len(q) \in Nat
      BY <3>1
    <3>6. ASSUME NEW l \in Lanes, NEW i \in 1..Len(lane'[l])
          PROVE  /\ LaneOf[lane'[l][i]] = l /\ worker'[lane'[l][i]].pc = "queued"
                 /\ \A k \in 1..Len(lane'[l]) : lane'[l][i] = lane'[l][k] => i = k
      <4>1. CASE l # LaneOf[c]
        BY <3>2, <3>3, <2>3, <4>1 DEF SafeInv, LaneShape
      <4>2. CASE l = LaneOf[c]
        <5>1. \A j \in 1..Len(lane'[l]) : \/ j \in 1..Len(q) /\ lane'[l][j] = q[j] /\ q[j] # c /\ q[j] \in Commands
                                          \/ j = Len(q) + 1 /\ lane'[l][j] = c
          BY <3>1, <3>3, <3>4, <3>5, <4>2, <2>2
        <5>2. \A j, k \in 1..Len(q) : q[j] = q[k] => j = k
          BY <2>2 DEF SafeInv, LaneShape
        <5>3. \A j \in 1..Len(q) : LaneOf[q[j]] = l /\ worker[q[j]].pc = "queued"
          BY <2>2, <4>2 DEF SafeInv, LaneShape
        <5>4. LaneOf[lane'[l][i]] = l /\ worker'[lane'[l][i]].pc = "queued"
          BY <2>3, <4>2, <5>1, <5>3
        <5>5. \A k \in 1..Len(lane'[l]) : lane'[l][i] = lane'[l][k] => i = k
          BY <5>1, <5>2
        <5> QED BY <5>4, <5>5
      <4> QED BY <4>1, <4>2
    <3> QED BY <3>6 DEF LaneShape
  <2> QED BY <2>4, <2>5, <2>6, <2>7, <2>8, <2>9, <2>10, <2>11 DEF SafeInv
<1> QED BY <1>7, <1>8

\* A command leaves its lane for a worker, for the first and only time.
LEMMA StartWorkSafe ==
  ASSUME TypeInv, SafeInv, NEW l \in Lanes, StartWork(l)
  PROVE  SafeInv'
<1>1. UNCHANGED <<journal, cursor, pc, todo, enq, effect>> /\ lane[l] # <<>>
  BY DEF StartWork, cursorVars, loopVars
<1>2. PICK h \in Commands : h = Head(lane[l])
  BY <1>1, HeadType
<1>3. lane[l] \in Seq(Commands) /\ 1 \in 1..Len(lane[l]) /\ h = lane[l][1]
  BY <1>1, <1>2 DEF TypeInv, TypeOK, DispatchType
<1>4. worker[h].pc = "queued" /\ LaneOf[h] = l
  BY <1>3 DEF SafeInv, LaneShape
<1>5. executions[h] = 0 /\ effect[h] = "none" /\ journal[h].state = "running"
  BY <1>4 DEF SafeInv, QueuedFresh, OwnedRunning
<1>6. /\ worker'[h].pc = "executing"
      /\ \A d \in Commands : d # h => worker'[d] = worker[d]
  BY <1>2 DEF StartWork, TypeInv, TypeOK, DispatchType, Workers
<1>7. /\ executions'[h] = 1
      /\ \A d \in Commands : d # h => executions'[d] = executions[d]
  <2>1. executions' = [executions EXCEPT ![h] = executions[h] + 1]
    BY <1>2 DEF StartWork
  <2> QED BY <1>5, <2>1 DEF TypeInv, TypeOK, ProviderType
<1>8. AdmissionFresh'
  <2>1. CASE pc \in AdmittingPcs
    <3>1. cursor < N
      BY <2>1 DEF TypeInv, AdmissionShape, AdmissionPcs, AdmittingPcs
    <3>2. Offered \in Commands /\ Offered' = Offered
      BY <1>1, <3>1, OfferedType DEF Offered
    <3>3. Offered # h
      BY <1>4, <2>1 DEF SafeInv, AdmissionFresh, AdmittingPcs
    <3> QED BY <1>1, <1>6, <1>7, <3>2, <3>3 DEF SafeInv, AdmissionFresh
  <2>2. CASE pc \notin AdmittingPcs
    BY <1>1, <2>2 DEF AdmissionFresh, AdmittingPcs
  <2> QED BY <2>1, <2>2
<1>9. UnstartedIdle'
  BY <1>1, <1>5, <1>6, <1>7 DEF SafeInv, UnstartedIdle
<1>10. OwnedRunning'
  BY <1>1, <1>5, <1>6 DEF SafeInv, OwnedRunning
<1>11. QueuedFresh'
  BY <1>1, <1>5, <1>6, <1>7 DEF SafeInv, QueuedFresh
<1>12. CallShape'
  BY <1>1, <1>4, <1>6 DEF SafeInv, CallShape
<1>13. TodoShape'
  BY <1>1 DEF SafeInv, TodoShape
<1>14. ReportFits'
  BY <1>1, <1>6 DEF SafeInv, ReportFits
<1>15. EffectShape' /\ OneHolder' /\ HonestOutcome'
  BY <1>1 DEF SafeInv, EffectShape, OneHolder, HonestOutcome
<1>16. LaneShape'
  <2>1. lane' = [lane EXCEPT ![l] = Tail(lane[l])]
    BY DEF StartWork
  <2>2. /\ lane'[l] = Tail(lane[l])
        /\ \A m \in Lanes : m # l => lane'[m] = lane[m]
    BY <2>1 DEF TypeInv, TypeOK, DispatchType
  <2>3. /\ Len(Tail(lane[l])) = Len(lane[l]) - 1
        /\ \A i \in 1..Len(Tail(lane[l])) : Tail(lane[l])[i] = lane[l][i + 1] /\ i + 1 \in 1..Len(lane[l])
    BY <1>1, <1>3
  <2>4. ASSUME NEW m \in Lanes, NEW i \in 1..Len(lane'[m])
        PROVE  /\ LaneOf[lane'[m][i]] = m /\ worker'[lane'[m][i]].pc = "queued"
               /\ \A k \in 1..Len(lane'[m]) : lane'[m][i] = lane'[m][k] => i = k
    <3>1. CASE m # l
      <4>1. \A k \in 1..Len(lane[m]) : lane[m][k] \in Commands /\ lane[m][k] # h
        BY <1>4, <3>1 DEF TypeInv, TypeOK, DispatchType, SafeInv, LaneShape
      <4> QED BY <1>6, <2>2, <3>1, <4>1 DEF SafeInv, LaneShape
    <3>2. CASE m = l
      <4>1. \A k \in 1..Len(lane[l]) : /\ lane[l][k] \in Commands
                                       /\ k # 1 => lane[l][k] # h
        BY <1>3 DEF SafeInv, LaneShape
      <4>2. \A k \in 1..Len(lane'[m]) :
              lane'[m][k] = lane[l][k + 1] /\ k + 1 \in 1..Len(lane[l]) /\ k + 1 # 1
        <5>1. lane'[m] = Tail(lane[l])
          BY <2>2, <3>2
        <5>2. ASSUME NEW k \in 1..Len(Tail(lane[l])) PROVE k + 1 # 1
          <6>1. k \in Nat /\ k >= 1
            OBVIOUS
          <6> QED BY <6>1
        <5> QED BY <5>1, <5>2, <2>3
      <4>3. \A j, k \in 1..Len(lane[l]) : lane[l][j] = lane[l][k] => j = k
        BY DEF SafeInv, LaneShape
      <4>4. \A k \in 1..Len(lane[l]) : LaneOf[lane[l][k]] = l /\ worker[lane[l][k]].pc = "queued"
        BY DEF SafeInv, LaneShape
      <4> QED BY <1>6, <3>2, <4>1, <4>2, <4>3, <4>4
    <3> QED BY <3>1, <3>2
  <2> QED BY <2>4 DEF LaneShape
<1> QED BY <1>8, <1>9, <1>10, <1>11, <1>12, <1>13, <1>14, <1>15, <1>16 DEF SafeInv

\* What the executor may report, with what it did.
LEMMA OutcomeFits ==
  ASSUME NEW c \in Commands, NEW o \in Outcomes(c)
  PROVE  /\ Mutating(c) /\ o[1] = "succeeded" => o[2] = "done"
         /\ o[1] \in {"failed", "rejected"} => o[2] = "none"
         /\ o[1] \in {"submitted", "succeeded", "failed", "rejected", "indeterminate"}
         /\ ~Mutating(c) => o[2] = "none"
         /\ Kind[c] = "upgrade" => o[2] \in {"none", "prepared"}
BY ConstantsAssumption DEF Outcomes, Mutating, Kinds

LEMMA ExecuteSafe ==
  ASSUME TypeInv, SafeInv, NEW c \in Commands, Execute(c)
  PROVE  SafeInv'
<1>1. UNCHANGED <<journal, cursor, pc, todo, enq, lane, executions>> /\ worker[c].pc = "executing"
  BY DEF Execute, cursorVars, loopVars
<1>2. PICK o \in Outcomes(c) :
        /\ worker' = [worker EXCEPT ![c] = [pc |-> "executed", st |-> o[1]]]
        /\ effect' = [effect EXCEPT ![c] = o[2]]
  BY DEF Execute
<1>3. /\ worker'[c].pc = "executed" /\ worker'[c].st = o[1] /\ effect'[c] = o[2]
      /\ \A d \in Commands : d # c => worker'[d] = worker[d] /\ effect'[d] = effect[d]
  BY <1>2 DEF TypeInv, TypeOK, DispatchType, ProviderType
<1>4. journal[c].state = "running"
  BY <1>1 DEF SafeInv, OwnedRunning
<1>5. AdmissionFresh'
  <2>1. CASE pc \in AdmittingPcs
    <3>1. cursor < N
      BY <2>1 DEF TypeInv, AdmissionShape, AdmissionPcs, AdmittingPcs
    <3>2. Offered \in Commands /\ Offered' = Offered
      BY <1>1, <3>1, OfferedType DEF Offered
    <3>3. Offered # c
      BY <1>1, <2>1 DEF SafeInv, AdmissionFresh, AdmittingPcs
    <3> QED BY <1>1, <1>3, <3>2, <3>3 DEF SafeInv, AdmissionFresh
  <2>2. CASE pc \notin AdmittingPcs
    BY <1>1, <2>2 DEF AdmissionFresh, AdmittingPcs
  <2> QED BY <2>1, <2>2
<1>6. UnstartedIdle'
  BY <1>1, <1>3, <1>4 DEF SafeInv, UnstartedIdle
<1>7. OwnedRunning'
  BY <1>1, <1>3, <1>4 DEF SafeInv, OwnedRunning
<1>8. QueuedFresh'
  BY <1>1, <1>3 DEF SafeInv, QueuedFresh
<1>9. LaneShape'
  <2>1. \A l \in Lanes : \A i \in 1..Len(lane[l]) : lane[l][i] \in Commands /\ lane[l][i] # c
    BY <1>1 DEF TypeInv, TypeOK, DispatchType, SafeInv, LaneShape
  <2> QED BY <1>1, <1>3, <2>1 DEF SafeInv, LaneShape
<1>10. CallShape'
  BY <1>1, <1>3 DEF SafeInv, CallShape
<1>11. TodoShape'
  BY <1>1 DEF SafeInv, TodoShape
<1>12. ReportFits'
  BY <1>3, OutcomeFits DEF SafeInv, ReportFits
<1>13. EffectShape'
  BY <1>1, <1>3, <1>4, OutcomeFits DEF SafeInv, EffectShape, Busy
<1>14. OneHolder'
  BY <1>1, HolderKept
<1>15. HonestOutcome'
  BY <1>1, <1>3, <1>4 DEF SafeInv, HonestOutcome
<1> QED BY <1>5, <1>6, <1>7, <1>8, <1>9, <1>10, <1>11, <1>12, <1>13, <1>14, <1>15 DEF SafeInv

LEMMA CompleteSafe ==
  ASSUME TypeInv, SafeInv, NEW c \in Commands, Complete(c) \/ CompleteFault(c)
  PROVE  SafeInv'
<1>1. UNCHANGED <<cursor, pc, todo, lane, effect, executions>> /\ worker[c].pc = "executed"
  BY DEF Complete, cursorVars, CompleteFault, loopVars, providerVars
<1>2. PICK st : st = worker[c].st
  OBVIOUS
<1>3. /\ st \in {"submitted", "succeeded", "failed", "rejected", "indeterminate"}
      /\ Mutating(c) /\ st = "succeeded" => effect[c] = "done"
      /\ st \in {"failed", "rejected"} => effect[c] = "none"
  BY <1>1, <1>2 DEF SafeInv, ReportFits
<1>4. journal[c].state = "running"
  BY <1>1 DEF SafeInv, OwnedRunning
<1>5. /\ \A d \in Commands : d # c => journal'[d] = journal[d]
      /\ journal'[c].state \in {"running", st}
      /\ Complete(c) => journal'[c].state = st
  <2>1. PICK r : r = WithReceipt(c, Fresh(c), st, st = "submitted")
    OBVIOUS
  <2>2. r.state = st
    BY <2>1 DEF WithReceipt
  <2>3. CASE Complete(c)
    <3>1. journal' = [journal EXCEPT ![c] = r]
      BY <1>2, <2>1, <2>3 DEF Complete
    <3> QED BY <2>2, <3>1 DEF TypeInv, TypeOK, JournalType
  <2>4. CASE ~Complete(c)
    <3>1. journal' = journal \/ journal' = [journal EXCEPT ![c] = r]
      BY <1>2, <2>1, <2>4 DEF CompleteFault
    <3> QED BY <1>4, <2>2, <2>4, <3>1 DEF TypeInv, TypeOK, JournalType
  <2> QED BY <2>3, <2>4
<1>6. /\ \A d \in Commands : d # c => worker'[d] = worker[d]
      /\ worker'[c].pc \in {"queueing", "idle"}
      /\ worker'[c].pc = "idle" => UNCHANGED enq
  <2>1. CASE Complete(c)
    BY <2>1 DEF Complete, TypeInv, TypeOK, DispatchType, Workers
  <2>2. CASE CompleteFault(c)
    BY <2>2 DEF CompleteFault, TypeInv, TypeOK, DispatchType, IdleWorker
  <2> QED BY <2>1, <2>2
<1>7. AdmissionFresh'
  <2>1. CASE pc \in AdmittingPcs
    <3>1. cursor < N
      BY <2>1 DEF TypeInv, AdmissionShape, AdmissionPcs, AdmittingPcs
    <3>2. Offered \in Commands /\ Offered' = Offered
      BY <1>1, <3>1, OfferedType DEF Offered
    <3>3. Offered # c
      BY <1>1, <2>1 DEF SafeInv, AdmissionFresh, AdmittingPcs
    <3> QED BY <1>1, <1>5, <1>6, <3>2, <3>3 DEF SafeInv, AdmissionFresh
  <2>2. CASE pc \notin AdmittingPcs
    BY <1>1, <2>2 DEF AdmissionFresh, AdmittingPcs
  <2> QED BY <2>1, <2>2
<1>8. UnstartedIdle'
  BY <1>1, <1>3, <1>5, <1>6 DEF SafeInv, UnstartedIdle
<1>9. OwnedRunning'
  BY <1>5, <1>6 DEF SafeInv, OwnedRunning
<1>10. QueuedFresh'
  BY <1>1, <1>6 DEF SafeInv, QueuedFresh
<1>11. LaneShape'
  <2>1. \A l \in Lanes : \A i \in 1..Len(lane[l]) : lane[l][i] \in Commands /\ lane[l][i] # c
    BY <1>1 DEF TypeInv, TypeOK, DispatchType, SafeInv, LaneShape
  <2> QED BY <1>1, <1>6, <2>1 DEF SafeInv, LaneShape
<1>12. CallShape'
  <2>1. \A d \in Commands : d # c => enq'[d] = enq[d]
    BY ThreadTypes DEF Complete, CompleteFault, TypeInv, TypeOK, CallType
  <2> QED BY <1>1, <1>6, <2>1 DEF SafeInv, CallShape
<1>13. TodoShape'
  <2>1. \A i \in todo : i.cmd \in Commands
    BY DEF TypeInv, TypeOK, LoopType, Items
  <2>2. pc = "resolve" => \A i \in todo : i.cmd # c
    BY <1>4 DEF SafeInv, TodoShape
  <2> QED BY <1>1, <1>5, <2>1, <2>2 DEF SafeInv, TodoShape
<1>14. ReportFits'
  BY <1>1, <1>6 DEF SafeInv, ReportFits
<1>15. EffectShape'
  BY <1>1, <1>3, <1>4, <1>5 DEF SafeInv, EffectShape, Busy
<1>16. OneHolder'
  BY <1>4, <1>5, HolderKept DEF Busy
<1>17. HonestOutcome'
  BY <1>1, <1>3, <1>4, <1>5 DEF SafeInv, HonestOutcome
<1> QED BY <1>7, <1>8, <1>9, <1>10, <1>11, <1>12, <1>13, <1>14, <1>15, <1>16, <1>17 DEF SafeInv

LEMMA TaskEndsSafe ==
  ASSUME TypeInv, SafeInv, NEW c \in Commands, TaskEnds(c)
  PROVE  SafeInv'
<1>1. UNCHANGED <<journal, cursor, pc, todo, enq, lane, worker, executions>> /\ effect[c] = "running"
  BY DEF TaskEnds, cursorVars, loopVars, dispatchVars
<1>2. /\ effect'[c] \in {"done", "failed"}
      /\ \A d \in Commands : d # c => effect'[d] = effect[d]
  BY DEF TaskEnds, TypeInv, TypeOK, ProviderType
<1>3. AdmissionFresh'
  <2>1. CASE pc \in AdmittingPcs
    <3>1. cursor < N
      BY <2>1 DEF TypeInv, AdmissionShape, AdmissionPcs, AdmittingPcs
    <3>2. Offered \in Commands /\ Offered' = Offered
      BY <1>1, <3>1, OfferedType DEF Offered
    <3>3. Offered # c
      BY <1>1, <2>1 DEF SafeInv, AdmissionFresh, AdmittingPcs
    <3> QED BY <1>1, <1>2, <3>2, <3>3 DEF SafeInv, AdmissionFresh
  <2>2. CASE pc \notin AdmittingPcs
    BY <1>1, <2>2 DEF AdmissionFresh, AdmittingPcs
  <2> QED BY <2>1, <2>2
<1>4. UnstartedIdle'
  BY <1>1, <1>2 DEF SafeInv, UnstartedIdle
<1>5. OwnedRunning' /\ LaneShape' /\ CallShape' /\ TodoShape'
  BY <1>1 DEF SafeInv, OwnedRunning, LaneShape, CallShape, TodoShape
<1>6. QueuedFresh'
  BY <1>1, <1>2 DEF SafeInv, QueuedFresh
<1>7. ReportFits'
  BY <1>1, <1>2 DEF SafeInv, ReportFits
<1>8. EffectShape'
  BY <1>1, <1>2 DEF SafeInv, EffectShape
<1>9. OneHolder'
  BY <1>1, HolderKept
<1>10. HonestOutcome'
  <2>1. journal[c].state \in Busy
    BY <1>1 DEF SafeInv, EffectShape
  <2> QED BY <1>1, <1>2, <2>1 DEF SafeInv, HonestOutcome, Busy
<1> QED BY <1>3, <1>4, <1>5, <1>6, <1>7, <1>8, <1>9, <1>10 DEF SafeInv

\* A crash keeps the durable record of every command that had started.
LEMMA CrashSafe ==
  ASSUME TypeInv, SafeInv, Crash
  PROVE  SafeInv'
<1>1. UNCHANGED <<journal, effect, executions>> /\ pc' = "recover"
  BY DEF Crash, providerVars
<1>2. \A c \in Commands : worker'[c].pc = "idle" /\ enq'[c].step = "idle"
  BY ThreadTypes DEF Crash, IdleWorker, IdleCall
<1>3. \A l \in Lanes : lane'[l] = <<>>
  BY DEF Crash
<1>4. AdmissionFresh' /\ TodoShape'
  BY <1>1 DEF AdmissionFresh, TodoShape
<1>5. UnstartedIdle'
  BY <1>1, <1>2 DEF SafeInv, UnstartedIdle
<1>6. OwnedRunning' /\ CallShape' /\ ReportFits'
  BY <1>2 DEF OwnedRunning, CallShape, ReportFits
<1>7. QueuedFresh'
  BY <1>1, <1>2 DEF SafeInv, QueuedFresh
<1>8. LaneShape'
  BY <1>3 DEF LaneShape
<1>9. EffectShape' /\ OneHolder' /\ HonestOutcome'
  BY <1>1 DEF SafeInv, EffectShape, OneHolder, HonestOutcome
<1> QED BY <1>4, <1>5, <1>6, <1>7, <1>8, <1>9 DEF SafeInv

LEMMA InitSafe == Init => SafeInv
<1> SUFFICES ASSUME Init PROVE SafeInv
  OBVIOUS
<1>1. \A c \in Commands : /\ journal[c].state = "absent" /\ worker[c].pc = "idle"
                          /\ enq[c].step = "idle" /\ effect[c] = "none" /\ executions[c] = 0
  BY ThreadTypes DEF Init, NoRecord, IdleWorker, IdleCall
<1>2. pc = "recover" /\ \A l \in Lanes : lane[l] = <<>>
  BY DEF Init
<1>3. AdmissionFresh /\ TodoShape /\ LaneShape
  BY <1>2 DEF AdmissionFresh, TodoShape, LaneShape
<1>4. UnstartedIdle /\ OwnedRunning /\ QueuedFresh /\ CallShape /\ ReportFits
  BY <1>1 DEF UnstartedIdle, OwnedRunning, QueuedFresh, CallShape, ReportFits
<1>5. EffectShape /\ OneHolder /\ HonestOutcome
  BY <1>1 DEF EffectShape, OneHolder, HonestOutcome, Busy
<1> QED BY <1>3, <1>4, <1>5 DEF SafeInv

LEMMA NextSafe == TypeInv /\ SafeInv /\ [Next]_vars => SafeInv'
<1> SUFFICES ASSUME TypeInv, SafeInv, [Next]_vars PROVE SafeInv'
  OBVIOUS
<1>1. CASE ReconcileStep
  BY <1>1, RecoverSafe, LoopQuietSafe, SubmittedSafe, ResolveSafe DEF ReconcileStep
<1>2. CASE PollStep
  BY <1>2, LoopQuietSafe, ClaimSafe, AdmissionSafe, SubmitSafe DEF PollStep, Delivery
<1>3. ASSUME NEW t \in Threads, EnqueueStep(t) \/ EnqueueFault(t)
      PROVE  SafeInv'
  BY <1>3, EnqueueSafe
<1>4. ASSUME NEW l \in Lanes, StartWork(l)
      PROVE  SafeInv'
  BY <1>4, StartWorkSafe
<1>5. ASSUME NEW c \in Commands, Execute(c) \/ Complete(c) \/ CompleteFault(c) \/ TaskEnds(c)
      PROVE  SafeInv'
  BY <1>5, ExecuteSafe, CompleteSafe, TaskEndsSafe
<1>6. CASE RecoverFault \/ ResolveFault \/ ReconcileFault \/ PollFault \/ ClaimFault \/ BeginFault \/ Crash
  BY <1>6, RecoverSafe, ResolveSafe, LoopQuietSafe, ClaimSafe, AdmissionSafe, CrashSafe
<1>7. CASE UNCHANGED vars
  <2>1. StatesKept /\ CallsKept /\ UNCHANGED <<lane, worker, effect, executions, pc, cursor, todo>>
    BY <1>7 DEF StatesKept, cursorVars, CallsKept, vars, loopVars, dispatchVars, providerVars
  <2> QED BY <2>1, QuietStep DEF AdmittingPcs
<1> QED BY <1>1, <1>2, <1>3, <1>4, <1>5, <1>6, <1>7, ThreadTypes
        DEF Next, LoopStep, WorkerStep

\* The inductive invariant of the command path.
THEOREM Invariant == Spec => [](TypeInv /\ SafeInv)
<1>1. Init => TypeInv /\ SafeInv
  BY InitType, InitSafe
<1>2. TypeInv /\ SafeInv /\ [Next]_vars => (TypeInv /\ SafeInv)'
  BY NextType, NextSafe
<1> QED BY <1>1, <1>2, PTL DEF Spec

\* No command is executed twice, whatever the journal, the queues and the
\* process go through: PollOnce's "at-least-once delivery ... cannot
\* silently execute a mutation twice".
THEOREM ExecutedAtMostOnce == Spec => []AtMostOnceExecution
<1>1. TypeInv /\ SafeInv => AtMostOnceExecution
  BY DEF SafeInv, QueuedFresh, AtMostOnceExecution
<1> QED BY <1>1, Invariant, PTL

\* Of two mutations of one resource at most one is at the provider: the
\* claim is refused while an unresolved record holds the resource, and a
\* record stays unresolved for as long as its task may run.
THEOREM ResourcesExclusive == Spec => []ResourceExclusion
<1>1. TypeInv /\ SafeInv => ResourceExclusion
  <2> SUFFICES ASSUME SafeInv, NEW c \in Commands, AtProvider(c)
               PROVE  journal[c].state \in Busy
    BY DEF SafeInv, OneHolder, ResourceExclusion
  <2> QED BY DEF SafeInv, AtProvider, OwnedRunning, EffectShape, Busy
<1> QED BY <1>1, Invariant, PTL

\* A journaled success or failure is true of the provider, also after the
\* outcome was guessed by crash recovery.
THEOREM OutcomesHonest == Spec => []HonestOutcome
<1>1. TypeInv /\ SafeInv => HonestOutcome
  BY DEF SafeInv
<1> QED BY <1>1, Invariant, PTL
=============================================================================
