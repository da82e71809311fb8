--------------------------- MODULE ControlService ---------------------------
(***************************************************************************)
(* The command path of the agent: control.Service (poll, reconcile), the   *)
(* durable command journal, the bounded dispatcher with its workers, and   *)
(* the receipt and audit outboxes they feed.                               *)
(*                                                                         *)
(* The website hands out commands 1..N one at a time (the client refuses   *)
(* any other limit than 1); the cursor is the last command it may forget.  *)
(* One goroutine, the control loop, runs ReconcileOnce; PollOnce;          *)
(* ReconcileOnce under the admission mutex.  Workers run commands outside  *)
(* that mutex and share only the journal (one mutex per call), the queues  *)
(* and the set of active commands with the loop: every such call is one    *)
(* step here, so the two interleave as in the program.  A crash loses all  *)
(* memory and keeps the journal, the cursor file and the queues.           *)
(***************************************************************************)
EXTENDS Integers, Sequences, FiniteSets

CONSTANTS
  N,            \* number of commands the website issues
  Kind,         \* command -> "read" | "mutate" | "upgrade"
  Resource,     \* command -> the journal resource key it locks
  Lanes,        \* executor lanes of the dispatcher
  LaneOf,       \* command -> lane
  LaneCap,      \* lane -> buffer size of its channel
  LaneWorkers,  \* lane -> number of worker goroutines
  MaxReceipts,  \* bound: a waiting observation is minted below this receipt id
  MaxFaults,    \* bound on failed writes and full queues
  MaxMishaps    \* bound on these and process losses together

Commands == 1..N
Kinds == {"read", "mutate", "upgrade"}

ASSUME ConstantsAssumption ==
  /\ N \in Nat \ {0}
  /\ Kind \in [Commands -> Kinds]
  /\ LaneOf \in [Commands -> Lanes]
  /\ LaneCap \in [Lanes -> Nat \ {0}]
  /\ LaneWorkers \in [Lanes -> Nat \ {0}]
  /\ MaxReceipts \in Nat /\ MaxFaults \in Nat /\ MaxMishaps \in Nat

VARIABLES
  journal,      \* durable: command -> journal record
  minted,       \* command -> last receipt id drawn for it (ids are never reused)
  cursor,       \* the website cursor PollOnce asks with
  cursorFile,   \* durable: the cursor file, reloaded by NewService
  receiptLog,   \* durable: command -> receipts in the order they were first queued
  auditLog,     \* durable: command -> audit events queued for monitoring
  pc,           \* control loop: where it is
  phase,        \* control loop: reconciling "before" or "after" the poll
  todo,         \* control loop: what the running reconcile pass has left
  replaying,    \* control loop: the pass found receipts to replay
  enq,          \* thread -> its enqueueJournaled call in progress
  lane,         \* lane -> commands waiting in its channel
  worker,       \* command -> what its worker is doing
  effect,       \* command -> what really happened at the provider
  executions,   \* command -> how often the executor was entered for it
  crashes, faults

loopVars == <<pc, phase, todo, replaying>>
outboxVars == <<receiptLog, auditLog>>
dispatchVars == <<lane, worker>>
providerVars == <<effect, executions>>
envVars == <<crashes, faults>>
cursorVars == <<cursor, cursorFile>>
vars == <<journal, minted, cursorVars, outboxVars, loopVars, enq, dispatchVars,
          providerVars, envVars>>

LoopThread == 0
Threads == 0..N

RecordStates == {"absent", "received", "running", "submitted", "waiting",
                 "succeeded", "failed", "rejected", "indeterminate"}
ReceiptStates == RecordStates \ {"absent", "received"}
Terminal == {"succeeded", "failed", "rejected", "indeterminate"}
Busy == {"received", "running", "submitted", "waiting", "indeterminate"}

\* rid = 0: no receipt yet; audit = 0: no audit event pending, else the
\* receipt id it was made from; task: a UPID or upgrade id is recorded.
\* The receipt's own state equals the record's in every write of the code.
Records == [state : RecordStates, rid : Nat, pending : BOOLEAN, audit : Nat,
            task : BOOLEAN]
\* "unauthenticated" is the rejected receipt of a command whose signature or
\* binding did not verify: it is answered, and never audited.
AnswerStates == ReceiptStates \cup {"unauthenticated"}
Receipts == [rid : Nat, st : AnswerStates]
Items == [cmd : Commands, rid : Nat, st : ReceiptStates]
Effects == {"none", "prepared", "running", "done", "failed"}

NoRecord == [state |-> "absent", rid |-> 0, pending |-> FALSE, audit |-> 0,
             task |-> FALSE]
IdleCall == [step |-> "idle", cmd |-> 1, rid |-> 0, st |-> "running"]
IdleWorker == [pc |-> "idle", st |-> "running"]

\* requiresApproval: mutating commands lock their resource and are audited.
Mutating(c) == Kind[c] # "read"
Active == {c \in Commands : worker[c].pc # "idle"}
Fresh(c) == minted[c] + 1

\* Slip in resourceBusyLocked: a task under observation frees its resource.
ResourceBusyUntilSubmitted(c) ==
  \E d \in Commands : /\ Mutating(d) /\ Resource[d] = Resource[c]
                      /\ journal[d].state \in Busy \ {"waiting"}

\* resourceBusyLocked: some other record of the resource is unresolved.
\* Records retired by a legacy migration are outside this module.
ResourceBusy(c) ==
  \E d \in Commands : /\ Mutating(d) /\ Resource[d] = Resource[c]
                      /\ journal[d].state \in Busy

\* The lane's buffered channel accepts one more command.
LaneHasRoom(c) == Len(lane[LaneOf[c]]) < LaneCap[LaneOf[c]]
\* Slip in hasCapacity: len(queue) <= cap(queue).
HasCapacityLoose(c) == c \in Active \/ Len(lane[LaneOf[c]]) <= LaneCap[LaneOf[c]]
HasCapacity(c) == c \in Active \/ LaneHasRoom(c)

\* shouldQueueReceiptAudit, for a record that carries an audit context.
Audited(c, st) == Mutating(c) /\ ~(Kind[c] = "upgrade" /\ st = "waiting")

\* Slip in completeLocked: a pending audit event is never replaced.
WithReceiptKeepsEvent(c, id, st, hasTask) ==
  [state |-> st, rid |-> id, pending |-> TRUE,
   audit |-> IF Audited(c, st) /\ journal[c].audit = 0 THEN id ELSE journal[c].audit,
   task |-> journal[c].task \/ hasTask]

\* completeLocked: the record after a receipt (id, st) replaces its receipt.
WithReceipt(c, id, st, hasTask) ==
  [state |-> st, rid |-> id, pending |-> TRUE,
   audit |-> IF Audited(c, st) THEN id ELSE journal[c].audit,
   task |-> journal[c].task \/ hasTask]

\* receiptQueue.Enqueue: the receipt id is the queue's idempotency key.
Queued(c, r) ==
  IF \E i \in 1..Len(receiptLog[c]) : receiptLog[c][i] = r
  THEN receiptLog[c] ELSE Append(receiptLog[c], r)

Call(c, id, st) == [step |-> "lookup", cmd |-> c, rid |-> id, st |-> st]

Init ==
  /\ journal = [c \in Commands |-> NoRecord]
  /\ minted = [c \in Commands |-> 0]
  /\ cursor = 0 /\ cursorFile = 0
  /\ receiptLog = [c \in Commands |-> <<>>]
  /\ auditLog = [c \in Commands |-> {}]
  /\ pc = "recover" /\ phase = "before" /\ todo = {} /\ replaying = FALSE
  /\ enq = [t \in Threads |-> IdleCall]
  /\ lane = [l \in Lanes |-> <<>>]
  /\ worker = [c \in Commands |-> IdleWorker]
  /\ effect = [c \in Commands |-> "none"]
  /\ executions = [c \in Commands |-> 0]
  /\ crashes = 0 /\ faults = 0

-----------------------------------------------------------------------------
(* Where the loop goes when a call it made returns.                        *)

\* ReconcileOnce returned nil: poll, or begin the next cycle.
ReconcileOk ==
  /\ pc' = IF phase = "before" THEN "poll" ELSE "recover"
  /\ phase' = "before" /\ todo' = {} /\ replaying' = FALSE

\* ReconcileOnce returned an error: polling stays paused, next cycle.
ReconcileFailed ==
  /\ pc' = "recover" /\ phase' = "before" /\ todo' = {} /\ replaying' = FALSE

\* PollOnce returned, with an error or without: reconcile again.
PollReturned ==
  /\ pc' = "recover" /\ phase' = "after" /\ todo' = {} /\ replaying' = FALSE

Mishap == crashes + faults < MaxMishaps
Fault == Mishap /\ faults < MaxFaults /\ faults' = faults + 1

-----------------------------------------------------------------------------
(* enqueueJournaled(cmd, receipt), run by thread t: the control loop or    *)
(* the worker of command t.                                                *)

\* The call returned nil.
CallDone(t) ==
  /\ enq' = [enq EXCEPT ![t] = IdleCall]
  /\ IF t = LoopThread
     THEN /\ pc' = CASE pc \in {"duplicate", "deny"} -> "saveCursor"
                     [] pc = "started" -> "submit"
                     [] OTHER -> pc
          /\ UNCHANGED <<phase, todo, replaying, worker>>
     ELSE /\ worker' = [worker EXCEPT ![t] = IdleWorker]
          /\ UNCHANGED loopVars

\* The call returned an error: PollOnce and ReconcileOnce give up their
\* pass, a worker logs "receipt delivery deferred" and ends.
CallFailed(t) ==
  /\ enq' = [enq EXCEPT ![t] = IdleCall]
  /\ IF t = LoopThread
     THEN /\ IF pc \in {"duplicate", "started", "deny"} THEN PollReturned ELSE ReconcileFailed
          /\ UNCHANGED worker
     ELSE /\ worker' = [worker EXCEPT ![t] = IdleWorker]
          /\ UNCHANGED loopVars

\* PendingAuditForReceipt, then auditSink.Enqueue.
LookupAudit(t) ==
  LET call == enq[t]
      record == journal[call.cmd]
      stale == record.rid # call.rid \/ record.audit \notin {0, call.rid}
  IN /\ call.step = "lookup"
     /\ IF stale
        THEN CallFailed(t) /\ UNCHANGED auditLog
        ELSE /\ auditLog' = IF record.audit = 0 THEN auditLog
                            ELSE [auditLog EXCEPT ![call.cmd] =
                                    @ \cup {[rid |-> call.rid, st |-> call.st]}]
             /\ enq' = [enq EXCEPT ![t].step =
                          IF record.audit = 0 THEN "enqueue" ELSE "markAudit"]
             /\ UNCHANGED <<loopVars, worker>>
     /\ UNCHANGED <<journal, minted, cursorVars, receiptLog, lane, providerVars, envVars>>

AuditAcknowledged(record) == [record EXCEPT !.audit = 0]

MarkAuditQueued(t) ==
  LET call == enq[t]
      record == journal[call.cmd]
      stale == record.audit # 0 /\ (record.rid # call.rid \/ record.audit # call.rid)
  IN /\ call.step = "markAudit"
     /\ IF stale
        THEN CallFailed(t) /\ UNCHANGED journal
        ELSE /\ journal' = [journal EXCEPT ![call.cmd] = AuditAcknowledged(record)]
             /\ enq' = [enq EXCEPT ![t].step = "enqueue"]
             /\ UNCHANGED <<loopVars, worker>>
     /\ UNCHANGED <<minted, cursorVars, outboxVars, lane, providerVars, envVars>>

\* Slip in enqueueJournaled: the receipt may go out before its audit event.
EnqueueReceiptFirst(t) ==
  LET call == enq[t] IN
  /\ call.step \in {"lookup", "enqueue"}
  /\ receiptLog' = [receiptLog EXCEPT ![call.cmd] =
                      Queued(call.cmd, [rid |-> call.rid, st |-> call.st])]
  /\ enq' = [enq EXCEPT ![t].step = "markReceipt"]
  /\ UNCHANGED <<journal, minted, cursorVars, auditLog, loopVars, dispatchVars,
                 providerVars, envVars>>

EnqueueReceipt(t) ==
  LET call == enq[t] IN
  /\ call.step = "enqueue"
  /\ receiptLog' = [receiptLog EXCEPT ![call.cmd] =
                      Queued(call.cmd, [rid |-> call.rid, st |-> call.st])]
  /\ enq' = [enq EXCEPT ![t].step = "markReceipt"]
  /\ UNCHANGED <<journal, minted, cursorVars, auditLog, loopVars, dispatchVars,
                 providerVars, envVars>>

ReceiptAcknowledged(record) == [record EXCEPT !.pending = FALSE]

MarkReceiptQueued(t) ==
  LET call == enq[t]
      record == journal[call.cmd]
  IN /\ call.step = "markReceipt"
     /\ IF record.rid # call.rid \/ record.audit # 0
        THEN CallFailed(t) /\ UNCHANGED journal
        ELSE /\ journal' = [journal EXCEPT ![call.cmd] = ReceiptAcknowledged(record)]
             /\ CallDone(t)
     /\ UNCHANGED <<minted, cursorVars, outboxVars, lane, providerVars, envVars>>

\* The refusal of a command goes straight to the receipt queue.
SendDenied(t) ==
  LET call == enq[t] IN
  /\ call.step = "deny"
  /\ receiptLog' = [receiptLog EXCEPT ![call.cmd] =
                      Queued(call.cmd, [rid |-> call.rid, st |-> call.st])]
  /\ CallDone(t)
  /\ UNCHANGED <<journal, minted, cursorVars, auditLog, lane, providerVars, envVars>>

\* A queue at capacity, or a write that fails, at any of these calls.  A
\* write whose directory sync alone failed has taken effect all the same.
EnqueueFault(t) ==
  LET call == enq[t]
      record == journal[call.cmd]
      current == record.rid = call.rid /\ record.audit \in {0, call.rid}
      sent == [rid |-> call.rid, st |-> call.st]
  IN /\ call.step # "idle" /\ Fault /\ CallFailed(t)
     /\ \/ UNCHANGED <<journal, outboxVars>>
        \/ /\ call.step = "lookup" /\ current /\ record.audit # 0
           /\ auditLog' = [auditLog EXCEPT ![call.cmd] = @ \cup {sent}]
           /\ UNCHANGED <<journal, receiptLog>>
        \/ /\ call.step = "markAudit" /\ current
           /\ journal' = [journal EXCEPT ![call.cmd] = AuditAcknowledged(record)]
           /\ UNCHANGED outboxVars
        \/ /\ call.step \in {"enqueue", "deny"}
           /\ receiptLog' = [receiptLog EXCEPT ![call.cmd] = Queued(call.cmd, sent)]
           /\ UNCHANGED <<journal, auditLog>>
        \/ /\ call.step = "markReceipt" /\ current /\ record.audit = 0
           /\ journal' = [journal EXCEPT ![call.cmd] = ReceiptAcknowledged(record)]
           /\ UNCHANGED outboxVars
     /\ UNCHANGED <<minted, cursorVars, lane, providerVars, crashes>>

EnqueueStep(t) ==
  \/ LookupAudit(t) \/ MarkAuditQueued(t) \/ EnqueueReceipt(t) \/ MarkReceiptQueued(t)
  \/ SendDenied(t)

LoopFree == enq[LoopThread].step = "idle"

-----------------------------------------------------------------------------
(* ReconcileOnce                                                           *)

\* Slips in recoverIncomplete: commands of this process' workers are not
\* spared; executions that had started are not looked for.
InterruptedAnyOwner(c) ==
  /\ journal[c].state \in {"received", "running"}
  /\ Mutating(c) \/ journal[c].state = "running"
InterruptedClaimsOnly(c) ==
  /\ journal[c].state = "received" /\ c \notin Active /\ Mutating(c)

\* A claim or a started execution no worker of this process owns.
Interrupted(c) ==
  /\ journal[c].state \in {"received", "running"}
  /\ c \notin Active
  /\ Mutating(c) \/ journal[c].state = "running"

\* Slips in recoverIncomplete: an unknown outcome is called a failure; the
\* claim is put back to be taken again.
RecoveredFailed(c) == "failed"
RecoveredReceived(c) == "received"

\* A read may be issued again; an upgrade without an upgrade id has not
\* reached the helper; any other mutation has an unknown outcome.
RecoveredState(c) ==
  IF \/ ~Mutating(c)
     \/ Kind[c] = "upgrade" /\ journal[c].state = "running" /\ ~journal[c].task
  THEN "failed" ELSE "indeterminate"

\* The records of S get their terminal receipts.
RecoverRecords(S) ==
  /\ journal' = [c \in Commands |->
                   IF c \in S
                   THEN WithReceipt(c, Fresh(c), RecoveredState(c), FALSE)
                   ELSE journal[c]]
  /\ minted' = [c \in Commands |-> IF c \in S THEN Fresh(c) ELSE minted[c]]

InterruptedCommands == {c \in Commands : Interrupted(c)}

RecoverIncomplete ==
  /\ pc = "recover"
  /\ RecoverRecords(InterruptedCommands)
  /\ todo' = {[cmd |-> c, rid |-> Fresh(c), st |-> RecoveredState(c)] :
                c \in InterruptedCommands}
  /\ pc' = "flushRecovered"
  /\ UNCHANGED <<cursorVars, outboxVars, phase, replaying, enq, dispatchVars,
                 providerVars, envVars>>

\* A record that cannot be read or written ends the pass half way.
RecoverFault ==
  /\ pc = "recover" /\ Fault
  /\ \E S \in SUBSET InterruptedCommands : RecoverRecords(S)
  /\ ReconcileFailed
  /\ UNCHANGED <<cursorVars, outboxVars, enq, dispatchVars, providerVars, crashes>>

\* enqueueJournaled for one listed receipt.
FlushOne ==
  /\ pc \in {"flushRecovered", "flushPending"} /\ LoopFree
  /\ \E item \in todo :
       /\ enq' = [enq EXCEPT ![LoopThread] = Call(item.cmd, item.rid, item.st)]
       /\ todo' = todo \ {item}
  /\ UNCHANGED <<journal, minted, cursorVars, outboxVars, pc, phase, replaying,
                 dispatchVars, providerVars, envVars>>

PendingReceipts ==
  /\ pc = "flushRecovered" /\ LoopFree /\ todo = {}
  /\ todo' = {[cmd |-> c, rid |-> journal[c].rid, st |-> journal[c].state] :
                c \in {d \in Commands : journal[d].pending}}
  /\ replaying' = (todo' # {})
  /\ pc' = "flushPending"
  /\ UNCHANGED <<journal, minted, cursorVars, outboxVars, phase, enq, dispatchVars,
                 providerVars, envVars>>

\* Every listed receipt is queued.  When there was one, the pass ends;
\* otherwise it lists the submitted tasks, in a second journal call.
SubmittedWaiting ==
  /\ pc = "flushPending" /\ LoopFree /\ todo = {}
  /\ IF replaying
     THEN ReconcileOk
     ELSE /\ todo' = {[cmd |-> c, rid |-> journal[c].rid, st |-> journal[c].state] :
                        c \in {d \in Commands : /\ journal[d].state \in {"submitted", "waiting"}
                                                /\ journal[d].task}}
          /\ pc' = "resolve"
          /\ UNCHANGED <<phase, replaying>>
  /\ UNCHANGED <<journal, minted, cursorVars, outboxVars, enq, dispatchVars,
                 providerVars, envVars>>

\* reconciledReceipt and reconciledUpgradeReceipt: what one status
\* observation may report.  A failed status read keeps the task waiting.
Observations(c) ==
  {"waiting"} \cup (IF effect[c] = "done" THEN {"succeeded"} ELSE {})
              \cup (IF effect[c] = "failed" THEN {"failed"} ELSE {})

\* Resolve one task, then CompleteSubmitted.  Resolving an upgrade for the
\* first time is what activates its prepared request.
ResolveTask ==
  /\ pc = "resolve" /\ LoopFree
  /\ \E item \in todo, st \in ReceiptStates :
       LET c == item.cmd IN
       /\ st \in Observations(c)
       /\ st = "waiting" => minted[c] < MaxReceipts \/ effect[c] = "prepared"
       /\ minted' = [minted EXCEPT ![c] = Fresh(c)]
       /\ journal' = [journal EXCEPT ![c] = WithReceipt(c, Fresh(c), st, TRUE)]
       /\ effect' = [effect EXCEPT ![c] = IF @ = "prepared" THEN "running" ELSE @]
       /\ enq' = [enq EXCEPT ![LoopThread] = Call(c, Fresh(c), st)]
       /\ todo' = todo \ {item}
  /\ UNCHANGED <<cursorVars, outboxVars, pc, phase, replaying, dispatchVars,
                 executions, envVars>>

\* CompleteSubmitted failed, before or after the rename; an upgrade that
\* was activated stays activated.
ResolveFault ==
  /\ pc = "resolve" /\ LoopFree /\ Fault /\ ReconcileFailed
  /\ \E item \in todo, st \in ReceiptStates, written \in BOOLEAN :
       LET c == item.cmd IN
       /\ st \in Observations(c)
       /\ minted' = IF written THEN [minted EXCEPT ![c] = Fresh(c)] ELSE minted
       /\ journal' = IF written THEN [journal EXCEPT ![c] = WithReceipt(c, Fresh(c), st, TRUE)]
                     ELSE journal
       /\ effect' = [effect EXCEPT ![c] = IF @ = "prepared" THEN "running" ELSE @]
  /\ UNCHANGED <<cursorVars, outboxVars, enq, dispatchVars, executions, crashes>>

ReconcileDone ==
  /\ pc = "resolve" /\ LoopFree /\ todo = {}
  /\ ReconcileOk
  /\ UNCHANGED <<journal, minted, cursorVars, outboxVars, enq, dispatchVars,
                 providerVars, envVars>>

\* A journal directory or file that cannot be read ends the pass.
ReconcileFault ==
  /\ pc \in {"flushRecovered", "flushPending", "resolve"} /\ LoopFree
  /\ Fault /\ ReconcileFailed
  /\ UNCHANGED <<journal, minted, cursorVars, outboxVars, enq, dispatchVars,
                 providerVars, crashes>>

-----------------------------------------------------------------------------
(* PollOnce, for the command after the cursor.                             *)

Offered == cursor + 1

\* Slip in PollOnce: the cursor is saved although nothing was handled.
PollNothingSaves ==
  /\ pc = "poll" /\ cursor < N
  /\ cursor' = Offered /\ cursorFile' = Offered /\ PollReturned
  /\ UNCHANGED <<journal, minted, outboxVars, enq, dispatchVars, providerVars, envVars>>

\* The long poll returned no command, or failed.
PollNothing ==
  /\ pc = "poll"
  /\ PollReturned
  /\ UNCHANGED <<journal, minted, cursorVars, outboxVars, enq, dispatchVars,
                 providerVars, envVars>>

\* rejection, and for an authenticated mutation the audit half of
\* enqueueDeniedAudit; SendDenied queues the receipt.  Never journaled.
Reject(c, authenticated) ==
  LET st == IF authenticated THEN "rejected" ELSE "unauthenticated" IN
  /\ minted' = [minted EXCEPT ![c] = Fresh(c)]
  /\ auditLog' = IF authenticated /\ Mutating(c)
                 THEN [auditLog EXCEPT ![c] = @ \cup {[rid |-> Fresh(c), st |-> st]}]
                 ELSE auditLog
  /\ enq' = [enq EXCEPT ![LoopThread] = [Call(c, Fresh(c), st) EXCEPT !.step = "deny"]]
  /\ pc' = "deny"
  /\ UNCHANGED <<receiptLog, phase, todo, replaying>>

\* Verify refused the command (its signature, its expiry, or the authority
\* loaded now), or its journal file shows a conflict or cannot be read.  All
\* of these may change between two deliveries of one command.
PollRefused ==
  /\ pc = "poll" /\ cursor < N
  /\ \E authenticated \in BOOLEAN : Reject(Offered, authenticated)
  /\ UNCHANGED <<journal, cursorVars, dispatchVars, providerVars, envVars>>

PollLaneFull ==
  /\ pc = "poll" /\ cursor < N /\ ~HasCapacity(Offered)
  /\ PollReturned
  /\ UNCHANGED <<journal, minted, cursorVars, outboxVars, enq, dispatchVars,
                 providerVars, envVars>>

Admissible == pc = "poll" /\ cursor < N /\ HasCapacity(Offered)

Claimed(record) == [record EXCEPT !.state = "received"]

\* Claim found no record: refuse a busy resource, or write "received".
ClaimNew ==
  LET c == Offered IN
  /\ Admissible /\ journal[c].state = "absent"
  /\ IF Mutating(c) /\ ResourceBusy(c)
     THEN Reject(c, TRUE) /\ UNCHANGED journal
     ELSE /\ journal' = [journal EXCEPT ![c] = Claimed(journal[c])]
          /\ pc' = "begin"
          /\ UNCHANGED <<minted, outboxVars, enq, phase, todo, replaying>>
  /\ UNCHANGED <<cursorVars, dispatchVars, providerVars, envVars>>

\* Slip in claim: a redelivered command of unknown outcome is run again.
ClaimDuplicateReruns ==
  LET c == Offered IN
  /\ Admissible /\ journal[c].rid # 0 /\ journal[c].state = "indeterminate"
  /\ pc' = "begin"
  /\ UNCHANGED <<journal, minted, cursorVars, outboxVars, enq, phase, todo, replaying,
                 dispatchVars, providerVars, envVars>>

\* Claim found a record with a receipt: replay it.
ClaimDuplicate ==
  LET c == Offered IN
  /\ Admissible /\ journal[c].rid # 0
  /\ enq' = [enq EXCEPT ![LoopThread] = Call(c, journal[c].rid, journal[c].state)]
  /\ pc' = "duplicate"
  /\ UNCHANGED <<journal, minted, cursorVars, outboxVars, phase, todo, replaying,
                 dispatchVars, providerVars, envVars>>

\* Claim found "received" without a receipt.  Reconciliation turns such a
\* mutation into a terminal record before every poll, so only reads get here.
ClaimAgain ==
  LET c == Offered IN
  /\ Admissible /\ journal[c].state = "received"
  /\ IF Mutating(c)
     THEN /\ journal' = [journal EXCEPT ![c] = WithReceipt(c, Fresh(c), "indeterminate", FALSE)]
          /\ minted' = [minted EXCEPT ![c] = Fresh(c)]
          /\ enq' = [enq EXCEPT ![LoopThread] = Call(c, Fresh(c), "indeterminate")]
          /\ pc' = "duplicate"
     ELSE pc' = "begin" /\ UNCHANGED <<journal, minted, enq>>
  /\ UNCHANGED <<cursorVars, outboxVars, phase, todo, replaying, dispatchVars,
                 providerVars, envVars>>

\* Claim's write failed: the command is rejected as JOURNAL_UNAVAILABLE.
\* When only the directory sync failed the record is on disk all the same.
ClaimFault ==
  LET c == Offered IN
  /\ Admissible /\ journal[c].state = "absent" /\ Fault
  /\ ~(Mutating(c) /\ ResourceBusy(c))
  /\ \E written \in BOOLEAN :
       journal' = IF written THEN [journal EXCEPT ![c] = Claimed(journal[c])] ELSE journal
  /\ Reject(c, TRUE)
  /\ UNCHANGED <<cursorVars, dispatchVars, providerVars, crashes>>

\* A running receipt is progress, not an audit outcome.
Running(record, id) ==
  [record EXCEPT !.state = "running", !.rid = id, !.pending = TRUE]

BeginRunning ==
  LET c == Offered IN
  /\ pc = "begin"
  /\ minted' = [minted EXCEPT ![c] = Fresh(c)]
  /\ journal' = [journal EXCEPT ![c] = Running(journal[c], Fresh(c))]
  /\ enq' = [enq EXCEPT ![LoopThread] = Call(c, Fresh(c), "running")]
  /\ pc' = "started"
  /\ UNCHANGED <<cursorVars, outboxVars, phase, todo, replaying, dispatchVars,
                 providerVars, envVars>>

\* dispatcher.submit: a command already active is not queued twice, and a
\* full lane makes PollOnce return an error.
Submit ==
  LET c == Offered IN
     /\ pc = "submit"
     /\ IF c \notin Active /\ LaneHasRoom(c)
        THEN /\ lane' = [lane EXCEPT ![LaneOf[c]] = Append(@, c)]
             /\ worker' = [worker EXCEPT ![c].pc = "queued"]
        ELSE UNCHANGED dispatchVars
     /\ IF c \in Active \/ LaneHasRoom(c)
        THEN pc' = "saveCursor" /\ UNCHANGED <<phase, todo, replaying>>
        ELSE PollReturned
     /\ UNCHANGED <<journal, minted, cursorVars, outboxVars, enq, providerVars, envVars>>

SaveCursor ==
  /\ pc = "saveCursor"
  /\ cursor' = Offered /\ cursorFile' = Offered
  /\ PollReturned
  /\ UNCHANGED <<journal, minted, outboxVars, enq, dispatchVars, providerVars, envVars>>

\* BeginRunning's write fails, before or after the rename.
BeginFault ==
  LET c == Offered IN
  /\ pc = "begin" /\ Fault /\ PollReturned
  /\ \E written \in BOOLEAN :
       /\ minted' = IF written THEN [minted EXCEPT ![c] = Fresh(c)] ELSE minted
       /\ journal' = IF written THEN [journal EXCEPT ![c] = Running(journal[c], Fresh(c))] ELSE journal
  /\ UNCHANGED <<cursorVars, outboxVars, enq, dispatchVars, providerVars, crashes>>

\* saveCursor fails, before or after the rename, and keeps the old cursor
\* in memory; or the audit event of a refusal cannot be queued.
PollFault ==
  /\ \/ pc = "saveCursor" /\ cursorFile' \in {cursorFile, Offered}
     \/ pc = "poll" /\ cursor < N /\ UNCHANGED cursorFile
  /\ Fault /\ PollReturned
  /\ UNCHANGED <<journal, minted, cursor, outboxVars, enq, dispatchVars,
                 providerVars, crashes>>

-----------------------------------------------------------------------------
(* Workers: executeDispatched, outside the admission mutex.                *)

Executing(l) == {c \in Commands : /\ LaneOf[c] = l
                                  /\ worker[c].pc \in {"executing", "executed", "queueing"}}

StartWork(l) ==
  /\ lane[l] # <<>> /\ Cardinality(Executing(l)) < LaneWorkers[l]
  /\ lane' = [lane EXCEPT ![l] = Tail(@)]
  /\ worker' = [worker EXCEPT ![Head(lane[l])].pc = "executing"]
  /\ executions' = [executions EXCEPT ![Head(lane[l])] = @ + 1]
  /\ UNCHANGED <<journal, minted, cursorVars, outboxVars, loopVars, enq, effect, envVars>>

\* Executor outcomes with the provider effect each leaves behind: a lost
\* answer (indeterminate) may or may not have started a task.
Outcomes(c) ==
  {<<"failed", "none">>, <<"rejected", "none">>, <<"indeterminate", "none">>}
  \cup CASE Kind[c] = "read" -> {<<"succeeded", "none">>}
         [] Kind[c] = "mutate" -> {<<"succeeded", "done">>, <<"submitted", "running">>,
                                   <<"indeterminate", "running">>}
         [] OTHER -> {<<"submitted", "prepared">>, <<"indeterminate", "prepared">>}

Execute(c) ==
  /\ worker[c].pc = "executing"
  /\ \E o \in Outcomes(c) :
       /\ worker' = [worker EXCEPT ![c] = [pc |-> "executed", st |-> o[1]]]
       /\ effect' = [effect EXCEPT ![c] = o[2]]
  /\ UNCHANGED <<journal, minted, cursorVars, outboxVars, loopVars, enq, lane,
                 executions, envVars>>

Complete(c) ==
  LET st == worker[c].st IN
  /\ worker[c].pc = "executed"
  /\ minted' = [minted EXCEPT ![c] = Fresh(c)]
  /\ journal' = [journal EXCEPT ![c] = WithReceipt(c, Fresh(c), st, st = "submitted")]
  /\ enq' = [enq EXCEPT ![c] = Call(c, Fresh(c), st)]
  /\ worker' = [worker EXCEPT ![c].pc = "queueing"]
  /\ UNCHANGED <<cursorVars, outboxVars, loopVars, lane, providerVars, envVars>>

\* Complete's write failed: the worker logs it and ends, and the record
\* stays "running" unless the new content was already renamed into place.
CompleteFault(c) ==
  LET st == worker[c].st IN
  /\ worker[c].pc = "executed" /\ Fault
  /\ \E written \in BOOLEAN :
       /\ minted' = IF written THEN [minted EXCEPT ![c] = Fresh(c)] ELSE minted
       /\ journal' = IF written
                     THEN [journal EXCEPT ![c] = WithReceipt(c, Fresh(c), st, st = "submitted")]
                     ELSE journal
  /\ worker' = [worker EXCEPT ![c] = IdleWorker]
  /\ UNCHANGED <<cursorVars, outboxVars, loopVars, enq, lane, providerVars, crashes>>

-----------------------------------------------------------------------------
(* The environment.                                                        *)

\* The provider task, or the activated upgrade helper, ends.
TaskEnds(c) ==
  /\ effect[c] = "running"
  /\ \E r \in {"done", "failed"} : effect' = [effect EXCEPT ![c] = r]
  /\ UNCHANGED <<journal, minted, cursorVars, outboxVars, loopVars, enq,
                 dispatchVars, executions, envVars>>

\* Process loss and restart: NewService reloads the cursor file.
Crash ==
  /\ Mishap /\ crashes' = crashes + 1
  /\ pc' = "recover" /\ phase' = "before" /\ todo' = {} /\ replaying' = FALSE
  /\ enq' = [t \in Threads |-> IdleCall]
  /\ lane' = [l \in Lanes |-> <<>>]
  /\ worker' = [c \in Commands |-> IdleWorker]
  /\ cursor' = cursorFile
  /\ UNCHANGED <<journal, minted, cursorFile, outboxVars, providerVars, faults>>

-----------------------------------------------------------------------------
ReconcileStep ==
  \/ RecoverIncomplete \/ FlushOne \/ PendingReceipts \/ SubmittedWaiting
  \/ ResolveTask \/ ReconcileDone

Delivery == PollRefused \/ PollLaneFull \/ ClaimNew \/ ClaimDuplicate \/ ClaimAgain
PollStep == PollNothing \/ Delivery \/ BeginRunning \/ Submit \/ SaveCursor

LoopStep == ReconcileStep \/ PollStep \/ EnqueueStep(LoopThread)
WorkerStep(c) == Execute(c) \/ Complete(c) \/ EnqueueStep(c)

Next ==
  \/ LoopStep
  \/ \E l \in Lanes : StartWork(l)
  \/ \E c \in Commands : WorkerStep(c) \/ CompleteFault(c) \/ TaskEnds(c)
  \/ \E t \in Threads : EnqueueFault(t)
  \/ RecoverFault \/ ResolveFault \/ ReconcileFault \/ PollFault \/ ClaimFault \/ BeginFault
  \/ Crash

Spec == Init /\ [][Next]_vars

\* The Go scheduler runs every goroutine that can run, a provider task or
\* upgrade helper ends, and a website polled again and again hands out its
\* next command; crashes, faults and expiry are never owed.
Fairness ==
  /\ WF_vars(LoopStep) /\ SF_vars(Delivery)
  /\ \A l \in Lanes : WF_vars(StartWork(l))
  /\ \A c \in Commands : WF_vars(WorkerStep(c)) /\ WF_vars(TaskEnds(c))

FairSpec == Spec /\ Fairness

-----------------------------------------------------------------------------
(* Properties                                                              *)

LoopPcs == {"recover", "flushRecovered", "flushPending", "resolve", "poll",
            "begin", "started", "submit", "duplicate", "deny", "saveCursor"}
CallSteps == {"idle", "lookup", "markAudit", "enqueue", "markReceipt", "deny"}
WorkerPcs == {"idle", "queued", "executing", "executed", "queueing"}
AdmissionPcs == {"begin", "started", "submit", "duplicate", "deny", "saveCursor"}
Calls == [step : CallSteps, cmd : Commands, rid : Nat, st : AnswerStates]
Workers == [pc : WorkerPcs, st : ReceiptStates]

JournalType ==
  /\ journal \in [Commands -> Records] /\ minted \in [Commands -> Nat]
  /\ cursor \in 0..N /\ cursorFile \in 0..N
OutboxType ==
  receiptLog \in [Commands -> Seq(Receipts)] /\ auditLog \in [Commands -> SUBSET Receipts]
LoopType ==
  /\ pc \in LoopPcs /\ phase \in {"before", "after"}
  /\ todo \in SUBSET Items /\ replaying \in BOOLEAN
CallType == enq \in [Threads -> Calls]
DispatchType == lane \in [Lanes -> Seq(Commands)] /\ worker \in [Commands -> Workers]
ProviderType == effect \in [Commands -> Effects] /\ executions \in [Commands -> Nat]
EnvType == crashes \in Nat /\ faults \in Nat

\* Every variable ranges over the values its declaration names: in
\* particular recovery, replay and observation only write receipt states.
TypeOK ==
  /\ JournalType /\ OutboxType /\ LoopType /\ CallType /\ DispatchType
  /\ ProviderType /\ EnvType

\* A command enters the executor at most once, whatever crashes,
\* redeliveries and failed writes happen: PollOnce "cannot silently execute
\* a mutation twice", and a read is only repeated before it has started.
AtMostOnceExecution == \A c \in Commands : executions[c] <= 1

\* The provider is, or may be, working on the command.
AtProvider(c) == worker[c].pc \in {"executing", "executed"} \/ effect[c] = "running"

\* Two mutations of one resource are never at the provider together: the
\* journal's resource key is "the durable same-VM mutation fence".
ResourceExclusion ==
  \A c, d \in Commands :
    /\ c # d /\ Mutating(c) /\ Mutating(d) /\ Resource[c] = Resource[d]
    => ~(AtProvider(c) /\ AtProvider(d))

\* While nothing fails, a durable running record always has an owner: the
\* admission in progress or a worker ("stranding a running journal record
\* which no worker owns" is what PollOnce's capacity check avoids).
RunningIsOwned ==
  crashes + faults = 0 => \A c \in Commands : journal[c].state = "running" =>
    c \in Active \/ (pc \in {"started", "submit"} /\ c = Offered)

\* The cursor never passes a command for which no receipt was queued: the
\* website may forget only commands it has an answer or a start for.
CursorBehindReceipts ==
  \A c \in Commands : c <= cursor \/ c <= cursorFile => receiptLog[c] # <<>>

\* A journaled outcome is true of the provider: success means the change is
\* made, failure or refusal means it neither is made nor still may be.
HonestOutcome ==
  \A c \in Commands : Mutating(c) =>
    /\ journal[c].state = "succeeded" => effect[c] = "done"
    /\ journal[c].state \in {"failed", "rejected"} => effect[c] \in {"none", "prepared", "failed"}

\* Whatever the website learns of a mutation, monitoring learns first: its
\* audit event is queued before the receipt of the same state.
AuditPrecedesReceipt ==
  \A c \in Commands : Mutating(c) =>
    \A i \in 1..Len(receiptLog[c]) :
      Audited(c, receiptLog[c][i].st) /\ receiptLog[c][i].st \notin {"running", "unauthenticated"}
      => receiptLog[c][i] \in auditLog[c]

\* A terminal journal record never changes its state again.
TerminalIsFinal ==
  [][\A c \in Commands : journal[c].state \in Terminal =>
        journal'[c].state = journal[c].state]_vars

\* Every command the website issues is answered by a terminal receipt.
EveryCommandAnswered ==
  \A c \in Commands :
    <>(\E i \in 1..Len(receiptLog[c]) : receiptLog[c][i].st \in Terminal \cup {"unauthenticated"})

\* The control loop keeps polling: no reconciliation error is permanent.
PollingGoesOn == []<>(pc = "poll")

-----------------------------------------------------------------------------
(* What the properties above rest on.                                      *)

\* Only a record past its claim carries a receipt.
Shaped == {r \in Records : /\ r.rid = 0 <=> r.state \in {"absent", "received"}
                           /\ r.pending => r.rid # 0}
RecordShape == journal \in [Commands -> Shaped]

\* Past the poll there is a command in hand.
AdmissionShape == pc \in AdmissionPcs => cursor < N

\* A command being admitted has never run and has no worker.
AdmissionFresh ==
  pc \in {"begin", "started", "submit"} =>
    /\ journal[Offered].state = IF pc = "begin" THEN "received" ELSE "running"
    /\ worker[Offered].pc = "idle"
    /\ executions[Offered] = 0 /\ effect[Offered] = "none"

\* Nor has a command without a started record.
UnstartedIdle ==
  \A c \in Commands : journal[c].state \in {"absent", "received"} =>
    worker[c].pc = "idle" /\ executions[c] = 0 /\ effect[c] = "none"

\* A command owned by a worker up to Complete has a running record.
OwnedRunning ==
  \A c \in Commands : worker[c].pc \in {"queued", "executing", "executed"} =>
    journal[c].state = "running"

\* A queued command has not run; executing, it has run this once.
QueuedFresh ==
  \A c \in Commands :
    /\ executions[c] <= 1
    /\ worker[c].pc = "queued" => executions[c] = 0
    /\ worker[c].pc \in {"queued", "executing"} => effect[c] = "none"

\* Lanes hold queued commands of their own, each once.
LaneShape ==
  \A l \in Lanes : \A i \in 1..Len(lane[l]) :
    /\ LaneOf[lane[l][i]] = l /\ worker[lane[l][i]].pc = "queued"
    /\ \A k \in 1..Len(lane[l]) : lane[l][i] = lane[l][k] => i = k

\* A worker's call to enqueueJournaled is the last thing it does.
CallShape == \A c \in Commands : enq[c].step # "idle" => worker[c].pc = "queueing"

\* Listed tasks are still under observation, each listed once.
TodoShape ==
  pc = "resolve" =>
    /\ \A item \in todo : journal[item.cmd].state \in {"submitted", "waiting"}
    /\ \A i, k \in todo : i.cmd = k.cmd => i = k

\* What the executor reported fits what it did.
ReportFits ==
  \A c \in Commands : worker[c].pc = "executed" =>
    /\ Mutating(c) /\ worker[c].st = "succeeded" => effect[c] = "done"
    /\ worker[c].st \in {"failed", "rejected"} => effect[c] = "none"
    /\ worker[c].st \in {"submitted", "succeeded", "failed", "rejected", "indeterminate"}

\* Reads change nothing, and an upgrade starts only under observation.
EffectShape ==
  \A c \in Commands :
    /\ ~Mutating(c) => effect[c] = "none"
    /\ effect[c] = "running" => journal[c].state \in Busy
    /\ Kind[c] = "upgrade" /\ journal[c].state \in {"received", "running"}
       => effect[c] \in {"none", "prepared"}

\* One unresolved record per resource.
OneHolder ==
  \A c, d \in Commands :
    /\ c # d /\ Mutating(c) /\ Mutating(d) /\ Resource[c] = Resource[d]
    => ~(journal[c].state \in Busy /\ journal[d].state \in Busy)

\* The inductive invariant of the proofs.
Inductive ==
  /\ TypeOK /\ RecordShape /\ AdmissionShape
  /\ AdmissionFresh /\ UnstartedIdle /\ OwnedRunning /\ QueuedFresh /\ LaneShape
  /\ CallShape /\ TodoShape /\ ReportFits /\ EffectShape /\ OneHolder /\ HonestOutcome

-----------------------------------------------------------------------------
(* What the command path promises about mutations, as an abstract machine. *)

Mutations == {c \in Commands : Mutating(c)}
LedgerState ==
  [c \in Mutations |-> IF journal[c].state = "absent" THEN "new"
                       ELSE IF journal[c].state \in Busy THEN "held" ELSE "settled"]
LedgerRan == {c \in Mutations : executions[c] > 0}

Ledger == INSTANCE MutationLedger
  WITH Command <- Mutations, Resource <- Resource, ledger <- LedgerState, ran <- LedgerRan

\* The command path implements the ledger: a mutation acquires its resource
\* once and exclusively, runs at most once and only while it holds it, and
\* gives it up only with a definite result.
ImplementsLedger == Ledger!Spec
=============================================================================
