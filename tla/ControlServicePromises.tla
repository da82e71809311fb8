----------------------- MODULE ControlServicePromises -----------------------
(***************************************************************************)
(* What the command path promises those who watch it: a terminal record is *)
(* final, the path implements MutationLedger, monitoring has a receipt's   *)
(* event before the website has the receipt, the cursor stays behind the   *)
(* receipts, and a running record has an owner who will answer for it.     *)
(***************************************************************************)
EXTENDS ControlServiceSafety

Open == {"received", "running", "submitted", "waiting"}

\* Records only move on from an open state, and no executor is entered.
Advances ==
  /\ UNCHANGED executions
  /\ \A c \in Commands : \/ journal'[c].state = journal[c].state
                         \/ journal[c].state \in Open /\ journal'[c].state \in ReceiptStates

\* Command c takes its resource.
Acquires(c) ==
  /\ UNCHANGED executions
  /\ journal[c].state = "absent" /\ journal'[c].state = "received"
  /\ ~(Mutating(c) /\ ResourceBusy(c))
  /\ \A d \in Commands : d # c => journal'[d].state = journal[d].state

\* Command c enters its executor.
Starts(c) ==
  /\ StatesKept
  /\ journal[c].state = "running" /\ executions[c] = 0
  /\ executions' = [executions EXCEPT ![c] = 1]

-----------------------------------------------------------------------------
\* A step that leaves records and executors alone.
LEMMA KeptAdvances == ASSUME UNCHANGED <<journal, executions>> PROVE Advances
BY DEF Advances

\* Recovery answers interrupted commands.
LEMMA RecoverAdvances == ASSUME TypeInv, RecoverIncomplete \/ RecoverFault PROVE Advances
<1> PICK lost \in SUBSET InterruptedCommands : RecoverRecords(lost)
  BY DEF RecoverIncomplete, RecoverFault
<1>1. UNCHANGED executions
  BY DEF RecoverIncomplete, RecoverFault, providerVars
<1>2. \A c \in Commands :
        journal'[c] = IF c \in lost THEN WithReceipt(c, Fresh(c), RecoveredState(c), FALSE)
                                    ELSE journal[c]
  BY DEF RecoverRecords
<1>3. ASSUME NEW c \in Commands
      PROVE  \/ journal'[c].state = journal[c].state
             \/ journal[c].state \in Open /\ journal'[c].state \in ReceiptStates
  <2>1. CASE c \in lost
    <3>1. journal'[c] = WithReceipt(c, Fresh(c), RecoveredState(c), FALSE)
      BY <1>2, <2>1
    <3>2. WithReceipt(c, Fresh(c), RecoveredState(c), FALSE).state = RecoveredState(c)
      BY DEF WithReceipt
    <3>3. journal[c].state \in Open
      BY <2>1 DEF InterruptedCommands, Interrupted, Open
    <3> QED BY <3>1, <3>2, <3>3, RecoveredType
  <2>2. CASE c \notin lost
    BY <1>2, <2>2
  <2> QED BY <2>1, <2>2
<1> QED BY <1>1, <1>3 DEF Advances

\* Writing one receipt over an open record.
LEMMA WriteAdvances ==
  ASSUME TypeInv, NEW c \in Commands, journal[c].state \in Open, NEW st \in ReceiptStates,
         NEW r, r.state = st, UNCHANGED executions,
         journal' = journal \/ journal' = [journal EXCEPT ![c] = r]
  PROVE  Advances
<1>1. \A d \in Commands : journal'[d] = journal[d] \/ (d = c /\ journal'[d] = r)
  BY DEF TypeInv, TypeOK, JournalType
<1> QED BY <1>1 DEF Advances

\* A submitted task is resolved.
LEMMA ResolveAdvances == ASSUME TypeInv, SafeInv, ResolveTask \/ ResolveFault PROVE Advances
<1>1. PICK item \in todo, st \in ReceiptStates :
        \/ journal' = journal
        \/ journal' = [journal EXCEPT ![item.cmd] = WithReceipt(item.cmd, Fresh(item.cmd), st, TRUE)]
  BY DEF ResolveTask, ResolveFault
<1>2. UNCHANGED executions /\ pc = "resolve"
  BY DEF ResolveTask, ResolveFault
<1>3. item.cmd \in Commands
  BY DEF TypeInv, TypeOK, LoopType, Items
<1>4. journal[item.cmd].state \in Open
  BY <1>2 DEF SafeInv, TodoShape, Open
<1>5. WithReceipt(item.cmd, Fresh(item.cmd), st, TRUE).state = st
  BY DEF WithReceipt
<1> QED BY <1>1, <1>2, <1>3, <1>4, <1>5, WriteAdvances

\* A worker completes its command.
LEMMA CompleteAdvances ==
  ASSUME TypeInv, SafeInv, NEW c \in Commands, Complete(c) \/ CompleteFault(c)
  PROVE  Advances
<1>1. PICK st \in ReceiptStates : st = worker[c].st
  BY DEF TypeInv, TypeOK, DispatchType, Workers
<1>2. PICK r : r = WithReceipt(c, Fresh(c), st, st = "submitted")
  OBVIOUS
<1>3. r.state = st
  BY <1>2 DEF WithReceipt
<1>4. UNCHANGED executions /\ (journal' = journal \/ journal' = [journal EXCEPT ![c] = r])
  BY <1>1, <1>2 DEF Complete, CompleteFault, providerVars
<1>5. journal[c].state \in Open
  BY DEF Complete, CompleteFault, SafeInv, OwnedRunning, Open
<1> QED BY <1>3, <1>4, <1>5, WriteAdvances

\* A command is refused, begun or submitted.
LEMMA AdmissionAdvances ==
  ASSUME TypeInv, SafeInv, ClaimAgain \/ BeginRunning \/ BeginFault
  PROVE  Advances
<1>1. cursor < N
  BY DEF ClaimAgain, Admissible, BeginRunning, BeginFault, TypeInv, AdmissionShape, AdmissionPcs
<1>2. PICK c \in Commands : c = Offered
  BY <1>1, OfferedType
<1>3. UNCHANGED executions
  BY DEF ClaimAgain, BeginRunning, BeginFault, providerVars
<1>4. journal[c].state \in Open
  BY <1>2 DEF ClaimAgain, BeginRunning, BeginFault, SafeInv, AdmissionFresh, Open
<1>5. "running" \in ReceiptStates /\ "indeterminate" \in ReceiptStates
  BY DEF ReceiptStates, RecordStates
<1>6. CASE ClaimAgain
  <2>1. journal' = journal
        \/ journal' = [journal EXCEPT ![c] = WithReceipt(c, Fresh(c), "indeterminate", FALSE)]
    BY <1>2, <1>6 DEF ClaimAgain
  <2>2. WithReceipt(c, Fresh(c), "indeterminate", FALSE).state = "indeterminate"
    BY DEF WithReceipt
  <2> QED BY <1>3, <1>4, <1>5, <2>1, <2>2, WriteAdvances
<1>7. CASE BeginRunning \/ BeginFault
  <2>1. journal' = journal
        \/ journal' = [journal EXCEPT ![c] = Running(journal[c], Fresh(c))]
    BY <1>2, <1>7 DEF BeginRunning, BeginFault
  <2>2. Running(journal[c], Fresh(c)).state = "running"
    BY JournalRecords DEF Running, Records
  <2> QED BY <1>3, <1>4, <1>5, <2>1, <2>2, WriteAdvances
<1> QED BY <1>6, <1>7

\* A receipt or its audit event is queued and acknowledged.
LEMMA EnqueueAdvances ==
  ASSUME TypeInv, NEW t \in Threads, EnqueueStep(t) \/ EnqueueFault(t)
  PROVE  Advances
<1>1. UNCHANGED executions
  BY DEF EnqueueStep, EnqueueFault, LookupAudit, MarkAuditQueued, EnqueueReceipt,
     MarkReceiptQueued,
         SendDenied, providerVars
<1>2. enq[t].cmd \in Commands
  BY DEF TypeInv, TypeOK, CallType, Calls
<1>3. \/ journal' = journal
      \/ journal' = [journal EXCEPT ![enq[t].cmd] = AuditAcknowledged(journal[enq[t].cmd])]
      \/ journal' = [journal EXCEPT ![enq[t].cmd] = ReceiptAcknowledged(journal[enq[t].cmd])]
  BY DEF EnqueueStep, EnqueueFault, LookupAudit, MarkAuditQueued, EnqueueReceipt,
     MarkReceiptQueued,
         SendDenied
<1>4. StatesKept
  BY <1>2, <1>3, AcknowledgedState, JournalRecords DEF StatesKept
<1> QED BY <1>1, <1>4 DEF StatesKept, Advances

\* A command that is new is claimed, its resource free.
LEMMA ClaimAcquires ==
  ASSUME TypeInv, ClaimNew \/ ClaimFault
  PROVE  Advances \/ \E c \in Commands : Acquires(c)
<1>1. PICK c \in Commands : c = Offered
  BY OfferedType DEF ClaimNew, ClaimFault, Admissible
<1>2. UNCHANGED executions /\ journal[c].state = "absent"
  BY <1>1 DEF ClaimNew, ClaimFault, providerVars
<1>3. CASE journal' = journal
  BY <1>2, <1>3, KeptAdvances
<1>4. CASE journal' # journal
  <2>1. ~(Mutating(c) /\ ResourceBusy(c)) /\ journal' = [journal EXCEPT ![c] = Claimed(journal[c])]
    BY <1>1, <1>4 DEF ClaimNew, ClaimFault
  <2>2. Claimed(journal[c]).state = "received"
    BY JournalRecords DEF Claimed, Records
  <2>3. journal'[c].state = "received" /\ \A d \in Commands : d # c => journal'[d].state = journal[d].state
    BY <2>1, <2>2 DEF TypeInv, TypeOK, JournalType
  <2> QED BY <1>2, <2>1, <2>3 DEF Acquires
<1> QED BY <1>3, <1>4

\* A worker enters the executor.
LEMMA StartWorkStarts ==
  ASSUME TypeInv, SafeInv, NEW l \in Lanes, StartWork(l)
  PROVE  \E c \in Commands : Starts(c)
<1>1. UNCHANGED journal /\ lane[l] # <<>>
  BY DEF StartWork
<1>2. PICK h \in Commands : h = Head(lane[l])
  BY <1>1, HeadType
<1>3. lane[l] \in Seq(Commands) /\ 1 \in 1..Len(lane[l]) /\ h = lane[l][1]
  BY <1>1, <1>2 DEF TypeInv, TypeOK, DispatchType
<1>4. worker[h].pc = "queued"
  BY <1>3 DEF SafeInv, LaneShape
<1>5. executions[h] = 0 /\ journal[h].state = "running"
  BY <1>4 DEF SafeInv, QueuedFresh, OwnedRunning
<1>6. executions' = [executions EXCEPT ![h] = 1]
  BY <1>2, <1>5 DEF StartWork
<1> QED BY <1>1, <1>5, <1>6 DEF Starts, StatesKept

\* Every step of the command path moves records in one of three ways.
LEMMA RecordMoves ==
  TypeInv /\ SafeInv /\ [Next]_vars
  => Advances \/ (\E c \in Commands : Acquires(c)) \/ (\E c \in Commands : Starts(c))
<1> SUFFICES ASSUME TypeInv, SafeInv, [Next]_vars
             PROVE  Advances \/ (\E c \in Commands : Acquires(c)) \/ (\E c \in Commands : Starts(c))
  OBVIOUS
<1>1. CASE FlushOne \/ PendingReceipts \/ SubmittedWaiting \/ ReconcileDone \/ ReconcileFault
  BY <1>1, KeptAdvances
  DEF FlushOne, PendingReceipts, SubmittedWaiting, ReconcileDone, ReconcileFault, providerVars
<1>2. CASE PollNothing \/ PollRefused \/ PollLaneFull \/ PollFault \/ ClaimDuplicate
           \/ Submit \/ SaveCursor
  BY <1>2, KeptAdvances DEF PollNothing, PollRefused, PollLaneFull, PollFault, ClaimDuplicate,
     Submit, SaveCursor, providerVars
<1>3. CASE RecoverIncomplete \/ RecoverFault \/ ResolveTask \/ ResolveFault
  BY <1>3, RecoverAdvances, ResolveAdvances
<1>4. CASE ClaimNew \/ ClaimFault
  BY <1>4, ClaimAcquires
<1>5. CASE ClaimAgain \/ BeginRunning \/ BeginFault
  BY <1>5, AdmissionAdvances
<1>6. ASSUME NEW t \in Threads, EnqueueStep(t) \/ EnqueueFault(t)
      PROVE  Advances
  BY <1>6, EnqueueAdvances
<1>7. ASSUME NEW l \in Lanes, StartWork(l)
      PROVE  \E c \in Commands : Starts(c)
  BY <1>7, StartWorkStarts
<1>8. ASSUME NEW c \in Commands, Execute(c) \/ TaskEnds(c)
      PROVE  Advances
  BY <1>8, KeptAdvances DEF Execute, TaskEnds
<1>9. ASSUME NEW c \in Commands, Complete(c) \/ CompleteFault(c)
      PROVE  Advances
  BY <1>9, CompleteAdvances
<1>10. CASE Crash
  BY <1>10, KeptAdvances DEF Crash, providerVars
<1>11. CASE UNCHANGED vars
  BY <1>11, KeptAdvances DEF vars, providerVars
<1> QED BY <1>1, <1>2, <1>3, <1>4, <1>5, <1>6, <1>7, <1>8, <1>9, <1>10, <1>11, ThreadTypes
        DEF Next, LoopStep, WorkerStep, ReconcileStep, PollStep, Delivery

FinalStep == \A c \in Commands : journal[c].state \in Terminal => journal'[c].state = journal[c].state

\* A terminal record is never reopened or relabelled, by recovery, by a
\* redelivered claim, by a late observation or by a worker that finishes
\* after the loop has read its record.
THEOREM TerminalFinal == Spec => TerminalIsFinal
<1>1. TypeInv /\ SafeInv /\ [Next]_vars => [FinalStep]_vars
  BY RecordMoves DEF FinalStep, Advances, Acquires, Starts, StatesKept, Terminal, Open
<1>2. Spec => [][FinalStep]_vars
  BY <1>1, Invariant, PTL DEF Spec
<1> QED BY <1>2 DEF TerminalIsFinal, FinalStep

-----------------------------------------------------------------------------
(* The refinement of MutationLedger.                                       *)

\* The ledger's view of a record depends on its state only.
LEMMA LedgerStates ==
  /\ \A c \in Mutations : LedgerState[c] = IF journal[c].state = "absent" THEN "new"
                                           ELSE IF journal[c].state \in Busy THEN "held" ELSE "settled"
  /\ \A c \in Mutations : LedgerState'[c] = IF journal'[c].state = "absent" THEN "new"
                                            ELSE IF journal'[c].state \in Busy THEN "held" ELSE "settled"
BY DEF LedgerState, Mutations, Mutating

\* Advancing records is a step of the ledger or none.
LEMMA AdvanceRefines ==
  ASSUME TypeInv, Advances
  PROVE  \E S \in SUBSET Mutations : Ledger!Settle(S)
<1> DEFINE S == {c \in Mutations : LedgerState[c] = "held" /\ LedgerState'[c] # "held"}
<1>1. LedgerRan' = LedgerRan
  BY DEF Advances, LedgerRan, Mutations, Mutating
<1>2. ASSUME NEW c \in Mutations
      PROVE  LedgerState'[c] = IF c \in S THEN "settled" ELSE LedgerState[c]
  <2>1. c \in Commands
    BY DEF Mutations
  <2>2. \/ journal'[c].state = journal[c].state
        \/ journal[c].state \in Open /\ journal'[c].state \in ReceiptStates
    BY <2>1 DEF Advances
  <2> QED BY <2>2, LedgerStates DEF Open, Busy, ReceiptStates
<1>3. LedgerState' = [c \in Mutations |-> IF c \in S THEN "settled" ELSE LedgerState[c]]
  <2>1. LedgerState' = [c \in Mutations |-> LedgerState'[c]]
    BY DEF LedgerState, Mutations, Mutating
  <2> QED BY <1>2, <2>1
<1>4. Ledger!Settle(S)
  BY <1>1, <1>3 DEF Ledger!Settle
<1> QED BY <1>4

\* Taking a resource is a step of the ledger.
LEMMA AcquireRefines ==
  ASSUME TypeInv, NEW c \in Commands, Acquires(c)
  PROVE  UNCHANGED <<LedgerState, LedgerRan>> \/ \E d \in Mutations : Ledger!Acquire(d)
<1>1. LedgerRan' = LedgerRan
  BY DEF Acquires, LedgerRan, Mutations, Mutating
<1>2. LedgerState' = [d \in Mutations |-> LedgerState'[d]] /\ LedgerState = [d \in Mutations |-> LedgerState[d]]
  BY DEF LedgerState, Mutations, Mutating
<1>3. \A d \in Mutations : d # c => LedgerState'[d] = LedgerState[d]
  BY LedgerStates DEF Acquires, Mutations
<1>4. CASE c \notin Mutations
  BY <1>1, <1>2, <1>3, <1>4
<1>5. CASE c \in Mutations
  <2>1. LedgerState[c] = "new" /\ LedgerState'[c] = "held"
    BY <1>5, LedgerStates DEF Acquires, Busy
  <2>2. \A d \in Mutations : Resource[d] = Resource[c] => LedgerState[d] # "held"
    BY <1>5, LedgerStates DEF Acquires, ResourceBusy, Mutations
  <2>3. LedgerState' = [LedgerState EXCEPT ![c] = "held"]
    BY <1>2, <1>3, <2>1
  <2>4. Ledger!Acquire(c)
    BY <1>1, <2>1, <2>2, <2>3 DEF Ledger!Acquire
  <2> QED BY <1>5, <2>4
<1> QED BY <1>4, <1>5

\* Entering the executor is a step of the ledger.
LEMMA StartRefines ==
  ASSUME TypeInv, NEW c \in Commands, Starts(c)
  PROVE  UNCHANGED <<LedgerState, LedgerRan>> \/ \E d \in Mutations : Ledger!Run(d)
<1>1. LedgerState' = LedgerState
  BY DEF Starts, StatesKept, LedgerState, Mutations, Mutating
<1>2. \A d \in Commands : executions'[d] = IF d = c THEN 1 ELSE executions[d]
  BY DEF Starts, TypeInv, TypeOK, ProviderType
<1>3. CASE c \notin Mutations
  <2>1. LedgerRan' = LedgerRan
    BY <1>2, <1>3 DEF LedgerRan, Mutations, Mutating
  <2> QED BY <1>1, <2>1
<1>4. CASE c \in Mutations
  <2>1. LedgerState[c] = "held" /\ c \notin LedgerRan
    BY <1>4, LedgerStates DEF Starts, Busy, LedgerRan
  <2>2. LedgerRan' = LedgerRan \cup {c}
    BY <1>2, <1>4 DEF LedgerRan, Mutations, Mutating
  <2>3. Ledger!Run(c)
    BY <1>1, <2>1, <2>2 DEF Ledger!Run
  <2> QED BY <1>4, <2>3
<1> QED BY <1>3, <1>4

\* The command path implements the ledger of mutations: every step is an
\* acquisition, a first run, a settlement of held mutations, or invisible.
THEOREM Refinement == Spec => ImplementsLedger
<1>1. Init => Ledger!Init
  <2> SUFFICES ASSUME Init PROVE Ledger!Init
    OBVIOUS
  <2>1. \A c \in Mutations : journal[c].state = "absent" /\ executions[c] = 0
    BY DEF Init, NoRecord, Mutations
  <2>2. LedgerState = [c \in Mutations |-> "new"] /\ LedgerRan = {}
    BY <2>1 DEF LedgerState, LedgerRan
  <2> QED BY <2>2 DEF Ledger!Init
<1>2. TypeInv /\ SafeInv /\ [Next]_vars => [Ledger!Next]_(Ledger!vars)
  <2> SUFFICES ASSUME TypeInv, SafeInv, [Next]_vars PROVE [Ledger!Next]_(Ledger!vars)
    OBVIOUS
  <2>1. CASE Advances
    BY <2>1, AdvanceRefines DEF Ledger!Next
  <2>2. ASSUME NEW c \in Commands, Acquires(c) PROVE [Ledger!Next]_(Ledger!vars)
    BY <2>2, AcquireRefines DEF Ledger!Next, Ledger!vars
  <2>3. ASSUME NEW c \in Commands, Starts(c) PROVE [Ledger!Next]_(Ledger!vars)
    BY <2>3, StartRefines DEF Ledger!Next, Ledger!vars
  <2> QED BY <2>1, <2>2, <2>3, RecordMoves
<1>3. Spec => Ledger!Init /\ [][Ledger!Next]_(Ledger!vars)
  BY <1>1, <1>2, Invariant, PTL DEF Spec
<1> QED BY <1>3 DEF ImplementsLedger, Ledger!Spec

-----------------------------------------------------------------------------
(***************************************************************************)
(* What the website and monitoring are told.                               *)
(***************************************************************************)

\* What a call or a listed item says of its command: its receipt id was drawn,
\* and when it still is the record's, the state is the record's too.
Agrees(x) ==
  /\ x.rid \in 1..minted[x.cmd]
  /\ x.rid = journal[x.cmd].rid => x.st = journal[x.cmd].state

\* Receipt ids are drawn once, and nobody replays a receipt under a state it
\* did not have.
NumberInv ==
  /\ \A c \in Commands : journal[c].rid <= minted[c]
  /\ \A t \in Threads : enq[t].step # "idle" => Agrees(enq[t])
  /\ \A item \in todo : Agrees(item)

\* Receipts monitoring has to know first, and those it knows.
NeedsAudit(c, st) == Audited(c, st) /\ st \notin {"running", "unauthenticated"}
Logged(c, id, st) == [rid |-> id, st |-> st] \in auditLog[c]

\* A receipt's event is in the record or in the queue, and a call that has
\* passed the audit has it in the queue.
AuditInv ==
  /\ \A c \in Commands :
       journal[c].state \in ReceiptStates /\ NeedsAudit(c, journal[c].state) =>
         journal[c].audit = journal[c].rid \/ Logged(c, journal[c].rid, journal[c].state)
  /\ \A t \in Threads :
       /\ enq[t].step = "markAudit" => Logged(enq[t].cmd, enq[t].rid, enq[t].st)
       /\ enq[t].step \in {"enqueue", "deny"} /\ NeedsAudit(enq[t].cmd, enq[t].st) =>
            Logged(enq[t].cmd, enq[t].rid, enq[t].st)
  /\ AuditPrecedesReceipt

\* What the loop calls for while it admits a command is that command's, and
\* past the call its receipt is queued.
Calling == {"duplicate", "started", "deny"}
CursorInv ==
  /\ pc \in Calling => enq[LoopThread].step # "idle" /\ enq[LoopThread].cmd = Offered
  /\ enq[LoopThread].step = "markReceipt" => receiptLog[enq[LoopThread].cmd] # <<>>
  /\ pc \in {"submit", "saveCursor"} => receiptLog[Offered] # <<>>
  /\ CursorBehindReceipts

\* Nothing but a failure keeps an admitted command from its lane, and a
\* worker that ends has written its outcome.
OwnerInv ==
  /\ \A c \in Commands : journal[c].state \in {"absent", "received"} => journal[c].audit = 0
  /\ pc \in AdmittingPcs => LaneHasRoom(Offered)
  /\ pc = "started" => journal[Offered].audit = 0 /\ enq[LoopThread].rid = journal[Offered].rid
  /\ pc = "submit" => LoopFree
  /\ \A c \in Commands : worker[c].pc = "queueing" => journal[c].state # "running"
  /\ RunningIsOwned

-----------------------------------------------------------------------------
\* The fields of the records the journal's writers build.
LEMMA WrittenFields ==
  ASSUME NEW c, NEW id, NEW st, NEW hasTask
  PROVE  /\ WithReceipt(c, id, st, hasTask).rid = id
         /\ WithReceipt(c, id, st, hasTask).state = st
         /\ WithReceipt(c, id, st, hasTask).audit =
              IF Audited(c, st) THEN id ELSE journal[c].audit
BY DEF WithReceipt

\* An acknowledgement changes no more than its own field.
LEMMA MarkedFields ==
  ASSUME NEW r \in Records, NEW id
  PROVE  /\ Running(r, id).rid = id /\ Running(r, id).state = "running"
         /\ Running(r, id).audit = r.audit
         /\ Claimed(r).rid = r.rid /\ Claimed(r).state = "received" /\ Claimed(r).audit = r.audit
         /\ AuditAcknowledged(r).rid = r.rid /\ AuditAcknowledged(r).state = r.state
         /\ AuditAcknowledged(r).audit = 0
         /\ ReceiptAcknowledged(r).rid = r.rid /\ ReceiptAcknowledged(r).state = r.state
         /\ ReceiptAcknowledged(r).audit = r.audit
BY DEF Running, Claimed, AuditAcknowledged, ReceiptAcknowledged, Records

\* A record that carries a receipt is in a receipt's state.
LEMMA CarriesReceipt ==
  ASSUME TypeInv, NEW c \in Commands
  PROVE  /\ journal[c] \in Records /\ journal[c].rid \in Nat /\ minted[c] \in Nat
         /\ journal[c].rid = 0 <=> journal[c].state \notin ReceiptStates
         /\ journal[c].pending => journal[c].rid # 0
         /\ Fresh(c) = minted[c] + 1
BY DEF TypeInv, RecordShape, Shaped, TypeOK, JournalType, Records, ReceiptStates, Fresh

\* A record is written with a receipt just drawn, which its event names.
Writes(c) ==
  /\ journal'[c].rid = Fresh(c) /\ minted'[c] = Fresh(c)
  /\ NeedsAudit(c, journal'[c].state) => journal'[c].audit = Fresh(c)

\* A call begins, or ends.
Begins(t) ==
  /\ enq'[t].step \in {"lookup", "deny"} /\ Agrees(enq[t])'
  /\ enq'[t].step = "deny" /\ NeedsAudit(enq'[t].cmd, enq'[t].st) =>
       Logged(enq[t].cmd, enq[t].rid, enq[t].st)'

\* A step outside the calls: records are claimed or written, calls begin or
\* are lost, and items are listed as the journal has them.
LEMMA WritingStep ==
  ASSUME TypeInv, NumberInv, AuditInv,
         \A c \in Commands : minted'[c] = minted[c] \/ minted'[c] = Fresh(c),
         \A c \in Commands : \/ journal'[c] = journal[c] \/ Writes(c)
                             \/ journal'[c].rid = 0 /\ journal'[c].state = "received",
         \A t \in Threads : enq'[t] = enq[t] \/ enq'[t].step = "idle" \/ Begins(t),
         \A item \in todo' : item \in todo \/ Agrees(item)',
         UNCHANGED receiptLog, \A c \in Commands : auditLog[c] \subseteq auditLog'[c]
  PROVE  NumberInv' /\ AuditInv'
<1>1. \A x : x.cmd \in Commands /\ x.rid \in 1..minted[x.cmd] /\ Agrees(x) => Agrees(x)'
  <2> SUFFICES ASSUME NEW x, x.cmd \in Commands, x.rid \in 1..minted[x.cmd], Agrees(x)
               PROVE  Agrees(x)'
    OBVIOUS
  <2>1. PICK c \in Commands : c = x.cmd
    OBVIOUS
  <2>2. minted[c] \in Nat /\ Fresh(c) = minted[c] + 1
    BY CarriesReceipt
  <2>3. x.rid \in 1..minted'[c] /\ x.rid # Fresh(c) /\ x.rid # 0
    BY <2>1, <2>2
  <2>4. x.rid = journal'[c].rid => x.st = journal'[c].state
    BY <2>1, <2>3 DEF Agrees, Writes
  <2> QED
    BY <2>1, <2>3, <2>4 DEF Agrees
<1>2. \A t \in Threads : enq[t].cmd \in Commands
  BY DEF TypeInv, TypeOK, CallType, Calls
<1>3. \A item \in todo : item.cmd \in Commands
  BY DEF TypeInv, TypeOK, LoopType, Items
<1>4. NumberInv'
  <2>1. ASSUME NEW c \in Commands PROVE journal'[c].rid <= minted'[c]
    BY CarriesReceipt DEF NumberInv, Writes
  <2>2. ASSUME NEW t \in Threads, enq'[t].step # "idle" PROVE Agrees(enq[t])'
    BY <1>1, <1>2, <2>2 DEF NumberInv, Begins, Agrees
  <2>3. ASSUME NEW item \in todo' PROVE Agrees(item)'
    BY <1>1, <1>3 DEF NumberInv, Agrees
  <2> QED
    BY <2>1, <2>2, <2>3 DEF NumberInv
<1>5. \A c \in Commands : \A id, st : Logged(c, id, st) => Logged(c, id, st)'
  BY DEF Logged
<1>6. AuditInv'
  <2>1. ASSUME NEW c \in Commands,
               journal'[c].state \in ReceiptStates, NeedsAudit(c, journal'[c].state)
        PROVE  journal'[c].audit = journal'[c].rid \/ Logged(c, journal[c].rid, journal[c].state)'
    <3>1. CASE journal'[c] = journal[c]
      BY <1>5, <2>1, <3>1 DEF AuditInv, Logged
    <3>2. CASE Writes(c)
      BY <2>1, <3>2 DEF Writes
    <3> QED
      BY <2>1, <3>1, <3>2 DEF ReceiptStates
  <2>2. ASSUME NEW t \in Threads
        PROVE  /\ enq'[t].step = "markAudit" => Logged(enq[t].cmd, enq[t].rid, enq[t].st)'
               /\ enq'[t].step \in {"enqueue", "deny"} /\ NeedsAudit(enq'[t].cmd, enq'[t].st) =>
                    Logged(enq[t].cmd, enq[t].rid, enq[t].st)'
    <3>1. CASE enq'[t] = enq[t]
      BY <1>2, <1>5, <3>1 DEF AuditInv, Logged
    <3>2. CASE enq'[t].step = "idle" \/ Begins(t)
      BY <3>2 DEF Begins
    <3> QED
      BY <3>1, <3>2
  <2>3. AuditPrecedesReceipt'
    BY DEF AuditInv, AuditPrecedesReceipt
  <2> QED
    BY <2>1, <2>2, <2>3 DEF AuditInv, NeedsAudit, Audited
<1> QED
  BY <1>4, <1>6

\* What stands in a sequence that was appended to.
LEMMA Appended ==
  ASSUME NEW S, NEW s \in Seq(S), NEW e \in S, NEW i \in 1..Len(Append(s, e))
  PROVE  (i \in 1..Len(s) /\ Append(s, e)[i] = s[i]) \/ Append(s, e)[i] = e
OBVIOUS

\* A receipt that is queued is one monitoring knows.
LEMMA QueuedAudited ==
  ASSUME TypeInv, AuditPrecedesReceipt, NEW t \in Threads,
         NeedsAudit(enq[t].cmd, enq[t].st) => Logged(enq[t].cmd, enq[t].rid, enq[t].st),
         receiptLog' = [receiptLog EXCEPT ![enq[t].cmd] =
                          Queued(enq[t].cmd, [rid |-> enq[t].rid, st |-> enq[t].st])],
         \A c \in Commands : auditLog[c] \subseteq auditLog'[c]
  PROVE  AuditPrecedesReceipt'
<1> DEFINE c == enq[t].cmd
           r == [rid |-> enq[t].rid, st |-> enq[t].st]
<1>1. c \in Commands /\ r \in Receipts /\ receiptLog \in [Commands -> Seq(Receipts)]
  BY DEF TypeInv, TypeOK, CallType, Calls, Receipts, OutboxType
<1> SUFFICES ASSUME NEW d \in Commands, Mutating(d), NEW i \in 1..Len(receiptLog'[d]),
                    Audited(d, receiptLog'[d][i].st),
                    receiptLog'[d][i].st \notin {"running", "unauthenticated"}
             PROVE  receiptLog'[d][i] \in auditLog'[d]
  BY DEF AuditPrecedesReceipt, Audited, Mutating
<1>2. CASE receiptLog'[d] = receiptLog[d]
  BY <1>2 DEF AuditPrecedesReceipt
<1>3. CASE receiptLog'[d] # receiptLog[d]
  <2>1. d = c /\ receiptLog'[c] = Append(receiptLog[c], r)
    BY <1>1, <1>3 DEF Queued
  <2>2. receiptLog[c] \in Seq(Receipts) /\ r \in Receipts /\ i \in 1..Len(Append(receiptLog[c], r))
    BY <1>1, <2>1
  <2>3. \/ i \in 1..Len(receiptLog[c]) /\ receiptLog'[c][i] = receiptLog[c][i]
        \/ receiptLog'[c][i] = r
    <3> HIDE DEF c, r
    <3> QED
      BY <2>1, <2>2, Appended
  <2>4. CASE receiptLog'[c][i] = r
    <3>1. receiptLog'[d][i] = r
      BY <2>1, <2>4
    <3>2. receiptLog'[d][i].st = enq[t].st
      BY <3>1
    <3>3. Audited(c, enq[t].st) /\ enq[t].st \notin {"running", "unauthenticated"}
      BY <2>1, <3>2
    <3>4. r \in auditLog[c]
      BY <3>3 DEF NeedsAudit, Logged
    <3> QED
      BY <1>1, <2>1, <3>1, <3>4
  <2>5. CASE i \in 1..Len(receiptLog[c]) /\ receiptLog'[c][i] = receiptLog[c][i]
    BY <1>1, <2>1, <2>5 DEF AuditPrecedesReceipt
  <2> QED
    BY <2>3, <2>4, <2>5
<1> QED
  BY <1>2, <1>3

\* A call goes on under its own number and state: past the lookup, and past
\* the audit, its event is queued.
Advanced(t) ==
  /\ enq'[t].cmd = enq[t].cmd /\ enq'[t].rid = enq[t].rid /\ enq'[t].st = enq[t].st
  /\ enq'[t].step \in {"markAudit", "enqueue", "markReceipt"}
  /\ \/ enq'[t].step = "markReceipt"
     \/ enq'[t].step = "enqueue" /\ ~NeedsAudit(enq[t].cmd, enq[t].st)
     \/ Logged(enq[t].cmd, enq[t].rid, enq[t].st)'

\* A step of a call: no record gets another receipt or state, an event leaves
\* its record only for the queue, and a receipt is queued after its event.
LEMMA AnsweringStep ==
  ASSUME TypeInv, NumberInv, AuditInv, NEW t \in Threads, enq[t].step # "idle", UNCHANGED minted,
         \A c \in Commands :
           /\ journal'[c].rid = journal[c].rid /\ journal'[c].state = journal[c].state
           /\ journal'[c].audit = journal[c].audit \/ Logged(c, journal[c].rid, journal[c].state)',
         \A u \in Threads : enq'[u] = enq[u] \/ enq'[u].step = "idle" \/ (u = t /\ Advanced(u)),
         todo' \subseteq todo, \A c \in Commands : auditLog[c] \subseteq auditLog'[c],
         AuditPrecedesReceipt'
  PROVE  NumberInv' /\ AuditInv'
<1>1. \A x : x.cmd \in Commands /\ Agrees(x) => Agrees(x)'
  BY DEF Agrees
<1>3. \A u \in Threads : enq[u].cmd \in Commands
  BY DEF TypeInv, TypeOK, CallType, Calls
<1>4. \A item \in todo : item.cmd \in Commands
  BY DEF TypeInv, TypeOK, LoopType, Items
<1>5. \A c \in Commands : \A id, st : Logged(c, id, st) => Logged(c, id, st)'
  BY DEF Logged
<1>6. NumberInv'
  <2>1. ASSUME NEW u \in Threads, enq'[u].step # "idle" PROVE Agrees(enq[u])'
    <3>1. Agrees(enq[u]) /\ enq[u].cmd \in Commands
      BY <1>3, <2>1 DEF NumberInv
    <3>2. enq'[u].cmd = enq[u].cmd /\ enq'[u].rid = enq[u].rid /\ enq'[u].st = enq[u].st
      BY <2>1 DEF Advanced
    <3> QED
      BY <3>1, <3>2 DEF Agrees
  <2> QED
    BY <1>1, <1>4, <2>1 DEF NumberInv
<1>7. AuditInv'
  BY <1>3, <1>5 DEF AuditInv, NeedsAudit, Audited, Advanced, Logged
<1> QED
  BY <1>6, <1>7

\* A call that returns leaves nothing behind.
LEMMA Returned ==
  ASSUME TypeInv, NEW t \in Threads, CallDone(t) \/ CallFailed(t)
  PROVE  /\ \A u \in Threads : enq'[u] = enq[u] \/ enq'[u].step = "idle"
         /\ todo' \subseteq todo
<1>1. enq' = [enq EXCEPT ![t] = IdleCall]
  BY DEF CallDone, CallFailed
<1>2. enq \in [Threads -> Calls]
  BY DEF TypeInv, TypeOK, CallType
<1>3. \A u \in Threads : enq'[u] = enq[u] \/ enq'[u].step = "idle"
  BY <1>1, <1>2 DEF IdleCall
<1>4. todo' \subseteq todo
  BY DEF CallDone, CallFailed, PollReturned, ReconcileFailed, loopVars
<1> QED
  BY <1>3, <1>4

\* The records after an acknowledgement.
LEMMA AcknowledgedRecords ==
  ASSUME TypeInv, NEW c \in Commands,
         \/ journal' = [journal EXCEPT ![c] = ReceiptAcknowledged(journal[c])]
         \/ /\ journal' = [journal EXCEPT ![c] = AuditAcknowledged(journal[c])]
            /\ journal[c].audit = 0 \/ Logged(c, journal[c].rid, journal[c].state)'
  PROVE  \A d \in Commands :
           /\ journal'[d].rid = journal[d].rid /\ journal'[d].state = journal[d].state
           /\ journal'[d].audit = journal[d].audit \/ Logged(d, journal[d].rid, journal[d].state)'
<1>1. journal \in [Commands -> Records] /\ journal[c] \in Records
  BY JournalRecords
<1> SUFFICES ASSUME NEW d \in Commands
             PROVE  /\ journal'[d].rid = journal[d].rid /\ journal'[d].state = journal[d].state
                    /\ \/ journal'[d].audit = journal[d].audit
                       \/ Logged(d, journal[d].rid, journal[d].state)'
  OBVIOUS
<1>2. CASE d # c
  BY <1>1, <1>2
<1>3. CASE d = c
  <2>1. CASE journal' = [journal EXCEPT ![c] = ReceiptAcknowledged(journal[c])]
    <3>1. journal'[c] = ReceiptAcknowledged(journal[c])
      BY <1>1, <2>1
    <3> QED
      BY <1>1, <1>3, <3>1, MarkedFields
  <2>2. CASE /\ journal' = [journal EXCEPT ![c] = AuditAcknowledged(journal[c])]
             /\ journal[c].audit = 0 \/ Logged(c, journal[c].rid, journal[c].state)'
    <3>1. journal'[c] = AuditAcknowledged(journal[c])
      BY <1>1, <2>2
    <3>2. /\ AuditAcknowledged(journal[c]).rid = journal[c].rid
          /\ AuditAcknowledged(journal[c]).state = journal[c].state
          /\ AuditAcknowledged(journal[c]).audit = 0
      BY <1>1, MarkedFields
    <3>3. journal'[c].rid = journal[c].rid /\ journal'[c].state = journal[c].state
      BY <3>1, <3>2
    <3>4. journal'[c].audit = journal[c].audit \/ Logged(c, journal[c].rid, journal[c].state)'
      BY <2>2, <3>1, <3>2
    <3> QED
      BY <1>3, <3>3, <3>4
  <2> QED
    BY <2>1, <2>2
<1> QED
  BY <1>2, <1>3

\* The steps of enqueueing keep the answers audited.
LEMMA EnqueueAnswer ==
  ASSUME TypeInv, NumberInv, AuditInv, NEW t \in Threads, EnqueueStep(t) \/ EnqueueFault(t)
  PROVE  NumberInv' /\ AuditInv'
<1> DEFINE call == enq[t]
           c == call.cmd
           sent == [rid |-> call.rid, st |-> call.st]
           Same == \A d \in Commands :
             /\ journal'[d].rid = journal[d].rid /\ journal'[d].state = journal[d].state
             /\ journal'[d].audit = journal[d].audit \/ Logged(d, journal[d].rid, journal[d].state)'
           Others == \A u \in Threads :
             enq'[u] = enq[u] \/ enq'[u].step = "idle" \/ (u = t /\ Advanced(u))
           Grows == \A d \in Commands : auditLog[d] \subseteq auditLog'[d]
<1>1. /\ c \in Commands /\ enq \in [Threads -> Calls]
      /\ journal \in [Commands -> Records] /\ auditLog \in [Commands -> SUBSET Receipts]
  BY DEF TypeInv, TypeOK, CallType, Calls, OutboxType, JournalType
<1>2. call.step # "idle" /\ UNCHANGED minted
  BY DEF EnqueueStep, LookupAudit, MarkAuditQueued, EnqueueReceipt, MarkReceiptQueued,
     SendDenied,
         EnqueueFault
<1>3. Agrees(call)
  BY <1>2 DEF NumberInv
<1>4. call.step = "markAudit" => Logged(c, call.rid, call.st)
  BY DEF AuditInv
<1>5. call.step \in {"enqueue", "deny"} /\ NeedsAudit(c, call.st) => Logged(c, call.rid, call.st)
  BY DEF AuditInv
<1>6. AuditPrecedesReceipt
  BY DEF AuditInv
<1>7. Grows /\ UNCHANGED receiptLog => AuditPrecedesReceipt'
  BY <1>6 DEF AuditPrecedesReceipt
<1>9. UNCHANGED journal => Same
  OBVIOUS
<1>10. UNCHANGED auditLog => Grows
  OBVIOUS
<1>11. auditLog' = [auditLog EXCEPT ![c] = @ \cup {sent}] =>
         Grows /\ sent \in auditLog'[c]
  BY <1>1
<1>12. CallDone(t) \/ CallFailed(t) => Others /\ todo' \subseteq todo
  BY Returned
<1>13. /\ call.step \in {"enqueue", "deny"} /\ Grows
       /\ receiptLog' = [receiptLog EXCEPT ![c] = Queued(c, sent)]
       => AuditPrecedesReceipt'
  BY <1>5, <1>6, QueuedAudited
<1>14. ASSUME call.step = "markAudit", Grows,
              journal' = [journal EXCEPT ![c] = AuditAcknowledged(journal[c])],
              journal[c].audit = 0 \/ journal[c].rid = call.rid
       PROVE  Same
  <2>1. journal'[c].rid = journal[c].rid /\ journal'[c].state = journal[c].state
    BY <1>1, <1>14, MarkedFields
  <2>2. journal[c].audit = 0 \/ [rid |-> journal'[c].rid, st |-> journal'[c].state] \in auditLog'[c]
    BY <1>1, <1>3, <1>4, <1>14, <2>1 DEF Agrees, Logged
  <2> QED
    BY <1>1, <1>14, <2>2, AcknowledgedRecords DEF Logged
<1>15. journal' = [journal EXCEPT ![c] = ReceiptAcknowledged(journal[c])] => Same
  BY <1>1, AcknowledgedRecords
<1>16. Same /\ Others /\ todo' \subseteq todo /\ Grows /\ AuditPrecedesReceipt' =>
         NumberInv' /\ AuditInv'
  BY <1>2, AnsweringStep
<1>17. ASSUME NEW s \in {"markAudit", "enqueue"}, enq' = [enq EXCEPT ![t].step = s],
              (s = "enqueue" /\ ~NeedsAudit(c, call.st)) \/ sent \in auditLog'[c]
       PROVE  Others
  <2>1. enq'[t] = [call EXCEPT !.step = s] /\ \A u \in Threads : u # t => enq'[u] = enq[u]
    BY <1>1, <1>17
  <2>2. enq'[t].step = s /\ enq'[t].cmd = c /\ enq'[t].rid = call.rid /\ enq'[t].st = call.st
    BY <1>1, <2>1 DEF Calls
  <2>3. Advanced(t)
    BY <1>17, <2>2 DEF Advanced, Logged
  <2> QED
    BY <2>1, <2>3
<1>18. CASE LookupAudit(t)
  <2>1. call.step = "lookup" /\ UNCHANGED <<journal, receiptLog>>
    BY <1>18 DEF LookupAudit
  <2>2. CASE CallFailed(t) /\ UNCHANGED auditLog
    <3> HIDE DEF Same, Others, Grows
    <3> QED
      BY <1>7, <1>9, <1>10, <1>12, <1>16, <2>1, <2>2
  <2>3. CASE /\ journal[c].rid = call.rid /\ journal[c].audit = 0 /\ UNCHANGED auditLog
             /\ enq' = [enq EXCEPT ![t].step = "enqueue"] /\ UNCHANGED todo
    <3>1. NeedsAudit(c, call.st) => Logged(c, call.rid, call.st)
      <4> SUFFICES ASSUME NeedsAudit(c, call.st) PROVE Logged(c, call.rid, call.st)
        OBVIOUS
      <4>1. call.rid # 0 /\ call.st = journal[c].state
        BY <1>3, <2>3 DEF Agrees
      <4>2. journal[c].state \in ReceiptStates
        BY <1>1, <2>3, <4>1, CarriesReceipt
      <4> QED
        BY <1>1, <2>3, <4>1, <4>2 DEF AuditInv
    <3>2. Grows
      BY <1>10, <2>3
    <3>3. Others
      BY <1>1, <1>17, <2>3, <3>1, <3>2 DEF Logged
    <3> HIDE DEF Same, Others, Grows
    <3> QED
      BY <1>7, <1>9, <1>16, <2>1, <2>3, <3>2, <3>3
  <2>4. CASE /\ auditLog' = [auditLog EXCEPT ![c] = @ \cup {sent}]
             /\ enq' = [enq EXCEPT ![t].step = "markAudit"] /\ UNCHANGED todo
    <3>1. Grows /\ sent \in auditLog'[c]
      BY <1>11, <2>4
    <3>2. Others
      BY <1>17, <2>4, <3>1
    <3> HIDE DEF Same, Others, Grows
    <3> QED
      BY <1>7, <1>9, <1>16, <2>1, <2>4, <3>1, <3>2
  <2> QED
    BY <1>18, <2>2, <2>3, <2>4 DEF LookupAudit, loopVars
<1>19. CASE MarkAuditQueued(t)
  <2>1. call.step = "markAudit" /\ UNCHANGED <<auditLog, receiptLog>>
    BY <1>19 DEF MarkAuditQueued, outboxVars
  <2>2. Grows /\ sent \in auditLog'[c] /\ AuditPrecedesReceipt'
    BY <1>1, <1>4, <1>7, <1>10, <2>1 DEF Logged
  <2>3. CASE CallFailed(t) /\ UNCHANGED journal
    <3> HIDE DEF Same, Others, Grows
    <3> QED
      BY <1>9, <1>12, <1>16, <2>2, <2>3
  <2>4. CASE /\ journal' = [journal EXCEPT ![c] = AuditAcknowledged(journal[c])]
             /\ journal[c].audit = 0 \/ journal[c].rid = call.rid
             /\ enq' = [enq EXCEPT ![t].step = "enqueue"] /\ UNCHANGED todo
    <3>1. Others
      BY <1>17, <2>2, <2>4
    <3> HIDE DEF Same, Others, Grows
    <3> QED
      BY <1>14, <1>16, <2>1, <2>2, <2>4, <3>1
  <2> QED
    BY <1>19, <2>3, <2>4 DEF MarkAuditQueued, loopVars
<1>20. CASE EnqueueReceipt(t)
  <2>1. /\ call.step = "enqueue" /\ UNCHANGED <<journal, auditLog, todo>>
        /\ receiptLog' = [receiptLog EXCEPT ![c] = Queued(c, sent)]
        /\ enq' = [enq EXCEPT ![t].step = "markReceipt"]
    BY <1>20 DEF EnqueueReceipt, loopVars
  <2>2. Others
    <3>1. /\ enq'[t] = [call EXCEPT !.step = "markReceipt"]
          /\ \A u \in Threads : u # t => enq'[u] = enq[u]
      BY <1>1, <2>1
    <3>2. /\ enq'[t].step = "markReceipt" /\ enq'[t].cmd = c /\ enq'[t].rid = call.rid
          /\ enq'[t].st = call.st
      BY <1>1, <3>1 DEF Calls
    <3> QED
      BY <3>1, <3>2 DEF Advanced
  <2> HIDE DEF Same, Others, Grows
  <2> QED
    BY <1>9, <1>10, <1>13, <1>16, <2>1, <2>2
<1>21. CASE MarkReceiptQueued(t)
  <2>1. /\ (CallDone(t) \/ CallFailed(t)) /\ UNCHANGED outboxVars
        /\ UNCHANGED <<auditLog, receiptLog>>
        /\ UNCHANGED journal \/ journal' = [journal EXCEPT ![c] = ReceiptAcknowledged(journal[c])]
    BY <1>21 DEF MarkReceiptQueued, outboxVars
  <2> HIDE DEF Same, Others, Grows
  <2> QED
    BY <1>7, <1>9, <1>10, <1>12, <1>15, <1>16, <2>1
<1>22. CASE SendDenied(t)
  <2>1. /\ call.step = "deny" /\ CallDone(t) /\ UNCHANGED <<journal, auditLog>>
        /\ receiptLog' = [receiptLog EXCEPT ![c] = Queued(c, sent)]
    BY <1>22 DEF SendDenied
  <2> HIDE DEF Same, Others, Grows
  <2> QED
    BY <1>9, <1>10, <1>12, <1>13, <1>16, <2>1
<1>23. CASE EnqueueFault(t)
  <2>1. CallFailed(t)
    BY <1>23 DEF EnqueueFault
  <2>2. \/ UNCHANGED <<journal, auditLog, receiptLog>>
        \/ auditLog' = [auditLog EXCEPT ![c] = @ \cup {sent}] /\ UNCHANGED <<journal, receiptLog>>
        \/ /\ call.step = "markAudit" /\ journal[c].rid = call.rid
           /\ journal' = [journal EXCEPT ![c] = AuditAcknowledged(journal[c])]
           /\ UNCHANGED <<auditLog, receiptLog>>
        \/ /\ call.step \in {"enqueue", "deny"}
           /\ receiptLog' = [receiptLog EXCEPT ![c] = Queued(c, sent)]
           /\ UNCHANGED <<journal, auditLog>>
        \/ /\ journal' = [journal EXCEPT ![c] = ReceiptAcknowledged(journal[c])]
           /\ UNCHANGED <<auditLog, receiptLog>>
    BY <1>23 DEF EnqueueFault, outboxVars
  <2> HIDE DEF Same, Others, Grows
  <2> QED
    BY <1>7, <1>9, <1>10, <1>11, <1>12, <1>13, <1>14, <1>15, <1>16, <2>1, <2>2
<1> QED
  BY <1>18, <1>19, <1>20, <1>21, <1>22, <1>23 DEF EnqueueStep

-----------------------------------------------------------------------------
\* A step that touches neither a record nor a queue, and starts no call.
LEMMA QuietAnswer ==
  ASSUME TypeInv, NumberInv, AuditInv, UNCHANGED <<journal, minted, receiptLog, auditLog>>,
         \A t \in Threads : enq'[t] = enq[t] \/ enq'[t].step = "idle", todo' \subseteq todo
  PROVE  NumberInv' /\ AuditInv'
BY WritingStep

\* The calls after one is begun.
LEMMA CallBegun ==
  ASSUME TypeInv, NEW t \in Threads, NEW c \in Commands, NEW id, NEW st,
         enq' = [enq EXCEPT ![t] = Call(c, id, st)]
  PROVE  /\ enq'[t].step = "lookup" /\ enq'[t].cmd = c /\ enq'[t].rid = id /\ enq'[t].st = st
         /\ \A u \in Threads : u # t => enq'[u] = enq[u]
BY DEF TypeInv, TypeOK, CallType, Call

\* The record and the number of one command are written, and a call for its
\* new receipt may begin.
LEMMA OneWritten ==
  ASSUME TypeInv, NumberInv, AuditInv, NEW c \in Commands, NEW r \in Records,
         r.rid = Fresh(c), NeedsAudit(c, r.state) => r.audit = Fresh(c),
         journal' = [journal EXCEPT ![c] = r], minted' = [minted EXCEPT ![c] = Fresh(c)],
         UNCHANGED <<receiptLog, auditLog>>, todo' \subseteq todo,
         UNCHANGED enq \/ \E t \in Threads : enq' = [enq EXCEPT ![t] = Call(c, Fresh(c), r.state)]
  PROVE  NumberInv' /\ AuditInv'
<1>1. journal \in [Commands -> Records] /\ minted \in [Commands -> Nat]
  BY DEF TypeInv, TypeOK, JournalType
<1>2. journal'[c] = r /\ minted'[c] = Fresh(c) /\ Fresh(c) \in 1..Fresh(c)
  BY <1>1 DEF Fresh
<1>3. \A d \in Commands : d # c => journal'[d] = journal[d] /\ minted'[d] = minted[d]
  BY <1>1
<1>4. Writes(c)
  BY <1>2 DEF Writes
<1>5. ASSUME NEW t \in Threads PROVE enq'[t] = enq[t] \/ Begins(t)
  <2>1. CASE enq' = [enq EXCEPT ![t] = Call(c, Fresh(c), r.state)]
    <3>1. /\ enq'[t].step = "lookup" /\ enq'[t].cmd = c
          /\ enq'[t].rid = Fresh(c) /\ enq'[t].st = r.state
      BY <2>1 DEF TypeInv, TypeOK, CallType, Call
    <3>2. enq'[t].rid \in 1..minted'[enq'[t].cmd] /\ enq'[t].st = journal'[enq'[t].cmd].state
      BY <1>2, <3>1
    <3>3. Agrees(enq[t])'
      BY <3>2 DEF Agrees
    <3> QED
      BY <3>1, <3>3 DEF Begins
  <2>2. ASSUME NEW u \in Threads, u # t, enq' = [enq EXCEPT ![u] = Call(c, Fresh(c), r.state)]
        PROVE  enq'[t] = enq[t]
    BY <2>2, CallBegun
  <2> QED
    BY <2>1, <2>2
<1> HIDE DEF Writes, Begins
<1>6. /\ \A d \in Commands : minted'[d] = minted[d] \/ minted'[d] = Fresh(d)
      /\ \A d \in Commands : journal'[d] = journal[d] \/ Writes(d)
  BY <1>2, <1>3, <1>4
<1> QED
  BY <1>5, <1>6, WritingStep

\* The claim, start, outcome and observation of a command.
LEMMA WriterAnswer ==
  ASSUME TypeInv, NumberInv, AuditInv,
         \/ BeginRunning \/ BeginFault \/ ClaimAgain \/ ResolveTask \/ ResolveFault
         \/ \E c \in Commands : Complete(c) \/ CompleteFault(c)
  PROVE  NumberInv' /\ AuditInv'
<1>1. \A c \in Commands : journal[c] \in Records /\ Fresh(c) \in Nat
  BY JournalRecords, FreshType
<1>2. ASSUME NEW c \in Commands, NEW st \in ReceiptStates, NEW hasTask \in BOOLEAN
      PROVE  LET r == WithReceipt(c, Fresh(c), st, hasTask)
             IN r \in Records /\ r.rid = Fresh(c) /\ r.state = st
                /\ (NeedsAudit(c, r.state) => r.audit = Fresh(c))
  <2>1. WithReceipt(c, Fresh(c), st, hasTask) \in Records
    BY <1>1 DEF WithReceipt, Records, ReceiptStates
  <2> QED
    BY <2>1, WrittenFields DEF NeedsAudit
<1>3. ASSUME NEW c \in Commands
      PROVE  LET r == Running(journal[c], Fresh(c))
             IN r \in Records /\ r.rid = Fresh(c) /\ r.state = "running" /\ ~NeedsAudit(c, r.state)
  <2>1. Running(journal[c], Fresh(c)) \in Records
    BY <1>1 DEF Running, Records, RecordStates
  <2> QED
    BY <1>1, <2>1, MarkedFields DEF NeedsAudit
<1>4. CASE BeginRunning \/ BeginFault
  <2>1. Offered \in Commands
    BY <1>4, OfferedType DEF BeginRunning, BeginFault, TypeInv, AdmissionShape, AdmissionPcs
  <2>2. UNCHANGED <<receiptLog, auditLog>> /\ todo' \subseteq todo
    BY <1>4 DEF BeginRunning, BeginFault, PollReturned, outboxVars
  <2>3. CASE BeginRunning
    BY <1>3, <2>1, <2>2, <2>3, OneWritten, ThreadTypes DEF BeginRunning
  <2>4. CASE BeginFault
    <3>1. UNCHANGED enq
      BY <2>4 DEF BeginFault
    <3>2. \/ UNCHANGED <<journal, minted>>
          \/ /\ journal' = [journal EXCEPT ![Offered] = Running(journal[Offered], Fresh(Offered))]
             /\ minted' = [minted EXCEPT ![Offered] = Fresh(Offered)]
      BY <2>4 DEF BeginFault
    <3> QED
      BY <1>3, <2>1, <2>2, <3>1, <3>2, OneWritten, QuietAnswer
  <2> QED
    BY <1>4, <2>3, <2>4
<1>5. CASE ClaimAgain
  <2>1. Offered \in Commands
    BY <1>5, OfferedType DEF ClaimAgain, Admissible
  <2>2. UNCHANGED <<receiptLog, auditLog, todo>>
    BY <1>5 DEF ClaimAgain, outboxVars
  <2>3. CASE UNCHANGED <<journal, minted, enq>>
    BY <2>2, <2>3, QuietAnswer
  <2>4. CASE /\ journal' = [journal EXCEPT ![Offered] =
                              WithReceipt(Offered, Fresh(Offered), "indeterminate", FALSE)]
             /\ minted' = [minted EXCEPT ![Offered] = Fresh(Offered)]
             /\ enq' = [enq EXCEPT ![LoopThread] = Call(Offered, Fresh(Offered), "indeterminate")]
    <3>1. "indeterminate" \in ReceiptStates
      BY DEF ReceiptStates, RecordStates
    <3> QED
      BY <1>2, <2>1, <2>2, <2>4, <3>1, OneWritten, ThreadTypes
  <2> QED
    BY <1>5, <2>3, <2>4 DEF ClaimAgain
<1>6. CASE ResolveTask \/ ResolveFault
  <2>1. \A item \in todo : item.cmd \in Commands
    BY DEF TypeInv, TypeOK, LoopType, Items
  <2>2. UNCHANGED <<receiptLog, auditLog>> /\ todo' \subseteq todo
    BY <1>6 DEF ResolveTask, ResolveFault, ReconcileFailed, outboxVars
  <2>3. CASE ResolveTask
    <3>1. PICK item \in todo, st \in ReceiptStates :
            /\ minted' = [minted EXCEPT ![item.cmd] = Fresh(item.cmd)]
            /\ journal' = [journal EXCEPT ![item.cmd] =
                             WithReceipt(item.cmd, Fresh(item.cmd), st, TRUE)]
            /\ enq' = [enq EXCEPT ![LoopThread] = Call(item.cmd, Fresh(item.cmd), st)]
      BY <2>3 DEF ResolveTask
    <3> QED
      BY <1>2, <2>1, <2>2, <3>1, OneWritten, ThreadTypes
  <2>4. CASE ResolveFault
    <3>1. UNCHANGED enq
      BY <2>4 DEF ResolveFault
    <3>2. PICK item \in todo, st \in ReceiptStates :
            \/ UNCHANGED <<journal, minted>>
            \/ /\ minted' = [minted EXCEPT ![item.cmd] = Fresh(item.cmd)]
               /\ journal' = [journal EXCEPT ![item.cmd] =
                                WithReceipt(item.cmd, Fresh(item.cmd), st, TRUE)]
      BY <2>4 DEF ResolveFault
    <3> QED
      BY <1>2, <2>1, <2>2, <3>1, <3>2, OneWritten, QuietAnswer
  <2> QED
    BY <1>6, <2>3, <2>4
<1>7. ASSUME NEW c \in Commands, Complete(c) \/ CompleteFault(c)
      PROVE  NumberInv' /\ AuditInv'
  <2>1. worker[c].st \in ReceiptStates /\ (worker[c].st = "submitted") \in BOOLEAN
    BY DEF TypeInv, TypeOK, DispatchType, Workers
  <2>2. UNCHANGED <<receiptLog, auditLog, todo>>
    BY <1>7 DEF Complete, CompleteFault, outboxVars, loopVars
  <2>3. CASE Complete(c)
    BY <1>2, <2>1, <2>2, <2>3, OneWritten, ThreadTypes DEF Complete
  <2>4. CASE CompleteFault(c)
    <3>1. /\ UNCHANGED enq
          /\ \/ UNCHANGED <<journal, minted>>
             \/ /\ minted' = [minted EXCEPT ![c] = Fresh(c)]
                /\ journal' = [journal EXCEPT ![c] = WithReceipt(c, Fresh(c), worker[c].st,
                                                                 worker[c].st = "submitted")]
      BY <2>4 DEF CompleteFault
    <3> QED
      BY <1>2, <2>1, <2>2, <3>1, OneWritten, QuietAnswer
  <2> QED
    BY <1>7, <2>3, <2>4
<1> QED
  BY <1>4, <1>5, <1>6, <1>7

\* A replay: the loop begins a call for a receipt that was drawn.
LEMMA ReplayAnswer ==
  ASSUME TypeInv, NumberInv, AuditInv, FlushOne \/ ClaimDuplicate
  PROVE  NumberInv' /\ AuditInv'
<1>1. UNCHANGED <<journal, minted, receiptLog, auditLog>> /\ todo' \subseteq todo
  BY DEF FlushOne, ClaimDuplicate, outboxVars
<1>2. PICK x \in Items : /\ enq' = [enq EXCEPT ![LoopThread] = Call(x.cmd, x.rid, x.st)]
                         /\ Agrees(x)
  <2>1. CASE FlushOne
    BY <2>1 DEF FlushOne, NumberInv, TypeInv, TypeOK, LoopType
  <2>2. CASE ClaimDuplicate
    <3> DEFINE c == Offered
               x == [cmd |-> c, rid |-> journal[c].rid, st |-> journal[c].state]
    <3>1. c \in Commands /\ journal[c].rid # 0
      BY <2>2, OfferedType DEF ClaimDuplicate, Admissible
    <3>2. journal[c].rid \in 1..minted[c] /\ journal[c].state \in ReceiptStates
      BY <3>1, CarriesReceipt DEF NumberInv
    <3>3. x \in Items /\ Agrees(x)
      BY <3>1, <3>2 DEF Items, Agrees
    <3>4. enq' = [enq EXCEPT ![LoopThread] = Call(x.cmd, x.rid, x.st)]
      BY <2>2 DEF ClaimDuplicate
    <3> QED
      BY <3>3, <3>4
  <2> QED
    BY <2>1, <2>2
<1>3. ASSUME NEW t \in Threads PROVE enq'[t] = enq[t] \/ Begins(t)
  <2>1. t # LoopThread => enq'[t] = enq[t]
    BY <1>2 DEF TypeInv, TypeOK, CallType
  <2>2. t = LoopThread =>
          enq'[t].step = "lookup" /\ enq'[t].cmd = x.cmd /\ enq'[t].rid = x.rid /\ enq'[t].st = x.st
    BY <1>2 DEF TypeInv, TypeOK, CallType, Call
  <2>3. t = LoopThread => Agrees(enq[t])'
    BY <1>1, <1>2, <2>2 DEF Agrees
  <2> QED
    BY <2>1, <2>2, <2>3 DEF Begins
<1> HIDE DEF Begins
<1> QED
  BY <1>1, <1>3, WritingStep

\* The lists of a reconcile pass are the journal's.
LEMMA ListedAnswer ==
  ASSUME TypeInv, NumberInv, AuditInv, PendingReceipts \/ SubmittedWaiting
  PROVE  NumberInv' /\ AuditInv'
<1>1. UNCHANGED <<journal, minted, receiptLog, auditLog, enq>>
  BY DEF PendingReceipts, SubmittedWaiting, outboxVars
<1>2. \/ todo' = {}
      \/ todo' = {[cmd |-> c, rid |-> journal[c].rid, st |-> journal[c].state] :
                    c \in {d \in Commands : journal[d].pending}}
      \/ todo' = {[cmd |-> c, rid |-> journal[c].rid, st |-> journal[c].state] :
                    c \in {d \in Commands : /\ journal[d].state \in {"submitted", "waiting"}
                                            /\ journal[d].task}}
  BY DEF PendingReceipts, SubmittedWaiting, ReconcileOk
<1>3. ASSUME NEW item \in todo' PROVE Agrees(item)'
  <2>1. PICK c \in Commands :
          /\ item = [cmd |-> c, rid |-> journal[c].rid, st |-> journal[c].state]
          /\ journal[c].pending \/ journal[c].state \in {"submitted", "waiting"}
    BY <1>2
  <2>2. journal[c].rid \in 1..minted[c]
    BY <2>1, CarriesReceipt DEF NumberInv, ReceiptStates, RecordStates
  <2> QED
    BY <1>1, <2>1, <2>2 DEF Agrees
<1> QED
  BY <1>1, <1>3, WritingStep

\* Recovery draws a receipt for every record it settles.
LEMMA RecoverAnswer ==
  ASSUME TypeInv, NumberInv, AuditInv, RecoverIncomplete \/ RecoverFault
  PROVE  NumberInv' /\ AuditInv'
<1>1. UNCHANGED <<receiptLog, auditLog, enq>>
  BY DEF RecoverIncomplete, RecoverFault, outboxVars
<1>2. PICK S \in SUBSET Commands :
        /\ RecoverRecords(S)
        /\ \/ todo' = {}
           \/ todo' = {[cmd |-> c, rid |-> Fresh(c), st |-> RecoveredState(c)] : c \in S}
  BY DEF RecoverIncomplete, RecoverFault, ReconcileFailed, InterruptedCommands
<1>3. ASSUME NEW c \in S
      PROVE  /\ Writes(c) /\ journal'[c].rid = Fresh(c) /\ journal'[c].state = RecoveredState(c)
             /\ minted'[c] = Fresh(c) /\ Fresh(c) \in 1..Fresh(c)
  <2>1. journal'[c] = WithReceipt(c, Fresh(c), RecoveredState(c), FALSE) /\ minted'[c] = Fresh(c)
    BY <1>2 DEF RecoverRecords
  <2>2. /\ journal'[c].rid = Fresh(c) /\ journal'[c].state = RecoveredState(c)
        /\ Audited(c, RecoveredState(c)) => journal'[c].audit = Fresh(c)
    BY <2>1 DEF WithReceipt
  <2>3. Fresh(c) \in 1..Fresh(c)
    BY CarriesReceipt
  <2> QED
    BY <2>1, <2>2, <2>3 DEF Writes, NeedsAudit
<1>4. \A c \in Commands : c \notin S => journal'[c] = journal[c] /\ minted'[c] = minted[c]
  BY <1>2 DEF RecoverRecords
<1>5. ASSUME NEW item \in todo' PROVE Agrees(item)'
  <2>1. PICK c \in S : item = [cmd |-> c, rid |-> Fresh(c), st |-> RecoveredState(c)]
    BY <1>2
  <2> QED
    BY <1>3, <2>1 DEF Agrees
<1> HIDE DEF Writes
<1>6. \A c \in Commands : /\ minted'[c] = minted[c] \/ minted'[c] = Fresh(c)
                          /\ journal'[c] = journal[c] \/ Writes(c)
  BY <1>3, <1>4
<1> QED
  BY <1>1, <1>5, <1>6, WritingStep

\* A refusal is known to monitoring before it is sent.
LEMMA RejectAnswer ==
  ASSUME TypeInv, NumberInv, AuditInv, PollRefused \/ ClaimNew \/ ClaimFault
  PROVE  NumberInv' /\ AuditInv'
<1>1. Offered \in Commands /\ UNCHANGED <<receiptLog, todo>>
  BY OfferedType DEF PollRefused, ClaimNew, ClaimFault, Admissible, Reject, outboxVars
<1>2. \A d \in Commands : journal'[d] = journal[d] \/ (journal'[d].rid = 0 /\ journal'[d].state = "received")
  <2>1. \/ UNCHANGED journal
        \/ /\ journal' = [journal EXCEPT ![Offered] = Claimed(journal[Offered])]
           /\ journal[Offered].state = "absent"
    BY DEF PollRefused, ClaimNew, ClaimFault
  <2>2. journal \in [Commands -> Records]
    BY JournalRecords
  <2>3. journal[Offered].state = "absent" =>
          Claimed(journal[Offered]).rid = 0 /\ Claimed(journal[Offered]).state = "received"
    BY <1>1, MarkedFields, CarriesReceipt DEF ReceiptStates
  <2> QED
    BY <1>1, <2>1, <2>2, <2>3
<1>3. CASE UNCHANGED <<minted, auditLog, enq>>
  BY <1>1, <1>2, <1>3, WritingStep
<1>4. ASSUME NEW authenticated \in BOOLEAN, Reject(Offered, authenticated)
      PROVE  NumberInv' /\ AuditInv'
  <2> DEFINE c == Offered
             st == IF authenticated THEN "rejected" ELSE "unauthenticated"
             sent == [rid |-> Fresh(c), st |-> st]
  <2>1. /\ minted \in [Commands -> Nat] /\ auditLog \in [Commands -> SUBSET Receipts]
        /\ enq \in [Threads -> Calls]
    BY DEF TypeInv, TypeOK, JournalType, OutboxType, CallType
  <2>2. minted'[c] = Fresh(c) /\ \A d \in Commands : d # c => minted'[d] = minted[d]
    BY <1>1, <1>4, <2>1 DEF Reject
  <2>3. /\ \A d \in Commands : auditLog[d] \subseteq auditLog'[d]
        /\ authenticated /\ Mutating(c) => sent \in auditLog'[c]
    BY <1>1, <1>4, <2>1 DEF Reject
  <2>4. /\ enq'[LoopThread].step = "deny" /\ enq'[LoopThread].cmd = c
        /\ enq'[LoopThread].rid = Fresh(c) /\ enq'[LoopThread].st = st
        /\ \A t \in Threads : t # LoopThread => enq'[t] = enq[t]
    BY <1>4, <2>1, ThreadTypes DEF Reject, Call
  <2>5. Begins(LoopThread)
    <3>1. Fresh(c) \in 1..Fresh(c) /\ journal[c].rid < Fresh(c) /\ Fresh(c) # 0
      BY <1>1, CarriesReceipt DEF NumberInv
    <3>2. Fresh(c) # journal'[c].rid
      BY <1>1, <1>2, <3>1
    <3>3. Agrees(enq[LoopThread])'
      BY <2>2, <2>4, <3>1, <3>2 DEF Agrees
    <3>4. NeedsAudit(c, st) => sent \in auditLog'[c]
      BY <2>3 DEF NeedsAudit, Audited
    <3> HIDE DEF c, st
    <3>5. NeedsAudit(enq'[LoopThread].cmd, enq'[LoopThread].st) =>
            Logged(enq[LoopThread].cmd, enq[LoopThread].rid, enq[LoopThread].st)'
      BY <2>4, <3>4 DEF Logged
    <3> QED
      BY <2>4, <3>3, <3>5 DEF Begins
  <2> HIDE DEF Begins, c
  <2>6. \A t \in Threads : enq'[t] = enq[t] \/ Begins(t)
    BY <2>4, <2>5
  <2>7. \A d \in Commands : minted'[d] = minted[d] \/ minted'[d] = Fresh(d)
    BY <2>2
  <2> QED
    BY <1>1, <1>2, <2>3, <2>6, <2>7, WritingStep
<1> QED
  BY <1>3, <1>4 DEF PollRefused, ClaimNew, ClaimFault, outboxVars

\* The steps that touch neither records nor queues.
LEMMA OtherAnswer ==
  ASSUME TypeInv, NumberInv, AuditInv,
         \/ ReconcileDone \/ ReconcileFault \/ PollNothing \/ PollLaneFull \/ PollFault
         \/ Submit \/ SaveCursor \/ Crash \/ UNCHANGED vars
         \/ \E l \in Lanes : StartWork(l)
         \/ \E c \in Commands : Execute(c) \/ TaskEnds(c)
  PROVE  NumberInv' /\ AuditInv'
<1>1. CASE ReconcileDone \/ ReconcileFault
  BY <1>1, QuietAnswer DEF ReconcileDone, ReconcileFault, ReconcileOk, ReconcileFailed,
     outboxVars
<1>2. CASE PollNothing \/ PollLaneFull \/ PollFault
  BY <1>2, QuietAnswer DEF PollNothing, PollLaneFull, PollFault, PollReturned, outboxVars
<1>3. CASE Submit \/ SaveCursor
  BY <1>3, QuietAnswer DEF Submit, SaveCursor, PollReturned, outboxVars
<1>4. CASE Crash
  BY <1>4, QuietAnswer DEF Crash, IdleCall, outboxVars
<1>5. CASE UNCHANGED vars
  BY <1>5, QuietAnswer DEF vars, outboxVars, loopVars
<1>6. ASSUME NEW l \in Lanes, StartWork(l) PROVE NumberInv' /\ AuditInv'
  BY <1>6, QuietAnswer DEF StartWork, outboxVars, loopVars
<1>7. ASSUME NEW c \in Commands, Execute(c) \/ TaskEnds(c) PROVE NumberInv' /\ AuditInv'
  BY <1>7, QuietAnswer DEF Execute, TaskEnds, outboxVars, loopVars
<1> QED
  BY <1>1, <1>2, <1>3, <1>4, <1>5, <1>6, <1>7

\* Every step keeps the answers audited.
LEMMA NextAnswer == TypeInv /\ NumberInv /\ AuditInv /\ [Next]_vars => NumberInv' /\ AuditInv'
<1> SUFFICES ASSUME TypeInv, NumberInv, AuditInv, [Next]_vars PROVE NumberInv' /\ AuditInv'
  OBVIOUS
<1>1. CASE ReconcileStep
  BY <1>1, RecoverAnswer, ReplayAnswer, ListedAnswer, WriterAnswer, OtherAnswer DEF
     ReconcileStep
<1>2. CASE PollStep
  BY <1>2, RejectAnswer, ReplayAnswer, WriterAnswer, OtherAnswer DEF PollStep, Delivery
<1>3. ASSUME NEW t \in Threads, EnqueueStep(t) \/ EnqueueFault(t)
      PROVE  NumberInv' /\ AuditInv'
  BY <1>3, EnqueueAnswer
<1>4. ASSUME NEW l \in Lanes, StartWork(l)
      PROVE  NumberInv' /\ AuditInv'
  BY <1>4, OtherAnswer
<1>5. ASSUME NEW c \in Commands, Execute(c) \/ Complete(c) \/ CompleteFault(c) \/ TaskEnds(c)
      PROVE  NumberInv' /\ AuditInv'
  BY <1>5, WriterAnswer, OtherAnswer
<1>6. CASE RecoverFault \/ ResolveFault \/ ReconcileFault \/ PollFault \/ ClaimFault \/ BeginFault \/ Crash
  BY <1>6, RecoverAnswer, WriterAnswer, RejectAnswer, OtherAnswer
<1>7. CASE UNCHANGED vars
  BY <1>7, OtherAnswer
<1> QED
  BY <1>1, <1>2, <1>3, <1>4, <1>5, <1>6, <1>7, ThreadTypes DEF Next, LoopStep, WorkerStep

\* Whatever the website learns of a mutation, monitoring learned first, in
\* whatever order the loop, the workers and crash recovery replay receipts.
THEOREM AuditedFirst == Spec => []AuditPrecedesReceipt
<1>1. Init => NumberInv /\ AuditInv
  BY DEF Init, NumberInv, AuditInv, AuditPrecedesReceipt, Agrees, NeedsAudit, NoRecord,
     IdleCall,
         ReceiptStates
<1>2. AuditInv => AuditPrecedesReceipt
  BY DEF AuditInv
<1> QED
  BY <1>1, <1>2, NextAnswer, Invariant, PTL DEF Spec

-----------------------------------------------------------------------------
Past == {"submit", "saveCursor"}

\* Queues only grow, the cursors move to each other or past the command in
\* hand, and the loop leaves its call with a receipt queued.
LEMMA CursorStep ==
  ASSUME TypeInv, CursorInv,
         \A c \in Commands : receiptLog[c] # <<>> => receiptLog'[c] # <<>>,
         cursor' \in {cursor, cursorFile} \/ (pc = "saveCursor" /\ cursor' = Offered),
         cursorFile' \in {cursor, cursorFile} \/ (pc = "saveCursor" /\ cursorFile' = Offered),
         pc' \in Calling => enq'[LoopThread].step # "idle" /\ enq'[LoopThread].cmd = Offered',
         \/ enq'[LoopThread] = enq[LoopThread] \/ enq'[LoopThread].step # "markReceipt"
         \/ receiptLog'[enq'[LoopThread].cmd] # <<>>,
         pc' \in Past => UNCHANGED cursor /\ (pc \in Past \/ receiptLog'[Offered] # <<>>)
  PROVE  CursorInv'
<1>1. enq[LoopThread].cmd \in Commands /\ cursor \in Int /\ cursorFile \in Int
  BY ThreadTypes DEF TypeInv, TypeOK, CallType, Calls, JournalType
<1>2. pc \in Past => Offered \in Commands
  BY OfferedType DEF TypeInv, AdmissionShape, AdmissionPcs, Past
<1>3. enq'[LoopThread].step = "markReceipt" => receiptLog'[enq'[LoopThread].cmd] # <<>>
  BY <1>1 DEF CursorInv
<1>4. pc' \in Past => receiptLog'[Offered'] # <<>>
  BY <1>2 DEF CursorInv, Past, Offered
<1>5. CursorBehindReceipts'
  <2> SUFFICES ASSUME NEW c \in Commands, c <= cursor' \/ c <= cursorFile'
               PROVE  receiptLog'[c] # <<>>
    BY DEF CursorBehindReceipts
  <2>1. c <= cursor \/ c <= cursorFile \/ (pc = "saveCursor" /\ c = Offered)
    BY <1>1 DEF Offered, Commands
  <2> QED
    BY <1>2, <2>1 DEF CursorInv, CursorBehindReceipts, Past
<1> QED
  BY <1>3, <1>4, <1>5 DEF CursorInv, Past

\* A step of the workers or the environment.
LEMMA CursorApart ==
  ASSUME TypeInv, CursorInv, UNCHANGED <<cursor, cursorFile, pc>>,
         enq'[LoopThread] = enq[LoopThread],
         \A c \in Commands : receiptLog[c] # <<>> => receiptLog'[c] # <<>>
  PROVE  CursorInv'
BY CursorStep DEF CursorInv, Offered

\* The receipts after one is queued.
LEMMA QueuedGrows ==
  ASSUME TypeInv, NEW c \in Commands, NEW r \in Receipts,
         receiptLog' = [receiptLog EXCEPT ![c] = Queued(c, r)]
  PROVE  /\ receiptLog'[c] # <<>>
         /\ \A d \in Commands : receiptLog[d] # <<>> => receiptLog'[d] # <<>>
<1>1. receiptLog \in [Commands -> Seq(Receipts)] /\ receiptLog[c] \in Seq(Receipts)
  BY DEF TypeInv, TypeOK, OutboxType
<1>2. Append(receiptLog[c], r) # <<>>
  BY <1>1
<1>3. (\E i \in 1..Len(receiptLog[c]) : receiptLog[c][i] = r) => receiptLog[c] # <<>>
  BY <1>1
<1>4. receiptLog'[c] = Queued(c, r) /\ \A d \in Commands : d # c => receiptLog'[d] = receiptLog[d]
  BY <1>1
<1> QED
  BY <1>2, <1>3, <1>4 DEF Queued

\* The steps of enqueueing leave the cursor behind the receipts.
LEMMA EnqueueCursor ==
  ASSUME TypeInv, CursorInv, NEW t \in Threads, EnqueueStep(t) \/ EnqueueFault(t)
  PROVE  CursorInv'
<1> DEFINE call == enq[t]
           c == call.cmd
           sent == [rid |-> call.rid, st |-> call.st]
           Grows == \A d \in Commands : receiptLog[d] # <<>> => receiptLog'[d] # <<>>
<1>1. c \in Commands /\ sent \in Receipts /\ enq \in [Threads -> Calls] /\ LoopThread \in Threads
  BY ThreadTypes DEF TypeInv, TypeOK, CallType, Calls, Receipts
<1>2. UNCHANGED <<cursor, cursorFile>> /\ call.step # "idle"
  BY DEF EnqueueStep, LookupAudit, MarkAuditQueued, EnqueueReceipt, MarkReceiptQueued,
     SendDenied,
         EnqueueFault, cursorVars
<1>3. UNCHANGED receiptLog \/ receiptLog' = [receiptLog EXCEPT ![c] = Queued(c, sent)]
  BY DEF EnqueueStep, LookupAudit, MarkAuditQueued, EnqueueReceipt, MarkReceiptQueued,
     SendDenied,
         EnqueueFault, outboxVars
<1>4. Grows
  BY <1>1, <1>3, QueuedGrows
<1>5. \/ CallFailed(t)
      \/ /\ CallDone(t)
         /\ \/ call.step = "markReceipt"
            \/ receiptLog' = [receiptLog EXCEPT ![c] = Queued(c, sent)]
      \/ /\ \E s \in {"markAudit", "enqueue", "markReceipt"} :
              /\ enq' = [enq EXCEPT ![t].step = s]
              /\ s = "markReceipt" => receiptLog' = [receiptLog EXCEPT ![c] = Queued(c, sent)]
         /\ UNCHANGED pc
  <2>1. CASE LookupAudit(t)
    BY <2>1 DEF LookupAudit, loopVars
  <2>2. CASE MarkAuditQueued(t)
    BY <2>2 DEF MarkAuditQueued, loopVars
  <2>3. CASE EnqueueReceipt(t)
    BY <2>3 DEF EnqueueReceipt, loopVars
  <2>4. CASE MarkReceiptQueued(t)
    BY <2>4 DEF MarkReceiptQueued
  <2>5. CASE SendDenied(t)
    BY <2>5 DEF SendDenied
  <2>6. CASE EnqueueFault(t)
    BY <2>6 DEF EnqueueFault
  <2> QED
    BY <2>1, <2>2, <2>3, <2>4, <2>5, <2>6 DEF EnqueueStep
<1>6. CASE t # LoopThread
  <2>1. enq'[LoopThread] = enq[LoopThread] /\ UNCHANGED pc
    BY <1>1, <1>5, <1>6 DEF CallFailed, CallDone, loopVars
  <2> QED
    BY <1>2, <1>4, <2>1, CursorApart
<1>7. CASE t = LoopThread
  <2>1. CASE CallFailed(t)
    <3>1. pc' = "recover" /\ enq'[LoopThread].step = "idle"
      BY <1>1, <1>7, <2>1 DEF CallFailed, PollReturned, ReconcileFailed, IdleCall
    <3> QED
      BY <1>2, <1>4, <3>1, CursorStep DEF Calling, Past
  <2>2. CASE /\ CallDone(t)
             /\ \/ call.step = "markReceipt"
                \/ receiptLog' = [receiptLog EXCEPT ![c] = Queued(c, sent)]
    <3>1. receiptLog'[c] # <<>>
      BY <1>1, <1>4, <1>7, <2>2, QueuedGrows DEF CursorInv
    <3>2. /\ enq'[LoopThread].step = "idle"
          /\ pc' = CASE pc \in {"duplicate", "deny"} -> "saveCursor"
                     [] pc = "started" -> "submit"
                     [] OTHER -> pc
      BY <1>1, <1>7, <2>2 DEF CallDone, IdleCall
    <3>3. CASE pc \in Calling
      <4>1. c = Offered /\ pc' \in Past
        BY <1>7, <3>2, <3>3 DEF CursorInv, Calling, Past
      <4> HIDE DEF c, call
      <4> QED
        BY <1>2, <1>4, <3>1, <3>2, <4>1, CursorStep DEF Calling, Past
    <3>4. CASE pc \notin Calling
      <4>1. pc' = pc
        BY <3>2, <3>4 DEF Calling
      <4> QED
        BY <1>2, <1>4, <3>2, <3>4, <4>1, CursorStep
    <3> QED
      BY <3>3, <3>4
  <2>3. ASSUME NEW s \in {"markAudit", "enqueue", "markReceipt"},
               enq' = [enq EXCEPT ![t].step = s], UNCHANGED pc,
               s = "markReceipt" => receiptLog' = [receiptLog EXCEPT ![c] = Queued(c, sent)]
        PROVE  CursorInv'
    <3>1. enq'[t] = [call EXCEPT !.step = s]
      BY <1>1, <2>3
    <3>2. enq'[t].step = s /\ enq'[t].cmd = c
      BY <1>1, <3>1 DEF Calls
    <3>3. s = "markReceipt" => receiptLog'[c] # <<>>
      BY <1>1, <2>3, QueuedGrows
    <3>4. pc' \in Calling => enq'[t].step # "idle" /\ enq'[t].cmd = Offered'
      BY <1>2, <1>7, <2>3, <3>2 DEF CursorInv, Offered
    <3>5. \/ enq'[LoopThread].step # "markReceipt"
          \/ receiptLog'[enq'[LoopThread].cmd] # <<>>
      BY <1>7, <3>2, <3>3
    <3> QED
      BY <1>2, <1>4, <1>7, <2>3, <3>4, <3>5, CursorStep
  <2> QED
    BY <1>5, <2>1, <2>2, <2>3
<1> QED
  BY <1>6, <1>7

\* A pass, or the poll, goes on or ends without a command in hand.
LEMMA CursorAway ==
  ASSUME TypeInv, CursorInv, UNCHANGED <<cursor, cursorFile, receiptLog>>,
         pc' \notin Calling \cup Past,
         enq'[LoopThread] = enq[LoopThread] \/ enq'[LoopThread].step # "markReceipt"
  PROVE  CursorInv'
BY CursorStep

\* A call begins for the command in hand.
LEMMA CursorCalls ==
  ASSUME TypeInv, CursorInv, UNCHANGED <<cursor, cursorFile, receiptLog>>, pc' \in Calling,
         enq'[LoopThread].step \in {"lookup", "deny"}, enq'[LoopThread].cmd = Offered
  PROVE  CursorInv'
BY CursorStep DEF Calling, Past, Offered

\* Reconciliation leaves the cursor behind the receipts.
LEMMA ReconcileCursor ==
  ASSUME TypeInv, CursorInv,
         ReconcileStep \/ RecoverFault \/ ResolveFault \/ ReconcileFault
  PROVE  CursorInv'
<1>1. UNCHANGED <<cursor, cursorFile, receiptLog>>
  BY DEF ReconcileStep, RecoverIncomplete, FlushOne, PendingReceipts, SubmittedWaiting,
     ResolveTask,
         ReconcileDone, RecoverFault, ResolveFault, ReconcileFault, cursorVars, outboxVars
<1>2. pc' \notin Calling \cup Past
  BY DEF ReconcileStep, RecoverIncomplete, FlushOne, PendingReceipts, SubmittedWaiting,
     ResolveTask,
         ReconcileDone, RecoverFault, ResolveFault, ReconcileFault, ReconcileOk, ReconcileFailed,
         Calling, Past
<1>3. enq'[LoopThread] = enq[LoopThread] \/ enq'[LoopThread].step # "markReceipt"
  <2>1. enq \in [Threads -> Calls] /\ LoopThread \in Threads
    BY ThreadTypes DEF TypeInv, TypeOK, CallType
  <2>2. CASE FlushOne
    BY <2>1, <2>2 DEF FlushOne, Call
  <2>3. CASE ResolveTask
    BY <2>1, <2>3 DEF ResolveTask, Call
  <2>4. CASE UNCHANGED enq
    BY <2>4
  <2> QED
    BY <2>2, <2>3, <2>4 DEF ReconcileStep, RecoverIncomplete, PendingReceipts, SubmittedWaiting,
         ReconcileDone, RecoverFault, ResolveFault, ReconcileFault
<1> QED
  BY <1>1, <1>2, <1>3, CursorAway

\* So does the poll, which moves the cursor last.
LEMMA PollCursor ==
  ASSUME TypeInv, CursorInv, PollStep \/ PollFault \/ ClaimFault \/ BeginFault
  PROVE  CursorInv'
<1>1. enq \in [Threads -> Calls] /\ LoopThread \in Threads
  BY ThreadTypes DEF TypeInv, TypeOK, CallType
<1>2. CASE PollNothing \/ PollLaneFull \/ BeginFault
  <2>1. UNCHANGED <<cursor, cursorFile, receiptLog, enq>> /\ pc' = "recover"
    BY <1>2 DEF PollNothing, PollLaneFull, BeginFault, PollReturned, cursorVars, outboxVars
  <2> QED
    BY <2>1, CursorAway DEF Calling, Past
<1>3. CASE SaveCursor \/ PollFault
  <2>1. UNCHANGED <<receiptLog, enq>> /\ pc' = "recover"
    BY <1>3 DEF SaveCursor, PollFault, PollReturned, outboxVars
  <2>2. /\ cursor' \in {cursor, cursorFile} \/ (pc = "saveCursor" /\ cursor' = Offered)
        /\ cursorFile' \in {cursor, cursorFile} \/ (pc = "saveCursor" /\ cursorFile' = Offered)
    BY <1>3 DEF SaveCursor, PollFault
  <2> QED
    BY <2>1, <2>2, CursorStep DEF Calling, Past
<1>4. ASSUME NEW authenticated \in BOOLEAN, Reject(Offered, authenticated),
             UNCHANGED <<cursor, cursorFile>>
      PROVE  CursorInv'
  <2>1. /\ UNCHANGED receiptLog /\ pc' = "deny" /\ enq'[LoopThread].step = "deny"
        /\ enq'[LoopThread].cmd = Offered
    BY <1>1, <1>4 DEF Reject, Call
  <2> QED
    BY <1>4, <2>1, CursorCalls DEF Calling
<1>5. CASE PollRefused \/ ClaimFault
  BY <1>4, <1>5 DEF PollRefused, ClaimFault, cursorVars
<1>6. CASE ClaimNew
  <2>1. UNCHANGED <<cursor, cursorFile>>
    BY <1>6 DEF ClaimNew, cursorVars
  <2>2. CASE Reject(Offered, TRUE)
    BY <1>4, <2>1, <2>2
  <2>3. CASE pc' = "begin" /\ UNCHANGED <<receiptLog, enq>>
    BY <2>1, <2>3, CursorAway DEF Calling, Past
  <2> QED
    BY <1>6, <2>2, <2>3 DEF ClaimNew, outboxVars
<1>7. CASE ClaimDuplicate \/ ClaimAgain \/ BeginRunning
  <2>1. UNCHANGED <<cursor, cursorFile, receiptLog>>
    BY <1>7 DEF ClaimDuplicate, ClaimAgain, BeginRunning, cursorVars, outboxVars
  <2>2. CASE pc' = "begin" /\ UNCHANGED enq
    BY <2>1, <2>2, CursorAway DEF Calling, Past
  <2>3. CASE /\ pc' \in Calling
             /\ \E id, st : enq' = [enq EXCEPT ![LoopThread] = Call(Offered, id, st)]
    <3>1. enq'[LoopThread].step = "lookup" /\ enq'[LoopThread].cmd = Offered
      BY <1>1, <2>3 DEF Call
    <3> QED
      BY <2>1, <2>3, <3>1, CursorCalls
  <2> QED
    BY <1>7, <2>2, <2>3 DEF ClaimDuplicate, ClaimAgain, BeginRunning, Calling
<1>8. CASE Submit
  <2>1. /\ UNCHANGED <<cursor, cursorFile, receiptLog, enq>> /\ pc = "submit"
        /\ pc' \in {"saveCursor", "recover"}
    BY <1>8 DEF Submit, PollReturned, cursorVars, outboxVars
  <2> QED
    BY <2>1, CursorStep DEF Calling, Past
<1> QED
  BY <1>2, <1>3, <1>5, <1>6, <1>7, <1>8 DEF PollStep, Delivery

\* So do the workers.
LEMMA WorkerCursor ==
  ASSUME TypeInv, CursorInv,
         \/ \E l \in Lanes : StartWork(l)
         \/ \E c \in Commands : Execute(c) \/ Complete(c) \/ CompleteFault(c) \/ TaskEnds(c)
         \/ UNCHANGED vars
  PROVE  CursorInv'
<1>1. UNCHANGED <<cursor, cursorFile, receiptLog, pc>>
  BY DEF StartWork, Execute, Complete, CompleteFault, TaskEnds, vars, cursorVars, outboxVars,
     loopVars
<1>2. CASE UNCHANGED enq
  BY <1>1, <1>2, CursorApart
<1>3. ASSUME NEW c \in Commands, Complete(c) PROVE CursorInv'
  <2>1. enq'[LoopThread] = enq[LoopThread]
    BY <1>3, ThreadTypes DEF Complete, TypeInv, TypeOK, CallType, LoopThread, Commands
  <2> QED
    BY <1>1, <2>1, CursorApart
<1> QED
  BY <1>2, <1>3 DEF StartWork, Execute, CompleteFault, TaskEnds, vars

\* So does a crash.
LEMMA CrashCursor ==
  ASSUME TypeInv, CursorInv, Crash
  PROVE  CursorInv'
<1>1. /\ UNCHANGED <<cursorFile, receiptLog>> /\ cursor' = cursorFile /\ pc' = "recover"
      /\ enq'[LoopThread].step = "idle"
  BY ThreadTypes DEF Crash, IdleCall, outboxVars
<1> QED
  BY <1>1, CursorStep DEF Calling, Past

\* The cursor starts before the first command.
LEMMA InitCursor == Init => CursorInv
<1> SUFFICES ASSUME Init PROVE CursorInv
  OBVIOUS
<1>1. pc = "recover" /\ cursor = 0 /\ cursorFile = 0 /\ enq[LoopThread].step = "idle"
  BY ThreadTypes DEF Init, IdleCall
<1>2. \A c \in Commands : ~(c <= 0)
  BY DEF Commands
<1> QED
  BY <1>1, <1>2 DEF CursorInv, CursorBehindReceipts, Calling

\* Every step leaves the cursor behind the receipts.
LEMMA NextCursor == TypeInv /\ CursorInv /\ [Next]_vars => CursorInv'
<1> SUFFICES ASSUME TypeInv, CursorInv, [Next]_vars PROVE CursorInv'
  OBVIOUS
<1>1. ASSUME NEW t \in Threads, EnqueueStep(t) \/ EnqueueFault(t)
      PROVE  CursorInv'
  BY <1>1, EnqueueCursor
<1>2. CASE ReconcileStep \/ RecoverFault \/ ResolveFault \/ ReconcileFault
  BY <1>2, ReconcileCursor
<1>3. CASE PollStep \/ PollFault \/ ClaimFault \/ BeginFault
  BY <1>3, PollCursor
<1>4. CASE \/ \E l \in Lanes : StartWork(l)
           \/ \E c \in Commands : Execute(c) \/ Complete(c) \/ CompleteFault(c) \/ TaskEnds(c)
           \/ UNCHANGED vars
  BY <1>4, WorkerCursor
<1>5. CASE Crash
  BY <1>5, CrashCursor
<1> QED
  BY <1>1, <1>2, <1>3, <1>4, <1>5, ThreadTypes DEF Next, LoopStep, WorkerStep

\* Neither the cursor in memory nor the one on disk passes a command for
\* which no receipt was queued, through crashes and failed writes alike.
THEOREM CursorNeverAhead == Spec => []CursorBehindReceipts
<1>1. CursorInv => CursorBehindReceipts
  BY DEF CursorInv
<1> QED
  BY <1>1, InitCursor, NextCursor, Invariant, PTL DEF Spec

-----------------------------------------------------------------------------
Started == {"started", "submit"}
Calm == crashes + faults = 0

\* A step that starts no execution: no record begins to run, workers of
\* running records stay, lanes only drain, and, unless something failed, an
\* admission in progress goes on.
LEMMA OwnerStep ==
  ASSUME TypeInv, OwnerInv,
         \A c \in Commands : journal'[c].state \in {"absent", "received"} => journal'[c].audit = 0,
         \A c \in Commands : journal'[c].state = "running" => journal[c].state = "running",
         \A c \in Commands : worker'[c].pc = "queueing" =>
           worker[c].pc = "queueing" \/ journal'[c].state # "running",
         \A l \in Lanes : Len(lane'[l]) \in Nat /\ Len(lane'[l]) <= Len(lane[l]),
         pc' \in AdmittingPcs => /\ UNCHANGED cursor
                                 /\ pc \in AdmittingPcs \/ (cursor < N /\ LaneHasRoom(Offered)),
         pc' = "started" => /\ pc = "started" /\ enq'[LoopThread].rid = enq[LoopThread].rid
                            /\ journal'[Offered].rid = journal[Offered].rid
                            /\ journal'[Offered].audit = 0,
         pc' = "submit" => LoopFree',
         Calm' => /\ Calm
                  /\ \A c \in Commands : journal[c].state = "running" /\ c \in Active => c \in Active'
                  /\ pc \in Started => pc' \in Started /\ UNCHANGED cursor
  PROVE  OwnerInv'
<1>1. pc' \in AdmittingPcs => LaneHasRoom(Offered)'
  <2> SUFFICES ASSUME pc' \in AdmittingPcs PROVE LaneHasRoom(Offered)'
    OBVIOUS
  <2>1. LaneHasRoom(Offered) /\ UNCHANGED cursor
    BY DEF OwnerInv
  <2>2. Offered \in Commands
    BY OfferedType DEF TypeInv, AdmissionShape, AdmissionPcs, AdmittingPcs
  <2>3. LaneOf[Offered] \in Lanes /\ LaneCap[LaneOf[Offered]] \in Nat
    BY <2>2, ConstantsAssumption
  <2>4. Len(lane[LaneOf[Offered]]) \in Nat
    BY <2>3 DEF TypeInv, TypeOK, DispatchType
  <2>5. Offered' = Offered
    BY <2>1 DEF Offered
  <2> QED
    BY <2>1, <2>3, <2>4, <2>5 DEF LaneHasRoom
<1>2. pc' = "started" => /\ journal'[Offered'].audit = 0
                         /\ enq'[LoopThread].rid = journal'[Offered'].rid
  BY DEF OwnerInv, AdmittingPcs, Offered
<1>3. RunningIsOwned'
  <2> SUFFICES ASSUME Calm', NEW c \in Commands, journal'[c].state = "running"
               PROVE  c \in Active' \/ (pc' \in Started /\ c = Offered')
    BY DEF RunningIsOwned, Calm, Started
  <2>1. c \in Active \/ (pc \in Started /\ c = Offered)
    BY DEF OwnerInv, RunningIsOwned, Calm, Started
  <2> QED
    BY <2>1 DEF Offered
<1>4. \A c \in Commands : worker'[c].pc = "queueing" => journal'[c].state # "running"
  BY DEF OwnerInv
<1> QED
  BY <1>1, <1>2, <1>3, <1>4 DEF OwnerInv

\* Counters of mishaps only grow.
LEMMA CalmBefore ==
  ASSUME TypeInv, UNCHANGED envVars \/ (Fault /\ UNCHANGED crashes)
  PROVE  Calm' => Calm /\ ~Fault
BY DEF TypeInv, TypeOK, EnvType, Calm, Fault, envVars

\* A step of the loop outside an admission, which touches no worker.
LEMMA OwnerLoop ==
  ASSUME TypeInv, OwnerInv, UNCHANGED <<lane, worker>>, Calm' => Calm, pc \notin Started,
         \A c \in Commands : journal'[c].state \in {"absent", "received"} => journal'[c].audit = 0,
         \A c \in Commands : journal'[c].state = "running" => journal[c].state = "running",
         pc' \in AdmittingPcs => /\ pc' = "begin" /\ UNCHANGED cursor
                                 /\ pc = "begin" \/ (cursor < N /\ LaneHasRoom(Offered))
  PROVE  OwnerInv'
<1>1. \A l \in Lanes : Len(lane'[l]) \in Nat /\ Len(lane'[l]) <= Len(lane[l])
  BY DEF TypeInv, TypeOK, DispatchType
<1>2. \A c \in Commands : journal[c].state = "running" /\ c \in Active => c \in Active'
  BY DEF Active
<1> QED
  BY <1>1, <1>2, OwnerStep DEF AdmittingPcs, Started

\* A record that gets a receipt's state.
LEMMA WrittenOwner ==
  ASSUME TypeInv, OwnerInv, NEW c \in Commands, NEW r,
         r.state \in ReceiptStates \ {"running"}, journal' = [journal EXCEPT ![c] = r]
  PROVE  /\ \A d \in Commands : journal'[d].state \in {"absent", "received"} => journal'[d].audit = 0
         /\ \A d \in Commands : journal'[d].state = "running" => journal[d].state = "running"
BY JournalRecords DEF OwnerInv, ReceiptStates

\* Reconciliation gives running records to nobody.
LEMMA ReconcileOwner ==
  ASSUME TypeInv, OwnerInv, ReconcileStep \/ RecoverFault \/ ResolveFault \/ ReconcileFault
  PROVE  OwnerInv'
<1>1. UNCHANGED <<lane, worker>>
  BY DEF ReconcileStep, RecoverIncomplete, FlushOne, PendingReceipts, SubmittedWaiting,
     ResolveTask,
         ReconcileDone, RecoverFault, ResolveFault, ReconcileFault, dispatchVars
<1>2. Calm' => Calm
  <2>1. UNCHANGED envVars \/ (Fault /\ UNCHANGED crashes)
    BY DEF ReconcileStep, RecoverIncomplete, FlushOne, PendingReceipts, SubmittedWaiting,
           ResolveTask, ReconcileDone, RecoverFault, ResolveFault, ReconcileFault
  <2> QED
    BY <2>1, CalmBefore
<1>3. pc \notin Started /\ pc' \notin AdmittingPcs
  BY DEF ReconcileStep, RecoverIncomplete, FlushOne, PendingReceipts, SubmittedWaiting,
     ResolveTask,
         ReconcileDone, RecoverFault, ResolveFault, ReconcileFault, ReconcileOk, ReconcileFailed,
         Started, AdmittingPcs
<1>4. CASE UNCHANGED journal
  BY <1>1, <1>2, <1>3, <1>4, OwnerLoop DEF OwnerInv
<1>5. CASE RecoverIncomplete \/ RecoverFault
  <2>1. PICK S \in SUBSET Commands : RecoverRecords(S)
    BY <1>5 DEF RecoverIncomplete, RecoverFault, InterruptedCommands
  <2>2. \A c \in Commands : \/ journal'[c] = journal[c]
                            \/ journal'[c].state \in {"failed", "indeterminate"}
    BY <2>1 DEF RecoverRecords, WithReceipt, RecoveredState
  <2> QED
    BY <1>1, <1>2, <1>3, <2>2, OwnerLoop DEF OwnerInv
<1>6. CASE ResolveTask \/ ResolveFault
  <2>1. PICK item \in todo, st \in ReceiptStates :
          /\ st \in Observations(item.cmd)
          /\ \/ UNCHANGED journal
             \/ journal' = [journal EXCEPT ![item.cmd] =
                              WithReceipt(item.cmd, Fresh(item.cmd), st, TRUE)]
    BY <1>6 DEF ResolveTask, ResolveFault
  <2>2. item.cmd \in Commands /\ st # "running"
    BY <2>1 DEF TypeInv, TypeOK, LoopType, Items, Observations
  <2>3. WithReceipt(item.cmd, Fresh(item.cmd), st, TRUE).state = st
    BY DEF WithReceipt
  <2> QED
    BY <1>1, <1>2, <1>3, <1>4, <2>1, <2>2, <2>3, WrittenOwner, OwnerLoop
<1> QED
  BY <1>4, <1>5, <1>6 DEF ReconcileStep, FlushOne, PendingReceipts, SubmittedWaiting,
     ReconcileDone,
       ReconcileFault

\* A command that is taken has room in its lane: it has no worker yet.
LEMMA ClaimOwner ==
  ASSUME TypeInv, SafeInv, OwnerInv,
         \/ PollNothing \/ PollLaneFull \/ PollRefused \/ ClaimNew \/ ClaimDuplicate \/ ClaimAgain
         \/ ClaimFault \/ PollFault \/ SaveCursor
  PROVE  OwnerInv'
<1>1. UNCHANGED <<lane, worker>>
  BY DEF PollNothing, PollLaneFull, PollRefused, ClaimNew, ClaimDuplicate, ClaimAgain,
     ClaimFault,
         PollFault, SaveCursor, dispatchVars
<1>2. Calm' => Calm
  <2>1. UNCHANGED envVars \/ (Fault /\ UNCHANGED crashes)
    BY DEF PollNothing, PollLaneFull, PollRefused, ClaimNew, ClaimDuplicate, ClaimAgain,
       ClaimFault,
           PollFault, SaveCursor
  <2> QED
    BY <2>1, CalmBefore
<1>3. pc \notin Started
  BY DEF PollNothing, PollLaneFull, PollRefused, ClaimNew, ClaimDuplicate, ClaimAgain,
     ClaimFault,
         PollFault, SaveCursor, Admissible, Started
<1>4. \/ pc' \notin AdmittingPcs
      \/ /\ pc' = "begin" /\ UNCHANGED cursor /\ Admissible
         /\ journal[Offered].state \in {"absent", "received"}
  BY DEF PollNothing, PollLaneFull, PollRefused, ClaimNew, ClaimDuplicate, ClaimAgain,
     ClaimFault,
         PollFault, SaveCursor, PollReturned, Reject, AdmittingPcs, cursorVars
<1>5. pc' \in AdmittingPcs => /\ pc' = "begin" /\ UNCHANGED cursor
                              /\ cursor < N /\ LaneHasRoom(Offered)
  BY <1>4, OfferedType DEF Admissible, HasCapacity, Active, SafeInv, UnstartedIdle
<1>6. \/ UNCHANGED journal
      \/ /\ Offered \in Commands /\ journal[Offered].state = "absent"
         /\ journal' = [journal EXCEPT ![Offered] = Claimed(journal[Offered])]
      \/ /\ Offered \in Commands
         /\ journal' = [journal EXCEPT ![Offered] =
                          WithReceipt(Offered, Fresh(Offered), "indeterminate", FALSE)]
  BY OfferedType DEF PollNothing, PollLaneFull, PollRefused, ClaimNew, ClaimDuplicate,
     ClaimAgain,
       ClaimFault, PollFault, SaveCursor, Admissible
<1>7. CASE UNCHANGED journal
  BY <1>1, <1>2, <1>3, <1>5, <1>7, OwnerLoop DEF OwnerInv
<1>8. CASE /\ Offered \in Commands /\ journal[Offered].state = "absent"
           /\ journal' = [journal EXCEPT ![Offered] = Claimed(journal[Offered])]
  <2>1. journal[Offered] \in Records /\ journal \in [Commands -> Records]
    BY <1>8, JournalRecords
  <2>2. journal'[Offered].state = "received" /\ journal'[Offered].audit = 0
    BY <1>8, <2>1, MarkedFields DEF OwnerInv
  <2>3. \A d \in Commands : d # Offered => journal'[d] = journal[d]
    BY <1>8, <2>1
  <2> QED
    BY <1>1, <1>2, <1>3, <1>5, <2>2, <2>3, OwnerLoop DEF OwnerInv
<1>9. CASE /\ Offered \in Commands
           /\ journal' = [journal EXCEPT ![Offered] =
                            WithReceipt(Offered, Fresh(Offered), "indeterminate", FALSE)]
  <2>1. WithReceipt(Offered, Fresh(Offered), "indeterminate", FALSE).state = "indeterminate"
    BY DEF WithReceipt
  <2>2. "indeterminate" \in ReceiptStates \ {"running"}
    BY DEF ReceiptStates, RecordStates
  <2> QED
    BY <1>1, <1>2, <1>3, <1>5, <1>9, <2>1, <2>2, WrittenOwner, OwnerLoop
<1> QED
  BY <1>6, <1>7, <1>8, <1>9

\* The command in hand has no worker while it is started.
LEMMA InHand ==
  ASSUME TypeInv, SafeInv, pc \in AdmittingPcs
  PROVE  Offered \in Commands /\ cursor < N /\ worker[Offered].pc = "idle"
BY OfferedType DEF TypeInv, AdmissionShape, AdmissionPcs, SafeInv, AdmissionFresh, AdmittingPcs

\* A command that is begun is owned by the loop, until it is submitted.
LEMMA BeginOwner ==
  ASSUME TypeInv, SafeInv, OwnerInv, BeginRunning \/ BeginFault
  PROVE  OwnerInv'
<1>1. pc = "begin" /\ UNCHANGED <<lane, worker, cursor>>
  BY DEF BeginRunning, BeginFault, dispatchVars, cursorVars
<1>2. Offered \in Commands /\ worker[Offered].pc = "idle" /\ Offered' = Offered
  BY <1>1, InHand DEF AdmittingPcs, Offered
<1>3. journal \in [Commands -> Records] /\ journal[Offered] \in Records
  BY <1>2, JournalRecords
<1>4. \/ UNCHANGED journal
      \/ journal' = [journal EXCEPT ![Offered] = Running(journal[Offered], Fresh(Offered))]
  BY DEF BeginRunning, BeginFault
<1>5. \A c \in Commands : c # Offered => journal'[c] = journal[c]
  BY <1>3, <1>4
<1>6. journal[Offered].audit = 0
  BY <1>1, <1>2 DEF SafeInv, AdmissionFresh, OwnerInv
<1>7. UNCHANGED journal \/ (/\ journal'[Offered].state = "running" /\ journal'[Offered].audit = 0
                            /\ journal'[Offered].rid = Fresh(Offered))
  BY <1>2, <1>3, <1>4, <1>6, MarkedFields
<1>8. \A c \in Commands : journal'[c].state \in {"absent", "received"} => journal'[c].audit = 0
  BY <1>5, <1>7 DEF OwnerInv
<1>9. \A c \in Commands : worker'[c].pc = "queueing" => journal'[c].state # "running"
  BY <1>1, <1>2, <1>5 DEF OwnerInv
<1>10. LaneHasRoom(Offered)'
  BY <1>1, <1>2 DEF OwnerInv, AdmittingPcs, LaneHasRoom
<1>11. CASE BeginRunning
  <2>1. pc' = "started" /\ journal' # journal
    BY <1>2, <1>3, <1>11, MarkedFields, <1>1 DEF BeginRunning, SafeInv, AdmissionFresh
  <2>2. enq'[LoopThread].rid = Fresh(Offered)
    BY <1>11, ThreadTypes DEF BeginRunning, Call, TypeInv, TypeOK, CallType
  <2>3. RunningIsOwned'
    <3> SUFFICES ASSUME Calm', NEW c \in Commands, journal'[c].state = "running", c # Offered
                 PROVE  c \in Active'
      BY <1>2, <2>1 DEF RunningIsOwned, Calm
    <3>1. Calm
      BY <1>11 DEF BeginRunning, Calm, envVars
    <3> QED
      BY <1>1, <1>5, <3>1 DEF OwnerInv, RunningIsOwned, Calm, Active
  <2> QED
    BY <1>2, <1>7, <1>8, <1>9, <1>10, <2>1, <2>2, <2>3 DEF OwnerInv
<1>12. CASE BeginFault
  <2>1. pc' = "recover" /\ ~Calm'
    BY <1>12, CalmBefore DEF BeginFault, PollReturned
  <2> QED
    BY <1>8, <1>9, <2>1 DEF OwnerInv, AdmittingPcs, RunningIsOwned, Calm
<1> QED
  BY <1>11, <1>12

\* The lane has the room that was checked before the claim.
LEMMA SubmitOwner ==
  ASSUME TypeInv, SafeInv, OwnerInv, Submit
  PROVE  OwnerInv'
<1>1. pc = "submit" /\ UNCHANGED <<journal, cursor, envVars>>
  BY DEF Submit, cursorVars
<1>2. Offered \in Commands /\ worker[Offered].pc = "idle" /\ LaneHasRoom(Offered)
  BY <1>1, InHand DEF OwnerInv, AdmittingPcs
<1>3. worker' = [worker EXCEPT ![Offered].pc = "queued"] /\ pc' = "saveCursor"
  BY <1>2 DEF Submit, Active
<1>4. /\ worker'[Offered].pc = "queued"
      /\ \A c \in Commands : c # Offered => worker'[c] = worker[c]
  BY <1>2, <1>3 DEF TypeInv, TypeOK, DispatchType, Workers
<1>5. \A c \in Commands : worker'[c].pc = "queueing" => journal'[c].state # "running"
  BY <1>1, <1>4 DEF OwnerInv
<1>6. RunningIsOwned'
  <2> SUFFICES ASSUME Calm', NEW c \in Commands, journal'[c].state = "running"
               PROVE  c \in Active'
    BY DEF RunningIsOwned, Calm
  <2>1. c \in Active \/ c = Offered
    BY <1>1 DEF OwnerInv, RunningIsOwned, Calm, envVars
  <2> QED
    BY <1>4, <2>1 DEF Active
<1> QED
  BY <1>1, <1>3, <1>5, <1>6 DEF OwnerInv, AdmittingPcs

\* A worker takes its command, runs it and writes what came of it.
LEMMA WorkOwner ==
  ASSUME TypeInv, SafeInv, OwnerInv,
         \/ \E l \in Lanes : StartWork(l)
         \/ \E c \in Commands : Execute(c) \/ Complete(c) \/ CompleteFault(c) \/ TaskEnds(c)
         \/ UNCHANGED vars
  PROVE  OwnerInv'
<1>1. UNCHANGED <<cursor, pc>>
  BY DEF StartWork, Execute, Complete, CompleteFault, TaskEnds, vars, cursorVars, loopVars
<1>2. lane \in [Lanes -> Seq(Commands)] /\ worker \in [Commands -> Workers]
  BY DEF TypeInv, TypeOK, DispatchType
<1>3. \A l \in Lanes : Len(lane[l]) \in Nat
  BY <1>2
<1>4. pc \in AdmittingPcs => Offered \in Commands /\ worker[Offered].pc = "idle"
  BY InHand
<1>5. ASSUME NEW l \in Lanes, StartWork(l) PROVE OwnerInv'
  <2>1. UNCHANGED <<journal, enq, envVars>> /\ lane[l] # <<>>
    BY <1>5 DEF StartWork
  <2>2. \A k \in Lanes : Len(lane'[k]) \in Nat /\ Len(lane'[k]) <= Len(lane[k])
    <3>1. lane[l] \in Seq(Commands) /\ Len(Tail(lane[l])) \in Nat /\ Len(Tail(lane[l])) <= Len(lane[l])
      BY <1>2, <2>1
    <3>2. lane' = [lane EXCEPT ![l] = Tail(lane[l])]
      BY <1>5 DEF StartWork
    <3>3. lane'[l] = Tail(lane[l]) /\ \A k \in Lanes : k # l => lane'[k] = lane[k]
      BY <1>2, <3>2
    <3>4. Len(lane'[l]) \in Nat /\ Len(lane'[l]) <= Len(lane[l])
      BY <3>1, <3>3
    <3>5. ASSUME NEW k \in Lanes, k # l PROVE Len(lane'[k]) \in Nat /\ Len(lane'[k]) <= Len(lane[k])
      <4>1. Len(lane'[k]) = Len(lane[k]) /\ Len(lane[k]) \in Nat
        BY <1>3, <3>3, <3>5
      <4> QED
        BY <4>1
    <3> QED
      BY <3>4, <3>5
  <2>3. \A c \in Commands : worker'[c] = worker[c] \/ worker'[c].pc = "executing"
    BY <1>2, <1>5 DEF StartWork, Workers
  <2>4. Calm' => Calm
    BY <2>1 DEF Calm, envVars
  <2>5. pc = "started" => journal[Offered].audit = 0
    BY DEF OwnerInv
  <2> QED
    BY <1>1, <2>1, <2>2, <2>3, <2>4, <2>5, OwnerStep DEF OwnerInv, Active, AdmittingPcs,
       LoopFree
<1>6. ASSUME NEW c \in Commands, Execute(c) \/ TaskEnds(c) PROVE OwnerInv'
  <2>1. UNCHANGED <<journal, enq, envVars, lane>>
    BY <1>6 DEF Execute, TaskEnds, dispatchVars
  <2>2. \A d \in Commands : worker'[d] = worker[d] \/ worker'[d].pc = "executed"
    BY <1>2, <1>6 DEF Execute, TaskEnds, dispatchVars
  <2>3. Calm' => Calm
    BY <2>1 DEF Calm, envVars
  <2> QED
    BY <1>1, <1>3, <2>1, <2>2, <2>3, OwnerStep DEF OwnerInv, Active, AdmittingPcs, LoopFree
<1>7. ASSUME NEW c \in Commands, Complete(c) \/ CompleteFault(c) PROVE OwnerInv'
  <2> DEFINE st == worker[c].st
             r == WithReceipt(c, Fresh(c), st, st = "submitted")
  <2>1. UNCHANGED lane /\ worker[c].pc = "executed"
    BY <1>7 DEF Complete, CompleteFault
  <2>2. st \in ReceiptStates \ {"running"}
    BY <2>1 DEF SafeInv, ReportFits, ReceiptStates, RecordStates
  <2>3. r.state = st
    BY DEF WithReceipt
  <2>4. UNCHANGED journal \/ journal' = [journal EXCEPT ![c] = r]
    BY <1>7 DEF Complete, CompleteFault
  <2>5. /\ \A d \in Commands : journal'[d].state \in {"absent", "received"} => journal'[d].audit = 0
        /\ \A d \in Commands : journal'[d].state = "running" => journal[d].state = "running"
    <3> HIDE DEF st, r
    <3> QED
      BY <2>2, <2>3, <2>4, WrittenOwner DEF OwnerInv
  <2>6. \A d \in Commands : d # c => journal'[d] = journal[d] /\ worker'[d] = worker[d]
    BY <1>2, <1>7, <2>4, JournalRecords DEF Complete, CompleteFault
  <2>7. pc \in AdmittingPcs => Offered # c
    BY <1>4, <2>1
  <2>8. enq'[LoopThread] = enq[LoopThread]
    BY <1>7, ThreadTypes DEF Complete, CompleteFault, TypeInv, TypeOK, CallType, LoopThread,
       Commands
  <2>8a. pc' = "submit" => LoopFree'
    BY <1>1, <2>8 DEF OwnerInv, LoopFree
  <2>9. CASE Complete(c)
    <3>1. journal'[c].state # "running" /\ UNCHANGED envVars /\ worker'[c].pc # "idle"
      BY <1>2, <2>2, <2>9, JournalRecords DEF Complete, WithReceipt
    <3>2. Calm' => Calm
      BY <3>1 DEF Calm, envVars
    <3>3. \A d \in Commands : d \in Active => d \in Active'
      BY <2>6, <3>1 DEF Active
    <3>4. \A d \in Commands : worker'[d].pc = "queueing" =>
                                worker[d].pc = "queueing" \/ journal'[d].state # "running"
      BY <2>6, <3>1
    <3>5. pc = "started" => journal'[Offered] = journal[Offered] /\ journal[Offered].audit = 0
      BY <1>4, <2>6, <2>7 DEF AdmittingPcs, OwnerInv
    <3> QED
      BY <1>1, <1>3, <2>8a, <2>1, <2>5, <2>8, <3>2, <3>3, <3>4, <3>5, OwnerStep DEF AdmittingPcs
  <2>10. CASE CompleteFault(c)
    <3>1. worker'[c].pc = "idle" /\ Fault /\ UNCHANGED crashes
      BY <1>2, <2>10 DEF CompleteFault, IdleWorker
    <3>2. ~Calm'
      BY <3>1, CalmBefore
    <3>3. \A d \in Commands : worker'[d].pc = "queueing" => worker[d].pc = "queueing"
      BY <2>6, <3>1
    <3>4. pc = "started" => journal'[Offered] = journal[Offered] /\ journal[Offered].audit = 0
      BY <1>4, <2>6, <2>7 DEF AdmittingPcs, OwnerInv
    <3> QED
      BY <1>1, <1>3, <2>8a, <2>1, <2>5, <2>8, <3>2, <3>3, <3>4, OwnerStep DEF AdmittingPcs
  <2> QED
    BY <1>7, <2>9, <2>10
<1>8. CASE UNCHANGED vars
  BY <1>8 DEF vars, dispatchVars, envVars, loopVars, cursorVars, OwnerInv, AdmittingPcs,
     LaneHasRoom,
       LoopFree, Offered, RunningIsOwned, Active
<1> QED
  BY <1>5, <1>6, <1>7, <1>8

\* After a crash the running records are the next recovery's.
LEMMA CrashOwner ==
  ASSUME TypeInv, OwnerInv, Crash
  PROVE  OwnerInv'
<1>1. /\ UNCHANGED journal /\ pc' = "recover" /\ \A c \in Commands : worker'[c].pc = "idle"
      /\ crashes' + faults' # 0
  BY DEF Crash, IdleWorker, TypeInv, TypeOK, EnvType
<1> QED
  BY <1>1 DEF OwnerInv, AdmittingPcs, RunningIsOwned

\* What a call changes, seen from the records and workers it does not own.
LEMMA EnqueueOwner ==
  ASSUME TypeInv, SafeInv, CursorInv, OwnerInv, NEW t \in Threads, EnqueueStep(t) \/ EnqueueFault(t)
  PROVE  OwnerInv'
<1> DEFINE call == enq[t]
           c == call.cmd
<1>1. /\ c \in Commands /\ enq \in [Threads -> Calls] /\ LoopThread \in Threads
      /\ journal \in [Commands -> Records] /\ worker \in [Commands -> Workers]
  BY ThreadTypes DEF TypeInv, TypeOK, CallType, Calls, JournalType, DispatchType
<1>2. UNCHANGED <<cursor, lane>> /\ call.step # "idle"
  BY DEF EnqueueStep, LookupAudit, MarkAuditQueued, EnqueueReceipt, MarkReceiptQueued,
     SendDenied,
         EnqueueFault, cursorVars, dispatchVars
<1>3. \A l \in Lanes : Len(lane'[l]) \in Nat /\ Len(lane'[l]) <= Len(lane[l])
  BY <1>2 DEF TypeInv, TypeOK, DispatchType
<1>4. \A d \in Commands : /\ journal'[d].state = journal[d].state /\ journal'[d].rid = journal[d].rid
                          /\ journal'[d].audit \in {0, journal[d].audit}
  <2>1. \/ UNCHANGED journal
        \/ journal' = [journal EXCEPT ![c] = AuditAcknowledged(journal[c])]
        \/ journal' = [journal EXCEPT ![c] = ReceiptAcknowledged(journal[c])]
    BY DEF EnqueueStep, LookupAudit, MarkAuditQueued, EnqueueReceipt, MarkReceiptQueued,
       SendDenied,
           EnqueueFault
  <2>2. ASSUME NEW d \in Commands, d = c
        PROVE  /\ journal'[d].state = journal[d].state /\ journal'[d].rid = journal[d].rid
               /\ journal'[d].audit \in {0, journal[d].audit}
    <3>1. journal[d] \in Records
      BY <1>1
    <3>2. CASE UNCHANGED journal
      BY <3>2
    <3>3. CASE journal'[d] = AuditAcknowledged(journal[d])
      BY <3>1, <3>3, MarkedFields
    <3>4. CASE journal'[d] = ReceiptAcknowledged(journal[d])
      BY <3>1, <3>4, MarkedFields
    <3> QED
      BY <1>1, <2>1, <2>2, <3>2, <3>3, <3>4
  <2>3. ASSUME NEW d \in Commands, d # c
        PROVE  journal'[d] = journal[d]
    BY <1>1, <2>1, <2>3
  <2> QED
    BY <2>2, <2>3
<1>5. UNCHANGED envVars \/ (Fault /\ UNCHANGED crashes)
  BY DEF EnqueueStep, LookupAudit, MarkAuditQueued, EnqueueReceipt, MarkReceiptQueued,
     SendDenied,
         EnqueueFault
<1>6. Calm' => Calm /\ ~Fault
  BY <1>5, CalmBefore
<1>7. \A d \in Commands : journal'[d].state \in {"absent", "received"} => journal'[d].audit = 0
  BY <1>4 DEF OwnerInv
<1>8. \/ CallFailed(t) \/ CallDone(t)
      \/ /\ \E s \in CallSteps : enq' = [enq EXCEPT ![t].step = s]
         /\ UNCHANGED <<pc, worker>>
  <2>1. CASE LookupAudit(t)
    BY <2>1 DEF LookupAudit, loopVars, CallSteps
  <2>2. CASE MarkAuditQueued(t)
    BY <2>2 DEF MarkAuditQueued, loopVars, CallSteps
  <2>3. CASE EnqueueReceipt(t)
    BY <2>3 DEF EnqueueReceipt, loopVars, dispatchVars, CallSteps
  <2>4. CASE MarkReceiptQueued(t) \/ SendDenied(t) \/ EnqueueFault(t)
    BY <2>4 DEF MarkReceiptQueued, SendDenied, EnqueueFault
  <2> QED
    BY <2>1, <2>2, <2>3, <2>4 DEF EnqueueStep
<1>9. CASE t # LoopThread
  <2>1. t \in Commands /\ worker[t].pc = "queueing"
    BY <1>2, <1>9, WorkerThread DEF SafeInv, CallShape
  <2>2. journal[t].state # "running"
    BY <2>1 DEF OwnerInv
  <2>3. UNCHANGED pc /\ enq'[LoopThread] = enq[LoopThread]
    BY <1>1, <1>8, <1>9 DEF CallDone, CallFailed, loopVars
  <2>4. \A d \in Commands : worker'[d] = worker[d] \/ (d = t /\ worker'[d].pc = "idle")
    BY <1>1, <1>8, <1>9 DEF CallDone, CallFailed, IdleWorker
  <2>5. \A d \in Commands : journal[d].state = "running" /\ d \in Active => d \in Active'
    BY <2>2, <2>4 DEF Active
  <2>6. \A d \in Commands : worker'[d].pc = "queueing" => worker[d].pc = "queueing"
    BY <2>4
  <2>7. pc = "started" => /\ journal'[Offered].rid = journal[Offered].rid
                          /\ journal'[Offered].audit = 0
    BY <1>4, InHand DEF OwnerInv, AdmittingPcs
  <2>8. pc' = "submit" => LoopFree'
    BY <2>3 DEF OwnerInv, LoopFree
  <2> QED
    BY <1>2, <1>3, <1>4, <1>6, <1>7, <2>3, <2>5, <2>6, <2>7, <2>8, OwnerStep
<1>10. CASE t = LoopThread
  <2>1. UNCHANGED worker
    BY <1>8, <1>10 DEF CallDone, CallFailed
  <2>2. \A d \in Commands : journal[d].state = "running" /\ d \in Active => d \in Active'
    BY <2>1 DEF Active
  <2>3. pc = "started" /\ CallFailed(t) => Fault
    <3> SUFFICES ASSUME pc = "started", CallFailed(t), ~Fault PROVE FALSE
      OBVIOUS
    <3>1. c = Offered /\ Offered \in Commands
      BY <1>10, InHand DEF CursorInv, Calling, AdmittingPcs
    <3>2. journal[c].audit = 0 /\ call.rid = journal[c].rid
      BY <1>10, <3>1 DEF OwnerInv
    <3>3. enq'[t].step = "idle"
      BY <1>1 DEF CallFailed, IdleCall
    <3>4. pc' = "recover"
      BY <1>10 DEF CallFailed, PollReturned
    <3>5. CASE LookupAudit(t)
      <4>1. enq' = [enq EXCEPT ![t].step = "enqueue"]
        BY <3>2, <3>5 DEF LookupAudit
      <4> QED
        BY <1>1, <3>3, <4>1 DEF Calls
    <3>6. CASE MarkAuditQueued(t)
      <4>1. enq' = [enq EXCEPT ![t].step = "enqueue"]
        BY <3>2, <3>6 DEF MarkAuditQueued
      <4> QED
        BY <1>1, <3>3, <4>1 DEF Calls
    <3>7. CASE EnqueueReceipt(t)
      BY <1>1, <3>3, <3>7 DEF EnqueueReceipt
    <3>8. CASE MarkReceiptQueued(t) \/ SendDenied(t)
      BY <1>10, <3>2, <3>4, <3>8 DEF MarkReceiptQueued, SendDenied, CallDone
    <3> QED
      BY <3>5, <3>6, <3>7, <3>8 DEF EnqueueStep, EnqueueFault
  <2>4. ASSUME Calm', pc \in Started PROVE pc' \in Started
    <3>1. pc = "started"
      BY <1>2, <1>10, <2>4 DEF OwnerInv, LoopFree, Started
    <3> QED
      BY <1>6, <1>8, <1>10, <2>3, <2>4, <3>1 DEF CallDone, Started
  <2>5. pc' \in AdmittingPcs => pc \in AdmittingPcs
    BY <1>8, <1>10 DEF CallDone, CallFailed, PollReturned, ReconcileFailed, AdmittingPcs
  <2>6. pc' = "started" => /\ pc = "started" /\ enq'[LoopThread].rid = enq[LoopThread].rid
                           /\ journal'[Offered].rid = journal[Offered].rid
                           /\ journal'[Offered].audit = 0
    <3> SUFFICES ASSUME pc' = "started"
                 PROVE  /\ pc = "started" /\ enq'[LoopThread].rid = enq[LoopThread].rid
                        /\ journal'[Offered].rid = journal[Offered].rid
                        /\ journal'[Offered].audit = 0
      OBVIOUS
    <3>1. ~CallDone(t) /\ ~CallFailed(t)
      BY <1>10 DEF CallDone, CallFailed, PollReturned, ReconcileFailed
    <3>2. PICK s \in CallSteps : enq' = [enq EXCEPT ![t].step = s]
      BY <1>8, <3>1
    <3>3. pc = "started" /\ enq'[t].rid = enq[t].rid
      BY <1>1, <1>8, <3>1, <3>2 DEF Calls
    <3>4. Offered \in Commands /\ journal[Offered].audit = 0
      BY <3>3, InHand DEF OwnerInv, AdmittingPcs
    <3> QED
      BY <1>4, <1>10, <3>3, <3>4
  <2>7. pc' = "submit" => LoopFree'
    <3>1. CallDone(t) \/ CallFailed(t) => LoopFree'
      BY <1>1, <1>10 DEF CallDone, CallFailed, LoopFree, IdleCall
    <3>2. UNCHANGED pc => pc # "submit"
      BY <1>2, <1>10 DEF OwnerInv, LoopFree
    <3> QED
      BY <1>8, <3>1, <3>2
  <2> QED
    BY <1>2, <1>3, <1>4, <1>6, <1>7, <2>1, <2>2, <2>4, <2>5, <2>6, <2>7, OwnerStep
<1> QED
  BY <1>9, <1>10

\* Nothing runs.
LEMMA InitOwner == Init => OwnerInv
<1> SUFFICES ASSUME Init PROVE OwnerInv
  OBVIOUS
<1>1. /\ pc = "recover"
      /\ \A c \in Commands : /\ journal[c].state = "absent" /\ journal[c].audit = 0
                             /\ worker[c].pc = "idle"
  BY DEF Init, NoRecord, IdleWorker
<1> QED
  BY <1>1 DEF OwnerInv, AdmittingPcs, RunningIsOwned

\* Every step leaves a running record with its owner.
LEMMA NextOwner ==
  TypeInv /\ SafeInv /\ CursorInv /\ OwnerInv /\ [Next]_vars => OwnerInv'
<1> SUFFICES ASSUME TypeInv, SafeInv, CursorInv, OwnerInv, [Next]_vars PROVE OwnerInv'
  OBVIOUS
<1>1. ASSUME NEW t \in Threads, EnqueueStep(t) \/ EnqueueFault(t)
      PROVE  OwnerInv'
  BY <1>1, EnqueueOwner
<1>2. CASE ReconcileStep \/ RecoverFault \/ ResolveFault \/ ReconcileFault
  BY <1>2, ReconcileOwner
<1>3. CASE PollStep \/ PollFault \/ ClaimFault \/ BeginFault
  BY <1>3, ClaimOwner, BeginOwner, SubmitOwner DEF PollStep, Delivery
<1>4. CASE \/ \E l \in Lanes : StartWork(l)
           \/ \E c \in Commands : Execute(c) \/ Complete(c) \/ CompleteFault(c) \/ TaskEnds(c)
           \/ UNCHANGED vars
  BY <1>4, WorkOwner
<1>5. CASE Crash
  BY <1>5, CrashOwner
<1> QED
  BY <1>1, <1>2, <1>3, <1>4, <1>5, ThreadTypes DEF Next, LoopStep, WorkerStep

\* While nothing fails, a running record is a worker's or the admission's:
\* the capacity check before the claim holds until the command is submitted.
THEOREM RunningHasOwner == Spec => []RunningIsOwned
<1>1. OwnerInv => RunningIsOwned
  BY DEF OwnerInv
<1> QED
  BY <1>1, InitCursor, NextCursor, InitOwner, NextOwner, Invariant, PTL DEF Spec
=============================================================================
