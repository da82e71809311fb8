------------------------------ MODULE Metering ------------------------------
(***************************************************************************)
(* meter.Manager: cumulative counters of guests turned into usage batches. *)
(*                                                                         *)
(* Observe writes a transaction file (the batch and the state after it),   *)
(* enqueues the batch, writes the state file and removes the transaction;  *)
(* Recover, at start and before every Observe, finishes an interrupted     *)
(* one.  The two files share a directory: a change is durable once the     *)
(* directory is synced, and of later changes each may survive a crash.     *)
(***************************************************************************)
EXTENDS Integers, FiniteSets

CONSTANTS
  Snapshots,    \* what a collection may show: a set of samples, one per counter
  Capacity,     \* batches the metering queue can hold
  MaxBatches    \* bound on the batch sequence

VARIABLES
  meterDir,     \* the meter directory as it is: state file, transaction file
  meterSynced,  \* the meter directory as last synced
  meterMem,     \* Manager.state
  meterOp,      \* the call in progress: its step, and what comes then
  meterQueue,   \* batches in the website-metering queue
  usage,        \* every batch that was ever in that queue
  meterIds      \* random batch identifiers drawn so far

meterDisk == <<meterDir, meterSynced>>
meterVars == <<meterDisk, meterMem, meterOp, meterQueue, usage, meterIds>>

\* A sample is a counter key, the identity it belongs to and its value: keys
\* are numbered in the order Observe walks them, and the identity stands for
\* service, instance, generation, MAC and source.
Samples == UNION Snapshots
Keys == {s.key : s \in Samples}
Identities == {s.identity : s \in Samples}

\* A collection shows finitely many counters, each once.
ASSUME SnapshotsAssumption ==
  \A snapshot \in Snapshots :
    /\ IsFiniteSet(snapshot)
    /\ \A s \in snapshot : s.key \in Nat /\ s.value \in Nat /\ s.identity # "none"
    /\ \A s, t \in snapshot : s.key = t.key => s = t

\* An epoch is a random identifier, named here by the batch and key it was
\* drawn for.
Epochs == Nat \X Keys
NoCounter == [identity |-> "none", epoch |-> <<0, 0>>, value |-> 0]
Counters == [identity : Identities, epoch : Epochs, value : Nat] \cup {NoCounter}
Records == [event : Nat, key : Keys, identity : Identities, epoch : Epochs, value : Nat]
Batches == [id : Nat, seq : Nat, events : SUBSET Records]
States == [seq : Nat, events : Nat, counters : [Keys -> Counters]]
NoTxn == [batch |-> "none"]
Transactions == [batch : Batches, state : States] \cup {NoTxn}
Idle == [pc |-> "idle", next |-> "return"]

NewState == [seq |-> 0, events |-> 0, counters |-> [k \in Keys |-> NoCounter]]

MeterInit ==
  /\ meterDir = [state |-> NewState, txn |-> NoTxn] /\ meterSynced = meterDir
  /\ meterMem = NewState /\ meterOp = Idle
  /\ meterQueue = {} /\ usage = {} /\ meterIds = 0

MeterStep(pc) == meterOp' = [meterOp EXCEPT !.pc = pc]
\* The call returns, with an error when it failed.
MeterReturns == meterOp' = Idle
MeterError == MeterStep("failed")

-----------------------------------------------------------------------------
\* recoverLocked, before a snapshot is looked at or at start: a pending
\* transaction is finished first.
MeterBegin(next) ==
  /\ meterOp.pc = "idle"
  /\ meterOp' = IF meterDir.txn # NoTxn THEN [pc |-> "enqueue", next |-> next]
                ELSE IF next = "observe" THEN [pc |-> "observe", next |-> "return"]
                ELSE Idle
  /\ UNCHANGED <<meterDisk, meterMem, meterQueue, usage, meterIds>>

\* Slip in appendUsageRecord: a counter that fell stays in its epoch.
RotatesUnlessReset(previous, sample) == previous.identity # sample.identity

\* appendUsageRecord: a new epoch for a new, changed or reset counter.
Rotates(previous, sample) ==
  previous.identity # sample.identity \/ sample.value < previous.value

EpochOf(sample) ==
  LET previous == meterMem.counters[sample.key]
  IN IF Rotates(previous, sample) THEN <<meterIds + 1, sample.key>> ELSE previous.epoch

\* The record of one sample of a snapshot; events are numbered in key order.
UsageEvent(snapshot, sample) ==
  [event |-> meterMem.events + Cardinality({s \in snapshot : s.key <= sample.key}),
   key |-> sample.key, identity |-> sample.identity,
   epoch |-> EpochOf(sample), value |-> sample.value]

\* The batch of a snapshot, and the state after it.
Transaction(snapshot) ==
  [batch |-> [id |-> meterIds + 1, seq |-> meterMem.seq + 1,
              events |-> {UsageEvent(snapshot, s) : s \in snapshot}],
   state |-> [seq |-> meterMem.seq + 1, events |-> meterMem.events + Cardinality(snapshot),
              counters |-> [k \in Keys |->
                IF \E s \in snapshot : s.key = k
                THEN LET sample == CHOOSE s \in snapshot : s.key = k
                     IN [identity |-> sample.identity, epoch |-> EpochOf(sample),
                         value |-> sample.value]
                ELSE meterMem.counters[k]]]]

\* Slip in Observe: the state file is written before the batch is queued.
WriteTxnAndState(snapshot) ==
  /\ meterOp.pc = "observe" /\ meterMem.seq < MaxBatches
  /\ meterDir' = [txn |-> Transaction(snapshot), state |-> Transaction(snapshot).state]
  /\ meterSynced' = meterDir' /\ meterIds' = meterIds + 1 /\ MeterStep("enqueue")
  /\ UNCHANGED <<meterMem, meterQueue, usage>>

\* The transaction file is written, renamed and synced.
WriteTxn(snapshot) ==
  /\ meterOp.pc = "observe" /\ meterMem.seq < MaxBatches
  /\ meterDir' = [meterDir EXCEPT !.txn = Transaction(snapshot)] /\ meterSynced' = meterDir'
  /\ meterIds' = meterIds + 1 /\ MeterStep("enqueue")
  /\ UNCHANGED <<meterMem, meterQueue, usage>>

\* No guest is mapped and metered, or no counter is available.
NothingToMeter ==
  /\ meterOp.pc = "observe" /\ MeterReturns
  /\ UNCHANGED <<meterDisk, meterMem, meterQueue, usage, meterIds>>

HasRoom(batch) == batch \in meterQueue \/ Cardinality(meterQueue) < Capacity

EnqueueBatch ==
  LET batch == meterDir.txn.batch IN
  /\ meterOp.pc = "enqueue" /\ HasRoom(batch)
  /\ meterQueue' = meterQueue \cup {batch} /\ usage' = usage \cup {batch}
  /\ MeterStep("save")
  /\ UNCHANGED <<meterDisk, meterMem, meterIds>>

\* ErrCapacity: the transaction stays for the next Recover.
EnqueueRefused ==
  /\ meterOp.pc = "enqueue" /\ ~HasRoom(meterDir.txn.batch) /\ MeterError
  /\ UNCHANGED <<meterDisk, meterMem, meterQueue, usage, meterIds>>

\* Slip in Observe: the state file is not written.
SaveStateSkipped ==
  /\ meterOp.pc = "save" /\ MeterStep("remove")
  /\ meterMem' = meterDir.txn.state
  /\ UNCHANGED <<meterDisk, meterQueue, usage, meterIds>>

SaveState ==
  /\ meterOp.pc = "save" /\ MeterStep("remove")
  /\ meterDir' = [meterDir EXCEPT !.state = meterDir.txn.state]
  /\ meterSynced' = meterDir' /\ meterMem' = meterDir.txn.state
  /\ UNCHANGED <<meterQueue, usage, meterIds>>

\* The transaction is removed and the directory synced; after a recovery
\* Observe goes on to the snapshot.
RemoveTxn ==
  /\ meterOp.pc = "remove"
  /\ meterDir' = [meterDir EXCEPT !.txn = NoTxn] /\ meterSynced' = meterDir'
  /\ meterOp' = IF meterOp.next = "observe" THEN [pc |-> "observe", next |-> "return"] ELSE Idle
  /\ UNCHANGED <<meterMem, meterQueue, usage, meterIds>>

\* A file operation fails, before it took effect or at the sync after it.
MeterFault ==
  /\ meterOp.pc \notin {"idle", "failed"} /\ MeterError
  /\ UNCHANGED <<meterSynced, meterMem>>
  /\ \/ UNCHANGED <<meterDir, meterQueue, usage, meterIds>>
     \/ /\ meterOp.pc = "observe" /\ meterMem.seq < MaxBatches
        /\ \E snapshot \in Snapshots : meterDir' = [meterDir EXCEPT !.txn = Transaction(snapshot)]
        /\ meterIds' = meterIds + 1 /\ UNCHANGED <<meterQueue, usage>>
     \/ /\ meterOp.pc = "enqueue" /\ HasRoom(meterDir.txn.batch)
        /\ meterQueue' = meterQueue \cup {meterDir.txn.batch}
        /\ usage' = usage \cup {meterDir.txn.batch} /\ UNCHANGED <<meterDir, meterIds>>
     \/ /\ meterOp.pc = "save" /\ meterDir' = [meterDir EXCEPT !.state = meterDir.txn.state]
        /\ UNCHANGED <<meterQueue, usage, meterIds>>
     \/ /\ meterOp.pc = "remove" /\ meterDir' = [meterDir EXCEPT !.txn = NoTxn]
        /\ UNCHANGED <<meterQueue, usage, meterIds>>

MeterWork ==
  \/ \E snapshot \in Snapshots : WriteTxn(snapshot)
  \/ NothingToMeter \/ EnqueueBatch \/ EnqueueRefused \/ SaveState \/ RemoveTxn

\* The uploader's Ack of a batch the website took.
DeliverBatch ==
  /\ \E batch \in meterQueue : meterQueue' = meterQueue \ {batch}
  /\ UNCHANGED <<meterDisk, meterMem, meterOp, usage, meterIds>>

\* The process is lost, and power with it; load() reads the state file.
MeterCrash ==
  /\ \E s \in {meterDir.state, meterSynced.state}, t \in {meterDir.txn, meterSynced.txn} :
       meterDir' = [state |-> s, txn |-> t]
  /\ meterSynced' = meterDir' /\ meterMem' = meterDir'.state /\ meterOp' = Idle
  /\ UNCHANGED <<meterQueue, usage, meterIds>>
=============================================================================
