---------------------------- MODULE DurableQueue ----------------------------
(***************************************************************************)
(* One destination's store.Queue and the uploader that drains it.          *)
(*                                                                         *)
(* A batch is one WAL file named by its sequence and batch id; stats.json  *)
(* keeps the counters.  Every queue operation holds the queue's mutex and  *)
(* touches the directory several times: each touch is a step here, so that *)
(* a loss of power can fall between any two.  A directory change is        *)
(* durable once the directory is synced; of the changes since then each    *)
(* may or may not survive.  Every write of stats.json syncs the same       *)
(* directory.  The uploader holds no lock while its request is under way.  *)
(***************************************************************************)
EXTENDS Integers, FiniteSets, FiniteSetsExt

CONSTANTS
  Batches,      \* batch ids (idempotency keys) the producers enqueue
  Size,         \* batch -> payload bytes
  MaxBytes,     \* Policy.MaxBytes
  DropOldest,   \* Policy.DropOldest, which only telemetry queues may set
  Delayed,      \* the queue is an audit queue: AuditEnqueueDelay applies
  MaxSeq,       \* bound on sequence numbers drawn
  MaxCrashes,   \* bound on losses of power
  MaxFaults,    \* bound on failed file operations
  MaxDenials,   \* bound on 401 and 403 answers
  MaxEpoch      \* bound on credential rotations

ASSUME QueueAssumption ==
  /\ Size \in [Batches -> Nat \ {0}] /\ MaxBytes \in Nat \ {0}
  /\ DropOldest \in BOOLEAN /\ Delayed \in BOOLEAN /\ ~(DropOldest /\ Delayed)
  /\ MaxSeq \in Nat /\ MaxCrashes \in Nat /\ MaxFaults \in Nat
  /\ MaxDenials \in Nat /\ MaxEpoch \in Nat

VARIABLES
  files,        \* the WAL files now in the directory
  synced,       \* the WAL files of the directory as last synced
  statsFile,    \* stats.json: next sequence and drop counter
  dead,         \* batches in .dead-letter
  mem,          \* q.items: batch -> its sequence, 0 when absent
  waiting,      \* batches whose next attempt is not due
  stats,        \* q.stats: next sequence, drop counter
  pending,      \* q.stats.PendingBytes
  op,           \* the operation holding the mutex
  up,           \* the uploader's delivery in progress
  blocked,      \* the uploader's authentication circuit breaker
  epoch,        \* the credential epoch installed
  server,       \* batches the destination has accepted
  accepted,     \* batches whose Enqueue returned no error
  acked,        \* batches acknowledged and not written again since
  crashes, faults, denials

diskVars == <<files, synced, statsFile, dead>>
memVars == <<mem, waiting, stats, pending>>
uploadVars == <<up, blocked, epoch>>
ghostVars == <<server, accepted, acked>>
boundVars == <<crashes, faults, denials>>
vars == <<diskVars, memVars, op, uploadVars, ghostVars, boundVars>>

Wals == [seq : Nat \ {0}, batch : Batches]
Wal(b) == [seq |-> mem[b], batch |-> b]
Free == [kind |-> "free", batch |-> "none"]
IdleUpload == [step |-> "idle", batch |-> "none", epoch |-> 0]
Doing(kind, b) == [kind |-> kind, batch |-> b]
Pending == {b \in Batches : mem[b] # 0}
Oldest == {b \in Pending : \A d \in Pending : mem[b] <= mem[d]}

Init ==
  /\ files = {} /\ synced = {} /\ statsFile = [next |-> 0, dropped |-> 0] /\ dead = {}
  /\ mem = [b \in Batches |-> 0] /\ waiting = {}
  /\ stats = [next |-> 0, dropped |-> 0] /\ pending = 0
  /\ op = Free /\ up = IdleUpload /\ blocked = FALSE /\ epoch = 0
  /\ server = {} /\ accepted = {} /\ acked = {}
  /\ crashes = 0 /\ faults = 0 /\ denials = 0

Fault == faults < MaxFaults /\ faults' = faults + 1

\* A directory sync, and the write of stats.json that follows it.
SyncAndSave == synced' = files /\ statsFile' = stats'
Forget(b) ==
  /\ mem' = [mem EXCEPT ![b] = 0] /\ waiting' = waiting \ {b}
  /\ pending' = pending - Size[b]

-----------------------------------------------------------------------------
(* Enqueue(b), called by a producer.                                       *)

\* Slip in makeCapacity's over(): the new payload is not counted.
OverLoose(b) == pending > MaxBytes
\* makeCapacity's over().
Over(b) == pending + Size[b] > MaxBytes

\* A pending batch id is a duplicate, and the call succeeds at once.
EnqueueKnown(b) ==
  /\ op = Free /\ mem[b] # 0
  /\ accepted' = accepted \cup {b}
  /\ UNCHANGED <<diskVars, memVars, op, uploadVars, server, acked, boundVars>>

\* Over capacity without an eviction policy is ErrCapacity: no step.
EnqueueBegin(b) ==
  /\ op = Free /\ mem[b] = 0 /\ stats.next < MaxSeq
  /\ Over(b) => DropOldest
  /\ op' = Doing(IF Over(b) THEN "evict" ELSE "write", b)
  /\ UNCHANGED <<diskVars, memVars, uploadVars, ghostVars, boundVars>>

EvictOldest ==
  /\ op.kind = "evict" /\ Over(op.batch)
  /\ \E old \in Oldest :
       /\ Wal(old) \in files
       /\ files' = files \ {Wal(old)} /\ Forget(old)
  /\ stats' = [stats EXCEPT !.dropped = @ + 1]
  /\ UNCHANGED <<synced, statsFile, dead, op, uploadVars, ghostVars, boundVars>>

\* The oldest file is already gone, or nothing is left to evict.
EvictRefused ==
  /\ op.kind = "evict" /\ Over(op.batch)
  /\ Pending = {} \/ \E old \in Oldest : Wal(old) \notin files
  /\ op' = Free
  /\ UNCHANGED <<diskVars, memVars, uploadVars, ghostVars, boundVars>>

\* Slip in makeCapacity: the drop counters stay in memory.
EvictDoneUnsaved ==
  /\ op.kind = "evict" /\ ~Over(op.batch)
  /\ synced' = files /\ op' = [op EXCEPT !.kind = "write"]
  /\ UNCHANGED <<files, statsFile, dead, memVars, uploadVars, ghostVars, boundVars>>

EvictDone ==
  /\ op.kind = "evict" /\ ~Over(op.batch)
  /\ UNCHANGED memVars /\ SyncAndSave
  /\ op' = [op EXCEPT !.kind = "write"]
  /\ UNCHANGED <<files, dead, uploadVars, ghostVars, boundVars>>

\* A remove, the sync or the stats write fails.
EvictFault ==
  /\ op.kind = "evict" /\ Fault /\ op' = Free
  /\ ~Over(op.batch) => synced' \in {synced, files} /\ statsFile' \in {statsFile, stats}
  /\ Over(op.batch) => UNCHANGED <<synced, statsFile>>
  /\ UNCHANGED <<files, dead, memVars, uploadVars, ghostVars, crashes, denials>>

NewWal(b) == [seq |-> stats.next + 1, batch |-> b]

\* The rename of writeItem.
WriteItem ==
  LET b == op.batch IN
  /\ op.kind = "write"
  /\ files' = files \cup {NewWal(b)}
  /\ op' = [op EXCEPT !.kind = "written"] /\ acked' = acked \ {b}
  /\ UNCHANGED <<synced, statsFile, dead, memVars, uploadVars, server, accepted, boundVars>>

\* The rest of Enqueue: the item is durable, then in memory, then counted.
Admit(b) ==
  /\ stats' = [stats EXCEPT !.next = @ + 1]
  /\ mem' = [mem EXCEPT ![b] = stats.next + 1]
  /\ waiting' = IF Delayed THEN waiting \cup {b} ELSE waiting
  /\ pending' = pending + Size[b]

CommitItem ==
  LET b == op.batch IN
  /\ op.kind = "written" /\ op' = Free
  /\ Admit(b) /\ SyncAndSave
  /\ accepted' = accepted \cup {b}
  /\ UNCHANGED <<files, dead, uploadVars, server, acked, boundVars>>

\* writeItem fails before its rename, or at the sync after it, and the
\* sequence is taken back; or the stats write fails with the item admitted.
WriteFault ==
  /\ Fault /\ op' = Free
  /\ \/ /\ op.kind = "write" /\ UNCHANGED <<synced, statsFile, memVars>>
     \/ /\ op.kind = "written" /\ UNCHANGED <<synced, statsFile, memVars>>
     \/ /\ op.kind = "written" /\ Admit(op.batch)
        /\ synced' = files /\ statsFile' \in {statsFile, stats'}
  /\ UNCHANGED <<files, dead, uploadVars, ghostVars, crashes, denials>>

-----------------------------------------------------------------------------
(* DeliverOne: Next, one request, then Ack, Nack or Quarantine.            *)

\* Next picks the oldest due batch; a blocked uploader sends nothing.
Pick ==
  /\ op = Free /\ up.step = "idle" /\ ~blocked
  /\ \E b \in Pending \ waiting :
       /\ \A d \in Pending \ waiting : mem[b] <= mem[d]
       /\ up' = [step |-> "sending", batch |-> b, epoch |-> epoch]
  /\ UNCHANGED <<diskVars, memVars, op, blocked, epoch, ghostVars, boundVars>>

\* A 2xx answer, or 409 with the unambiguous code DUPLICATE.
Delivered ==
  /\ up.step = "sending"
  /\ server' = server \cup {up.batch} /\ up' = [up EXCEPT !.step = "ack"]
  /\ UNCHANGED <<diskVars, memVars, op, blocked, epoch, accepted, acked, boundVars>>

\* No answer, or a retryable one: the server may have taken the batch.
Undelivered ==
  /\ up.step = "sending"
  /\ server' \in {server, server \cup {up.batch}} /\ up' = [up EXCEPT !.step = "nack"]
  /\ UNCHANGED <<diskVars, memVars, op, blocked, epoch, accepted, acked, boundVars>>

\* Slip in DeliverOne: a rejection is retried like an outage.
RejectedRetries ==
  /\ up.step = "sending" /\ up' = [up EXCEPT !.step = "nack"]
  /\ UNCHANGED <<diskVars, memVars, op, blocked, epoch, ghostVars, boundVars>>

\* Any other answer, or a payload above the request limits.
Rejected ==
  /\ up.step = "sending" /\ up' = [up EXCEPT !.step = "reject"]
  /\ UNCHANGED <<diskVars, memVars, op, blocked, epoch, ghostVars, boundVars>>

\* 401 or 403: blockAuthentication, and the batch is left alone.
Denied ==
  /\ up.step = "sending" /\ denials < MaxDenials /\ denials' = denials + 1
  /\ blocked' = TRUE /\ up' = IdleUpload
  /\ UNCHANGED <<diskVars, memVars, op, epoch, ghostVars, crashes, faults>>

RotateCredentials ==
  /\ epoch < MaxEpoch /\ epoch' = epoch + 1 /\ blocked' = FALSE
  /\ UNCHANGED <<diskVars, memVars, op, up, ghostVars, boundVars>>

\* Ack, Nack or Quarantine of a batch that was evicted meanwhile.
UploadMoot ==
  /\ op = Free /\ up.step \in {"ack", "nack", "reject"} /\ mem[up.batch] = 0
  /\ up' = IdleUpload
  /\ UNCHANGED <<diskVars, memVars, op, blocked, epoch, ghostVars, boundVars>>

Settling(step) == op = Free /\ up.step = step /\ mem[up.batch] # 0

Nack ==
  /\ Settling("nack")
  /\ waiting' = waiting \cup {up.batch}
  /\ files' = files \cup {Wal(up.batch)} /\ synced' = files' /\ up' = IdleUpload
  /\ UNCHANGED <<statsFile, dead, mem, stats, pending, op, blocked, epoch,
                 ghostVars, boundVars>>

\* Ack starts with the removal of the file, Quarantine with the dead letter.
AckBegin ==
  /\ Settling("ack")
  /\ files' = files \ {Wal(up.batch)} /\ op' = Doing("ack", up.batch)
  /\ UNCHANGED <<synced, statsFile, dead, memVars, uploadVars, ghostVars, boundVars>>

\* Slip in Quarantine: the WAL file is removed without a dead letter.
QuarantineBeginUnsaved ==
  /\ Settling("reject")
  /\ op' = Doing("quarantine", up.batch)
  /\ UNCHANGED <<diskVars, memVars, uploadVars, ghostVars, boundVars>>

QuarantineBegin ==
  /\ Settling("reject")
  /\ dead' = dead \cup {up.batch} /\ op' = Doing("quarantine", up.batch)
  /\ UNCHANGED <<files, synced, statsFile, memVars, uploadVars, ghostVars, boundVars>>

QuarantineRemove ==
  /\ op.kind = "quarantine"
  /\ files' = files \ {Wal(op.batch)} /\ op' = [op EXCEPT !.kind = "quarantined"]
  /\ UNCHANGED <<synced, statsFile, dead, memVars, uploadVars, ghostVars, boundVars>>

\* Slip in Ack: the removal is not synced.
SettleUnsynced ==
  /\ op.kind \in {"ack", "quarantined"}
  /\ Forget(op.batch) /\ UNCHANGED <<stats, synced, statsFile>>
  /\ acked' = IF op.kind = "ack" THEN acked \cup {op.batch} ELSE acked
  /\ op' = Free /\ up' = IdleUpload
  /\ UNCHANGED <<files, dead, blocked, epoch, server, accepted, boundVars>>

\* The end of Ack and Quarantine: sync, forget the item, save the counters.
Settle ==
  /\ op.kind \in {"ack", "quarantined"}
  /\ Forget(op.batch) /\ UNCHANGED stats /\ SyncAndSave
  /\ acked' = IF op.kind = "ack" THEN acked \cup {op.batch} ELSE acked
  /\ op' = Free /\ up' = IdleUpload
  /\ UNCHANGED <<files, dead, blocked, epoch, server, accepted, boundVars>>

\* A step of Ack, Nack or Quarantine fails, before or after it took effect;
\* a failed stats write comes after the item was forgotten.
SettleFault ==
  /\ Fault /\ up' = IdleUpload /\ op' = Free
  /\ \/ /\ op = Free /\ up.step \in {"ack", "nack", "reject"} /\ mem[up.batch] # 0
        /\ \/ UNCHANGED <<files, dead>>
           \/ up.step = "nack" /\ files' = files \cup {Wal(up.batch)} /\ UNCHANGED dead
           \/ up.step = "reject" /\ dead' = dead \cup {up.batch} /\ UNCHANGED files
        /\ UNCHANGED <<synced, statsFile, memVars>>
     \/ /\ op.kind \in {"ack", "quarantine", "quarantined"}
        /\ UNCHANGED <<files, synced, statsFile, dead, memVars>>
     \/ /\ op.kind \in {"ack", "quarantined"}
        /\ Forget(op.batch) /\ UNCHANGED <<stats, files, dead>>
        /\ synced' = files /\ statsFile' \in {statsFile, stats'}
  /\ UNCHANGED <<blocked, epoch, ghostVars, crashes, denials>>

\* The next attempt of a batch becomes due.
TimePasses(b) ==
  /\ b \in waiting /\ waiting' = waiting \ {b}
  /\ UNCHANGED <<diskVars, mem, stats, pending, op, uploadVars, ghostVars, boundVars>>

-----------------------------------------------------------------------------
(* Loss of power, and Open's load() on restart.                            *)

SeqsOf(dir, b) == {f.seq : f \in {g \in dir : g.batch = b}}
\* Slip in load: the next sequence is read from stats.json alone.
LoadedNextSaved(dir) == statsFile.next
LoadedNext(dir) == Max({statsFile.next} \cup {f.seq : f \in dir})
\* Slip in load: pending bytes go on from the last process.
LoadedBytesKept(dir) == pending + MapThenSumSet(LAMBDA f : Size[f.batch], dir)
LoadedBytes(dir) == MapThenSumSet(LAMBDA f : Size[f.batch], dir)

\* The directory is read in name order, so the highest sequence of a batch
\* id is the one kept in memory; load ends with a write of stats.json.
Load(dir) ==
  /\ files' = dir /\ synced' = dir
  /\ mem' = [b \in Batches |-> Max({0} \cup SeqsOf(dir, b))]
  /\ waiting' = waiting \cap {f.batch : f \in dir}
  /\ stats' = [next |-> LoadedNext(dir), dropped |-> statsFile.dropped]
  /\ pending' = LoadedBytes(dir)
  /\ statsFile' = stats'

Crash ==
  /\ crashes < MaxCrashes /\ crashes' = crashes + 1
  /\ \E kept \in SUBSET ((files \ synced) \cup (synced \ files)) :
       Load((files \cap synced) \cup kept)
  /\ op' = Free /\ up' = IdleUpload /\ blocked' = FALSE
  /\ UNCHANGED <<dead, epoch, ghostVars, faults, denials>>

-----------------------------------------------------------------------------
Enqueue == \/ \E b \in Batches : EnqueueKnown(b) \/ EnqueueBegin(b)
           \/ EvictOldest \/ EvictRefused \/ EvictDone \/ WriteItem \/ CommitItem
Answer == Delivered \/ Undelivered \/ Rejected \/ Denied
Deliver == \/ Pick \/ Answer \/ UploadMoot \/ Nack \/ AckBegin
           \/ QuarantineBegin \/ QuarantineRemove \/ Settle

Next ==
  \/ Enqueue \/ EvictFault \/ WriteFault
  \/ Deliver \/ SettleFault \/ RotateCredentials
  \/ \E b \in Batches : TimePasses(b)
  \/ Crash

Spec == Init /\ [][Next]_vars

\* An operation that holds the mutex runs on, deliveryLoop ticks, time
\* passes, and a destination asked again and again answers for good.
Fairness ==
  /\ WF_vars(EvictOldest \/ EvictRefused \/ EvictDone \/ WriteItem \/ CommitItem)
  /\ WF_vars(Deliver) /\ SF_vars(Delivered \/ Rejected)
  /\ \A b \in Batches : WF_vars(TimePasses(b))

FairSpec == Spec /\ Fairness

-----------------------------------------------------------------------------
(* Properties                                                              *)

OpKinds == {"evict", "write", "written", "ack", "quarantine", "quarantined"}
UploadSteps == {"sending", "ack", "nack", "reject"}

\* The shape of the state; part of RebuiltExactly.
Counters == [next : Nat, dropped : Nat]
TypeOK ==
  /\ files \subseteq Wals /\ synced \subseteq Wals /\ dead \subseteq Batches
  /\ statsFile \in Counters /\ stats \in Counters
  /\ mem \in [Batches -> Nat] /\ waiting \subseteq Batches
  /\ op = Free \/ op \in [kind : OpKinds, batch : Batches]
  /\ up = IdleUpload \/ up \in [step : UploadSteps, batch : Batches, epoch : Nat]
  /\ blocked \in BOOLEAN /\ epoch \in Nat
  /\ server \subseteq Batches /\ accepted \subseteq Batches /\ acked \subseteq Batches

\* The batch is at its destination, in a dead letter, or in a WAL file that
\* survives a loss of power.
Kept(b) == b \in server \cup dead \cup {f.batch : f \in synced}

\* A queue that may not evict (metering, audit, receipts, lifecycle) never
\* loses a batch it took, whatever fails and whenever power is lost.
NoLoss == ~DropOldest => \A b \in accepted : Kept(b)

\* In a queue that may not evict, while no file operation fails, what a
\* restart rebuilds from the directory is what was there: an acknowledged
\* batch is gone for good, the bytes makeCapacity counts are those of the
\* batches in memory, so no capacity is lost and none is invented, and no two
\* files share a sequence, so the oldest is well defined (load, removeItem,
\* makeCapacity).
RebuiltExactly ==
  /\ TypeOK
  /\ ~DropOldest /\ faults = 0 =>
       /\ \A b \in acked : b \notin {f.batch : f \in files \cup synced}
       /\ op = Free => pending = MapThenSumSet(LAMBDA b : Size[b], Pending)
       /\ \A f, g \in files : f.seq = g.seq => f = g

\* Without a restart the batches in memory stay within the byte budget,
\* although evictions, writes and removals may fail half way.
WithinBudget == crashes = 0 => MapThenSumSet(LAMBDA b : Size[b], Pending) <= MaxBytes

\* "The drop counters are an observable telemetry-loss signal, not merely
\* in-memory diagnostics. Persist them before accepting the replacement
\* item" (makeCapacity): while power holds and no write fails, outside the
\* eviction itself the saved counter accounts for every batch that was taken and lost.
LossIsCounted ==
  faults = 0 /\ crashes = 0 /\ op.kind # "evict" => Cardinality({b \in accepted : ~Kept(b)}) <= statsFile.dropped

\* A batch that was taken reaches its destination or the dead letters, unless
\* the destination has denied the credentials and none newer are installed.
AcceptedIsSettled ==
  \A b \in Batches : b \in accepted ~> b \in server \cup dead \/ blocked

-----------------------------------------------------------------------------
(* What NoLoss rests on, for a queue that may not evict.                   *)

Named(dir) == {f.batch : f \in dir}

\* The uploader and the operation in progress name a batch.
OpShape == op = Free \/ op \in [kind : OpKinds \ {"evict"}, batch : Batches]
UploadShape ==
  /\ up = IdleUpload \/ up \in [step : UploadSteps, batch : Batches, epoch : Nat]
  /\ epoch \in Nat
MemShape == mem = [b \in Batches |-> mem[b]]

\* What is in memory could be returned as a known batch, so it is kept.
MemKept == \A b \in Batches : mem[b] # 0 => Kept(b)

\* A file whose removal is not yet synced is no longer needed.
RemovedSettled == \A f \in synced \ files : f.batch \in server \cup dead

\* Ack follows the server's acceptance and a removal follows the dead
\* letter; a written batch has its file until it is committed.
UploadEarned == up.step = "ack" => up.batch \in server
OpEarned ==
  /\ op.kind = "ack" => op.batch \in server
  /\ op.kind \in {"quarantine", "quarantined"} => op.batch \in dead
  /\ op.kind = "written" => op.batch \in Named(files)

\* The inductive invariant of NoLoss.
Keeping ==
  ~DropOldest =>
    /\ OpShape /\ UploadShape /\ MemShape
    /\ \A b \in accepted : Kept(b)
    /\ MemKept /\ RemovedSettled /\ UploadEarned /\ OpEarned
=============================================================================
