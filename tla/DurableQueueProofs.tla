------------------------- MODULE DurableQueueProofs -------------------------
(***************************************************************************)
(* For every set of batches, every size, and any number of crashes and     *)
(* failed operations: a queue that may not evict loses no batch it took    *)
(* and rebuilds exactly what was there, one that may evict counts what it  *)
(* lost, and the batches in memory stay within the byte budget.            *)
(***************************************************************************)
EXTENDS DurableQueue, TLAPS, FiniteSetTheorems, WellFoundedInduction

\* The part of the invariant that concerns a non-evicting queue.
Safe ==
  /\ OpShape /\ UploadShape /\ MemShape
  /\ \A b \in accepted : Kept(b)
  /\ MemKept /\ RemovedSettled /\ UploadEarned /\ OpEarned

\* Batches with no WAL file left are absent after load.
LEMMA LoadedAbsent ==
  ASSUME NEW dir, NEW b, b \notin Named(dir)
  PROVE  Max({0} \cup SeqsOf(dir, b)) = 0
<1>1. SeqsOf(dir, b) = {} BY DEF SeqsOf, Named
<1>2. {0} \cup SeqsOf(dir, b) = {0} BY <1>1
<1>3. Max({0}) = CHOOSE x \in {0} : \A y \in {0} : x >= y BY Zenon DEF Max
<1>4. \A x \in {0} : x = 0 OBVIOUS
<1>5. 0 \in {0} /\ \A y \in {0} : 0 >= y OBVIOUS
<1>6. (CHOOSE x \in {0} : \A y \in {0} : x >= y) \in {0} BY <1>5
<1> QED BY <1>2, <1>3, <1>4, <1>6

\* A sync drops only files whose batches are settled.
LEMMA SyncKeeps ==
  ASSUME RemovedSettled, NEW b, Kept(b)
  PROVE  b \in server \cup dead \cup Named(files)
BY DEF RemovedSettled, Kept, Named

\* A step that only adds to what is kept, and keeps or settles every file.
LEMMA KeptGrows ==
  ASSUME server \subseteq server', dead \subseteq dead', synced \subseteq synced',
         NEW b, Kept(b)
  PROVE  Kept(b)'
BY DEF Kept

\* A step that syncs the directory.
LEMMA KeptSynced ==
  ASSUME RemovedSettled, server \subseteq server', dead \subseteq dead',
         files \subseteq synced', NEW b, Kept(b)
  PROVE  Kept(b)'
BY SyncKeeps DEF Kept, Named

\* What a step must show to keep Safe.
LEMMA SafeStep ==
  ASSUME Safe, \A b : Kept(b) => Kept(b)',
         \A b \in accepted' : b \in accepted \/ Kept(b)',
         MemShape', \A b \in Batches : mem'[b] # 0 => mem[b] # 0 \/ Kept(b)',
         RemovedSettled', OpShape', UploadShape', UploadEarned', OpEarned'
  PROVE  Safe'
<1>1. \A b \in accepted' : Kept(b)' BY DEF Safe
<1>2. MemKept' BY DEF Safe, MemKept
<1> QED BY <1>1, <1>2 DEF Safe

\* Steps that leave the directory, the dead letters and the memory alone.
LEMMA StillSafe ==
  ASSUME Safe, UNCHANGED <<files, synced, dead, mem>>, server \subseteq server',
         \A b \in accepted' : b \in accepted \/ Kept(b),
         OpShape', UploadShape', UploadEarned', OpEarned'
  PROVE  Safe'
<1>1. \A b : Kept(b) => Kept(b)' BY DEF Kept
<1>2. MemShape' /\ \A b \in Batches : mem'[b] = mem[b] BY DEF Safe, MemShape
<1>3. RemovedSettled' BY DEF Safe, RemovedSettled
<1> QED BY <1>1, <1>2, <1>3, SafeStep

-----------------------------------------------------------------------------
(* One lemma per group of actions.                                         *)

LEMMA EnqueueStarts ==
  ASSUME Safe, ~DropOldest, NEW b \in Batches, EnqueueKnown(b) \/ EnqueueBegin(b)
  PROVE  Safe'
<1>1. CASE EnqueueKnown(b)
  <2>1. UNCHANGED <<files, synced, dead, mem, server, op, up, epoch>>
    BY <1>1 DEF EnqueueKnown, diskVars, memVars, uploadVars
  <2>2. Kept(b) BY <1>1 DEF EnqueueKnown, Safe, MemKept
  <2>3. \A d \in accepted' : d \in accepted \/ Kept(d) BY <1>1, <2>2 DEF EnqueueKnown
  <2>4. OpShape' /\ UploadShape' /\ UploadEarned' /\ OpEarned'
    BY <2>1 DEF Safe, OpShape, UploadShape, UploadEarned, OpEarned
  <2> QED BY <2>1, <2>3, <2>4, StillSafe
<1>2. CASE EnqueueBegin(b)
  <2>1. UNCHANGED <<files, synced, dead, mem, server, up, epoch, accepted>>
    BY <1>2 DEF EnqueueBegin, diskVars, memVars, uploadVars, ghostVars
  <2>2. op' = Doing("write", b) BY <1>2 DEF EnqueueBegin
  <2>3. OpShape' /\ UploadShape' /\ UploadEarned' /\ OpEarned'
    BY <2>1, <2>2 DEF Safe, OpShape, UploadShape, UploadEarned, OpEarned, Doing, OpKinds
  <2> QED BY <2>1, <2>3, StillSafe
<1> QED BY <1>1, <1>2

\* The rename of a new WAL file.
LEMMA WriteItemSafe == ASSUME Safe, WriteItem PROVE Safe'
<1>1. UNCHANGED <<synced, dead, mem, server, up, epoch, accepted>>
  BY DEF WriteItem, memVars, uploadVars
<1>2. files' = files \cup {NewWal(op.batch)} /\ op.kind = "write" BY DEF WriteItem
<1>3. op \in [kind : OpKinds \ {"evict"}, batch : Batches] BY <1>2 DEF Safe, OpShape, Free
<1>4. op' = [op EXCEPT !.kind = "written"] BY DEF WriteItem
<1>5. op'.kind = "written" /\ op'.batch = op.batch BY <1>3, <1>4
<1>6. OpShape' BY <1>3, <1>4 DEF OpShape, OpKinds
<1>7. NewWal(op.batch).batch = op.batch BY DEF NewWal
<1>8. OpEarned' BY <1>2, <1>5, <1>7 DEF OpEarned, Named
<1>9. UploadShape' /\ UploadEarned' BY <1>1 DEF Safe, UploadShape, UploadEarned
<1>10. \A b : Kept(b) => Kept(b)' BY <1>1 DEF Kept
<1>11. RemovedSettled' BY <1>1, <1>2 DEF Safe, RemovedSettled
<1>12. MemShape' /\ \A b \in Batches : mem'[b] = mem[b] BY <1>1 DEF Safe, MemShape
<1> QED BY <1>1, <1>6, <1>8, <1>9, <1>10, <1>11, <1>12, SafeStep

\* The admission of a batch whose file is in the synced directory.
LEMMA AdmitSafe ==
  ASSUME Safe, op.kind = "written", op' = Free, Admit(op.batch),
         UNCHANGED <<files, dead, server, up, epoch>>, synced' = files,
         \A d \in accepted' : d \in accepted \/ d = op.batch
  PROVE  Safe'
<1>1. op.batch \in Batches BY DEF Safe, OpShape, Free
<1>2. \A b : b = op.batch => Kept(b)' BY DEF Safe, OpEarned, Kept, Named
<1>3. \A b : Kept(b) => Kept(b)' BY SyncKeeps DEF Safe, Kept, Named
<1>4. MemShape' /\ \A b \in Batches : mem'[b] # 0 => mem[b] # 0 \/ b = op.batch
  BY DEF Safe, MemShape, Admit
<1>5. RemovedSettled' BY DEF RemovedSettled
<1>6. OpShape' /\ OpEarned' BY DEF OpShape, OpEarned, Free
<1>7. UploadShape' /\ UploadEarned' BY DEF Safe, UploadShape, UploadEarned
<1> QED BY <1>2, <1>3, <1>4, <1>5, <1>6, <1>7, SafeStep

LEMMA CommitSafe == ASSUME Safe, CommitItem PROVE Safe'
<1>1. op.kind = "written" /\ op' = Free /\ Admit(op.batch) BY DEF CommitItem
<1>2. UNCHANGED <<files, dead, server, up, epoch>> /\ synced' = files
  BY DEF CommitItem, uploadVars, SyncAndSave
<1>3. \A d \in accepted' : d \in accepted \/ d = op.batch BY DEF CommitItem
<1> QED BY <1>1, <1>2, <1>3, AdmitSafe

LEMMA WriteFaultSafe == ASSUME Safe, WriteFault PROVE Safe'
<1>1. UNCHANGED <<files, dead, server, up, epoch, accepted>> /\ op' = Free
  BY DEF WriteFault, uploadVars, ghostVars
<1>2. CASE UNCHANGED <<synced, statsFile, memVars>>
  <2>1. UNCHANGED <<synced, mem>> BY <1>2 DEF memVars
  <2>2. OpShape' /\ OpEarned' BY <1>1 DEF OpShape, OpEarned, Free
  <2>3. UploadShape' /\ UploadEarned' BY <1>1 DEF Safe, UploadShape, UploadEarned
  <2> QED BY <1>1, <2>1, <2>2, <2>3, StillSafe
<1>3. CASE op.kind = "written" /\ Admit(op.batch) /\ synced' = files
  BY <1>1, <1>3, AdmitSafe
<1> QED BY <1>2, <1>3 DEF WriteFault

\* A queue that may not evict is never evicting.
LEMMA NoEviction ==
  ASSUME Safe PROVE op.kind # "evict"
BY DEF Safe, OpShape, Free

\* Picking a batch, and what the destination answers.
LEMMA ExchangeSafe ==
  ASSUME Safe, Pick \/ Answer \/ RotateCredentials \/ UploadMoot
  PROVE  Safe'
<1>1. UNCHANGED <<files, synced, dead, mem, op, accepted>>
  BY DEF Pick, Answer, Delivered, Undelivered, Rejected, Denied, RotateCredentials,
         UploadMoot, diskVars, memVars, ghostVars
<1>2. OpShape' /\ OpEarned' /\ server \subseteq server'
  BY <1>1 DEF Safe, OpShape, OpEarned, Pick, Answer, Delivered, Undelivered, Rejected,
         Denied, RotateCredentials, UploadMoot, ghostVars
<1>3. UploadShape' /\ UploadEarned'
  <2>1. CASE Pick BY <2>1 DEF Pick, Safe, UploadShape, UploadEarned, UploadSteps, Pending
  <2>2. CASE Delivered \/ Undelivered \/ Rejected
    <3>1. up \in [step : UploadSteps, batch : Batches, epoch : Nat]
      BY <2>2 DEF Safe, UploadShape, IdleUpload, Delivered, Undelivered, Rejected
    <3>2. PICK st \in {"ack", "nack", "reject"} : up' = [up EXCEPT !.step = st]
                                                /\ (st = "ack" => up.batch \in server')
      BY <2>2, <3>1 DEF Delivered, Undelivered, Rejected
    <3>3. epoch' = epoch BY <2>2 DEF Delivered, Undelivered, Rejected
    <3>4. up' \in [step : UploadSteps, batch : Batches, epoch : Nat]
      BY <3>1, <3>2 DEF UploadSteps
    <3>5. up'.step = st /\ up'.batch = up.batch BY <3>1, <3>2
    <3> QED BY <3>2, <3>3, <3>4, <3>5 DEF Safe, UploadShape, UploadEarned
  <2>3. CASE Denied \/ UploadMoot
    BY <2>3 DEF Denied, UploadMoot, Safe, UploadShape, UploadEarned, IdleUpload
  <2>4. CASE RotateCredentials
    BY <2>4 DEF RotateCredentials, ghostVars, Safe, UploadShape, UploadEarned
  <2> QED BY <2>1, <2>2, <2>3, <2>4 DEF Answer
<1> QED BY <1>1, <1>2, <1>3, StillSafe

\* The batch an upload ends with.
LEMMA SettlingBatch ==
  ASSUME Safe, up.step \in {"ack", "nack", "reject"}
  PROVE  up.batch \in Batches
BY DEF Safe, UploadShape, IdleUpload

\* The end of an operation or an upload.
LEMMA EndShapes ==
  ASSUME Safe, op' = Free, up' = IdleUpload, epoch' = epoch
  PROVE  OpShape' /\ OpEarned' /\ UploadShape' /\ UploadEarned'
BY DEF Safe, OpShape, OpEarned, UploadShape, UploadEarned, Free, IdleUpload

\* A WAL file is written again; the directory may be synced or not.
LEMMA RewriteSafe ==
  ASSUME Safe, op' = Free, up' = IdleUpload, UNCHANGED <<epoch, mem, dead, server, accepted>>,
         NEW f, files' = files \cup {f}, synced' \in {synced, files'}
  PROVE  Safe'
<1>1. \A b : Kept(b) => Kept(b)' BY SyncKeeps DEF Safe, Kept, Named
<1>2. RemovedSettled' BY DEF Safe, RemovedSettled
<1>3. MemShape' /\ \A b \in Batches : mem'[b] = mem[b] BY DEF Safe, MemShape
<1> QED BY <1>1, <1>2, <1>3, EndShapes, SafeStep

LEMMA NackSafe == ASSUME Safe, Nack PROVE Safe'
<1>1. op' = Free /\ up' = IdleUpload BY DEF Nack, Settling
<1>2. UNCHANGED <<epoch, mem, dead, server, accepted>> BY DEF Nack, ghostVars
<1>3. files' = files \cup {Wal(up.batch)} /\ synced' = files' BY DEF Nack
<1> QED BY <1>1, <1>2, <1>3, RewriteSafe

\* The removal of the file of a batch that is settled elsewhere.
LEMMA RemoveSafe ==
  ASSUME Safe, NEW b, b \in server \cup dead, files' = files \ {Wal(b)},
         UNCHANGED <<synced, mem, dead, server, accepted>>,
         OpShape', OpEarned', UploadShape', UploadEarned'
  PROVE  Safe'
<1>1. \A d : Kept(d) => Kept(d)' BY DEF Kept
<1>2. RemovedSettled' BY DEF Safe, RemovedSettled, Wal
<1>3. MemShape' /\ \A d \in Batches : mem'[d] = mem[d] BY DEF Safe, MemShape
<1> QED BY <1>1, <1>2, <1>3, SafeStep

LEMMA AckBeginSafe == ASSUME Safe, AckBegin PROVE Safe'
<1>1. UNCHANGED <<synced, mem, dead, server, accepted, up, epoch>>
  BY DEF AckBegin, memVars, uploadVars, ghostVars
<1>2. up.batch \in server /\ up.batch \in Batches
  BY SettlingBatch DEF AckBegin, Settling, Safe, UploadEarned
<1>3. op' = Doing("ack", up.batch) /\ files' = files \ {Wal(up.batch)} BY DEF AckBegin
<1>4. OpShape' /\ OpEarned' BY <1>1, <1>2, <1>3 DEF OpShape, OpEarned, Doing, OpKinds
<1>5. UploadShape' /\ UploadEarned' BY <1>1 DEF Safe, UploadShape, UploadEarned
<1> QED BY <1>1, <1>2, <1>3, <1>4, <1>5, RemoveSafe

LEMMA QuarantineBeginSafe == ASSUME Safe, QuarantineBegin PROVE Safe'
<1>1. UNCHANGED <<files, synced, mem, server, accepted, up, epoch>>
  BY DEF QuarantineBegin, memVars, uploadVars, ghostVars
<1>2. up.batch \in Batches BY SettlingBatch DEF QuarantineBegin, Settling
<1>3. op' = Doing("quarantine", up.batch) /\ dead' = dead \cup {up.batch}
  BY DEF QuarantineBegin
<1>4. OpShape' /\ OpEarned' BY <1>2, <1>3 DEF OpShape, OpEarned, Doing, OpKinds
<1>5. UploadShape' /\ UploadEarned' BY <1>1 DEF Safe, UploadShape, UploadEarned
<1>6. \A d : Kept(d) => Kept(d)' BY <1>1, <1>3 DEF Kept
<1>7. RemovedSettled' BY <1>1, <1>3 DEF Safe, RemovedSettled
<1>8. MemShape' /\ \A d \in Batches : mem'[d] = mem[d] BY <1>1 DEF Safe, MemShape
<1> QED BY <1>1, <1>4, <1>5, <1>6, <1>7, <1>8, SafeStep

LEMMA QuarantineRemoveSafe == ASSUME Safe, QuarantineRemove PROVE Safe'
<1>1. UNCHANGED <<synced, mem, dead, server, accepted, up, epoch>>
  BY DEF QuarantineRemove, memVars, uploadVars, ghostVars
<1>2. op.kind = "quarantine" /\ op.batch \in dead BY DEF QuarantineRemove, Safe, OpEarned
<1>3. op \in [kind : OpKinds \ {"evict"}, batch : Batches] BY <1>2 DEF Safe, OpShape, Free
<1>4. op' = [op EXCEPT !.kind = "quarantined"] /\ files' = files \ {Wal(op.batch)}
  BY DEF QuarantineRemove
<1>5. op'.kind = "quarantined" /\ op'.batch = op.batch BY <1>3, <1>4
<1>6. OpShape' BY <1>3, <1>4 DEF OpShape, OpKinds
<1>7. OpEarned' BY <1>1, <1>2, <1>5 DEF OpEarned
<1>8. UploadShape' /\ UploadEarned' BY <1>1 DEF Safe, UploadShape, UploadEarned
<1> QED BY <1>1, <1>2, <1>4, <1>6, <1>7, <1>8, RemoveSafe

\* The item leaves the memory with the directory synced.
LEMMA ForgetSafe ==
  ASSUME Safe, op.kind \in {"ack", "quarantined"}, Forget(op.batch), op' = Free,
         up' = IdleUpload, UNCHANGED <<files, epoch, dead, server, accepted>>, synced' = files
  PROVE  Safe'
<1>1. \A b : Kept(b) => Kept(b)' BY SyncKeeps DEF Safe, Kept, Named
<1>2. RemovedSettled' BY DEF RemovedSettled
<1>3. MemShape' /\ \A b \in Batches : mem'[b] # 0 => mem[b] # 0
  BY DEF Safe, MemShape, Forget
<1> QED BY <1>1, <1>2, <1>3, EndShapes, SafeStep

LEMMA SettleSafe == ASSUME Safe, Settle PROVE Safe'
<1>1. op.kind \in {"ack", "quarantined"} /\ Forget(op.batch) /\ op' = Free /\ up' = IdleUpload
  BY DEF Settle
<1>2. UNCHANGED <<files, epoch, dead, server, accepted>> /\ synced' = files
  BY DEF Settle, SyncAndSave
<1> QED BY <1>1, <1>2, ForgetSafe

LEMMA SettleFaultSafe == ASSUME Safe, SettleFault PROVE Safe'
<1>1. op' = Free /\ up' = IdleUpload /\ UNCHANGED <<epoch, server, accepted>>
  BY DEF SettleFault, ghostVars
<1>2. CASE UNCHANGED <<files, synced, mem, dead>>
  BY <1>1, <1>2, EndShapes, StillSafe
<1>3. CASE files' = files \cup {Wal(up.batch)} /\ UNCHANGED <<synced, mem, dead>>
  BY <1>1, <1>3, RewriteSafe
<1>4. CASE dead' = dead \cup {up.batch} /\ UNCHANGED <<files, synced, mem>>
  <2>1. \A d : Kept(d) => Kept(d)' BY <1>1, <1>4 DEF Kept
  <2>2. RemovedSettled' BY <1>1, <1>4 DEF Safe, RemovedSettled
  <2>3. MemShape' /\ \A d \in Batches : mem'[d] = mem[d] BY <1>4 DEF Safe, MemShape
  <2> QED BY <1>1, <2>1, <2>2, <2>3, EndShapes, SafeStep
<1>5. CASE /\ op.kind \in {"ack", "quarantined"} /\ Forget(op.batch)
           /\ UNCHANGED <<files, dead>> /\ synced' = files
  BY <1>1, <1>5, ForgetSafe
<1> QED BY <1>2, <1>3, <1>4, <1>5 DEF SettleFault, memVars

LEMMA TimeSafe == ASSUME Safe, NEW b \in Batches, TimePasses(b) PROVE Safe'
<1>1. UNCHANGED <<files, synced, dead, mem, server, accepted, op, up, epoch>>
  BY DEF TimePasses, diskVars, uploadVars, ghostVars
<1>2. OpShape' /\ UploadShape' /\ UploadEarned' /\ OpEarned'
  BY <1>1 DEF Safe, OpShape, UploadShape, UploadEarned, OpEarned
<1> QED BY <1>1, <1>2, StillSafe

\* load() after a loss of power finds every batch that is not settled.
LEMMA CrashSafe == ASSUME Safe, Crash PROVE Safe'
<1>1. PICK kept \in SUBSET ((files \ synced) \cup (synced \ files)) :
        Load((files \cap synced) \cup kept)
  BY DEF Crash
<1> DEFINE dir == (files \cap synced) \cup kept
<1>2. files' = dir /\ synced' = dir
      /\ mem' = [b \in Batches |-> Max({0} \cup SeqsOf(dir, b))]
  BY <1>1 DEF Load
<1>3. op' = Free /\ up' = IdleUpload /\ UNCHANGED <<dead, epoch, server, accepted>>
  BY DEF Crash, ghostVars
<1>4. \A b : Kept(b) => Kept(b)'
  <2>1. SUFFICES ASSUME NEW b, Kept(b) PROVE Kept(b)' OBVIOUS
  <2>2. CASE b \in server \cup dead BY <2>2, <1>3 DEF Kept
  <2>3. CASE \E f \in synced : b = f.batch
    <3>1. PICK f \in synced : b = f.batch BY <2>3
    <3>2. CASE f \in files
      <4>1. f \in synced' BY <3>2, <1>2
      <4> QED BY <3>1, <4>1 DEF Kept
    <3>3. CASE f \notin files BY <3>1, <3>3, <1>3 DEF Safe, RemovedSettled, Kept
    <3> QED BY <3>2, <3>3
  <2> QED BY <2>1, <2>2, <2>3 DEF Kept
<1>5. MemShape' BY <1>2 DEF MemShape
<1>6. \A b \in Batches : mem'[b] # 0 => Kept(b)'
  <2>1. SUFFICES ASSUME NEW b \in Batches, b \notin Named(dir) PROVE mem'[b] = 0
    BY <1>2 DEF Kept, Named
  <2>2. Max({0} \cup SeqsOf(dir, b)) = 0 BY <2>1, LoadedAbsent
  <2> QED BY <1>2, <2>2
<1>7. RemovedSettled' BY <1>2 DEF RemovedSettled
<1> QED BY <1>3, <1>4, <1>5, <1>6, <1>7, EndShapes, SafeStep

-----------------------------------------------------------------------------
LEMMA InitSafe == Init => Safe
BY DEF Init, Safe, OpShape, UploadShape, MemShape, MemKept, RemovedSettled, UploadEarned,
       OpEarned, Free, IdleUpload

LEMMA NextSafe == ASSUME Safe, ~DropOldest, [Next]_vars PROVE Safe'
<1>1. CASE UNCHANGED vars
  <2>1. UNCHANGED <<files, synced, dead, mem, server, accepted, op, up, epoch>>
    BY <1>1 DEF vars, diskVars, memVars, uploadVars, ghostVars
  <2>2. OpShape' /\ UploadShape' /\ UploadEarned' /\ OpEarned'
    BY <2>1 DEF Safe, OpShape, UploadShape, UploadEarned, OpEarned
  <2> QED BY <2>1, <2>2, StillSafe
<1>2. CASE Enqueue
  BY <1>2, EnqueueStarts, WriteItemSafe, CommitSafe, NoEviction
  DEF Enqueue, EvictOldest, EvictRefused, EvictDone
<1>3. CASE EvictFault BY <1>3, NoEviction DEF EvictFault
<1>4. CASE WriteFault BY <1>4, WriteFaultSafe
<1>5. CASE Deliver \/ RotateCredentials
  BY <1>5, ExchangeSafe, NackSafe, AckBeginSafe, QuarantineBeginSafe,
     QuarantineRemoveSafe, SettleSafe DEF Deliver
<1>6. CASE SettleFault BY <1>6, SettleFaultSafe
<1>7. CASE \E b \in Batches : TimePasses(b) BY <1>7, TimeSafe
<1>8. CASE Crash BY <1>8, CrashSafe
<1> QED BY <1>1, <1>2, <1>3, <1>4, <1>5, <1>6, <1>7, <1>8 DEF Next

\* Keeping is an invariant: what is in memory or was promised to a producer
\* is at the destination, in a dead letter or in a synced WAL file.
THEOREM KeepingInvariant == Spec => []Keeping
<1>1. Keeping <=> (~DropOldest => Safe) BY DEF Keeping, Safe
<1>2. Init => Keeping BY <1>1, InitSafe
<1>3. Keeping /\ [Next]_vars => Keeping' BY NextSafe DEF Keeping, Safe
<1> QED BY <1>2, <1>3, PTL DEF Spec

\* A metering, audit, receipt or lifecycle queue loses no batch whose
\* Enqueue succeeded, through any crash or failed operation, until the
\* destination has it or it is a dead letter.
THEOREM QueueLosesNothing == Spec => []NoLoss
<1>1. Keeping => NoLoss BY DEF Keeping, NoLoss
<1> QED BY <1>1, KeepingInvariant, PTL

-----------------------------------------------------------------------------
(* Losses of a queue that may evict, while power holds and no write fails. *)

\* Batches taken and now gone, from the directory as it is and as it was synced.
Gone == {b \in accepted : b \notin server \cup dead \cup Named(files)}
Lost == {b \in accepted : ~Kept(b)}

\* Whoever is in memory has his file, unless it is just being removed.
Held ==
  \A b \in Batches : mem[b] # 0 =>
    Wal(b) \in files \/ (op.kind \in {"ack", "quarantined"} /\ op.batch = b)

\* The drop counter is saved except while evicting; a refusal that comes
\* after evictions has left the memory empty.
Saved == op.kind = "evict" \/ Pending = {} \/ stats.dropped = statsFile.dropped

\* The inductive invariant of LossIsCounted.
Counting ==
  /\ op = Free \/ op \in [kind : OpKinds, batch : Batches]
  /\ UploadShape /\ MemShape /\ IsFiniteSet(accepted)
  /\ stats \in Counters /\ statsFile \in Counters
  /\ Held /\ MemKept /\ Saved
  /\ UploadEarned /\ OpEarned /\ (op.kind = "written" => NewWal(op.batch) \in files)
  /\ Cardinality(Gone) <= stats.dropped /\ Cardinality(Lost) <= statsFile.dropped
CountInv ==
  /\ faults \in Nat /\ crashes \in Nat
  /\ faults = 0 /\ crashes = 0 => Counting

\* One batch more adds at most one to their number.
LEMMA OneMore ==
  ASSUME NEW S, IsFiniteSet(S), NEW x
  PROVE  /\ IsFiniteSet(S \cup {x}) /\ Cardinality(S) \in Nat
         /\ Cardinality(S \cup {x}) <= Cardinality(S) + 1
<1>1. IsFiniteSet(S \cup {x}) /\ Cardinality(S) \in Nat
  BY FS_AddElement, FS_CardinalityType
<1>2. CASE x \in S
  <2>1. S \cup {x} = S
    BY <1>2
  <2> QED
    BY <1>1, <2>1
<1>3. CASE x \notin S
  <2>1. Cardinality(S \cup {x}) = Cardinality(S) + 1
    BY <1>3, FS_AddElement
  <2> QED
    BY <1>1, <2>1
<1> QED
  BY <1>2, <1>3

\* Fewer batches, not more of them.
LEMMA Fewer ==
  ASSUME NEW S, IsFiniteSet(S), NEW T, T \subseteq S
  PROVE  IsFiniteSet(T) /\ Cardinality(T) \in Nat /\ Cardinality(S) \in Nat /\ Cardinality(T) <= Cardinality(S)
BY FS_Subset, FS_CardinalityType

\* Batches that are gone or lost were taken.
LEMMA GoneFinite ==
  ASSUME Counting
  PROVE  /\ IsFiniteSet(Gone) /\ Cardinality(Gone) \in Nat
         /\ IsFiniteSet(Lost) /\ Cardinality(Lost) \in Nat
<1>1. Gone \subseteq accepted /\ Lost \subseteq accepted /\ IsFiniteSet(accepted)
  BY DEF Gone, Lost, Counting
<1> QED
  BY <1>1, Fewer

\* The parts of Counting that say nothing of numbers.
CountingShape ==
  /\ op = Free \/ op \in [kind : OpKinds, batch : Batches]
  /\ UploadShape /\ MemShape /\ IsFiniteSet(accepted)
  /\ stats \in Counters /\ statsFile \in Counters
  /\ Held /\ MemKept /\ Saved
  /\ UploadEarned /\ OpEarned /\ (op.kind = "written" => NewWal(op.batch) \in files)

\* A step that loses nothing, or saves the counter with the directory.
LEMMA CountStep ==
  ASSUME Counting, CountingShape', Gone' \subseteq Gone, stats'.dropped = stats.dropped,
         \/ Lost' \subseteq Lost /\ statsFile'.dropped = statsFile.dropped
         \/ Lost' \subseteq Gone /\ statsFile'.dropped = stats.dropped
  PROVE  Counting'
<1>1. stats.dropped \in Nat /\ Cardinality(Gone) <= stats.dropped /\ Cardinality(Lost) <= statsFile.dropped
  BY DEF Counting, Counters
<1>2. /\ Cardinality(Gone') <= Cardinality(Gone) /\ Cardinality(Gone') \in Nat
      /\ Cardinality(Gone) \in Nat /\ Cardinality(Lost) \in Nat
  BY GoneFinite, Fewer
<1>3. Cardinality(Gone)' = Cardinality(Gone') /\ Cardinality(Lost)' = Cardinality(Lost')
  OBVIOUS
<1>4. Cardinality(Gone') <= stats'.dropped
  BY <1>1, <1>2
<1>5. Cardinality(Lost') <= statsFile'.dropped
  <2>1. CASE Lost' \subseteq Lost /\ statsFile'.dropped = statsFile.dropped
    <3>1. Cardinality(Lost') <= Cardinality(Lost) /\ Cardinality(Lost') \in Nat
      BY <2>1, GoneFinite, Fewer
    <3>2. statsFile.dropped \in Nat
      BY DEF Counting, Counters
    <3> QED
      BY <1>1, <1>2, <2>1, <3>1, <3>2
  <2>2. CASE Lost' \subseteq Gone /\ statsFile'.dropped = stats.dropped
    <3>1. Cardinality(Lost') <= Cardinality(Gone) /\ Cardinality(Lost') \in Nat
      BY <2>2, GoneFinite, Fewer
    <3> QED
      BY <1>1, <1>2, <2>2, <3>1
  <2> QED
    BY <2>1, <2>2
<1> QED
  BY <1>3, <1>4, <1>5 DEF Counting, CountingShape

\* Steps that leave the directory, the memory and the counters alone.
LEMMA CountQuiet ==
  ASSUME Counting, UNCHANGED <<files, synced, statsFile, mem, stats>>,
         server \subseteq server', dead \subseteq dead', IsFiniteSet(accepted'),
         \A b \in accepted' : b \in accepted \/ (b \in Batches /\ mem[b] # 0 /\ op = Free),
         op' = Free \/ op' \in [kind : OpKinds, batch : Batches],
         op.kind \in {"ack", "quarantined"} => op' = op,
         UploadShape', UploadEarned', OpEarned', Saved',
         op'.kind = "written" => NewWal(op'.batch) \in files
  PROVE  Counting'
<1>1. Held'
  BY DEF Counting, Held, Wal
<1>2. \A b : Kept(b) => Kept(b)'
  BY DEF Kept
<1>3. MemKept' /\ MemShape'
  BY <1>2 DEF Counting, MemKept, MemShape
<1>4. CountingShape'
  BY <1>1, <1>3 DEF Counting, CountingShape, NewWal
<1>5. \A b \in Batches : mem[b] # 0 /\ op = Free => b \in Named(files) /\ Kept(b)
  <2> SUFFICES ASSUME NEW b \in Batches, mem[b] # 0, op = Free PROVE b \in Named(files) /\ Kept(b)
    OBVIOUS
  <2>1. Wal(b) \in files
    BY DEF Counting, Held, Free
  <2>2. Wal(b).batch = b
    BY DEF Wal
  <2> QED
    BY <2>1, <2>2 DEF Named, Counting, MemKept
<1>6. Gone' \subseteq Gone /\ Lost' \subseteq Lost
  BY <1>2, <1>5 DEF Gone, Lost, Named
<1> QED
  BY <1>4, <1>6, CountStep

\* The calls, the answers and the passing of time.
LEMMA CountExchange ==
  ASSUME Counting,
         \/ \E b \in Batches : EnqueueKnown(b) \/ EnqueueBegin(b) \/ TimePasses(b)
         \/ EvictRefused \/ Pick \/ Answer \/ UploadMoot \/ QuarantineBegin \/ RotateCredentials
         \/ UNCHANGED vars
  PROVE  Counting'
<1>1. UNCHANGED <<files, synced, statsFile, mem, stats>> /\ server \subseteq server' /\ dead \subseteq dead'
  BY DEF EnqueueKnown, EnqueueBegin, TimePasses, EvictRefused, Pick, Answer, Delivered,
     Undelivered,
         Rejected, Denied, UploadMoot, QuarantineBegin, RotateCredentials, vars, diskVars, memVars,
         uploadVars, ghostVars
<1>2. op = Free \/ op \in [kind : OpKinds, batch : Batches]
  BY DEF Counting
<1>3. IsFiniteSet(accepted')
      /\ \A b \in accepted' : b \in accepted \/ (b \in Batches /\ mem[b] # 0 /\ op = Free)
  <2>1. CASE UNCHANGED accepted
    BY <2>1 DEF Counting
  <2>2. CASE \E b \in Batches : EnqueueKnown(b)
    <3>1. PICK b \in Batches : EnqueueKnown(b)
      BY <2>2
    <3>2. accepted' = accepted \cup {b} /\ mem[b] # 0 /\ op = Free
      BY <3>1 DEF EnqueueKnown
    <3>3. IsFiniteSet(accepted \cup {b})
      BY FS_AddElement DEF Counting
    <3> QED
      BY <3>2, <3>3
  <2> QED
    BY <2>1, <2>2 DEF EnqueueBegin, TimePasses, EvictRefused, Pick, Answer, Delivered,
       Undelivered,
         Rejected, Denied, UploadMoot, QuarantineBegin, RotateCredentials, vars, ghostVars
<1>4. Pending' = Pending
  BY <1>1 DEF Pending
<1>5. CASE UNCHANGED op
  <2>1. OpEarned' /\ Saved' /\ (op'.kind = "written" => NewWal(op'.batch) \in files)
    BY <1>1, <1>4, <1>5 DEF Counting, OpEarned, Saved, Named
  <2>2. UploadShape' /\ UploadEarned'
    <3>1. CASE UNCHANGED <<up, epoch>>
      BY <1>1, <3>1 DEF Counting, UploadShape, UploadEarned
    <3>2. CASE Pick
      <4>1. PICK b \in Pending : up' = [step |-> "sending", batch |-> b, epoch |-> epoch]
        BY <3>2 DEF Pick
      <4> QED
        BY <3>2, <4>1 DEF Pick, Counting, UploadShape, UploadEarned, UploadSteps, Pending
    <3>3. CASE Delivered \/ Undelivered \/ Rejected
      <4>1. up \in [step : UploadSteps, batch : Batches, epoch : Nat]
        BY <3>3 DEF Delivered, Undelivered, Rejected, Counting, UploadShape, IdleUpload
      <4>2. \/ up' = [up EXCEPT !.step = "ack"] /\ server' = server \cup {up.batch}
            \/ up' = [up EXCEPT !.step = "nack"] \/ up' = [up EXCEPT !.step = "reject"]
        BY <3>3 DEF Delivered, Undelivered, Rejected
      <4>3. UNCHANGED epoch
        BY <3>3 DEF Delivered, Undelivered, Rejected
      <4> QED
        BY <4>1, <4>2, <4>3 DEF Counting, UploadShape, UploadEarned, UploadSteps
    <3>4. CASE Denied \/ UploadMoot
      BY <3>4 DEF Denied, UploadMoot, Counting, UploadShape, UploadEarned, IdleUpload
    <3>5. CASE RotateCredentials
      <4>1. UNCHANGED up /\ epoch' = epoch + 1
        BY <3>5 DEF RotateCredentials
      <4> QED
        BY <1>1, <4>1 DEF Counting, UploadShape, UploadEarned
    <3> QED
      BY <3>1, <3>2, <3>3, <3>4, <3>5 DEF EnqueueKnown, EnqueueBegin, TimePasses, EvictRefused,
         Answer,
           QuarantineBegin, vars, uploadVars
  <2>3. op.kind \in {"ack", "quarantined"} => op' = op
    BY <1>5
  <2> QED
    BY <1>1, <1>2, <1>3, <1>5, <2>1, <2>2, <2>3, CountQuiet
<1>6. CASE op' # op
  <2>1. UNCHANGED <<up, epoch>>
    BY <1>6 DEF EnqueueKnown, EnqueueBegin, TimePasses, EvictRefused, Pick, Answer, Delivered,
       Undelivered,
           Rejected, Denied, UploadMoot, QuarantineBegin, RotateCredentials, vars, uploadVars
  <2>2. UploadShape' /\ UploadEarned'
    BY <1>1, <2>1 DEF Counting, UploadShape, UploadEarned
  <2>3. CASE \E b \in Batches : EnqueueBegin(b)
    <3>1. PICK b \in Batches : EnqueueBegin(b)
      BY <2>3
    <3>2. op = Free /\ op' = [kind |-> IF Over(b) THEN "evict" ELSE "write", batch |-> b]
      BY <3>1 DEF EnqueueBegin, Doing
    <3>3. op' \in [kind : OpKinds, batch : Batches] /\ op'.kind \in {"evict", "write"}
      BY <3>2 DEF OpKinds
    <3>4. Saved'
      BY <1>1, <1>4, <3>2 DEF Counting, Saved, Free
    <3>5. OpEarned'
      BY <3>3 DEF OpEarned
    <3> QED
      BY <1>1, <1>3, <2>2, <3>2, <3>3, <3>4, <3>5, CountQuiet DEF Free
  <2>4. CASE QuarantineBegin
    <3>1. op = Free /\ op' = [kind |-> "quarantine", batch |-> up.batch] /\ dead' = dead \cup {up.batch}
          /\ up.step = "reject"
      BY <2>4 DEF QuarantineBegin, Settling, Doing
    <3>2. up.batch \in Batches
      BY <3>1 DEF Counting, UploadShape, IdleUpload
    <3>3. op' \in [kind : OpKinds, batch : Batches] /\ op'.kind = "quarantine" /\ op'.batch = up.batch
      BY <3>1, <3>2 DEF OpKinds
    <3>4. Saved'
      BY <1>1, <1>4, <3>1 DEF Counting, Saved, Free
    <3>5. OpEarned'
      BY <3>1, <3>3 DEF OpEarned
    <3> QED
      BY <1>1, <1>3, <2>2, <3>1, <3>3, <3>4, <3>5, CountQuiet DEF Free
  <2>5. CASE EvictRefused
    <3>1. op.kind = "evict" /\ op' = Free
      BY <2>5 DEF EvictRefused
    <3>2. Pending = {}
      <4>1. \A old \in Oldest : Wal(old) \in files
        BY <3>1 DEF Oldest, Pending, Counting, Held
      <4> QED
        BY <2>5, <4>1 DEF EvictRefused
    <3>3. Saved' /\ OpEarned' /\ op'.kind = "free"
      BY <1>4, <3>1, <3>2 DEF Saved, OpEarned, Free
    <3> QED
      BY <1>1, <1>3, <2>2, <3>1, <3>3, CountQuiet
  <2> QED
    BY <1>6, <2>3, <2>4, <2>5 DEF EnqueueKnown, TimePasses, Pick, Answer, Delivered,
       Undelivered, Rejected,
         Denied, UploadMoot, RotateCredentials, vars
<1> QED
  BY <1>5, <1>6

\* What a record in memory is called in the directory.
LEMMA WalNames ==
  ASSUME NEW b, NEW old, b # old
  PROVE  Wal(b) # Wal(old) /\ Wal(b).batch = b /\ NewWal(b).batch = b
BY DEF Wal, NewWal

\* The oldest batch goes, and is counted.
LEMMA CountEvict ==
  ASSUME Counting, EvictOldest
  PROVE  Counting'
<1>1. PICK old \in Oldest : Wal(old) \in files /\ files' = files \ {Wal(old)} /\ Forget(old)
  BY DEF EvictOldest
<1>2. /\ op.kind = "evict" /\ old \in Batches /\ mem' = [mem EXCEPT ![old] = 0]
      /\ stats' = [stats EXCEPT !.dropped = @ + 1] /\ stats \in Counters
      /\ UNCHANGED <<synced, statsFile, dead, op, up, epoch, server, accepted>>
  BY <1>1 DEF EvictOldest, Forget, Oldest, Pending, uploadVars, ghostVars, Counting
<1>3. stats' \in Counters /\ stats'.dropped = stats.dropped + 1 /\ stats.dropped \in Nat
  BY <1>2 DEF Counters
<1>4. /\ \A b \in Batches : b # old => mem'[b] = mem[b]
      /\ mem'[old] = 0 /\ MemShape'
  BY <1>2 DEF Counting, MemShape
<1>5. Held'
  <2> SUFFICES ASSUME NEW b \in Batches, mem'[b] # 0 PROVE Wal(b)' \in files'
    BY DEF Held
  <2>1. b # old /\ mem'[b] = mem[b]
    BY <1>4
  <2>2. Wal(b) \in files /\ Wal(b)' = Wal(b)
    BY <1>2, <2>1 DEF Counting, Held, Wal
  <2> QED
    BY <1>1, <2>1, <2>2, WalNames
<1>6. \A b : Kept(b)' <=> Kept(b)
  BY <1>2 DEF Kept
<1>7. MemKept'
  BY <1>4, <1>6 DEF Counting, MemKept
<1>8. Gone' \subseteq Gone \cup {old} /\ Lost' = Lost
  <2>1. \A b : b \in Named(files) /\ b # old => b \in Named(files')
    BY <1>1 DEF Named, Wal
  <2>2. Named(files)' = Named(files')
    BY DEF Named
  <2> QED
    BY <1>2, <1>6, <2>1, <2>2 DEF Gone, Lost
<1>9. Cardinality(Gone') <= stats'.dropped
  <2>1. IsFiniteSet(Gone \cup {old}) /\ Cardinality(Gone \cup {old}) <= Cardinality(Gone) + 1
        /\ Cardinality(Gone) \in Nat
    BY GoneFinite, OneMore
  <2>2. /\ Cardinality(Gone') <= Cardinality(Gone \cup {old}) /\ Cardinality(Gone') \in Nat
        /\ Cardinality(Gone \cup {old}) \in Nat
    BY <1>8, <2>1, Fewer
  <2>3. Cardinality(Gone) <= stats.dropped
    BY DEF Counting
  <2> QED
    BY <1>3, <2>1, <2>2, <2>3
<1>10. Cardinality(Lost') <= statsFile'.dropped
  BY <1>2, <1>8 DEF Counting
<1>11. Saved' /\ OpEarned' /\ UploadEarned' /\ UploadShape' /\ op'.kind # "written"
  BY <1>2 DEF Saved, Counting, OpEarned, UploadEarned, UploadShape
<1> QED
  BY <1>2, <1>3, <1>4, <1>5, <1>7, <1>9, <1>10, <1>11 DEF Counting

\* A step that syncs the directory and saves the counters with it.
LEMMA CountSynced ==
  ASSUME Counting, synced' = files', statsFile' = stats', stats' \in Counters,
         stats'.dropped = stats.dropped, UNCHANGED <<dead, server>>,
         \A b \in accepted : b \in Named(files) => b \in Named(files') \/ b \in server \cup dead,
         \A b \in accepted' : b \in accepted \/ b \in Named(files'), IsFiniteSet(accepted'),
         op' = Free \/ op' \in [kind : {"write"}, batch : Batches],
         MemShape', Held', UploadShape', UploadEarned'
  PROVE  Counting'
<1>1. MemKept'
  <2> SUFFICES ASSUME NEW b \in Batches, mem'[b] # 0 PROVE Kept(b)'
    BY DEF MemKept
  <2>1. Wal(b)' \in synced'
    BY DEF Held, Free
  <2>2. Wal(b)'.batch = b
    BY DEF Wal
  <2> QED
    BY <2>1, <2>2 DEF Kept
<1>2. Saved' /\ OpEarned' /\ op'.kind \in {"free", "write"}
  BY DEF Saved, OpEarned, Free
<1>3. op' = Free \/ op' \in [kind : OpKinds, batch : Batches]
  BY DEF OpKinds
<1>4. CountingShape'
  BY <1>1, <1>2, <1>3 DEF CountingShape
<1>5. Named(files)' = Named(files')
  BY DEF Named
<1>6. Gone' \subseteq Gone
  BY <1>5 DEF Gone
<1>7. Lost' \subseteq Gone'
  BY <1>5 DEF Lost, Gone, Kept, Named
<1> QED
  BY <1>4, <1>6, <1>7, CountStep

\* The end of an eviction, of Enqueue, of Ack and of Quarantine.
LEMMA CountSaved ==
  ASSUME Counting, EvictDone \/ CommitItem \/ Settle
  PROVE  Counting'
<1>1. CASE EvictDone
  <2>1. /\ op.kind = "evict" /\ op' = [op EXCEPT !.kind = "write"] /\ synced' = files /\ statsFile' = stats'
        /\ UNCHANGED <<files, dead, mem, stats, up, epoch, server, accepted>>
    BY <1>1 DEF EvictDone, SyncAndSave, memVars, uploadVars, ghostVars
  <2>2. op' \in [kind : {"write"}, batch : Batches]
    BY <2>1 DEF Counting, Free
  <2>3. Held'
    BY <2>1 DEF Counting, Held, Wal
  <2>4. MemShape' /\ UploadShape' /\ UploadEarned' /\ stats \in Counters /\ IsFiniteSet(accepted)
    BY <2>1 DEF Counting, MemShape, UploadShape, UploadEarned
  <2> QED
    BY <2>1, <2>2, <2>3, <2>4, CountSynced
<1>2. CASE CommitItem
  <2>1. /\ op.kind = "written" /\ op' = Free /\ synced' = files /\ statsFile' = stats'
        /\ stats' = [stats EXCEPT !.next = @ + 1] /\ mem' = [mem EXCEPT ![op.batch] = stats.next + 1]
        /\ accepted' = accepted \cup {op.batch} /\ UNCHANGED <<files, dead, up, epoch, server>>
    BY <1>2 DEF CommitItem, SyncAndSave, Admit, uploadVars
  <2>2. op.batch \in Batches /\ NewWal(op.batch) \in files /\ stats \in Counters
    BY <2>1 DEF Counting, Free
  <2>3. stats' \in Counters /\ stats'.dropped = stats.dropped
    BY <2>1, <2>2 DEF Counters
  <2>4. /\ \A b \in Batches : b # op.batch => mem'[b] = mem[b]
        /\ mem'[op.batch] = stats.next + 1 /\ MemShape'
    BY <2>1, <2>2 DEF Counting, MemShape
  <2>5. Held'
    <3> SUFFICES ASSUME NEW b \in Batches, mem'[b] # 0 PROVE Wal(b)' \in files
      BY <2>1 DEF Held
    <3>1. CASE b = op.batch
      <4>1. Wal(b)' = NewWal(op.batch)
        BY <2>4, <3>1 DEF Wal, NewWal
      <4> QED
        BY <2>2, <4>1
    <3>2. CASE b # op.batch
      <4>1. Wal(b)' = Wal(b) /\ mem[b] # 0
        BY <2>4, <3>2 DEF Wal
      <4> QED
        BY <2>1, <4>1 DEF Counting, Held
    <3> QED
      BY <3>1, <3>2
  <2>6. op.batch \in Named(files)
    BY <2>1 DEF Counting, OpEarned
  <2>7. IsFiniteSet(accepted')
    BY <2>1, FS_AddElement DEF Counting
  <2>8. UploadShape' /\ UploadEarned'
    BY <2>1 DEF Counting, UploadShape, UploadEarned
  <2> QED
    BY <2>1, <2>3, <2>4, <2>5, <2>6, <2>7, <2>8, CountSynced
<1>3. CASE Settle
  <2>1. /\ op.kind \in {"ack", "quarantined"} /\ op' = Free /\ up' = IdleUpload /\ synced' = files
        /\ statsFile' = stats' /\ mem' = [mem EXCEPT ![op.batch] = 0]
        /\ UNCHANGED <<files, dead, stats, epoch, server, accepted>>
    BY <1>3 DEF Settle, SyncAndSave, Forget
  <2>2. op.batch \in Batches
    BY <2>1 DEF Counting, Free
  <2>3. /\ \A b \in Batches : b # op.batch => mem'[b] = mem[b]
        /\ mem'[op.batch] = 0 /\ MemShape'
    BY <2>1, <2>2 DEF Counting, MemShape
  <2>4. Held'
    <3> SUFFICES ASSUME NEW b \in Batches, mem'[b] # 0 PROVE Wal(b)' \in files
      BY <2>1 DEF Held
    <3>1. b # op.batch /\ mem[b] # 0 /\ Wal(b)' = Wal(b)
      BY <2>3 DEF Wal
    <3> QED
      BY <3>1 DEF Counting, Held
  <2>5. UploadShape' /\ UploadEarned' /\ stats \in Counters /\ IsFiniteSet(accepted)
    BY <2>1 DEF Counting, UploadShape, UploadEarned, IdleUpload
  <2> QED
    BY <2>1, <2>3, <2>4, <2>5, CountSynced
<1> QED
  BY <1>1, <1>2, <1>3

\* The file of a batch is written, or written again.
LEMMA CountWrite ==
  ASSUME Counting, WriteItem \/ Nack
  PROVE  Counting'
<1>1. /\ files \subseteq files' /\ UNCHANGED <<statsFile, dead, mem, stats, epoch, server, accepted>>
  BY DEF WriteItem, Nack, memVars, uploadVars, ghostVars
<1>2. Named(files)' = Named(files') /\ Named(files) \subseteq Named(files')
  BY <1>1 DEF Named
<1>3. Gone' \subseteq Gone /\ Pending' = Pending
  BY <1>1, <1>2 DEF Gone, Pending
<1>4. MemShape' /\ stats' \in Counters /\ statsFile' \in Counters /\ IsFiniteSet(accepted')
  BY <1>1 DEF Counting, MemShape
<1>5. CASE WriteItem
  <2>1. /\ op.kind = "write" /\ op' = [op EXCEPT !.kind = "written"] /\ UNCHANGED <<up, synced>>
        /\ files' = files \cup {NewWal(op.batch)}
    BY <1>5 DEF WriteItem, uploadVars
  <2>2. op' \in [kind : OpKinds, batch : Batches] /\ op'.kind = "written" /\ op'.batch = op.batch
    BY <2>1 DEF Counting, Free, OpKinds
  <2>3. \A b : Kept(b)' <=> Kept(b)
    BY <1>1, <2>1 DEF Kept
  <2>4. Held'
    BY <1>1, <2>1 DEF Counting, Held, Wal
  <2>5. MemKept' /\ UploadShape' /\ UploadEarned' /\ Lost' = Lost
    BY <1>1, <2>1, <2>3 DEF Counting, MemKept, UploadShape, UploadEarned, Lost
  <2>6. NewWal(op.batch)' \in files' /\ NewWal(op.batch).batch = op.batch
    BY <1>1, <2>1, <2>2 DEF NewWal
  <2>7. OpEarned'
    BY <2>1, <2>2, <2>6 DEF OpEarned, Named
  <2>8. Saved'
    BY <1>1, <1>3, <2>1, <2>2 DEF Counting, Saved
  <2>9. CountingShape'
    BY <1>4, <2>2, <2>4, <2>5, <2>6, <2>7, <2>8 DEF CountingShape
  <2> QED
    BY <1>1, <1>3, <2>5, <2>9, CountStep
<1>6. CASE Nack
  <2>1. /\ op = Free /\ UNCHANGED op /\ up' = IdleUpload /\ synced' = files' /\ up.step = "nack"
        /\ mem[up.batch] # 0
    BY <1>6 DEF Nack, Settling
  <2>2. up.batch \in Batches
    BY <2>1 DEF Counting, UploadShape, IdleUpload
  <2>3. stats.dropped = statsFile.dropped
    <3>1. Pending # {}
      BY <2>1, <2>2 DEF Pending
    <3> QED
      BY <2>1, <3>1 DEF Counting, Saved, Free
  <2>4. Held'
    BY <1>1, <2>1 DEF Counting, Held, Wal
  <2>5. MemKept'
    <3> SUFFICES ASSUME NEW b \in Batches, mem'[b] # 0 PROVE Kept(b)'
      BY DEF MemKept
    <3>1. Wal(b)' \in synced' /\ Wal(b)'.batch = b
      BY <2>1, <2>4 DEF Held, Free, Wal
    <3> QED
      BY <3>1 DEF Kept
  <2>6. UploadShape' /\ UploadEarned' /\ OpEarned' /\ Saved' /\ op'.kind # "written"
    BY <1>1, <2>1, <2>3 DEF Counting, UploadShape, UploadEarned, IdleUpload, OpEarned, Saved,
       Free
  <2>7. CountingShape'
    BY <1>4, <2>1, <2>4, <2>5, <2>6 DEF CountingShape
  <2>8. Lost' \subseteq Gone'
    BY <1>2, <2>1 DEF Lost, Gone, Kept, Named
  <2> QED
    BY <1>1, <1>3, <2>3, <2>7, <2>8, CountStep
<1> QED
  BY <1>5, <1>6

\* The file goes of a batch that has arrived or is a dead letter.
LEMMA CountRemove ==
  ASSUME Counting, AckBegin \/ QuarantineRemove
  PROVE  Counting'
<1> DEFINE b == op'.batch
<1>1. /\ op' \in [kind : {"ack", "quarantined"}, batch : Batches] /\ files' = files \ {Wal(b)}
      /\ b \in server \cup dead
      /\ (op'.kind = "ack" => b \in server) /\ (op'.kind = "quarantined" => b \in dead)
      /\ op.kind # "ack" /\ op.kind # "quarantined"
  <2>1. CASE AckBegin
    <3>1. op = Free /\ up.step = "ack" /\ files' = files \ {Wal(up.batch)}
          /\ op' = [kind |-> "ack", batch |-> up.batch]
      BY <2>1 DEF AckBegin, Settling, Doing
    <3>2. up.batch \in Batches /\ up.batch \in server
      BY <3>1 DEF Counting, UploadShape, IdleUpload, UploadEarned
    <3> QED
      BY <3>1, <3>2 DEF Free
  <2>2. CASE QuarantineRemove
    <3>1. op.kind = "quarantine" /\ files' = files \ {Wal(op.batch)} /\ op' = [op EXCEPT !.kind = "quarantined"]
      BY <2>2 DEF QuarantineRemove
    <3>2. op \in [kind : OpKinds, batch : Batches] /\ op.batch \in dead
      BY <3>1 DEF Counting, Free, OpEarned
    <3> QED
      BY <3>1, <3>2
  <2> QED
    BY <2>1, <2>2
<1>2. UNCHANGED <<synced, statsFile, dead, mem, stats, up, epoch, server, accepted>>
  BY DEF AckBegin, QuarantineRemove, memVars, uploadVars, ghostVars
<1>3. Held'
  <2> SUFFICES ASSUME NEW x \in Batches, mem'[x] # 0, x # b PROVE Wal(x)' \in files'
    BY <1>1 DEF Held
  <2>1. Wal(x) \in files /\ Wal(x)' = Wal(x)
    BY <1>1, <1>2 DEF Counting, Held, Wal
  <2> QED
    BY <1>1, <2>1, WalNames
<1>4. \A x : Kept(x)' <=> Kept(x)
  BY <1>2 DEF Kept
<1>5. MemKept' /\ MemShape' /\ UploadShape' /\ UploadEarned' /\ Lost' = Lost /\ Pending' = Pending
  BY <1>2, <1>4 DEF Counting, MemKept, MemShape, UploadShape, UploadEarned, Lost, Pending
<1>6. Gone' \subseteq Gone
  <2>1. \A x : x \in Named(files) /\ x # b => x \in Named(files')
    BY <1>1 DEF Named, Wal
  <2>2. Named(files)' = Named(files')
    BY DEF Named
  <2> QED
    BY <1>1, <1>2, <2>1, <2>2 DEF Gone
<1>7. Saved'
  <2>1. op.kind # "evict"
    BY DEF AckBegin, QuarantineRemove, Settling, Free
  <2> QED
    BY <1>2, <1>5, <2>1 DEF Counting, Saved
<1>8. OpEarned' /\ op'.kind # "written" /\ op' \in [kind : OpKinds, batch : Batches]
  BY <1>1, <1>2 DEF OpEarned, OpKinds
<1>9. CountingShape'
  BY <1>2, <1>3, <1>5, <1>7, <1>8 DEF CountingShape, Counting
<1> QED
  BY <1>2, <1>5, <1>6, <1>9, CountStep

\* Every step keeps the count, as long as it is one without fault or crash.
LEMMA NextCounting ==
  ASSUME CountInv, [Next]_vars
  PROVE  CountInv'
<1>1. /\ faults' = faults \/ (faults' = faults + 1 /\ (EvictFault \/ WriteFault \/ SettleFault))
      /\ crashes' = crashes \/ (crashes' = crashes + 1 /\ Crash)
      /\ faults \in Nat /\ crashes \in Nat
  BY DEF CountInv, Next, Enqueue, EnqueueKnown, EnqueueBegin, EvictOldest, EvictRefused,
     EvictDone,
         WriteItem, CommitItem, EvictFault, WriteFault, Deliver, Pick, Answer, Delivered, Undelivered,
         Rejected, Denied, UploadMoot, Nack, AckBegin, QuarantineBegin, QuarantineRemove, Settle,
         SettleFault, RotateCredentials, TimePasses, Crash, Fault, vars, boundVars
<1>2. faults' \in Nat /\ crashes' \in Nat
  BY <1>1
<1> SUFFICES ASSUME faults' = 0, crashes' = 0 PROVE Counting'
  BY <1>2 DEF CountInv
<1>3. Counting
  BY <1>1 DEF CountInv
<1>4. ~EvictFault /\ ~WriteFault /\ ~SettleFault /\ ~Crash
  BY <1>1 DEF EvictFault, WriteFault, SettleFault, Crash, Fault
<1> QED
  BY <1>3, <1>4, CountExchange, CountEvict, CountSaved, CountWrite, CountRemove
  DEF Next, Enqueue, Deliver

\* While power holds and no write fails, the saved drop counter accounts for
\* every batch that was taken and evicted ("Persist them before accepting the
\* replacement item", makeCapacity).
THEOREM DropsAreCounted == Spec => []LossIsCounted
<1>1. Init => CountInv
  <2> SUFFICES ASSUME Init PROVE Counting /\ faults \in Nat /\ crashes \in Nat
    BY DEF CountInv
  <2>1. Gone = {} /\ Lost = {} /\ Cardinality({}) = 0 /\ IsFiniteSet(accepted)
    BY FS_EmptySet DEF Init, Gone, Lost
  <2>2. op = Free /\ op.kind = "free" /\ up = IdleUpload /\ up.step = "idle" /\ epoch = 0
    BY DEF Init, Free, IdleUpload
  <2>3. stats = [next |-> 0, dropped |-> 0] /\ statsFile = stats /\ stats \in Counters
    BY DEF Init, Counters
  <2>4. mem = [b \in Batches |-> 0] /\ faults = 0 /\ crashes = 0
    BY DEF Init
  <2>5. Held /\ MemKept /\ MemShape
    BY <2>4 DEF Held, MemKept, MemShape
  <2>6. UploadShape /\ UploadEarned /\ OpEarned /\ Saved
    BY <2>2, <2>3 DEF UploadShape, UploadEarned, OpEarned, Saved
  <2>7. Cardinality(Gone) <= stats.dropped /\ Cardinality(Lost) <= statsFile.dropped
    BY <2>1, <2>3
  <2> QED
    BY <2>1, <2>2, <2>3, <2>4, <2>5, <2>6, <2>7 DEF Counting
<1>2. CountInv /\ [Next]_vars => CountInv'
  BY NextCounting
<1>3. CountInv => LossIsCounted
  BY DEF CountInv, Counting, LossIsCounted, Lost
<1> QED
  BY <1>1, <1>2, <1>3, PTL DEF Spec

-----------------------------------------------------------------------------
(* Sums over finite sets.  Induction is by a minimal counterexample, which *)
(* the well-foundedness of strict inclusion provides.                      *)

\* The sum of the weights w over S, as MapThenSumSet takes it.
Total(w, S) == MapThenSumSet(LAMBDA x : w[x], S)

\* The element MapThenSumSet takes first, and its equation.
One(s) == CHOOSE x \in s : TRUE
Sums(g, w, S) == g = [s \in SUBSET S |-> IF s = {} THEN 0 ELSE w[One(s)] + g[s \ {One(s)}]]

\* It is one of them.
LEMMA OneOf == ASSUME NEW s, s # {} PROVE One(s) \in s
BY DEF One

\* A nonempty set of subsets of a finite set has a minimal one.
LEMMA Minimal ==
  ASSUME NEW S, IsFiniteSet(S), NEW T, T \subseteq SUBSET S, T # {}
  PROVE  \E x \in T : \A y \in T : y \subseteq x => y = x
<1>1. IsWellFoundedOn(StrictSubsetOrdering(S), SUBSET S)
  BY FS_FiniteSubsetsOfFinite, FS_StrictSubsetOrderingWellFounded
<1>2. PICK x \in T : \A y \in T : ~ (<<y, x>> \in StrictSubsetOrdering(S))
  BY <1>1, WFMin
<1>3. ASSUME NEW y \in T, y \subseteq x, y # x PROVE FALSE
  <2>1. <<y, x>> \in (SUBSET S) \X (SUBSET S) /\ <<y, x>>[1] = y /\ <<y, x>>[2] = x
    OBVIOUS
  <2>2. <<y, x>> \in StrictSubsetOrdering(S)
    BY <1>3, <2>1 DEF StrictSubsetOrdering
  <2> QED
    BY <1>2, <2>2
<1> QED
  BY <1>3

\* A nonempty set of numbers has a least one.
LEMMA Least ==
  ASSUME NEW T, T \subseteq Nat, T # {}
  PROVE  \E x \in T : \A y \in T : ~ (y < x)
<1>1. IsWellFoundedOn(OpToRel(<, Nat), Nat)
  BY NatLessThanWellFounded
<1>2. PICK x \in T : \A y \in T : ~ (<<y, x>> \in OpToRel(<, Nat))
  BY <1>1, WFMin
<1> QED
  BY <1>2 DEF OpToRel

\* The recursive equation of a sum over a finite set has a solution.
LEMMA SumsExist ==
  ASSUME NEW S, IsFiniteSet(S), NEW w
  PROVE  \E g : Sums(g, w, S)
<1> DEFINE Upto(g, n) == g = [s \in SUBSET S |->
               IF Cardinality(s) <= n THEN IF s = {} THEN 0 ELSE w[One(s)] + g[s \ {One(s)}] ELSE 0]
           Bad == {n \in Nat : ~ \E g : Upto(g, n)}
<1>1. ASSUME NEW s \in SUBSET S
      PROVE  /\ Cardinality(s) \in Nat /\ Cardinality(s) <= Cardinality(S) /\ (Cardinality(s) = 0 <=> s = {})
             /\ s # {} => s \ {One(s)} \in SUBSET S /\ Cardinality(s \ {One(s)}) = Cardinality(s) - 1
  <2>1. IsFiniteSet(s) /\ Cardinality(s) <= Cardinality(S)
    BY FS_Subset
  <2>2. Cardinality(s) \in Nat /\ (Cardinality(s) = 0 <=> s = {})
    BY <2>1, FS_CardinalityType, FS_EmptySet
  <2>3. s # {} => Cardinality(s \ {One(s)}) = Cardinality(s) - 1
    BY <2>1, OneOf, FS_RemoveElement
  <2> QED
    BY <2>1, <2>2, <2>3
<1>2. Bad = {}
  <2> SUFFICES ASSUME Bad # {} PROVE FALSE
    OBVIOUS
  <2>1. PICK n \in Bad : \A k \in Bad : ~ (k < n)
    BY Least
  <2>2. n # 0
    <3> DEFINE g == [s \in SUBSET S |-> 0]
    <3>1. ASSUME NEW s \in SUBSET S, Cardinality(s) <= 0 PROVE s = {}
      <4>1. Cardinality(s) \in Nat
        BY <1>1
      <4>2. Cardinality(s) = 0
        BY <3>1, <4>1
      <4> QED
        BY <1>1, <4>2
    <3>2. Upto(g, 0)
      BY <3>1
    <3> QED
      BY <3>2
  <2>3. PICK g : Upto(g, n - 1)
    <3>1. n - 1 \in Nat /\ n - 1 < n
      BY <2>2
    <3> QED
      BY <2>1, <3>1
  <2> DEFINE h == [s \in SUBSET S |->
               IF Cardinality(s) <= n THEN IF s = {} THEN 0 ELSE w[One(s)] + g[s \ {One(s)}] ELSE 0]
  <2>4. ASSUME NEW s \in SUBSET S, Cardinality(s) <= n - 1 PROVE h[s] = g[s]
    <3>1. n \in Nat /\ Cardinality(s) \in Nat
      BY <1>1
    <3>2. Cardinality(s) <= n
      BY <2>4, <3>1
    <3> QED
      BY <2>3, <2>4, <3>2
  <2>5. ASSUME NEW s \in SUBSET S, Cardinality(s) <= n, s # {} PROVE h[s \ {One(s)}] = g[s \ {One(s)}]
    <3>1. s \ {One(s)} \in SUBSET S /\ Cardinality(s \ {One(s)}) <= n - 1
      BY <1>1, <2>5
    <3> QED
      BY <2>4, <3>1
  <2> HIDE DEF h
  <2>6. h = [s \in SUBSET S |->
               IF Cardinality(s) <= n THEN IF s = {} THEN 0 ELSE w[One(s)] + h[s \ {One(s)}] ELSE 0]
    BY <2>5 DEF h
  <2>7. \E f : Upto(f, n)
    BY <2>6
  <2> QED
    BY <2>1, <2>7
<1>3. Cardinality(S) \in Nat
  BY FS_CardinalityType
<1>4. PICK g : Upto(g, Cardinality(S))
  BY <1>2, <1>3
<1>5. \A s \in SUBSET S : Cardinality(s) <= Cardinality(S)
  BY <1>1
<1>6. Sums(g, w, S)
  BY <1>4, <1>5 DEF Sums
<1> QED
  BY <1>6

\* Total is the last value of such a function.
LEMMA TotalSums ==
  ASSUME NEW S, IsFiniteSet(S), NEW w
  PROVE  \E g : Sums(g, w, S) /\ Total(w, S) = g[S]
<1> DEFINE g == CHOOSE h : Sums(h, w, S)
<1>1. Sums(g, w, S)
  BY SumsExist
<1>2. Total(w, S) = g[S]
  BY DEF Total, MapThenSumSet, MapThenFoldSet, Sums, One
<1> QED
  BY <1>1, <1>2

\* What such a function is worth, step by step.
LEMMA SumsStep ==
  ASSUME NEW S, NEW w, NEW g, Sums(g, w, S), NEW s \in SUBSET S
  PROVE  /\ s = {} => g[s] = 0
         /\ s # {} => One(s) \in s /\ g[s] = w[One(s)] + g[s \ {One(s)}]
BY OneOf DEF Sums

\* Sums are natural numbers when the weights are.
LEMMA SumsNat ==
  ASSUME NEW S, IsFiniteSet(S), NEW w, NEW g, Sums(g, w, S), \A x \in S : w[x] \in Nat
  PROVE  \A s \in SUBSET S : g[s] \in Nat
<1> DEFINE Bad == {s \in SUBSET S : g[s] \notin Nat}
<1> SUFFICES ASSUME Bad # {} PROVE FALSE
  OBVIOUS
<1>1. PICK s \in Bad : \A t \in Bad : t \subseteq s => t = s
  <2>1. Bad \subseteq SUBSET S
    OBVIOUS
  <2> HIDE DEF Bad
  <2> QED
    BY <2>1, Minimal
<1>2. s # {} /\ One(s) \in s /\ g[s] = w[One(s)] + g[s \ {One(s)}]
  <2>1. s \in SUBSET S /\ g[s] \notin Nat /\ 0 \in Nat
    OBVIOUS
  <2>2. s # {}
    <3> SUFFICES ASSUME s = {} PROVE FALSE
      OBVIOUS
    <3>1. g[s] = 0
      BY <2>1, SumsStep
    <3> QED
      BY <2>1, <3>1
  <2> QED
    BY <2>1, <2>2, SumsStep
<1>3. g[s \ {One(s)}] \in Nat
  BY <1>1, <1>2
<1> QED
  BY <1>2, <1>3

\* Two such functions agree where both are defined.
LEMMA SumsAgree ==
  ASSUME NEW S, IsFiniteSet(S), NEW U \in SUBSET S, NEW w, NEW v, \A x \in U : v[x] = w[x],
         NEW g, Sums(g, w, S), NEW h, Sums(h, v, U)
  PROVE  h[U] = g[U]
<1> DEFINE Bad == {s \in SUBSET U : h[s] # g[s]}
<1> SUFFICES ASSUME Bad # {} PROVE FALSE
  OBVIOUS
<1>1. PICK s \in Bad : \A t \in Bad : t \subseteq s => t = s
  <2>1. Bad \subseteq SUBSET S
    OBVIOUS
  <2> HIDE DEF Bad
  <2> QED
    BY <2>1, Minimal
<1>2. s \in SUBSET S /\ s \in SUBSET U
  OBVIOUS
<1>3. s # {} /\ One(s) \in s
  BY <1>2, SumsStep
<1>4. /\ g[s] = w[One(s)] + g[s \ {One(s)}] /\ h[s] = v[One(s)] + h[s \ {One(s)}]
  BY <1>2, <1>3, SumsStep
<1>5. h[s \ {One(s)}] = g[s \ {One(s)}]
  BY <1>1, <1>3
<1>6. v[One(s)] = w[One(s)]
  BY <1>2, <1>3
<1> QED
  BY <1>4, <1>5, <1>6

\* Any element may be taken out of a sum.
LEMMA SumsRemove ==
  ASSUME NEW S, IsFiniteSet(S), NEW w, NEW g, Sums(g, w, S), \A x \in S : w[x] \in Nat
  PROVE  \A s \in SUBSET S : \A x \in s : g[s] = w[x] + g[s \ {x}]
<1> DEFINE Bad == {s \in SUBSET S : \E x \in s : g[s] # w[x] + g[s \ {x}]}
<1> SUFFICES ASSUME Bad # {} PROVE FALSE
  OBVIOUS
<1>1. PICK s \in Bad : \A t \in Bad : t \subseteq s => t = s
  <2>1. Bad \subseteq SUBSET S
    OBVIOUS
  <2> HIDE DEF Bad
  <2> QED
    BY <2>1, Minimal
<1>2. PICK x \in s : g[s] # w[x] + g[s \ {x}]
  OBVIOUS
<1> DEFINE c == One(s)
<1>3. c \in s /\ g[s] = w[c] + g[s \ {c}]
  <2>1. s \in SUBSET S /\ s # {}
    BY <1>2
  <2> QED
    BY <2>1, SumsStep
<1> HIDE DEF c
<1>4. c # x
  BY <1>2, <1>3
<1>5. \A t \in SUBSET s : t # s => \A y \in t : g[t] = w[y] + g[t \ {y}]
  BY <1>1
<1>6. g[s \ {c}] = w[x] + g[(s \ {c}) \ {x}]
  <2>1. s \ {c} \in SUBSET s /\ s \ {c} # s /\ x \in s \ {c}
    BY <1>3, <1>4
  <2> QED
    BY <1>5, <2>1
<1>7. g[s \ {x}] = w[c] + g[(s \ {x}) \ {c}]
  <2>1. s \ {x} \in SUBSET s /\ s \ {x} # s /\ c \in s \ {x}
    BY <1>3, <1>4
  <2> QED
    BY <1>5, <2>1
<1>8. (s \ {c}) \ {x} = (s \ {x}) \ {c}
  OBVIOUS
<1>9. g[(s \ {x}) \ {c}] \in Nat /\ w[c] \in Nat /\ w[x] \in Nat
  <2>1. (s \ {x}) \ {c} \in SUBSET S /\ c \in S /\ x \in S
    BY <1>3
  <2> QED
    BY <2>1, SumsNat
<1> DEFINE rest == g[(s \ {x}) \ {c}]
<1>10. g[s] = w[c] + (w[x] + rest) /\ g[s \ {x}] = w[c] + rest
  BY <1>3, <1>6, <1>7, <1>8
<1>11. rest \in Nat
  BY <1>9
<1> HIDE DEF rest
<1> QED
  BY <1>2, <1>9, <1>10, <1>11

\* Nothing weighs nothing.
LEMMA TotalEmpty == ASSUME NEW w PROVE Total(w, {}) = 0
<1>1. PICK g : Sums(g, w, {}) /\ Total(w, {}) = g[{}]
  BY TotalSums, FS_EmptySet
<1>2. {} \in SUBSET {}
  OBVIOUS
<1> QED
  BY <1>1, <1>2, SumsStep

\* A sum of numbers is one.
LEMMA TotalNat ==
  ASSUME NEW S, IsFiniteSet(S), NEW w, \A x \in S : w[x] \in Nat
  PROVE  Total(w, S) \in Nat
BY TotalSums, SumsNat

\* Weights matter on the set only.
LEMMA TotalSame ==
  ASSUME NEW S, IsFiniteSet(S), NEW w, NEW v, \A x \in S : v[x] = w[x]
  PROVE  Total(v, S) = Total(w, S)
BY TotalSums, SumsAgree

\* Any one element may be taken out.
LEMMA TotalRemove ==
  ASSUME NEW S, IsFiniteSet(S), NEW w, \A x \in S : w[x] \in Nat, NEW x \in S
  PROVE  Total(w, S) = w[x] + Total(w, S \ {x})
<1>1. PICK g : Sums(g, w, S) /\ Total(w, S) = g[S]
  BY TotalSums
<1>2. PICK h : Sums(h, w, S \ {x}) /\ Total(w, S \ {x}) = h[S \ {x}]
  BY TotalSums, FS_RemoveElement
<1>3. h[S \ {x}] = g[S \ {x}]
  <2>1. S \ {x} \in SUBSET S
    OBVIOUS
  <2> QED
    BY <1>1, <1>2, <2>1, SumsAgree
<1>4. g[S] = w[x] + g[S \ {x}]
  BY <1>1, SumsRemove
<1> QED
  BY <1>1, <1>2, <1>3, <1>4

\* Finitely many elements have finitely many names.
LEMMA NamesFinite ==
  ASSUME NEW S, IsFiniteSet(S), NEW name
  PROVE  IsFiniteSet({name[x] : x \in S})
<1> DEFINE Names(s) == {name[x] : x \in s}
           Bad == {s \in SUBSET S : ~IsFiniteSet(Names(s))}
<1> SUFFICES ASSUME Bad # {} PROVE FALSE
  OBVIOUS
<1>1. PICK s \in Bad : \A t \in Bad : t \subseteq s => t = s
  <2>1. Bad \subseteq SUBSET S
    OBVIOUS
  <2> HIDE DEF Bad
  <2> QED
    BY <2>1, Minimal
<1>2. s # {}
  <2>1. Names({}) = {} /\ ~IsFiniteSet(Names(s))
    OBVIOUS
  <2> QED
    BY <2>1, FS_EmptySet
<1>3. PICK x \in s : TRUE
  BY <1>2
<1>4. IsFiniteSet(Names(s \ {x}))
  <2>1. s \ {x} \in SUBSET S /\ s \ {x} # s /\ s \ {x} \subseteq s
    BY <1>3
  <2>2. s \ {x} \notin Bad
    <3> HIDE DEF Bad
    <3> QED
      BY <1>1, <2>1
  <2> QED
    BY <2>1, <2>2
<1>5. Names(s) = Names(s \ {x}) \cup {name[x]}
  OBVIOUS
<1>6. IsFiniteSet(Names(s))
  <2> DEFINE N == Names(s \ {x})
  <2> HIDE DEF N
  <2>1. IsFiniteSet(N \cup {name[x]})
    BY <1>4, FS_AddElement DEF N
  <2> QED
    BY <1>5, <2>1 DEF N
<1> QED
  BY <1>6

\* A sum over elements is the sum over their names when names are distinct.
LEMMA TotalRenamed ==
  ASSUME NEW S, IsFiniteSet(S), NEW w, NEW v, NEW name,
         \A x \in S : w[name[x]] \in Nat /\ v[x] = w[name[x]],
         \A x, y \in S : name[x] = name[y] => x = y
  PROVE  Total(v, S) = Total(w, {name[x] : x \in S})
<1> DEFINE Names(s) == {name[x] : x \in s}
           Bad == {s \in SUBSET S : Total(v, s) # Total(w, Names(s))}
<1> SUFFICES ASSUME Bad # {} PROVE FALSE
  OBVIOUS
<1>1. PICK s \in Bad : \A t \in Bad : t \subseteq s => t = s
  <2>1. Bad \subseteq SUBSET S
    OBVIOUS
  <2> HIDE DEF Bad
  <2> QED
    BY <2>1, Minimal
<1>2. s \in SUBSET S /\ Total(v, s) # Total(w, Names(s))
  OBVIOUS
<1>3. s # {}
  <2>1. Names({}) = {}
    OBVIOUS
  <2> QED
    BY <1>2, <2>1, TotalEmpty
<1>4. PICK x \in s : TRUE
  BY <1>3
<1>5. IsFiniteSet(s) /\ IsFiniteSet(Names(s))
  BY <1>2, FS_Subset, NamesFinite
<1>6. Names(s \ {x}) = Names(s) \ {name[x]} /\ name[x] \in Names(s)
  BY <1>2
<1>7. Total(v, s \ {x}) = Total(w, Names(s \ {x}))
  <2>1. s \ {x} \notin Bad /\ s \ {x} \in SUBSET S
    BY <1>1, <1>4
  <2> QED
    BY <2>1
<1>8. Total(v, s) = v[x] + Total(v, s \ {x})
  <2>1. \A y \in s : v[y] \in Nat
    BY <1>2
  <2> QED
    BY <1>5, <2>1, TotalRemove
<1>9. Total(w, Names(s)) = w[name[x]] + Total(w, Names(s) \ {name[x]})
  <2>1. \A y \in Names(s) : w[y] \in Nat
    BY <1>2
  <2> HIDE DEF Names
  <2> QED
    BY <1>5, <1>6, <2>1, TotalRemove
<1> QED
  BY <1>2, <1>4, <1>6, <1>7, <1>8, <1>9

-----------------------------------------------------------------------------
(* What RebuiltExactly and WithinBudget rest on: types, maxima, sums.      *)

\* The shape of the state; the directory is finite.
Typing ==
  /\ TypeOK /\ IsFiniteSet(files) /\ IsFiniteSet(synced)
  /\ faults \in Nat /\ crashes \in Nat

\* A finite set of numbers has a greatest one.
LEMMA MaxExists ==
  ASSUME NEW S, IsFiniteSet(S)
  PROVE  S # {} /\ S \subseteq Int => \E m \in S : \A y \in S : m >= y
<1> DEFINE Top(s) == \E m \in s : \A y \in s : m >= y
           Bad == {s \in SUBSET S : s # {} /\ s \subseteq Int /\ ~Top(s)}
<1> SUFFICES ASSUME Bad # {} PROVE FALSE
  OBVIOUS
<1>1. PICK s \in Bad : \A t \in Bad : t \subseteq s => t = s
  <2>1. Bad \subseteq SUBSET S
    OBVIOUS
  <2> HIDE DEF Bad
  <2> QED
    BY <2>1, Minimal
<1>2. PICK x \in s : TRUE
  OBVIOUS
<1>3. s \ {x} \in SUBSET S /\ s \ {x} \subseteq Int /\ s \ {x} \notin Bad /\ x \in Int
  <2>1. s \ {x} \subseteq s /\ s \ {x} # s
    BY <1>2
  <2>2. s \ {x} \notin Bad
    <3> HIDE DEF Bad
    <3> QED
      BY <1>1, <2>1
  <2> QED
    BY <2>2
<1>4. CASE s \ {x} = {}
  BY <1>2, <1>3, <1>4
<1>5. CASE s \ {x} # {}
  <2>1. PICK m \in s \ {x} : \A y \in s \ {x} : m >= y
    BY <1>3, <1>5
  <2>2. m \in Int /\ \A y \in s : y \in Int
    BY <1>3, <2>1
  <2>3. \E k \in s : \A y \in s : k >= y
    <3>1. CASE m >= x
      BY <2>1, <3>1
    <3>2. CASE ~(m >= x)
      <4>1. \A y \in s : x >= y
        BY <1>3, <2>1, <2>2, <3>2
      <4> QED
        BY <4>1
    <3> QED
      BY <3>1, <3>2
  <2> QED
    BY <2>3
<1> QED
  BY <1>4, <1>5

\* Max is that one.
LEMMA MaxOf ==
  ASSUME NEW S, IsFiniteSet(S), S # {}, S \subseteq Int
  PROVE  Max(S) \in S /\ \A y \in S : y <= Max(S)
<1>1. \E m \in S : \A y \in S : m >= y
  BY MaxExists
<1>2. Max(S) = CHOOSE m \in S : \A y \in S : m >= y
  BY Zenon DEF Max
<1>3. Max(S) \in S /\ \A y \in S : Max(S) >= y
  BY <1>1, <1>2
<1> QED
  BY <1>3

\* The operation and the upload in progress name batches.
LEMMA InHand ==
  ASSUME TypeOK
  PROVE  /\ op.kind # "free" => op \in [kind : OpKinds, batch : Batches]
         /\ up.step # "idle" => up \in [step : UploadSteps, batch : Batches, epoch : Nat]
         /\ \A b \in Pending : b \in Batches /\ Wal(b) \in Wals
         /\ \A b \in Batches : NewWal(b) \in Wals
<1>1. mem \in [Batches -> Nat] /\ stats \in Counters
  BY DEF TypeOK
<1>2. \A b \in Pending : b \in Batches /\ mem[b] \in Nat \ {0}
  BY <1>1 DEF Pending
<1>3. stats.next + 1 \in Nat \ {0}
  BY <1>1 DEF Counters
<1> QED
  BY <1>2, <1>3 DEF TypeOK, Free, IdleUpload, Wal, NewWal, Wals

\* Steps that leave the directory and the memory alone.
LEMMA TypesQuiet ==
  ASSUME Typing, UNCHANGED <<files, dead, mem, stats, crashes>>,
         faults' = faults \/ faults' = faults + 1,
         synced' \in {synced, files}, statsFile' \in {statsFile, stats},
         waiting' \subseteq waiting, epoch' \in Nat, blocked' \in BOOLEAN,
         op' = Free \/ op' \in [kind : OpKinds, batch : Batches],
         up' = IdleUpload \/ up' \in [step : UploadSteps, batch : Batches, epoch : Nat],
         server' \subseteq Batches, accepted' \subseteq Batches, UNCHANGED acked
  PROVE  Typing'
<1>1. faults' \in Nat
  BY DEF Typing
<1>2. synced' \subseteq Wals /\ IsFiniteSet(synced') /\ statsFile' \in Counters
  BY DEF Typing, TypeOK
<1>3. files' \subseteq Wals /\ IsFiniteSet(files') /\ crashes' \in Nat
  BY DEF Typing, TypeOK
<1>4. TypeOK'
  BY <1>2, <1>3 DEF Typing, TypeOK, Counters
<1> QED
  BY <1>1, <1>2, <1>3, <1>4 DEF Typing

\* Steps of producer, uploader and destination that touch no file.
LEMMA TypesExchange ==
  ASSUME Typing,
         \/ \E b \in Batches : EnqueueKnown(b) \/ EnqueueBegin(b) \/ TimePasses(b)
         \/ EvictRefused \/ EvictDone \/ EvictFault
         \/ Pick \/ Answer \/ UploadMoot \/ RotateCredentials
  PROVE  Typing'
<1> USE DEF Typing
<1>1. CASE \E b \in Batches : EnqueueKnown(b) \/ EnqueueBegin(b) \/ TimePasses(b)
  <2>1. PICK b \in Batches : EnqueueKnown(b) \/ EnqueueBegin(b) \/ TimePasses(b)
    BY <1>1
  <2>2. Doing("evict", b) \in [kind : OpKinds, batch : Batches]
        /\ Doing("write", b) \in [kind : OpKinds, batch : Batches]
    BY DEF Doing, OpKinds
  <2>3. CASE EnqueueKnown(b)
    BY <2>3, TypesQuiet DEF EnqueueKnown, TypeOK, diskVars, memVars, uploadVars, ghostVars,
       boundVars
  <2>4. CASE EnqueueBegin(b)
    BY <2>2, <2>4, TypesQuiet DEF EnqueueBegin, TypeOK, diskVars, memVars, uploadVars,
       ghostVars, boundVars
  <2>5. CASE TimePasses(b)
    BY <2>5, TypesQuiet DEF TimePasses, TypeOK, diskVars, uploadVars, ghostVars, boundVars
  <2> QED
    BY <2>1, <2>3, <2>4, <2>5
<1>2. CASE EvictRefused
  BY <1>2, TypesQuiet DEF EvictRefused, TypeOK, diskVars, memVars, uploadVars, ghostVars,
     boundVars
<1>3. CASE EvictDone
  <2>1. op' \in [kind : OpKinds, batch : Batches]
    BY <1>3, InHand DEF EvictDone, OpKinds
  <2>2. UNCHANGED <<files, dead, mem, waiting, stats, crashes, faults, up, epoch, blocked, server, accepted, acked>>
        /\ synced' = files /\ statsFile' = stats
    BY <1>3 DEF EvictDone, SyncAndSave, memVars, uploadVars, ghostVars, boundVars
  <2> QED
    BY <2>1, <2>2, TypesQuiet DEF TypeOK
<1>4. CASE EvictFault
  <2>1. synced' \in {synced, files} /\ statsFile' \in {statsFile, stats}
    BY <1>4 DEF EvictFault
  <2>2. UNCHANGED <<files, dead, mem, waiting, stats, crashes, up, epoch, blocked, server, accepted, acked>>
        /\ op' = Free /\ faults' = faults + 1
    BY <1>4 DEF EvictFault, Fault, memVars, uploadVars, ghostVars
  <2> QED
    BY <2>1, <2>2, TypesQuiet DEF TypeOK
<1>5. CASE Pick
  <2>1. PICK b \in Batches : up' = [step |-> "sending", batch |-> b, epoch |-> epoch]
    BY <1>5 DEF Pick, Pending
  <2>2. up' \in [step : UploadSteps, batch : Batches, epoch : Nat]
    BY <2>1 DEF TypeOK, UploadSteps
  <2> QED
    BY <1>5, <2>2, TypesQuiet DEF Pick, TypeOK, diskVars, memVars, ghostVars, boundVars
<1>6. CASE Answer
  <2>1. /\ up' = IdleUpload \/ \E s \in UploadSteps : up' = [up EXCEPT !.step = s]
        /\ server' \in {server, server \cup {up.batch}} /\ blocked' \in BOOLEAN
    BY <1>6 DEF Answer, Delivered, Undelivered, Rejected, Denied, UploadSteps, ghostVars, TypeOK
  <2>2. up \in [step : UploadSteps, batch : Batches, epoch : Nat]
    BY <1>6, InHand DEF Answer, Delivered, Undelivered, Rejected, Denied
  <2>3. /\ up' = IdleUpload \/ up' \in [step : UploadSteps, batch : Batches, epoch : Nat]
        /\ server' \subseteq Batches
    BY <2>1, <2>2 DEF TypeOK
  <2>4. UNCHANGED <<files, synced, statsFile, dead, mem, waiting, stats, crashes, faults, op, epoch, accepted, acked>>
    BY <1>6 DEF Answer, Delivered, Undelivered, Rejected, Denied, diskVars, memVars, ghostVars,
       boundVars
  <2> QED
    BY <2>1, <2>3, <2>4, TypesQuiet DEF TypeOK
<1>7. CASE UploadMoot
  BY <1>7, TypesQuiet DEF UploadMoot, TypeOK, diskVars, memVars, ghostVars, boundVars
<1>8. CASE RotateCredentials
  <2>1. epoch' \in Nat
    BY <1>8 DEF RotateCredentials, TypeOK
  <2>2. blocked' \in BOOLEAN
    BY <1>8 DEF RotateCredentials
  <2> QED
    BY <1>8, <2>1, <2>2, TypesQuiet DEF RotateCredentials, TypeOK, diskVars, memVars, ghostVars,
       boundVars
<1> QED
  BY <1>1, <1>2, <1>3, <1>4, <1>5, <1>6, <1>7, <1>8

\* Steps that touch one file.
LEMMA TypesTouch ==
  ASSUME Typing, NEW f \in Wals, files' \in {files, files \cup {f}, files \ {f}},
         synced' \in {synced, files, files'}, stats' \in Counters, statsFile' \in {statsFile, stats'},
         mem' \in [Batches -> Nat], waiting' \subseteq Batches, dead' \subseteq Batches,
         op' = Free \/ op' \in [kind : OpKinds, batch : Batches],
         up' \in {up, IdleUpload}, UNCHANGED <<blocked, epoch, server, crashes>>,
         accepted' \subseteq Batches, acked' \subseteq Batches,
         faults' = faults \/ faults' = faults + 1
  PROVE  Typing'
<1>1. faults' \in Nat /\ crashes' \in Nat
  BY DEF Typing
<1>2. IsFiniteSet(files \cup {f}) /\ IsFiniteSet(files \ {f})
  BY FS_AddElement, FS_RemoveElement DEF Typing
<1>3. IsFiniteSet(files') /\ IsFiniteSet(synced')
  BY <1>2 DEF Typing
<1>4. files' \subseteq Wals /\ synced' \subseteq Wals /\ statsFile' \in Counters
  BY DEF Typing, TypeOK
<1>5. TypeOK'
  BY <1>4 DEF Typing, TypeOK, Counters
<1> QED
  BY <1>1, <1>3, <1>5 DEF Typing

\* The steps of Enqueue that touch a file or the memory.
LEMMA TypesEnqueue ==
  ASSUME Typing, EvictOldest \/ WriteItem \/ CommitItem \/ WriteFault
  PROVE  Typing'
<1>1. /\ TypeOK /\ mem \in [Batches -> Nat] /\ stats \in Counters /\ waiting \subseteq Batches
      /\ accepted \subseteq Batches /\ acked \subseteq Batches /\ dead \subseteq Batches
      /\ stats.next + 1 \in Nat
  BY DEF Typing, TypeOK, Counters
<1>2. CASE EvictOldest
  <2>1. PICK old \in Oldest : files' = files \ {Wal(old)} /\ Forget(old)
    BY <1>2 DEF EvictOldest
  <2>2. old \in Batches /\ Wal(old) \in Wals
    BY <1>1, InHand DEF Oldest, Pending
  <2>3. mem' \in [Batches -> Nat] /\ waiting' \subseteq Batches
    BY <1>1, <2>1 DEF Forget
  <2>4. stats' \in Counters
    BY <1>1, <1>2 DEF EvictOldest, Counters
  <2>5. UNCHANGED <<synced, statsFile, dead, op, up, blocked, epoch, server, accepted, acked, crashes, faults>>
    BY <1>2 DEF EvictOldest, uploadVars, ghostVars, boundVars
  <2> QED
    BY <1>1, <2>1, <2>2, <2>3, <2>4, <2>5, TypesTouch DEF TypeOK
<1>3. ASSUME op.kind \in {"write", "written"} PROVE op \in [kind : OpKinds, batch : Batches]
  BY <1>1, <1>3, InHand
<1>4. CASE WriteItem
  <2>1. /\ op \in [kind : OpKinds, batch : Batches] /\ NewWal(op.batch) \in Wals
        /\ op' = [op EXCEPT !.kind = "written"] /\ files' = files \cup {NewWal(op.batch)}
        /\ acked' = acked \ {op.batch}
    BY <1>1, <1>3, <1>4, InHand DEF WriteItem
  <2>2. op' \in [kind : OpKinds, batch : Batches] /\ acked' \subseteq Batches
    BY <1>1, <2>1 DEF OpKinds
  <2>3. UNCHANGED <<synced, statsFile, dead, mem, waiting, stats, up, blocked, epoch, server, accepted, crashes, faults>>
    BY <1>4 DEF WriteItem, memVars, uploadVars, boundVars
  <2> QED
    BY <1>1, <2>1, <2>2, <2>3, TypesTouch
<1>5. ASSUME op.kind = "written", Admit(op.batch)
      PROVE  mem' \in [Batches -> Nat] /\ stats' \in Counters /\ waiting' \subseteq Batches /\ op.batch \in Batches
  <2>1. op.batch \in Batches
    BY <1>3, <1>5
  <2>2. mem' \in [Batches -> Nat] /\ waiting' \subseteq Batches
    BY <1>1, <1>5, <2>1 DEF Admit
  <2>3. stats' \in Counters
    BY <1>1, <1>5 DEF Admit, Counters
  <2> QED
    BY <2>1, <2>2, <2>3
<1>6. CASE CommitItem
  <2>1. /\ mem' \in [Batches -> Nat] /\ stats' \in Counters /\ waiting' \subseteq Batches /\ op.batch \in Batches
    BY <1>5, <1>6 DEF CommitItem
  <2>2. accepted' \subseteq Batches /\ NewWal(op.batch) \in Wals
    BY <1>1, <1>6, <2>1, InHand DEF CommitItem
  <2>3. UNCHANGED <<files, dead, up, blocked, epoch, server, acked, crashes, faults>> /\ op' = Free
        /\ synced' = files /\ statsFile' = stats'
    BY <1>6 DEF CommitItem, SyncAndSave, uploadVars, boundVars
  <2> QED
    BY <1>1, <2>1, <2>2, <2>3, TypesTouch
<1>7. CASE WriteFault
  <2>1. op.kind \in {"write", "written"}
    BY <1>7 DEF WriteFault
  <2>2. /\ mem' \in [Batches -> Nat] /\ stats' \in Counters /\ waiting' \subseteq Batches
        /\ synced' \in {synced, files} /\ statsFile' \in {statsFile, stats'}
    BY <1>1, <1>5, <1>7 DEF WriteFault, memVars
  <2>3. NewWal(op.batch) \in Wals
    BY <1>1, <1>3, <2>1, InHand
  <2>4. UNCHANGED <<files, dead, up, blocked, epoch, server, accepted, acked, crashes>> /\ op' = Free
        /\ faults' = faults + 1
    BY <1>7 DEF WriteFault, Fault, uploadVars, ghostVars
  <2> QED
    BY <1>1, <2>2, <2>3, <2>4, TypesTouch
<1> QED
  BY <1>2, <1>4, <1>6, <1>7

\* The steps of Ack, Nack and Quarantine.
LEMMA TypesSettle ==
  ASSUME Typing,
         Nack \/ AckBegin \/ QuarantineBegin \/ QuarantineRemove \/ Settle \/ SettleFault
  PROVE  Typing'
<1>1. /\ TypeOK /\ mem \in [Batches -> Nat] /\ stats \in Counters /\ waiting \subseteq Batches
      /\ accepted \subseteq Batches /\ acked \subseteq Batches /\ dead \subseteq Batches
  BY DEF Typing, TypeOK
<1>2. ASSUME up.step \in {"ack", "nack", "reject"}
      PROVE  /\ up.batch \in Batches /\ waiting \cup {up.batch} \subseteq Batches
             /\ dead \cup {up.batch} \subseteq Batches
             /\ \A k \in OpKinds : Doing(k, up.batch) \in [kind : OpKinds, batch : Batches]
             /\ mem[up.batch] # 0 => Wal(up.batch) \in Wals
  <2>1. up.batch \in Batches
    BY <1>1, <1>2, InHand
  <2> QED
    BY <1>1, <2>1, InHand DEF Doing, Pending
<1>3. ASSUME op.kind \in {"ack", "quarantine", "quarantined"}
      PROVE  op \in [kind : OpKinds, batch : Batches] /\ op.batch \in Batches /\ NewWal(op.batch) \in Wals
             /\ acked \cup {op.batch} \subseteq Batches
  <2>1. op \in [kind : OpKinds, batch : Batches]
    BY <1>1, <1>3, InHand
  <2> QED
    BY <1>1, <2>1, InHand
<1>4. ASSUME NEW b \in Batches, Forget(b) PROVE mem' \in [Batches -> Nat] /\ waiting' \subseteq Batches
  BY <1>1, <1>4 DEF Forget
<1>5. ASSUME Nack \/ AckBegin \/ QuarantineBegin PROVE Typing'
  <2>1. up.step \in {"ack", "nack", "reject"} /\ mem[up.batch] # 0
    BY <1>5 DEF Nack, AckBegin, QuarantineBegin, Settling
  <2>2. Wal(up.batch) \in Wals /\ {"ack", "quarantine"} \subseteq OpKinds
    BY <1>2, <2>1 DEF OpKinds
  <2>3. CASE Nack
    BY <1>1, <1>2, <2>1, <2>2, <2>3, TypesTouch DEF Nack, TypeOK, ghostVars, boundVars
  <2>4. CASE AckBegin
    BY <1>1, <1>2, <2>1, <2>2, <2>4, TypesTouch DEF AckBegin, TypeOK, memVars, uploadVars,
       ghostVars, boundVars
  <2>5. CASE QuarantineBegin
    BY <1>1, <1>2, <2>1, <2>2, <2>5, TypesTouch DEF QuarantineBegin, memVars, uploadVars,
       ghostVars, boundVars
  <2> QED
    BY <1>5, <2>3, <2>4, <2>5
<1>6. CASE QuarantineRemove
  <2>1. op \in [kind : OpKinds, batch : Batches] /\ op' = [op EXCEPT !.kind = "quarantined"]
    BY <1>3, <1>6 DEF QuarantineRemove
  <2>2. op' \in [kind : OpKinds, batch : Batches]
    BY <2>1 DEF OpKinds
  <2>3. files' \subseteq Wals /\ IsFiniteSet(files')
    BY <1>6, FS_RemoveElement DEF QuarantineRemove, Typing, TypeOK
  <2>4. UNCHANGED <<synced, statsFile, dead, memVars, uploadVars, ghostVars, boundVars>>
    BY <1>6 DEF QuarantineRemove
  <2>5. TypeOK'
    BY <1>1, <2>2, <2>3, <2>4 DEF TypeOK, memVars, uploadVars, ghostVars, Counters
  <2> QED
    BY <2>3, <2>4, <2>5 DEF Typing, boundVars
<1>7. CASE Settle
  <2>1. op.kind \in {"ack", "quarantined"} /\ Forget(op.batch)
    BY <1>7 DEF Settle
  <2>2. op.batch \in Batches /\ mem' \in [Batches -> Nat] /\ waiting' \subseteq Batches /\ NewWal(op.batch) \in Wals
    BY <1>3, <1>4, <2>1
  <2>3. acked' \subseteq Batches
    BY <1>1, <1>3, <1>7, <2>1 DEF Settle
  <2>4. UNCHANGED <<files, stats, dead, blocked, epoch, server, accepted, crashes, faults>> /\ op' = Free
        /\ up' = IdleUpload /\ synced' = files /\ statsFile' = stats'
    BY <1>7 DEF Settle, SyncAndSave, boundVars
  <2> QED
    BY <1>1, <2>2, <2>3, <2>4, TypesTouch
<1>8. CASE SettleFault
  <2>1. /\ UNCHANGED <<stats, blocked, epoch, server, accepted, acked, crashes>> /\ op' = Free
        /\ up' = IdleUpload /\ faults' = faults + 1
    BY <1>8 DEF SettleFault, Fault, memVars, ghostVars
  <2>2. CASE op.kind \in {"ack", "quarantine", "quarantined"}
    <3>1. /\ files' = files /\ synced' \in {synced, files} /\ statsFile' \in {statsFile, stats'}
          /\ dead' = dead /\ (UNCHANGED <<mem, waiting>> \/ Forget(op.batch))
      BY <1>8, <2>1, <2>2 DEF SettleFault, memVars, Free
    <3>2. mem' \in [Batches -> Nat] /\ waiting' \subseteq Batches
      BY <1>1, <1>3, <1>4, <2>2, <3>1
    <3>3. NewWal(op.batch) \in Wals
      BY <1>3, <2>2
    <3> QED
      BY <1>1, <2>1, <3>1, <3>2, <3>3, TypesTouch
  <2>3. CASE op.kind \notin {"ack", "quarantine", "quarantined"}
    <3>1. /\ up.step \in {"ack", "nack", "reject"} /\ mem[up.batch] # 0
          /\ files' \in {files, files \cup {Wal(up.batch)}} /\ dead' \in {dead, dead \cup {up.batch}}
          /\ UNCHANGED <<synced, statsFile, mem, waiting>>
      BY <1>8, <2>3 DEF SettleFault, memVars
    <3>2. Wal(up.batch) \in Wals /\ dead' \subseteq Batches
      BY <1>1, <1>2, <3>1
    <3> QED
      BY <1>1, <2>1, <3>1, <3>2, TypesTouch
  <2> QED
    BY <2>2, <2>3
<1> QED
  BY <1>5, <1>6, <1>7, <1>8

\* What load reads back has the shape of what was there.
LEMMA LoadedNumbers ==
  ASSUME Typing, NEW dir, dir \subseteq Wals, IsFiniteSet(dir)
  PROVE  /\ \A b \in Batches : LET S == {0} \cup SeqsOf(dir, b) IN
              Max(S) \in S /\ Max(S) \in Nat /\ \A y \in S : y <= Max(S)
         /\ LoadedNext(dir) \in Nat
         /\ \A f \in dir : f.seq \in Nat /\ f.seq <= LoadedNext(dir)
<1> DEFINE seq == [f \in Wals |-> f.seq]
<1>1. \A f \in Wals : seq[f] = f.seq /\ f.seq \in Nat
  BY DEF Wals
<1>2. IsFiniteSet({seq[f] : f \in dir}) /\ {seq[f] : f \in dir} = {f.seq : f \in dir}
  <2> HIDE DEF seq
  <2>1. IsFiniteSet({seq[f] : f \in dir})
    BY NamesFinite
  <2> QED
    BY <1>1, <2>1
<1> HIDE DEF seq
<1>3. LoadedNext(dir) \in Nat /\ \A f \in dir : f.seq <= LoadedNext(dir)
  <2> DEFINE S == {statsFile.next} \cup {f.seq : f \in dir}
  <2>1. IsFiniteSet(S)
    <3>1. S = {f.seq : f \in dir} \cup {statsFile.next}
      OBVIOUS
    <3> QED
      BY <1>2, <3>1, FS_AddElement
  <2>2. S \subseteq Nat
    BY <1>1 DEF Typing, TypeOK, Counters
  <2>3. S # {} /\ S \subseteq Int /\ \A f \in dir : f.seq \in S
    BY <2>2
  <2>4. LoadedNext(dir) = Max(S)
    BY DEF LoadedNext
  <2> HIDE DEF S
  <2>5. Max(S) \in S /\ \A y \in S : y <= Max(S)
    BY <2>1, <2>3, MaxOf
  <2> QED
    BY <2>2, <2>3, <2>4, <2>5
<1>4. ASSUME NEW b \in Batches
      PROVE  LET S == {0} \cup SeqsOf(dir, b) IN
               Max(S) \in S /\ Max(S) \in Nat /\ \A y \in S : y <= Max(S)
  <2> DEFINE S == {0} \cup SeqsOf(dir, b)
  <2>1. SeqsOf(dir, b) \subseteq {f.seq : f \in dir}
    BY DEF SeqsOf
  <2>2. IsFiniteSet(SeqsOf(dir, b))
    BY <1>2, <2>1, FS_Subset
  <2>3. S = SeqsOf(dir, b) \cup {0}
    OBVIOUS
  <2>4. IsFiniteSet(S)
    BY <2>2, <2>3, FS_AddElement
  <2>5. S \subseteq Nat /\ S # {} /\ S \subseteq Int
    BY <1>1, <2>1
  <2> HIDE DEF S
  <2>6. Max(S) \in S /\ \A y \in S : y <= Max(S)
    BY <2>4, <2>5, MaxOf
  <2>7. Max(S) \in Nat
    BY <2>5, <2>6
  <2> QED
    BY <2>6, <2>7 DEF S
<1> QED
  BY <1>1, <1>3, <1>4

\* A restart.
LEMMA TypesCrash ==
  ASSUME Typing, Crash
  PROVE  Typing'
<1>1. PICK kept \in SUBSET ((files \ synced) \cup (synced \ files)) : Load((files \cap synced) \cup kept)
  BY DEF Crash
<1> DEFINE dir == (files \cap synced) \cup kept
<1>2. dir \subseteq Wals /\ dir \subseteq files \cup synced
  BY DEF Typing, TypeOK
<1>3. IsFiniteSet(dir)
  <2>1. IsFiniteSet(files \cup synced)
    BY FS_Union DEF Typing
  <2> HIDE DEF dir
  <2> QED
    BY <1>2, <2>1, FS_Subset
<1>4. Load(dir)
  BY <1>1
<1> HIDE DEF dir
<1>5. \A b \in Batches : Max({0} \cup SeqsOf(dir, b)) \in Nat
  BY <1>2, <1>3, LoadedNumbers
<1>6. mem' \in [Batches -> Nat]
  BY <1>4, <1>5 DEF Load
<1>7. stats' \in Counters /\ statsFile' = stats'
  <2>1. LoadedNext(dir) \in Nat /\ statsFile.dropped \in Nat
    BY <1>2, <1>3, LoadedNumbers DEF Typing, TypeOK, Counters
  <2> QED
    BY <1>4, <2>1 DEF Load, Counters
<1>8. files' = dir /\ synced' = dir /\ waiting' \subseteq waiting
  BY <1>4 DEF Load
<1>9. /\ UNCHANGED <<dead, epoch, server, accepted, acked, faults>> /\ crashes' = crashes + 1
      /\ op' = Free /\ up' = IdleUpload /\ blocked' = FALSE
  BY DEF Crash, ghostVars
<1>10. TypeOK'
  BY <1>2, <1>6, <1>7, <1>8, <1>9 DEF Typing, TypeOK
<1>11. faults' \in Nat /\ crashes' \in Nat
  BY <1>9 DEF Typing
<1> QED
  BY <1>3, <1>8, <1>10, <1>11 DEF Typing

\* Every step keeps the shape.
LEMMA NextTyping ==
  ASSUME Typing, [Next]_vars
  PROVE  Typing'
<1>1. CASE UNCHANGED vars
  BY <1>1 DEF Typing, TypeOK, vars, diskVars, memVars, uploadVars, ghostVars, boundVars,
     Counters
<1> QED
  BY <1>1, TypesExchange, TypesEnqueue, TypesSettle, TypesCrash DEF Next, Enqueue, Deliver

-----------------------------------------------------------------------------
(* The bytes counted are those of the batches in memory.                   *)

\* The batch of the operation in progress is new, or in memory.
OpFits ==
  /\ op.kind \in {"evict", "write", "written"} => mem[op.batch] = 0
  /\ op.kind \in {"ack", "quarantine", "quarantined"} => mem[op.batch] # 0

\* PendingBytes is the sum of the sizes of the batches in memory.
Exact == IsFiniteSet(Pending) /\ pending = Total(Size, Pending)

\* What was counted fits, and what is being written fits beside it.
Budget ==
  /\ pending <= MaxBytes
  /\ op.kind \in {"write", "written"} => ~Over(op.batch)

\* The inductive invariant of WithinBudget.
BudgetInv == Typing /\ (crashes = 0 => OpFits /\ Exact /\ Budget)

\* Bytes are natural numbers.
LEMMA ExactNat ==
  ASSUME Typing, Exact
  PROVE  /\ pending \in Nat /\ \A b \in Batches : Size[b] \in Nat
         /\ Pending \subseteq Batches
<1>1. Pending \subseteq Batches /\ \A b \in Batches : Size[b] \in Nat
  BY QueueAssumption DEF Pending
<1>2. \A b \in Pending : Size[b] \in Nat
  BY <1>1
<1>3. Total(Size, Pending) \in Nat
  BY <1>2, TotalNat DEF Exact
<1> QED
  BY <1>1, <1>3 DEF Exact

\* A batch that leaves the memory takes its bytes along.
LEMMA ExactForget ==
  ASSUME Typing, Exact, NEW b \in Pending, Forget(b)
  PROVE  /\ Exact' /\ Pending' = Pending \ {b}
         /\ pending' = pending - Size[b] /\ pending' <= pending
         /\ mem'[b] = 0 /\ \A d \in Batches : d # b => mem'[d] = mem[d]
<1>1. b \in Batches /\ mem \in [Batches -> Nat] /\ pending' = pending - Size[b]
  BY DEF Pending, Typing, TypeOK, Forget
<1>2. mem'[b] = 0 /\ \A d \in Batches : d # b => mem'[d] = mem[d]
  BY <1>1 DEF Forget
<1>3. Pending' = Pending \ {b}
  BY <1>1, <1>2 DEF Pending
<1>4. IsFiniteSet(Pending \ {b})
  BY FS_RemoveElement DEF Exact
<1>5. pending \in Nat /\ Size[b] \in Nat /\ \A d \in Pending : Size[d] \in Nat
  BY <1>1, ExactNat
<1>6. Total(Size, Pending) = Size[b] + Total(Size, Pending \ {b})
  BY <1>5, TotalRemove DEF Exact
<1>7. Total(Size, Pending \ {b}) \in Nat
  BY <1>4, <1>5, TotalNat
<1>8. pending' = Total(Size, Pending \ {b})
  BY <1>1, <1>5, <1>6, <1>7 DEF Exact
<1>9. Exact'
  BY <1>3, <1>4, <1>8 DEF Exact
<1>10. pending' <= pending
  BY <1>1, <1>5
<1> QED
  BY <1>1, <1>2, <1>3, <1>9, <1>10

\* A batch that enters the memory brings its bytes.
LEMMA ExactAdmit ==
  ASSUME Typing, Exact, NEW b \in Batches, mem[b] = 0, Admit(b)
  PROVE  /\ Exact' /\ Pending' = Pending \cup {b} /\ pending' = pending + Size[b]
         /\ mem'[b] = stats.next + 1 /\ \A d \in Batches : d # b => mem'[d] = mem[d]
<1>1. mem \in [Batches -> Nat] /\ pending' = pending + Size[b] /\ stats.next \in Nat
  BY DEF Typing, TypeOK, Admit, Counters
<1>2. mem'[b] = stats.next + 1 /\ \A d \in Batches : d # b => mem'[d] = mem[d]
  BY <1>1 DEF Admit
<1>3. mem'[b] # 0
  BY <1>1, <1>2
<1>4. Pending' = Pending \cup {b} /\ b \notin Pending
  BY <1>2, <1>3 DEF Pending
<1>5. IsFiniteSet(Pending \cup {b})
  BY FS_AddElement DEF Exact
<1>6. \A d \in Pending \cup {b} : Size[d] \in Nat
  BY ExactNat
<1>7. (Pending \cup {b}) \ {b} = Pending /\ b \in Pending \cup {b}
  BY <1>4
<1>8. Total(Size, Pending \cup {b}) = Size[b] + Total(Size, (Pending \cup {b}) \ {b})
  BY <1>5, <1>6, <1>7, TotalRemove
<1>9. pending \in Nat /\ Size[b] \in Nat
  BY ExactNat
<1>10. Total(Size, Pending \cup {b}) = Size[b] + Total(Size, Pending)
  BY <1>7, <1>8
<1>11. pending = Total(Size, Pending)
  BY DEF Exact
<1>12. pending + Size[b] = Size[b] + pending
  BY <1>9
<1>13. pending' = Total(Size, Pending \cup {b})
  BY <1>1, <1>10, <1>11, <1>12
<1> QED
  BY <1>1, <1>2, <1>4, <1>5, <1>13 DEF Exact

\* Every step but a restart counts exactly, and stays within the budget.
LEMMA ExactStep ==
  ASSUME Typing, OpFits, Exact, Next, ~Crash
  PROVE  OpFits' /\ Exact' /\ (Budget => Budget')
<1>1. pending \in Nat /\ MaxBytes \in Nat /\ \A b \in Batches : Size[b] \in Nat
  BY ExactNat, QueueAssumption
<1>2. ASSUME UNCHANGED <<mem, pending>>
      PROVE  Exact' /\ Pending' = Pending /\ \A b : Over(b)' <=> Over(b)
  BY <1>2 DEF Exact, Pending, Over
<1>f. Free.kind = "free"
  BY DEF Free
<1>3. CASE \E b \in Batches : EnqueueBegin(b)
  <2>1. PICK b \in Batches : EnqueueBegin(b)
    BY <1>3
  <2>2. UNCHANGED <<mem, pending>> /\ mem[b] = 0 /\ op'.batch = b
        /\ op'.kind = (IF Over(b) THEN "evict" ELSE "write")
    BY <2>1 DEF EnqueueBegin, Doing, memVars
  <2> QED
    BY <1>2, <2>2 DEF OpFits, Budget
<1>4. CASE AckBegin \/ QuarantineBegin
  <2>1. UNCHANGED <<mem, pending>> /\ mem[op'.batch] # 0 /\ op'.kind \in {"ack", "quarantine"}
    BY <1>4 DEF AckBegin, QuarantineBegin, Settling, Doing, memVars
  <2> QED
    BY <1>2, <2>1 DEF OpFits, Budget
<1>5. CASE EvictDone \/ WriteItem \/ QuarantineRemove
  <2>1. op.kind # "free"
    BY <1>5 DEF EvictDone, WriteItem, QuarantineRemove
  <2>2. op \in [kind : OpKinds, batch : Batches]
    BY <2>1, InHand DEF Typing
  <2>3. /\ UNCHANGED <<mem, pending>>
        /\ \/ op.kind = "evict" /\ ~Over(op.batch) /\ op' = [op EXCEPT !.kind = "write"]
           \/ op.kind = "write" /\ op' = [op EXCEPT !.kind = "written"]
           \/ op.kind = "quarantine" /\ op' = [op EXCEPT !.kind = "quarantined"]
    BY <1>5 DEF EvictDone, WriteItem, QuarantineRemove, memVars
  <2>4. op'.batch = op.batch /\ \/ op.kind = "evict" /\ ~Over(op.batch) /\ op'.kind = "write"
                                \/ op.kind = "write" /\ op'.kind = "written"
                                \/ op.kind = "quarantine" /\ op'.kind = "quarantined"
    BY <2>2, <2>3
  <2> QED
    BY <1>2, <2>3, <2>4 DEF OpFits, Budget
<1>6. CASE \/ \E b \in Batches : EnqueueKnown(b) \/ TimePasses(b)
           \/ EvictRefused \/ EvictFault \/ Pick \/ Answer \/ UploadMoot \/ Nack \/ RotateCredentials
  <2>1. UNCHANGED <<mem, pending>> /\ op' \in {op, Free}
    BY <1>6 DEF EnqueueKnown, TimePasses, EvictRefused, EvictFault, Pick, Answer, Delivered,
       Undelivered,
         Rejected, Denied, UploadMoot, Nack, RotateCredentials, memVars
  <2> QED
    BY <1>2, <1>f, <2>1 DEF OpFits, Budget
<1>7. CASE EvictOldest
  <2>1. PICK old \in Pending : Forget(old) /\ op.kind = "evict" /\ UNCHANGED op
    BY <1>7 DEF EvictOldest, Oldest
  <2>2. op.batch \in Batches /\ op.batch # old
    BY <2>1, InHand DEF Typing, OpFits, Pending
  <2>3. Exact' /\ pending' <= pending /\ mem'[op.batch] = 0 /\ pending' \in Nat
    <3>1. Exact' /\ pending' <= pending /\ mem'[op.batch] = mem[op.batch] /\ pending' = pending - Size[old]
      BY <2>1, <2>2, ExactForget
    <3>2. pending' \in Int
      BY <1>1, <2>1, <3>1, ExactNat
    <3>3. pending' = Total(Size, Pending') /\ IsFiniteSet(Pending') /\ \A d \in Pending' : Size[d] \in Nat
      BY <1>1, <3>1 DEF Exact, Pending
    <3>4. pending' \in Nat
      BY <3>3, TotalNat
    <3> QED
      BY <2>1, <3>1, <3>4 DEF OpFits
  <2>4. OpFits'
    BY <2>1, <2>3 DEF OpFits
  <2>5. Budget => Budget'
    <3>1. Budget => pending' <= MaxBytes
      BY <1>1, <2>3 DEF Budget
    <3> QED
      BY <2>1, <3>1 DEF Budget
  <2> QED
    BY <2>3, <2>4, <2>5
<1>8. CASE Settle \/ SettleFault
  <2>1. op' = Free
    BY <1>8 DEF Settle, SettleFault
  <2>2. OpFits' /\ op'.kind = "free"
    BY <1>f, <2>1 DEF OpFits
  <2>3. CASE UNCHANGED <<mem, pending>>
    BY <1>2, <2>2, <2>3 DEF Budget
  <2>4. CASE op.kind \in {"ack", "quarantined"} /\ Forget(op.batch)
    <3>1. op.batch \in Pending
      BY <2>4, InHand DEF OpFits, Pending, Typing
    <3>2. Exact' /\ pending' <= pending /\ pending' = pending - Size[op.batch] /\ op.batch \in Batches
      BY <2>4, <3>1, ExactForget, ExactNat
    <3>3. Budget => pending' <= MaxBytes
      BY <1>1, <3>2 DEF Budget
    <3> QED
      BY <2>2, <3>2, <3>3 DEF Budget
  <2> QED
    BY <1>8, <2>3, <2>4 DEF Settle, SettleFault, memVars
<1>9. CASE CommitItem \/ WriteFault
  <2>1. op' = Free
    BY <1>9 DEF CommitItem, WriteFault
  <2>2. OpFits' /\ op'.kind = "free"
    BY <1>f, <2>1 DEF OpFits
  <2>3. CASE UNCHANGED <<mem, pending>>
    BY <1>2, <2>2, <2>3 DEF Budget
  <2>4. CASE op.kind = "written" /\ Admit(op.batch)
    <3>1. op.batch \in Batches /\ mem[op.batch] = 0
      BY <2>4, InHand DEF OpFits, Typing
    <3>2. Exact' /\ pending' = pending + Size[op.batch]
      BY <2>4, <3>1, ExactAdmit
    <3>3. Budget => pending' <= MaxBytes
      BY <1>1, <2>4, <3>1, <3>2 DEF Budget, Over
    <3> QED
      BY <2>2, <3>2, <3>3 DEF Budget
  <2> QED
    BY <1>9, <2>3, <2>4 DEF CommitItem, WriteFault, memVars
<1> QED
  BY <1>3, <1>4, <1>5, <1>6, <1>7, <1>8, <1>9 DEF Next, Enqueue, Deliver

\* Only a loss of power counts as one.
LEMMA Counted ==
  ASSUME Typing, [Next]_vars
  PROVE  /\ crashes' = crashes \/ (crashes' = crashes + 1 /\ Crash)
         /\ faults' = faults \/ (faults' = faults + 1 /\ (EvictFault \/ WriteFault \/ SettleFault))
         /\ faults \in Nat /\ crashes \in Nat /\ (Crash => crashes' = crashes + 1)
         /\ (EvictFault \/ WriteFault \/ SettleFault => faults' = faults + 1)
BY DEF Typing, Next, Enqueue, EnqueueKnown, EnqueueBegin, EvictOldest, EvictRefused, EvictDone,
       WriteItem, CommitItem, EvictFault, WriteFault, Deliver, Pick, Answer, Delivered, Undelivered,
       Rejected, Denied, UploadMoot, Nack, AckBegin, QuarantineBegin, QuarantineRemove, Settle,
       SettleFault, RotateCredentials, TimePasses, Crash, Fault, vars, boundVars

\* What is true when Open has found an empty directory.
LEMMA InitTyping ==
  ASSUME Init
  PROVE  Typing /\ OpFits /\ Exact /\ Budget /\ Pending = {} /\ op.kind = "free"
<1>1. TypeOK
  BY DEF Init, TypeOK, Counters
<1>2. Pending = {} /\ op.kind = "free"
  BY DEF Init, Pending, Free
<1>3. Typing
  BY <1>1, FS_EmptySet DEF Init, Typing
<1>4. Exact
  BY <1>2, FS_EmptySet, TotalEmpty DEF Init, Exact
<1>5. OpFits /\ Budget
  BY <1>2, QueueAssumption DEF Init, OpFits, Budget
<1> QED
  BY <1>2, <1>3, <1>4, <1>5

\* The batches in memory stay within Policy.MaxBytes until the next restart,
\* although evictions, writes and removals may fail half way (makeCapacity).
THEOREM BudgetKept == Spec => []WithinBudget
<1>1. Init => BudgetInv
  BY InitTyping DEF BudgetInv
<1>2. BudgetInv /\ [Next]_vars => BudgetInv'
  <2> SUFFICES ASSUME BudgetInv, [Next]_vars PROVE BudgetInv'
    OBVIOUS
  <2>1. Typing /\ Typing'
    BY NextTyping DEF BudgetInv
  <2> SUFFICES ASSUME crashes' = 0 PROVE (OpFits /\ Exact /\ Budget)'
    BY <2>1 DEF BudgetInv
  <2>2. crashes = 0 /\ ~Crash
    BY <2>1, Counted
  <2>3. OpFits /\ Exact /\ Budget
    BY <2>2 DEF BudgetInv
  <2>4. CASE Next
    BY <2>1, <2>2, <2>3, <2>4, ExactStep
  <2>5. CASE UNCHANGED vars
    BY <2>3, <2>5 DEF vars, memVars, OpFits, Exact, Budget, Pending, Over
  <2> QED
    BY <2>4, <2>5
<1>3. BudgetInv => WithinBudget
  BY DEF BudgetInv, Exact, Budget, Total, WithinBudget
<1> QED
  BY <1>1, <1>2, <1>3, PTL DEF Spec

-----------------------------------------------------------------------------
(* The directory mirrors the memory.                                       *)

\* The files of the batches in memory.
Live == {Wal(b) : b \in Pending}

\* In a queue that may not evict the synced directory holds the batches in
\* memory; the directory differs from it by the file an operation adds or removes.
Mirror ==
  /\ synced = Live /\ op.kind # "evict"
  /\ op.kind \in {"free", "write", "quarantine"} => files = Live
  /\ op.kind = "written" => files = Live \cup {NewWal(op.batch)}
  /\ op.kind \in {"ack", "quarantined"} => files = Live \ {Wal(op.batch)}
  /\ \A b, d \in Pending : mem[b] = mem[d] => b = d
  /\ \A b \in Pending : mem[b] <= stats.next
  /\ \A b \in acked : mem[b] = 0 /\ ~(op.kind = "written" /\ op.batch = b)

\* The inductive invariant of RebuiltExactly.
RebuildInv == Typing /\ (~DropOldest /\ faults = 0 => OpFits /\ Exact /\ Mirror)

\* Files differ in batch and in sequence.
Distinct(dir) == \A f, g \in dir : f.batch = g.batch \/ f.seq = g.seq => f = g

\* The name of a file.
LEMMA WalParts ==
  ASSUME NEW b
  PROVE  Wal(b).batch = b /\ Wal(b).seq = mem[b] /\ NewWal(b).batch = b /\ NewWal(b).seq = stats.next + 1
BY DEF Wal, NewWal

\* The files a crash may find.
LEMMA MirrorFiles ==
  ASSUME Typing, OpFits, Mirror
  PROVE  /\ Distinct(files \cup synced)
         /\ \A f \in files \cup synced : f.batch \notin acked
<1>1. mem \in [Batches -> Nat] /\ stats.next \in Nat
  BY DEF Typing, TypeOK, Counters
<1> DEFINE New == IF op.kind = "written" THEN {NewWal(op.batch)} ELSE {}
<1>2. files \cup synced \subseteq Live \cup New
  <2>1. op.kind \in OpKinds \cup {"free"}
    BY DEF Typing, TypeOK, Free
  <2> QED
    BY <2>1 DEF Mirror, OpKinds
<1>3. \A f \in Live : f.batch \in Pending /\ f = Wal(f.batch) /\ f.seq = mem[f.batch]
  BY WalParts DEF Live
<1>4. \A f \in New : /\ f = NewWal(op.batch) /\ f.batch = op.batch /\ f.seq = stats.next + 1
                     /\ mem[f.batch] = 0 /\ f.batch \notin acked
  BY WalParts DEF OpFits, Mirror
<1> HIDE DEF New
<1>5. \A b \in Pending : mem[b] \in Nat /\ mem[b] # 0 /\ mem[b] <= stats.next /\ b \notin acked
  BY <1>1 DEF Pending, Mirror
<1>6. ASSUME NEW f \in Live, NEW g \in Live, f.batch = g.batch \/ f.seq = g.seq PROVE f = g
  <2>1. f.batch = g.batch
    BY <1>3, <1>6 DEF Mirror
  <2> QED
    BY <1>3, <2>1
<1>7. ASSUME NEW f \in Live, NEW g \in New PROVE f.batch # g.batch /\ f.seq # g.seq
  <2>1. f.batch # g.batch
    BY <1>3, <1>4, <1>5
  <2>2. f.seq <= stats.next /\ f.seq \in Nat /\ g.seq = stats.next + 1
    BY <1>3, <1>4, <1>5
  <2>3. f.seq # g.seq
    BY <1>1, <2>2
  <2> QED
    BY <2>1, <2>3
<1>8. ASSUME NEW f \in New, NEW g \in New PROVE f = g
  BY <1>4
<1>9. Distinct(Live \cup New)
  BY <1>6, <1>7, <1>8 DEF Distinct
<1>10. \A f \in Live \cup New : f.batch \notin acked
  BY <1>3, <1>4, <1>5
<1> QED
  BY <1>2, <1>9, <1>10 DEF Distinct

\* Bytes summed file by file are those of the batches named.
LEMMA LoadedTotal ==
  ASSUME NEW dir, dir \subseteq Wals, IsFiniteSet(dir), Distinct(dir)
  PROVE  LoadedBytes(dir) = Total(Size, Named(dir))
<1> DEFINE v == [f \in Wals |-> Size[f.batch]]
           name == [f \in Wals |-> f.batch]
           Adds(g) == g = [s \in SUBSET dir |-> IF s = {} THEN 0 ELSE Size[One(s).batch] + g[s \ {One(s)}]]
<1>1. \A f \in dir : v[f] = Size[f.batch] /\ name[f] = f.batch /\ Size[f.batch] \in Nat
  BY QueueAssumption DEF Wals
<1> HIDE DEF v, name
<1>2. \A s \in SUBSET dir : s # {} => v[One(s)] = Size[One(s).batch]
  BY <1>1, OneOf
<1>3. ASSUME NEW g PROVE Adds(g) <=> Sums(g, v, dir)
  BY <1>2 DEF Sums
<1>4. \E g : Adds(g)
  BY <1>3, SumsExist
<1> DEFINE a == CHOOSE g : Adds(g)
<1>5. LoadedBytes(dir) = a[dir]
  BY DEF LoadedBytes, MapThenSumSet, MapThenFoldSet, One
<1>6. Adds(a)
  BY <1>4
<1> HIDE DEF a
<1>7. Sums(a, v, dir)
  BY <1>3, <1>6
<1>8. PICK h : Sums(h, v, dir) /\ Total(v, dir) = h[dir]
  BY TotalSums
<1>9. a[dir] = h[dir]
  <2>1. dir \in SUBSET dir
    OBVIOUS
  <2> QED
    BY <1>7, <1>8, <2>1, SumsAgree
<1>10. Total(v, dir) = Total(Size, {name[f] : f \in dir})
  <2>1. \A f \in dir : Size[name[f]] \in Nat /\ v[f] = Size[name[f]]
    BY <1>1
  <2>2. \A f, g \in dir : name[f] = name[g] => f = g
    BY <1>1 DEF Distinct
  <2> QED
    BY <2>1, <2>2, TotalRenamed
<1>11. {name[f] : f \in dir} = Named(dir)
  BY <1>1 DEF Named
<1> QED
  BY <1>5, <1>8, <1>9, <1>10, <1>11

\* What load makes of a directory without duplicates.
LEMMA LoadMirrors ==
  ASSUME Typing, NEW dir, dir \subseteq Wals, IsFiniteSet(dir), Distinct(dir), Load(dir), op' = Free,
         acked' = acked, acked \subseteq Batches, \A f \in dir : f.batch \notin acked
  PROVE  OpFits' /\ Exact' /\ Mirror'
<1>1. \A b \in Batches : mem'[b] = Max({0} \cup SeqsOf(dir, b))
  BY DEF Load
<1>2. \A f \in dir : f \in Wals /\ f.batch \in Batches /\ f.seq \in Nat /\ f.seq # 0
  BY DEF Wals
<1>3. ASSUME NEW f \in dir PROVE mem'[f.batch] = f.seq
  <2>1. SeqsOf(dir, f.batch) = {f.seq}
    BY DEF SeqsOf, Distinct
  <2> DEFINE S == {0} \cup SeqsOf(dir, f.batch)
  <2>2. Max(S) \in S /\ \A y \in S : y <= Max(S)
    BY <1>2, LoadedNumbers
  <2>3. S = {0, f.seq}
    BY <2>1
  <2> HIDE DEF S
  <2>4. Max(S) = f.seq
    BY <1>2, <2>2, <2>3
  <2> QED
    BY <1>1, <1>2, <2>4 DEF S
<1>4. ASSUME NEW b \in Batches, b \notin Named(dir) PROVE mem'[b] = 0
  BY <1>1, <1>4, LoadedAbsent
<1>5. Pending' = Named(dir)
  <2>1. ASSUME NEW b \in Batches, mem'[b] # 0 PROVE b \in Named(dir)
    BY <1>4, <2>1
  <2>2. ASSUME NEW b \in Named(dir) PROVE b \in Batches /\ mem'[b] # 0
    <3>1. PICK f \in dir : b = f.batch
      BY DEF Named
    <3> QED
      BY <1>2, <1>3, <3>1
  <2> QED
    BY <2>1, <2>2 DEF Pending
<1>6. \A f \in dir : Wal(f.batch)' = f
  <2> SUFFICES ASSUME NEW f \in dir PROVE [seq |-> mem'[f.batch], batch |-> f.batch] = f
    BY DEF Wal
  <2> QED
    BY <1>2, <1>3 DEF Wals
<1>7. Live' = dir
  <2>1. Live' = {Wal(b)' : b \in Named(dir)}
    BY <1>5 DEF Live
  <2> QED
    BY <1>6, <2>1 DEF Named
<1>8. Exact'
  <2>1. IsFiniteSet(Named(dir))
    <3> DEFINE name == [f \in Wals |-> f.batch]
    <3>1. {name[f] : f \in dir} = Named(dir)
      BY DEF Named
    <3> HIDE DEF name
    <3>2. IsFiniteSet({name[f] : f \in dir})
      BY NamesFinite
    <3> QED
      BY <3>1, <3>2
  <2>2. pending' = Total(Size, Named(dir))
    BY LoadedTotal DEF Load
  <2> QED
    BY <1>5, <2>1, <2>2 DEF Exact
<1>9. op'.kind = "free" /\ files' = dir /\ synced' = dir
  BY DEF Load, Free
<1>10. \A b, d \in Pending' : mem'[b] = mem'[d] => b = d
  BY <1>3, <1>5 DEF Named, Distinct
<1>11. \A b \in Pending' : mem'[b] <= stats'.next
  <2>1. stats'.next = LoadedNext(dir)
    BY DEF Load
  <2>2. \A f \in dir : f.seq <= LoadedNext(dir)
    BY LoadedNumbers
  <2> QED
    BY <1>3, <1>5, <2>1, <2>2 DEF Named
<1>12. \A b \in acked' : mem'[b] = 0
  BY <1>4 DEF Named
<1>13. Mirror'
  BY <1>7, <1>9, <1>10, <1>11, <1>12 DEF Mirror
<1>14. OpFits'
  BY <1>9 DEF OpFits
<1> QED
  BY <1>8, <1>13, <1>14

\* A restart finds a directory without duplicates.
LEMMA MirrorCrash ==
  ASSUME Typing, OpFits, Mirror, Crash
  PROVE  OpFits' /\ Exact' /\ Mirror'
<1>1. PICK kept \in SUBSET ((files \ synced) \cup (synced \ files)) : Load((files \cap synced) \cup kept)
  BY DEF Crash
<1> DEFINE dir == (files \cap synced) \cup kept
<1>2. dir \subseteq files \cup synced /\ Load(dir)
  BY <1>1
<1> HIDE DEF dir
<1>3. dir \subseteq Wals
  BY <1>2 DEF Typing, TypeOK
<1>4. IsFiniteSet(dir)
  <2>1. IsFiniteSet(files \cup synced)
    BY FS_Union DEF Typing
  <2> QED
    BY <1>2, <2>1, FS_Subset
<1>5. Distinct(dir) /\ \A f \in dir : f.batch \notin acked
  BY <1>2, MirrorFiles DEF Distinct
<1>6. op' = Free /\ acked' = acked /\ acked \subseteq Batches
  BY DEF Crash, ghostVars, Typing, TypeOK
<1> QED
  BY <1>2, <1>3, <1>4, <1>5, <1>6, LoadMirrors

\* Steps that leave memory and directory as they were.
LEMMA MirrorQuiet ==
  ASSUME Typing, Mirror, UNCHANGED <<mem, acked, files, synced>>, stats' = stats,
         \/ op' = op
         \/ op.kind = "free" /\ op'.kind \in {"free", "write", "quarantine"}
  PROVE  Mirror'
<1>1. Pending' = Pending /\ Live' = Live /\ NewWal(op.batch)' = NewWal(op'.batch)
  BY DEF Pending, Live, Wal, NewWal
<1>2. /\ \A b, d \in Pending' : mem'[b] = mem'[d] => b = d
      /\ \A b \in Pending' : mem'[b] <= stats'.next
  BY <1>1 DEF Mirror
<1>3. CASE op' = op
  <2>1. Wal(op.batch)' = Wal(op.batch)
    BY <1>3 DEF Wal
  <2> QED
    BY <1>1, <1>2, <1>3, <2>1 DEF Mirror
<1>4. CASE op.kind = "free" /\ op'.kind \in {"free", "write", "quarantine"}
  BY <1>1, <1>2, <1>4 DEF Mirror
<1> QED
  BY <1>3, <1>4

\* Every other step without fault keeps directory and memory together.
LEMMA MirrorStep ==
  ASSUME ~DropOldest, Typing, OpFits, Exact, Mirror, Next, ~Crash,
         ~EvictFault, ~WriteFault, ~SettleFault
  PROVE  Mirror'
<1>f. Free.kind = "free"
  BY DEF Free
<1>t. mem \in [Batches -> Nat] /\ stats.next \in Nat
  BY DEF Typing, TypeOK, Counters
<1>1. CASE \E b \in Batches : EnqueueBegin(b)
  <2>1. PICK b \in Batches : EnqueueBegin(b)
    BY <1>1
  <2>2. op = Free /\ op'.kind = "write" /\ UNCHANGED <<mem, acked, files, synced>> /\ stats' = stats
    BY <2>1 DEF EnqueueBegin, Doing, diskVars, memVars, ghostVars
  <2> QED
    BY <1>f, <2>2, MirrorQuiet
<1>2. CASE \/ \E b \in Batches : EnqueueKnown(b) \/ TimePasses(b)
           \/ Pick \/ Answer \/ UploadMoot \/ RotateCredentials
  <2>1. UNCHANGED <<mem, acked, files, synced, op>> /\ stats' = stats
    BY <1>2 DEF EnqueueKnown, TimePasses, Pick, Answer, Delivered, Undelivered, Rejected,
       Denied,
         UploadMoot, RotateCredentials, diskVars, memVars, ghostVars
  <2> QED
    BY <2>1, MirrorQuiet
<1>3. CASE Nack
  <2>1. /\ op = Free /\ mem[up.batch] # 0 /\ up.step = "nack" /\ files' = files \cup {Wal(up.batch)}
        /\ synced' = files' /\ UNCHANGED <<mem, acked, op>> /\ stats' = stats
    BY <1>3 DEF Nack, Settling, ghostVars
  <2>2. up.batch \in Batches
    BY <2>1, InHand DEF Typing
  <2>3. Wal(up.batch) \in Live
    BY <2>1, <2>2 DEF Live, Pending
  <2>4. files = Live /\ synced = Live
    BY <1>f, <2>1 DEF Mirror
  <2>5. files' = files /\ synced' = synced
    BY <2>1, <2>3, <2>4
  <2> QED
    BY <2>1, <2>5, MirrorQuiet
<1>4. CASE QuarantineBegin
  <2>1. op = Free /\ op'.kind = "quarantine" /\ UNCHANGED <<mem, acked, files, synced>> /\ stats' = stats
    BY <1>4 DEF QuarantineBegin, Settling, Doing, memVars, ghostVars
  <2> QED
    BY <1>f, <2>1, MirrorQuiet
<1>5. CASE EvictOldest \/ EvictRefused \/ EvictDone
  BY <1>5 DEF EvictOldest, EvictRefused, EvictDone, Mirror
<1>6. ASSUME UNCHANGED mem PROVE Pending' = Pending /\ Live' = Live /\ \A b : Wal(b)' = Wal(b)
  BY <1>6 DEF Pending, Live, Wal
<1>7. CASE WriteItem
  <2>1. op.kind = "write" /\ op \in [kind : OpKinds, batch : Batches] /\ op' = [op EXCEPT !.kind = "written"]
    BY <1>7, InHand DEF WriteItem, Typing
  <2>2. op'.kind = "written" /\ op'.batch = op.batch
    BY <2>1
  <2>3. /\ UNCHANGED <<mem, synced>> /\ stats' = stats /\ acked' = acked \ {op.batch}
        /\ files' = files \cup {NewWal(op.batch)} /\ files = Live
    BY <1>7, <2>1 DEF WriteItem, memVars, Mirror
  <2>4. NewWal(op.batch)' = NewWal(op.batch)
    BY <2>2, <2>3 DEF NewWal
  <2> QED
    BY <1>6, <2>2, <2>3, <2>4 DEF Mirror
<1>8. CASE AckBegin \/ QuarantineRemove
  <2>1. PICK b \in Batches : /\ files' = files \ {Wal(b)} /\ op'.batch = b /\ op'.kind \in {"ack", "quarantined"}
                             /\ files = Live /\ UNCHANGED <<mem, acked, synced>> /\ stats' = stats
    <3>1. CASE AckBegin
      <4>1. op = Free /\ up.step = "ack"
        BY <3>1 DEF AckBegin, Settling
      <4>2. up.batch \in Batches /\ files = Live
        BY <1>f, <4>1, InHand DEF Typing, Mirror
      <4> QED
        BY <3>1, <4>2 DEF AckBegin, Doing, memVars, ghostVars
    <3>2. CASE QuarantineRemove
      <4>1. op \in [kind : OpKinds, batch : Batches] /\ op' = [op EXCEPT !.kind = "quarantined"] /\ files = Live
        BY <3>2, InHand DEF QuarantineRemove, Typing, Mirror
      <4>2. op.batch \in Batches /\ op'.batch = op.batch /\ op'.kind = "quarantined"
        BY <4>1
      <4> QED
        BY <3>2, <4>1, <4>2 DEF QuarantineRemove, memVars, ghostVars
    <3> QED
      BY <1>8, <3>1, <3>2
  <2>2. files' = Live' \ {Wal(op.batch)'}
    BY <1>6, <2>1 DEF Wal
  <2> QED
    BY <1>6, <2>1, <2>2 DEF Mirror
<1>9. CASE Settle
  <2>1. /\ op.kind \in {"ack", "quarantined"} /\ Forget(op.batch) /\ stats' = stats /\ synced' = files /\ files' = files
        /\ op' = Free /\ acked' \subseteq acked \cup {op.batch}
    BY <1>9 DEF Settle, SyncAndSave
  <2>2. op.batch \in Pending /\ op.batch \in Batches
    BY <2>1, InHand DEF OpFits, Pending, Typing
  <2>3. /\ Pending' = Pending \ {op.batch} /\ mem'[op.batch] = 0
        /\ \A d \in Batches : d # op.batch => mem'[d] = mem[d]
    BY <2>1, <2>2, ExactForget
  <2>4. \A b \in Pending' : b \in Pending /\ b # op.batch /\ mem'[b] = mem[b] /\ Wal(b)' = Wal(b)
    BY <2>3 DEF Pending, Wal
  <2>5. Live' = Live \ {Wal(op.batch)}
    <3>1. Live' = {Wal(b) : b \in Pending \ {op.batch}}
      <4>1. Live' = {Wal(b)' : b \in Pending'}
        BY DEF Live
      <4> QED
        BY <2>3, <2>4, <4>1
    <3>2. \A b \in Pending : Wal(b) = Wal(op.batch) => b = op.batch
      BY DEF Wal
    <3> QED
      BY <3>1, <3>2 DEF Live
  <2>6. files = Live \ {Wal(op.batch)}
    BY <2>1 DEF Mirror
  <2>7. \A b \in acked' : mem'[b] = 0
    <3>1. \A b \in acked : b \in Batches /\ mem[b] = 0
      BY DEF Mirror, Typing, TypeOK
    <3> QED
      BY <2>1, <2>3, <3>1
  <2>8. /\ \A b, d \in Pending' : mem'[b] = mem'[d] => b = d
        /\ \A b \in Pending' : mem'[b] <= stats'.next
    BY <2>1, <2>4 DEF Mirror
  <2> QED
    BY <1>f, <2>1, <2>5, <2>6, <2>7, <2>8 DEF Mirror
<1>10. CASE CommitItem
  <2>1. /\ op.kind = "written" /\ Admit(op.batch) /\ synced' = files /\ files' = files
        /\ op' = Free /\ acked' = acked
    BY <1>10 DEF CommitItem, SyncAndSave
  <2>2. op.batch \in Batches /\ mem[op.batch] = 0 /\ op.batch \notin acked
    BY <2>1, InHand DEF OpFits, Typing, Mirror
  <2>3. /\ Pending' = Pending \cup {op.batch} /\ mem'[op.batch] = stats.next + 1
        /\ \A d \in Batches : d # op.batch => mem'[d] = mem[d]
    BY <2>1, <2>2, ExactAdmit
  <2>4. stats'.next = stats.next + 1
    BY <2>1 DEF Admit, Typing, TypeOK, Counters
  <2>5. \A b \in Pending : b \in Batches /\ b # op.batch /\ mem'[b] = mem[b] /\ Wal(b)' = Wal(b)
                           /\ mem[b] \in Nat /\ mem[b] <= stats.next
    BY <1>t, <2>2, <2>3 DEF Pending, Wal, Mirror
  <2>6. Live' = Live \cup {NewWal(op.batch)}
    <3>1. Live' = {[seq |-> mem'[b], batch |-> b] : b \in Pending \cup {op.batch}}
      BY <2>3 DEF Live, Wal
    <3>2. [seq |-> mem'[op.batch], batch |-> op.batch] = NewWal(op.batch)
      BY <2>3 DEF NewWal
    <3>3. \A b \in Pending : [seq |-> mem'[b], batch |-> b] = Wal(b)
      BY <2>5 DEF Wal
    <3> QED
      BY <3>1, <3>2, <3>3 DEF Live
  <2>7. files = Live \cup {NewWal(op.batch)}
    BY <2>1 DEF Mirror
  <2>8. \A b \in acked' : mem'[b] = 0
    <3>1. \A b \in acked : b \in Batches /\ mem[b] = 0 /\ b # op.batch
      BY <2>2 DEF Mirror, Typing, TypeOK
    <3> QED
      BY <2>1, <2>3, <3>1
  <2>9. \A b \in Pending : mem'[b] # stats.next + 1 /\ mem'[b] <= stats.next + 1
    BY <1>t, <2>5
  <2>10. \A b \in Pending' : mem'[b] <= stats'.next
    BY <1>t, <2>3, <2>4, <2>9
  <2>11. \A b, d \in Pending' : mem'[b] = mem'[d] => b = d
    <3>1. \A b, d \in Pending : mem'[b] = mem'[d] => b = d
      BY <2>5 DEF Mirror
    <3> QED
      BY <2>3, <2>9, <3>1
  <2> QED
    BY <1>f, <2>1, <2>6, <2>7, <2>8, <2>10, <2>11 DEF Mirror
<1> QED
  BY <1>1, <1>2, <1>3, <1>4, <1>5, <1>7, <1>8, <1>9, <1>10 DEF Next, Enqueue, Deliver

\* In a queue that may not evict, as long as no file operation fails, an
\* acknowledged batch never comes back, the byte count is that of the batches
\* in memory and no two files share a sequence, through any number of losses
\* of power (load, removeItem, makeCapacity).
THEOREM RestartExact == Spec => []RebuiltExactly
<1>1. Init => RebuildInv
  <2> SUFFICES ASSUME Init PROVE RebuildInv
    OBVIOUS
  <2>1. Typing /\ OpFits /\ Exact /\ Pending = {} /\ op.kind = "free"
    BY InitTyping
  <2>2. Live = {} /\ files = {} /\ synced = {} /\ acked = {}
    BY <2>1 DEF Live, Init
  <2> QED
    BY <2>1, <2>2 DEF RebuildInv, Mirror
<1>2. RebuildInv /\ [Next]_vars => RebuildInv'
  <2> SUFFICES ASSUME RebuildInv, [Next]_vars PROVE RebuildInv'
    OBVIOUS
  <2>1. Typing /\ Typing'
    BY NextTyping DEF RebuildInv
  <2> SUFFICES ASSUME ~DropOldest, faults' = 0 PROVE (OpFits /\ Exact /\ Mirror)'
    BY <2>1 DEF RebuildInv
  <2>2. faults = 0 /\ ~EvictFault /\ ~WriteFault /\ ~SettleFault
    BY <2>1, Counted
  <2>3. OpFits /\ Exact /\ Mirror
    BY <2>2 DEF RebuildInv
  <2>4. CASE Crash
    BY <2>1, <2>3, <2>4, MirrorCrash
  <2>5. CASE Next /\ ~Crash
    BY <2>1, <2>2, <2>3, <2>5, ExactStep, MirrorStep
  <2>6. CASE UNCHANGED vars
    <3>1. UNCHANGED <<mem, acked, files, synced, op, pending>> /\ stats' = stats
      BY <2>6 DEF vars, diskVars, memVars, ghostVars
    <3>2. Mirror'
      BY <2>1, <2>3, <3>1, MirrorQuiet
    <3> QED
      BY <2>3, <3>1, <3>2 DEF OpFits, Exact, Pending
  <2> QED
    BY <2>4, <2>5, <2>6
<1>3. RebuildInv => RebuiltExactly
  <2> SUFFICES ASSUME RebuildInv PROVE RebuiltExactly
    OBVIOUS
  <2>1. TypeOK /\ Typing
    BY DEF RebuildInv, Typing
  <2>2. ASSUME ~DropOldest, faults = 0
        PROVE  /\ \A b \in acked : b \notin {f.batch : f \in files \cup synced}
               /\ pending = Total(Size, Pending)
               /\ \A f, g \in files : f.seq = g.seq => f = g
    <3>1. OpFits /\ Exact /\ Mirror
      BY <2>2 DEF RebuildInv
    <3> QED
      BY <2>1, <3>1, MirrorFiles DEF Exact, Distinct
  <2> QED
    BY <2>1, <2>2 DEF RebuiltExactly, Total
<1> QED
  BY <1>1, <1>2, <1>3, PTL DEF Spec
=============================================================================
