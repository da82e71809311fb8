-------------------------- MODULE SampleLoopProofs --------------------------
(***************************************************************************)
(* Theorems about SampleLoop, for every set of snapshots, every capacity   *)
(* and backlog, and any number of crashes, stops and failing writes.       *)
(*                                                                         *)
(* SessionInv (sequences and incidents) and MeterInv (the baseline) are    *)
(* inductive each for itself; UsageInv needs MeterInv beside it.           *)
(***************************************************************************)
EXTENDS SampleLoop, TLAPS, FiniteSetTheorems

\* Where a process with a session may be, and where its sequences are loaded.
Up == {"ready", "observe", "enqueue", "mark"}
Numbering == Up \cup {"begin"}
Telemetry == [seq : Nat, events : SUBSET Events]

\* The session's part of the state.
SessionType ==
  /\ runFile \in [Domains -> Nat] /\ runMem \in [Domains -> Nat]
  /\ sessionFile \in Documents /\ sessionMem \in Documents
  /\ boots \in Nat /\ drawn \in Nat /\ unclean \subseteq 1..boots /\ clean \subseteq 1..boots
  /\ outbox \in [Domains -> Seq(Telemetry)]
  /\ at \in Steps /\ phase \in 1..7

\* No batch of the domain has a sequence above n.
Below(dom, n) == \A i \in 1..Len(outbox[dom]) : outbox[dom][i].seq <= n

\* Sequences on disk and in memory are ahead of the queue, the drawn one strictly.
SeqInv ==
  /\ \A dom \in Domains : Below(dom, runFile[dom])
  /\ at \in Numbering => \A dom \in Domains : Below(dom, runMem[dom]) /\ runMem[dom] <= runFile[dom]
  /\ at = "enqueue" => /\ drawn = runMem[d]
                       /\ \A i \in 1..Len(outbox[d]) : outbox[d][i].seq < drawn
  /\ SequencesIncrease

\* Incidents queued, on disk or in memory.
Known == Reported \cup EventsOf(sessionMem.pending)

\* A live session is the newest process' and not yet judged; a dead one that still
\* says running was unclean; an incident is older than the session on disk.
IncidentInv ==
  /\ at \in Up => /\ sessionFile.state = "running" /\ sessionMem.state = "running"
                  /\ sessionFile.boot = boots /\ sessionMem.boot = boots
                  /\ boots \notin unclean \cup clean /\ boots # 0
  /\ sessionFile.state = "running" /\ at \notin Up => sessionFile.boot \in unclean
  /\ sessionFile.boot <= boots /\ unclean \cap clean = {}
  /\ \A e \in Known : e.boot \in unclean /\ e.boot < sessionFile.boot
  /\ \A e, f \in Known : e.boot = f.boot => e = f

\* The transactions a crash may leave.
Txns == {meterDir.txn, meterSynced.txn} \ {NoTxn}

\* No sequence up to the state is missing, and its counters are those of events.
Covered(state, batches) ==
  /\ 1..state.seq \subseteq {b.seq : b \in batches}
  /\ \A k \in Keys : state.counters[k] = NoCounter
       \/ \E b \in batches : \E e \in b.events :
            e.key = k /\ e.epoch = state.counters[k].epoch /\ e.value = state.counters[k].value
MeterPcs == {"idle", "observe", "enqueue", "save", "remove", "failed"}

\* The meter's part of the state.
MeterType ==
  /\ meterDir \in [state : States, txn : Transactions]
  /\ meterSynced \in [state : States, txn : Transactions]
  /\ meterMem \in States /\ meterIds \in Nat /\ meterQueue \subseteq usage
  /\ meterOp \in [pc : MeterPcs, next : {"observe", "return"}]
  /\ usage \subseteq Batches

\* Every state the meter may come back to is covered, a transaction by its own
\* batch too; the batch is queued before the state is saved.
CoverInv ==
  /\ Covered(meterDir.state, usage) /\ Covered(meterSynced.state, usage) /\ Covered(meterMem, usage)
  /\ \A t \in Txns : Covered(t.state, usage \cup {t.batch})
  /\ meterOp.pc \in {"enqueue", "save"} => meterDir.txn # NoTxn
  /\ meterOp.pc = "save" => meterDir.txn.batch \in usage

\* Batches the state file has taken account of, and their events.
Old == {b \in usage : b.seq <= meterDir.state.seq}
OldEvents == UNION {b.events : b \in Old}

\* The epoch was drawn for the key, with one of the first identifiers.
Minted(epoch, key, id) == epoch[1] \in 1..id /\ epoch[2] = key

\* The counter is where the event left it.
Holds(counter, e) == counter = [identity |-> e.identity, epoch |-> e.epoch, value |-> e.value]

\* Events are told apart by their numbers; within an epoch values do not fall.
Consistent(e, f) ==
  /\ e.event = f.event => e = f
  /\ e.epoch = f.epoch => e.identity = f.identity /\ (e.event <= f.event => e.value <= f.value)

\* The meter's past: consistent, and bounded by the state file's numbers and counters.
SettledInv ==
  /\ \A a, b \in Old : a.seq = b.seq => a = b
  /\ \A e, f \in OldEvents : Consistent(e, f)
  /\ \A e \in OldEvents :
       /\ e.event <= meterDir.state.events /\ Minted(e.epoch, e.key, meterIds)
       /\ e.epoch = meterDir.state.counters[e.key].epoch =>
            /\ e.identity = meterDir.state.counters[e.key].identity
            /\ e.value <= meterDir.state.counters[e.key].value
  /\ \A k \in Keys : meterDir.state.counters[k] = NoCounter
                     \/ Minted(meterDir.state.counters[k].epoch, k, meterIds)

\* The transaction is the next one after the state file: its events come later,
\* and go on from the counters there or begin an epoch of their own.
Follows(txn) ==
  LET state == meterDir.state
      batch == txn.batch
  IN /\ batch.seq = state.seq + 1 /\ txn.state.seq = state.seq + 1 /\ batch.id \in 1..meterIds
     /\ state.events <= txn.state.events
     /\ \A e \in OldEvents : e.epoch[1] < batch.id
     /\ \A k \in Keys :
          /\ state.counters[k].epoch[1] < batch.id
          /\ \/ txn.state.counters[k] = state.counters[k]
             \/ \E e \in batch.events : e.key = k
     /\ \A e \in batch.events :
          /\ e.event \in state.events+1..txn.state.events /\ Holds(txn.state.counters[e.key], e)
          /\ Minted(e.epoch, e.key, batch.id)
          /\ \/ e.epoch[1] = batch.id
             \/ /\ e.epoch = state.counters[e.key].epoch /\ e.identity = state.counters[e.key].identity
                /\ e.value >= state.counters[e.key].value
     /\ \A e, f \in batch.events : e.event = f.event \/ e.key = f.key => e = f

\* While no file operation failed a transaction is settled or follows the state,
\* and every batch is old or the one of the transaction.
NoFaultInv ==
  /\ meterSynced = meterDir /\ meterMem = meterDir.state
  /\ meterOp.pc = "observe" => meterDir.txn = NoTxn
  /\ meterOp.pc = "remove" => meterDir.txn # NoTxn /\ meterDir.state = meterDir.txn.state
  /\ meterDir.txn # NoTxn =>
       \/ meterDir.state = meterDir.txn.state /\ meterDir.txn.batch \in Old
       \/ Follows(meterDir.txn)
  /\ \A b \in usage : b \in Old \/ (meterDir.txn # NoTxn /\ b = meterDir.txn.batch)
  /\ SettledInv

\* NoFaultInv holds until a file operation fails.
UsageInv ==
  /\ faults \in Nat
  /\ faults = 0 => NoFaultInv

-----------------------------------------------------------------------------
(* The session.                                                            *)

\* The inductive invariant of the session.
SessionInv == SessionType /\ SeqInv /\ IncidentInv

\* The call in progress has a domain, and so has the next.
LEMMA PhaseTypes ==
  ASSUME phase \in 1..7
  PROVE  d \in Domains /\ PhaseAfter \in 1..7 /\ Len(Phases) = 7
<1>1. Len(Phases) = 7
  BY DEF Phases
<1>2. phase = 1 \/ phase = 2 \/ phase = 3 \/ phase = 4 \/ phase = 5 \/ phase = 6 \/ phase = 7
  OBVIOUS
<1>3. d \in Domains
  BY <1>2 DEF Phases, d, Domains
<1>4. PhaseAfter \in 1..7
  BY <1>1 DEF PhaseAfter, FirstOfSample
<1> QED
  BY <1>1, <1>3, <1>4

\* What was queued for a domain.
LEMMA QueuedTypes ==
  ASSUME SessionType, NEW dom \in Domains, NEW i \in 1..Len(outbox[dom])
  PROVE  outbox[dom][i].seq \in Nat /\ outbox[dom][i].events \subseteq Events
<1>1. outbox[dom] \in Seq(Telemetry)
  BY DEF SessionType
<1>2. outbox[dom][i] \in Telemetry
  BY <1>1
<1> QED
  BY <1>2 DEF Telemetry

\* A step that leaves the run state and the queues alone.
LEMMA SeqQuiet ==
  ASSUME SessionType, SeqInv, UNCHANGED <<outbox, runFile>>,
         at' \in Numbering => at \in Numbering /\ UNCHANGED runMem,
         at' = "enqueue" => at = "enqueue" /\ UNCHANGED <<phase, drawn, runMem>>
  PROVE  SeqInv'
<1>1. \A dom \in Domains : Below(dom, runFile[dom])'
  BY DEF SeqInv, Below
<1>2. at' \in Numbering => \A dom \in Domains : Below(dom, runMem[dom])' /\ runMem'[dom] <= runFile'[dom]
  BY DEF SeqInv, Below
<1>3. at' = "enqueue" => /\ drawn' = runMem'[d']
                         /\ \A i \in 1..Len(outbox'[d']) : outbox'[d'][i].seq < drawn'
  BY DEF SeqInv, d
<1>4. SequencesIncrease'
  BY DEF SeqInv, SequencesIncrease
<1> QED
  BY <1>1, <1>2, <1>3, <1>4 DEF SeqInv

\* Nothing becomes known that was not, and no session begins or ends.
LEMMA IncidentQuiet ==
  ASSUME SessionType, IncidentInv, UNCHANGED <<boots, unclean, clean>>,
         sessionFile'.state = sessionFile.state, sessionFile'.boot = sessionFile.boot,
         at' \in Up <=> at \in Up, Known' \subseteq Known,
         at' \in Up => sessionMem'.state = sessionMem.state /\ sessionMem'.boot = sessionMem.boot
  PROVE  IncidentInv'
<1>1. at' \in Up => /\ sessionFile'.state = "running" /\ sessionMem'.state = "running"
                    /\ sessionFile'.boot = boots' /\ sessionMem'.boot = boots'
                    /\ boots' \notin unclean' \cup clean' /\ boots' # 0
  BY DEF IncidentInv
<1>2. sessionFile'.state = "running" /\ at' \notin Up => sessionFile'.boot \in unclean'
  BY DEF IncidentInv
<1>3. sessionFile'.boot <= boots' /\ unclean' \cap clean' = {}
  BY DEF IncidentInv
<1>4. \A e \in Known' : e.boot \in unclean' /\ e.boot < sessionFile'.boot
  BY DEF IncidentInv
<1>5. \A e, f \in Known' : e.boot = f.boot => e = f
  BY DEF IncidentInv
<1> QED
  BY <1>1, <1>2, <1>3, <1>4, <1>5 DEF IncidentInv

\* What is known depends on the queues and the session only.
LEMMA KnownKept ==
  ASSUME UNCHANGED <<outbox, sessionFile, sessionMem>>
  PROVE  Known' = Known
BY DEF Known, Reported, Told, EventsOf

\* A step outside the session.
LEMMA SessionQuiet ==
  ASSUME SessionInv, UNCHANGED sessionVars, at' \in Steps, phase' \in 1..7,
         at' \in Up <=> at \in Up, at' \in Numbering => at \in Numbering,
         at' = "enqueue" => at = "enqueue" /\ UNCHANGED phase
  PROVE  SessionInv'
<1>1. UNCHANGED <<runFile, runMem, sessionFile, sessionMem, boots, outbox, drawn, unclean, clean>>
  BY DEF sessionVars, sessionDisk
<1>2. SessionType'
  BY <1>1 DEF SessionInv, SessionType
<1>3. SeqInv'
  BY <1>1, SeqQuiet DEF SessionInv
<1>4. IncidentInv'
  BY <1>1, KnownKept, IncidentQuiet DEF SessionInv
<1> QED
  BY <1>2, <1>3, <1>4 DEF SessionInv

\* The next process reads the sequences that were saved.
LEMMA OpenSession ==
  ASSUME SessionInv, Open
  PROVE  SessionInv'
<1>1. /\ at = "open" /\ at' = "begin" /\ UNCHANGED phase /\ runMem' = runFile
      /\ UNCHANGED <<runFile, sessionFile, sessionMem, boots, outbox, drawn, unclean, clean>>
  BY DEF Open, OpenRunState, GoTo, sessionDisk
<1>2. SessionType'
  BY <1>1 DEF SessionInv, SessionType, Steps
<1>3. SeqInv'
  <2>1. \A dom \in Domains : runFile[dom] <= runFile[dom]
    BY DEF SessionInv, SessionType
  <2> QED
    BY <1>1, <2>1 DEF SessionInv, SeqInv, Below, SequencesIncrease
<1>4. IncidentInv'
  BY <1>1, KnownKept, IncidentQuiet DEF SessionInv, Up
<1> QED
  BY <1>2, <1>3, <1>4 DEF SessionInv

\* A sequence is saved before it is used, and a write that failed is
\* written again with the same number.
LEMMA NumberSession ==
  ASSUME SessionInv, NumberIncidents \/ NumberTelemetry \/ NumberFails
  PROVE  SessionInv'
<1>1. /\ at = "ready" /\ d \in Domains /\ at' \in {"enqueue", "ready"}
      /\ UNCHANGED <<sessionFile, sessionMem, boots, outbox, unclean, clean>>
      /\ phase' \in 1..7 /\ (at' = "enqueue" => UNCHANGED phase)
  BY PhaseTypes DEF SessionInv, SessionType, NumberIncidents, NumberTelemetry, NumberFails,
     NextSequence,
       NextSequenceFails, IncidentsDue, TelemetryDue, GoTo, FailsOn, NextPhase
<1>2. runMem \in [Domains -> Nat] /\ Drawn(d) \in [Domains -> Nat]
  BY <1>1 DEF SessionInv, SessionType, Drawn
<1>3. \/ UNCHANGED <<runMem, drawn>> /\ at' = "ready" /\ runFile' \in {runFile, Drawn(d)}
      \/ runMem' = Drawn(d) /\ runFile' = Drawn(d) /\ drawn' = runMem[d] + 1 /\ at' = "enqueue"
  BY DEF NumberIncidents, NumberTelemetry, NumberFails, NextSequence, NextSequenceFails, GoTo,
         FailsOn, NextPhase, Written, Failing
<1>4. SessionType'
  <2>1. runFile' \in [Domains -> Nat] /\ runMem' \in [Domains -> Nat]
    BY <1>2, <1>3 DEF SessionInv, SessionType
  <2>2. drawn' \in Nat
    BY <1>1, <1>2, <1>3 DEF SessionInv, SessionType
  <2> QED
    BY <1>1, <2>1, <2>2 DEF SessionInv, SessionType, Steps
<1>5. \A dom \in Domains : Below(dom, runMem[dom]) /\ runMem[dom] <= Drawn(d)[dom]
  BY <1>1, <1>2 DEF SessionInv, SeqInv, Numbering, Up, Drawn
<1>7. ASSUME NEW dom \in Domains, NEW i \in 1..Len(outbox[dom])
      PROVE  outbox[dom][i].seq \in Nat
  BY <1>7, QueuedTypes DEF SessionInv
<1>8. \A dom \in Domains : Below(dom, Drawn(d)[dom])
  BY <1>2, <1>5, <1>7 DEF Below
<1>9. SeqInv'
  <2>1. \A dom \in Domains : Below(dom, runFile[dom])'
    BY <1>1, <1>3, <1>8 DEF SessionInv, SeqInv, Below
  <2>2. \A dom \in Domains : Below(dom, runMem[dom])' /\ runMem'[dom] <= runFile'[dom]
    <3>1. \A dom \in Domains : Below(dom, runMem[dom])'
      BY <1>1, <1>3, <1>5, <1>8 DEF Below
    <3>2. \A dom \in Domains : runMem[dom] <= runFile[dom] /\ Drawn(d)[dom] <= Drawn(d)[dom]
      BY <1>1, <1>2 DEF SessionInv, SeqInv, Numbering, Up
    <3> QED
      BY <1>3, <1>5, <3>1, <3>2
  <2>3. at' = "enqueue" => /\ drawn' = runMem'[d']
                           /\ \A i \in 1..Len(outbox'[d']) : outbox'[d'][i].seq < drawn'
    <3> SUFFICES ASSUME at' = "enqueue"
                 PROVE  /\ drawn' = runMem'[d]
                        /\ \A i \in 1..Len(outbox[d]) : outbox[d][i].seq < drawn'
      BY <1>1 DEF d
    <3>1. drawn' = runMem[d] + 1 /\ runMem'[d] = runMem[d] + 1 /\ runMem[d] \in Nat
      BY <1>1, <1>2, <1>3 DEF Drawn
    <3> QED
      BY <1>1, <1>5, <1>7, <3>1 DEF Below
  <2>4. SequencesIncrease'
    BY <1>1 DEF SessionInv, SeqInv, SequencesIncrease
  <2> QED
    BY <2>1, <2>2, <2>3, <2>4 DEF SeqInv
<1>10. IncidentInv'
  BY <1>1, KnownKept, IncidentQuiet DEF SessionInv, Up
<1> QED
  BY <1>4, <1>9, <1>10 DEF SessionInv

\* What stands in a sequence that was appended to.
LEMMA Appended ==
  ASSUME NEW S, NEW s \in Seq(S), NEW e \in S
  PROVE  /\ Append(s, e) \in Seq(S) /\ Len(Append(s, e)) = Len(s) + 1 /\ Len(s) \in Nat
         /\ \A i \in 1..Len(s) : Append(s, e)[i] = s[i]
         /\ Append(s, e)[Len(s) + 1] = e
OBVIOUS

\* A batch is queued under the number drawn for it, with incidents that are
\* pending.
LEMMA SentSession ==
  ASSUME SessionInv, at = "enqueue", NEW incidents \in SUBSET sessionMem.pending,
         Sent(d, incidents) \/ UNCHANGED outbox, drawn' = 0,
         UNCHANGED <<runFile, runMem, sessionFile, sessionMem, boots, unclean, clean>>,
         at' \in {"ready", "mark"}, phase' \in 1..7
  PROVE  SessionInv'
<1> DEFINE sent == [seq |-> drawn, events |-> EventsOf(incidents)]
<1>1. d \in Domains /\ outbox \in [Domains -> Seq(Telemetry)] /\ sent \in Telemetry
  BY PhaseTypes DEF SessionInv, SessionType, Documents, Incidents, Telemetry, Events, EventsOf
<1>2. drawn \in Nat /\ drawn = runMem[d] /\ runMem[d] \in Nat /\ runFile[d] \in Nat
  BY <1>1 DEF SessionInv, SessionType, SeqInv
<1>3. CASE UNCHANGED outbox
  <2>1. SessionType'
    BY <1>3 DEF SessionInv, SessionType, Steps
  <2>2. SeqInv'
    BY <1>3, SeqQuiet DEF SessionInv, Numbering, Up
  <2>3. IncidentInv'
    BY <1>3, KnownKept, IncidentQuiet DEF SessionInv, Up
  <2> QED
    BY <2>1, <2>2, <2>3 DEF SessionInv
<1>4. CASE Sent(d, incidents)
  <2>1. /\ outbox'[d] = Append(outbox[d], sent) /\ outbox[d] \in Seq(Telemetry)
        /\ \A dom \in Domains : dom # d => outbox'[dom] = outbox[dom]
        /\ outbox' \in [Domains -> Seq(Telemetry)]
    BY <1>1, <1>4, Appended DEF Sent
  <2>2. /\ Len(outbox'[d]) = Len(outbox[d]) + 1 /\ Len(outbox[d]) \in Nat
        /\ \A i \in 1..Len(outbox[d]) : outbox'[d][i] = outbox[d][i]
        /\ outbox'[d][Len(outbox[d]) + 1] = sent
    <3> HIDE DEF sent
    <3> QED
      BY <1>1, <2>1, Appended
  <2>3. SessionType'
    BY <2>1 DEF SessionInv, SessionType, Steps
  <2>4. \A i \in 1..Len(outbox'[d]) : \/ i \in 1..Len(outbox[d]) /\ outbox'[d][i] = outbox[d][i]
                                      \/ i = Len(outbox[d]) + 1 /\ outbox'[d][i] = sent
    BY <2>2
  <2>5. \A i \in 1..Len(outbox[d]) : outbox[d][i].seq < drawn
    BY DEF SessionInv, SeqInv
  <2>6. \A dom \in Domains : Below(dom, runMem[dom]) /\ Below(dom, runFile[dom])
    BY DEF SessionInv, SeqInv, Numbering, Up
  <2>7. drawn <= runMem[d] /\ drawn <= runFile[d]
    BY <1>1, <1>2 DEF SessionInv, SeqInv, Numbering, Up
  <2>8. SeqInv'
    <3>1. ASSUME NEW dom \in Domains, NEW n \in Nat, Below(dom, n), dom = d => drawn <= n
          PROVE  \A i \in 1..Len(outbox'[dom]) : outbox'[dom][i].seq <= n
      <4>1. CASE dom # d
        BY <2>1, <3>1, <4>1 DEF Below
      <4>2. CASE dom = d
        <5> SUFFICES ASSUME NEW i \in 1..Len(outbox'[d]) PROVE outbox'[d][i].seq <= n
          BY <4>2
        <5>1. \A k \in 1..Len(outbox[d]) : outbox[d][k].seq <= n
          BY <3>1, <4>2 DEF Below
        <5>2. sent.seq <= n
          BY <3>1, <4>2
        <5> HIDE DEF sent
        <5> QED
          BY <2>4, <5>1, <5>2
      <4> QED
        BY <4>1, <4>2
    <3>2. \A dom \in Domains : Below(dom, runFile[dom])' /\ Below(dom, runMem[dom])'
      BY <2>6, <2>7, <3>1 DEF Below, SessionInv, SessionType
    <3>3. ASSUME NEW dom \in Domains, NEW i \in 1..Len(outbox'[dom]), NEW j \in 1..Len(outbox'[dom]),
                 i < j
          PROVE  outbox'[dom][i].seq < outbox'[dom][j].seq
      <4>1. CASE dom # d
        BY <2>1, <3>3, <4>1 DEF SessionInv, SeqInv, SequencesIncrease
      <4>2. CASE dom = d
        <5>1. i \in 1..Len(outbox[d]) /\ outbox'[d][i] = outbox[d][i]
          BY <2>2, <2>4, <3>3, <4>2
        <5>2. CASE j \in 1..Len(outbox[d]) /\ outbox'[d][j] = outbox[d][j]
          BY <1>1, <3>3, <4>2, <5>1, <5>2 DEF SessionInv, SeqInv, SequencesIncrease
        <5>3. CASE outbox'[d][j] = sent
          BY <2>5, <4>2, <5>1, <5>3
        <5> QED
          BY <2>4, <4>2, <5>2, <5>3
      <4> QED
        BY <4>1, <4>2
    <3>4. SequencesIncrease'
      BY <3>3 DEF SequencesIncrease
    <3> QED
      BY <3>2, <3>4 DEF SessionInv, SeqInv, Numbering, Up
  <2>9. ASSUME NEW dom \in Domains PROVE Told(dom)' \subseteq Told(dom) \cup EventsOf(sessionMem.pending)
    <3>1. EventsOf(incidents) \subseteq EventsOf(sessionMem.pending)
      BY DEF EventsOf
    <3>2. CASE dom # d
      BY <2>1, <3>2 DEF Told
    <3>3. CASE dom = d
      <4> SUFFICES ASSUME NEW i \in 1..Len(outbox'[d]), NEW e \in outbox'[d][i].events
                   PROVE  e \in Told(d) \cup EventsOf(sessionMem.pending)
        BY <3>3 DEF Told
      <4>1. CASE i \in 1..Len(outbox[d]) /\ outbox'[d][i] = outbox[d][i]
        BY <4>1 DEF Told
      <4>2. CASE outbox'[d][i] = sent
        BY <3>1, <4>2
      <4> QED
        BY <2>4, <4>1, <4>2
    <3> QED
      BY <3>2, <3>3
  <2>10. Known' \subseteq Known
    <3>1. EventsOf(sessionFile.pending)' = EventsOf(sessionFile.pending)
          /\ EventsOf(sessionMem.pending)' = EventsOf(sessionMem.pending)
      BY DEF EventsOf
    <3>2. /\ Told("website")' \subseteq Told("website") \cup EventsOf(sessionMem.pending)
          /\ Told("monitoring")' \subseteq Told("monitoring") \cup EventsOf(sessionMem.pending)
      BY <2>9 DEF Domains
    <3> QED
      BY <3>1, <3>2 DEF Known, Reported
  <2>11. IncidentInv'
    BY <2>10, IncidentQuiet DEF SessionInv, Up
  <2> QED
    BY <2>3, <2>8, <2>11 DEF SessionInv
<1> QED
  BY <1>3, <1>4

\* Incidents or ordinary telemetry are queued, or fail to be.
LEMMA EnqueueSession ==
  ASSUME SessionInv, EnqueueIncidents \/ EnqueueSample \/ EnqueueFails
  PROVE  SessionInv'
<1>1. \E incidents \in SUBSET sessionMem.pending : Sent(d, incidents) \/ UNCHANGED outbox
  <2>1. Pending(d) \in SUBSET sessionMem.pending /\ {} \in SUBSET sessionMem.pending
    BY DEF Pending
  <2> QED
    BY <2>1 DEF EnqueueIncidents, EnqueueSample, EnqueueFails, EnqueueTelemetry,
       EnqueueTelemetryFails
<1>2. /\ at = "enqueue" /\ drawn' = 0
      /\ UNCHANGED <<runFile, runMem, sessionFile, sessionMem, boots, unclean, clean>>
      /\ at' \in {"ready", "mark"} /\ phase' \in 1..7
  BY PhaseTypes DEF EnqueueIncidents, EnqueueSample, EnqueueFails, EnqueueTelemetry,
       EnqueueTelemetryFails, GoTo, GoOn, FailsOn, NextPhase, sessionDisk, SessionInv, SessionType
<1> QED
  BY <1>1, <1>2, SentSession

\* A session that begins takes over the incidents and adds at most one, for
\* a process nothing was reported of.
LEMMA BegunIncidents ==
  ASSUME SessionInv, at = "begin"
  PROVE  /\ Begun \in Documents /\ Begun.state = "running" /\ Begun.boot = boots + 1
         /\ \A e \in Known \cup EventsOf(Begun.pending) : e.boot \in unclean /\ e.boot < boots + 1
         /\ \A e, f \in Known \cup EventsOf(Begun.pending) : e.boot = f.boot => e = f
         /\ Begun # sessionFile
<1>1. /\ sessionFile \in Documents /\ boots \in Nat /\ sessionFile.boot \in Nat
      /\ sessionFile.boot <= boots
  BY DEF SessionInv, SessionType, IncidentInv, Documents
<1>2. Begun \in Documents /\ Begun.state = "running" /\ Begun.boot = boots + 1
  BY <1>1 DEF Begun, PreviousExit, Documents, Incidents
<1>3. Begun # sessionFile
  BY <1>1, <1>2
<1>4. ASSUME NEW e \in EventsOf(Begun.pending)
      PROVE  \/ e \in Known
             \/ /\ sessionFile.state = "running" /\ e = [event |-> boots + 1, boot |-> sessionFile.boot]
  <2>1. PICK i \in Begun.pending : e = [event |-> i.event, boot |-> i.boot]
    BY DEF EventsOf
  <2>2. CASE i \in sessionFile.pending
    BY <2>1, <2>2 DEF Known, Reported, EventsOf
  <2>3. CASE /\ sessionFile.state = "running"
             /\ i = [event |-> boots + 1, boot |-> sessionFile.boot, queued |-> {}]
    BY <2>1, <2>3
  <2> QED
    BY <2>2, <2>3 DEF Begun, PreviousExit
<1>5. /\ \A e \in Known : e.boot \in unclean /\ e.boot < sessionFile.boot
      /\ \A e, f \in Known : e.boot = f.boot => e = f
      /\ sessionFile.state = "running" => sessionFile.boot \in unclean
      /\ unclean \subseteq 1..boots
  BY DEF SessionInv, SessionType, IncidentInv, Up
<1>6. \A e \in Known \cup EventsOf(Begun.pending) : e.boot \in unclean /\ e.boot < boots + 1
  <2> SUFFICES ASSUME NEW e \in Known \cup EventsOf(Begun.pending)
               PROVE  e.boot \in unclean /\ e.boot < boots + 1
    OBVIOUS
  <2>1. e.boot \in unclean
    BY <1>4, <1>5
  <2>2. e.boot \in 1..boots
    BY <2>1, <1>5
  <2> QED
    BY <1>1, <2>1, <2>2
<1>7. \A e, f \in Known \cup EventsOf(Begun.pending) : e.boot = f.boot => e = f
  <2> SUFFICES ASSUME NEW e \in Known \cup EventsOf(Begun.pending),
                      NEW f \in Known \cup EventsOf(Begun.pending), e.boot = f.boot
               PROVE  e = f
    OBVIOUS
  <2>1. \A x \in Known : x.boot # sessionFile.boot
    BY <1>1, <1>5
  <2> QED
    BY <1>4, <1>5, <2>1
<1> QED
  BY <1>2, <1>3, <1>6, <1>7

\* A session begins, or fails to.
LEMMA BeginInv ==
  ASSUME SessionInv, BeginSession \/ BeginSessionFails
  PROVE  SessionInv'
<1>1. /\ at = "begin" /\ UNCHANGED <<runFile, runMem, outbox, drawn, clean>> /\ boots' = boots + 1
      /\ at' \in {"ready", "down"} /\ phase' \in 1..7
  BY DEF BeginSession, BeginSessionFails, Begin, BeginFails, SessionInv, SessionType
<1>2. /\ boots \in Nat /\ unclean \subseteq 1..boots /\ clean \subseteq 1..boots
      /\ sessionFile \in Documents /\ sessionMem \in Documents
      /\ unclean \cap clean = {} /\ sessionFile.boot \in Nat /\ sessionFile.boot <= boots
  BY DEF SessionInv, SessionType, IncidentInv, Documents
<1>3. /\ Begun \in Documents /\ Begun.state = "running" /\ Begun.boot = boots + 1
      /\ \A e \in Known \cup EventsOf(Begun.pending) : e.boot \in unclean /\ e.boot < boots + 1
      /\ \A e, f \in Known \cup EventsOf(Begun.pending) : e.boot = f.boot => e = f
      /\ Begun # sessionFile
  BY <1>1, BegunIncidents
<1>4. \/ /\ sessionFile' = Begun /\ sessionMem' = Begun /\ at' = "ready" /\ UNCHANGED unclean
      \/ /\ sessionFile' = Begun /\ UNCHANGED sessionMem /\ at' = "down"
         /\ unclean' = unclean \cup {boots + 1}
      \/ UNCHANGED <<sessionFile, sessionMem, unclean>> /\ at' = "down"
  BY <1>1, <1>3 DEF BeginSession, BeginSessionFails, Begin, BeginFails, Written, Failing
<1>5. boots + 1 \notin unclean \cup clean /\ boots + 1 \in 1..boots'
  BY <1>1, <1>2
<1>6. SessionType'
  <2>1. unclean' \subseteq 1..boots' /\ clean' \subseteq 1..boots'
    <3>1. unclean' \subseteq unclean \cup {boots + 1} /\ clean' = clean
      BY <1>1, <1>4
    <3>2. unclean \cup {boots + 1} \subseteq 1..boots + 1 /\ clean \subseteq 1..boots + 1
      BY <1>2
    <3> QED
      BY <1>1, <3>1, <3>2
  <2>2. sessionFile' \in Documents /\ sessionMem' \in Documents
    BY <1>2, <1>3, <1>4
  <2> QED
    BY <1>1, <1>2, <2>1, <2>2 DEF SessionInv, SessionType, Steps
<1>7. SeqInv'
  BY <1>1, SeqQuiet DEF SessionInv, Numbering, Up
<1>8. IncidentInv'
  <2>1. Known' \subseteq Known \cup EventsOf(Begun.pending)
    <3>1. \A dom : Told(dom)' = Told(dom)
      BY <1>1 DEF Told
    <3>2. /\ EventsOf(sessionFile.pending)' \subseteq
               EventsOf(sessionFile.pending) \cup EventsOf(Begun.pending)
          /\ EventsOf(sessionMem.pending)' \subseteq
               EventsOf(sessionMem.pending) \cup EventsOf(Begun.pending)
      BY <1>4 DEF EventsOf
    <3> QED
      BY <3>1, <3>2 DEF Known, Reported
  <2>2. CASE sessionFile' = Begun
    <3>1. sessionFile'.state = "running" /\ sessionFile'.boot = boots'
      BY <1>1, <1>3, <2>2
    <3>2. at' \in Up => /\ sessionMem'.state = "running" /\ sessionMem'.boot = boots'
                        /\ boots' \notin unclean' \cup clean' /\ boots' # 0
      BY <1>1, <1>2, <1>3, <1>4, <1>5 DEF Up
    <3>3. at' \notin Up => boots' \in unclean'
      BY <1>1, <1>3, <1>4, <2>2 DEF Up
    <3>4. unclean' \cap clean' = {} /\ boots' <= boots' /\ unclean \subseteq unclean'
      <4>1. unclean' \in {unclean, unclean \cup {boots + 1}} /\ clean' = clean
        BY <1>1, <1>4
      <4>2. (unclean \cup {boots + 1}) \cap clean = {}
        BY <1>2, <1>5
      <4>3. boots' <= boots'
        BY <1>1, <1>2
      <4> QED
        BY <1>2, <4>1, <4>2, <4>3
    <3>5. /\ \A e \in Known' : e.boot \in unclean' /\ e.boot < boots'
          /\ \A e, f \in Known' : e.boot = f.boot => e = f
      BY <1>1, <1>3, <2>1, <3>4
    <3> QED
      BY <3>1, <3>2, <3>3, <3>4, <3>5 DEF IncidentInv
  <2>3. CASE UNCHANGED <<sessionFile, sessionMem, unclean>> /\ at' = "down"
    <3>1. Known' = Known
      BY <1>1, <2>3, KnownKept
    <3>2. sessionFile'.boot <= boots'
      BY <1>1, <1>2, <2>3
    <3> QED
      BY <1>1, <2>3, <3>1, <3>2 DEF SessionInv, IncidentInv, Up
  <2> QED
    BY <1>4, <2>2, <2>3
<1> QED
  BY <1>6, <1>7, <1>8 DEF SessionInv

\* Marks come and go, incidents do not.
LEMMA AfterQueuedKept ==
  ASSUME SessionInv, NEW dom \in Domains
  PROVE  /\ AfterQueued(dom) \in Documents
         /\ AfterQueued(dom).state = sessionMem.state /\ AfterQueued(dom).boot = sessionMem.boot
         /\ EventsOf(AfterQueued(dom).pending) \subseteq EventsOf(sessionMem.pending)
<1> DEFINE marked == {[p EXCEPT !.queued = @ \cup {dom}] : p \in sessionMem.pending}
           kept == {i \in marked : i.queued # Domains}
<1>1. sessionMem \in Documents /\ sessionMem.pending \subseteq Incidents
  BY DEF SessionInv, SessionType, Documents
<1>2. ASSUME NEW i \in marked
      PROVE  /\ i \in Incidents
             /\ \E p \in sessionMem.pending : i.event = p.event /\ i.boot = p.boot
  <2>1. PICK p \in sessionMem.pending : i = [p EXCEPT !.queued = @ \cup {dom}]
    OBVIOUS
  <2>2. p \in Incidents
    BY <1>1
  <2>3. i \in Incidents /\ i.event = p.event /\ i.boot = p.boot
    BY <2>1, <2>2 DEF Incidents
  <2> QED
    BY <2>3
<1>3. kept \subseteq Incidents
  BY <1>2
<1>4. AfterQueued(dom) = [sessionMem EXCEPT !.pending = kept]
  BY DEF AfterQueued
<1>5. AfterQueued(dom).pending = kept /\ AfterQueued(dom).state = sessionMem.state
      /\ AfterQueued(dom).boot = sessionMem.boot /\ AfterQueued(dom) \in Documents
  <2> HIDE DEF kept
  <2> QED
    BY <1>1, <1>3, <1>4 DEF Documents
<1>6. EventsOf(kept) \subseteq EventsOf(sessionMem.pending)
  <2> SUFFICES ASSUME NEW i \in kept
               PROVE  [event |-> i.event, boot |-> i.boot] \in EventsOf(sessionMem.pending)
    BY DEF EventsOf
  <2>1. PICK p \in sessionMem.pending : i.event = p.event /\ i.boot = p.boot
    BY <1>2
  <2> QED
    BY <2>1 DEF EventsOf
<1> HIDE DEF kept
<1> QED
  BY <1>5, <1>6

\* What was queued is marked, on disk or only in memory.
LEMMA MarkSession ==
  ASSUME SessionInv, MarkIncidents \/ MarkFails
  PROVE  SessionInv'
<1>1. /\ at = "mark" /\ at' = "ready" /\ phase' \in 1..7 /\ d \in Domains
      /\ sessionMem' = AfterQueued(d) /\ sessionFile' \in {sessionFile, AfterQueued(d)}
      /\ UNCHANGED <<runFile, runMem, boots, outbox, drawn, unclean, clean>>
  BY PhaseTypes DEF MarkIncidents, MarkFails, MarkQueued, MarkQueuedFails, Written, Failing,
     GoOn,
       FailsOn, NextPhase, SessionInv, SessionType
<1>2. /\ AfterQueued(d) \in Documents
      /\ AfterQueued(d).state = sessionMem.state /\ AfterQueued(d).boot = sessionMem.boot
      /\ EventsOf(AfterQueued(d).pending) \subseteq EventsOf(sessionMem.pending)
  BY <1>1, AfterQueuedKept
<1>3. SessionType'
  BY <1>1, <1>2 DEF SessionInv, SessionType, Steps
<1>4. SeqInv'
  BY <1>1, SeqQuiet DEF SessionInv, Numbering, Up
<1>5. Known' \subseteq Known
  <2>1. \A dom : Told(dom)' = Told(dom)
    BY <1>1 DEF Told
  <2>2. EventsOf(sessionMem'.pending) \subseteq EventsOf(sessionMem.pending)
    BY <1>1, <1>2
  <2>3. EventsOf(sessionFile'.pending)
          \subseteq EventsOf(sessionFile.pending) \cup EventsOf(sessionMem.pending)
    BY <1>1, <1>2
  <2>4. EventsOf(sessionMem.pending)' = EventsOf(sessionMem'.pending)
        /\ EventsOf(sessionFile.pending)' = EventsOf(sessionFile'.pending)
    BY DEF EventsOf
  <2> QED
    BY <2>1, <2>2, <2>3, <2>4 DEF Known, Reported
<1>6. /\ sessionFile'.state = sessionFile.state /\ sessionFile'.boot = sessionFile.boot
      /\ sessionMem'.state = sessionMem.state /\ sessionMem'.boot = sessionMem.boot
  BY <1>1, <1>2 DEF SessionInv, IncidentInv, Up
<1>7. IncidentInv'
  BY <1>1, <1>5, <1>6, IncidentQuiet DEF SessionInv, Up
<1> QED
  BY <1>3, <1>4, <1>7 DEF SessionInv

\* A process ends: with a clean marker on disk, or with the session it left
\* there said to be unclean.
LEMMA EndSession ==
  ASSUME SessionInv, at \in Steps \ {"down"}, at' = "down", phase' = 1, Forgotten,
         UNCHANGED <<runFile, boots, outbox>>,
         \/ /\ at = "ready" /\ sessionFile' = Cleaned
            /\ clean' = clean \cup {boots} /\ UNCHANGED unclean
         \/ /\ UNCHANGED <<sessionFile, clean>>
            /\ unclean' = IF sessionFile.state = "running" /\ sessionFile.boot = boots
                          THEN unclean \cup {boots} ELSE unclean
  PROVE  SessionInv'
<1>1. /\ sessionMem' = NoDocument /\ runMem' = NoSequences /\ drawn' = 0 /\ boots \in Nat
      /\ sessionFile \in Documents /\ sessionMem \in Documents
      /\ unclean \subseteq 1..boots /\ clean \subseteq 1..boots
  BY DEF Forgotten, SessionInv, SessionType
<1>2. NoDocument \in Documents /\ NoSequences \in [Domains -> Nat] /\ NoDocument.pending = {}
  BY DEF NoDocument, NoSequences, Documents, Incidents
<1>3. /\ Cleaned \in Documents /\ Cleaned.state = "clean" /\ Cleaned.boot = sessionMem.boot
      /\ Cleaned.pending = sessionMem.pending
  BY <1>1 DEF Cleaned, Documents
<1>4. SeqInv'
  BY SeqQuiet DEF SessionInv, Numbering, Up
<1>5. \A dom : Told(dom)' = Told(dom)
  BY DEF Told
<1>6. EventsOf(sessionMem'.pending) = {}
  BY <1>1, <1>2 DEF EventsOf
<1>7. /\ EventsOf(sessionMem.pending)' = EventsOf(sessionMem'.pending)
      /\ EventsOf(sessionFile.pending)' = EventsOf(sessionFile'.pending)
  BY DEF EventsOf
<1>8. Known' \subseteq Known
  <2>1. EventsOf(sessionFile'.pending)
          \subseteq EventsOf(sessionFile.pending) \cup EventsOf(sessionMem.pending)
    BY <1>3
  <2> QED
    BY <1>5, <1>6, <1>7, <2>1 DEF Known, Reported
<1>9. CASE /\ at = "ready" /\ sessionFile' = Cleaned
           /\ clean' = clean \cup {boots} /\ UNCHANGED unclean
  <2>1. /\ sessionFile.boot = boots /\ sessionMem.boot = boots /\ boots \notin unclean
        /\ unclean \cap clean = {}
    BY <1>9 DEF SessionInv, IncidentInv, Up
  <2>2. boots >= 1
    <3>1. at \in Up
      BY <1>9 DEF Up
    <3> QED
      BY <1>9, <1>1, <3>1 DEF SessionInv, IncidentInv
  <2>3. clean' \subseteq 1..boots' /\ unclean' \subseteq 1..boots'
    <3>1. clean \cup {boots} \subseteq 1..boots
      BY <1>1, <2>2
    <3> QED
      BY <1>1, <1>9, <3>1
  <2>4. SessionType'
    BY <1>1, <1>2, <1>3, <1>9, <2>3 DEF SessionInv, SessionType, Steps
  <2>5. sessionFile'.boot = boots /\ sessionFile'.state = "clean"
    BY <1>3, <1>9, <2>1
  <2>6. unclean' \cap clean' = {} /\ sessionFile'.boot <= boots'
    BY <1>1, <1>9, <2>1, <2>5
  <2>7. \A e \in Known' : e.boot \in unclean' /\ e.boot < sessionFile'.boot
    BY <1>8, <1>9, <2>1, <2>5 DEF SessionInv, IncidentInv
  <2>8. \A e, f \in Known' : e.boot = f.boot => e = f
    BY <1>8 DEF SessionInv, IncidentInv
  <2>9. IncidentInv'
    BY <2>5, <2>6, <2>7, <2>8 DEF IncidentInv, Up
  <2> QED
    BY <1>4, <2>4, <2>9 DEF SessionInv
<1>10. CASE /\ UNCHANGED <<sessionFile, clean>>
            /\ unclean' = IF sessionFile.state = "running" /\ sessionFile.boot = boots
                          THEN unclean \cup {boots} ELSE unclean
  <2>1. unclean' = unclean \/ (unclean' = unclean \cup {boots} /\ at \in Up)
        \/ (unclean' = unclean \cup {boots} /\ boots \in unclean)
    BY <1>10 DEF SessionInv, IncidentInv
  <2>2. unclean' \subseteq 1..boots' /\ unclean' \cap clean' = {} /\ unclean \subseteq unclean'
    <3>1. CASE unclean' = unclean
      BY <1>1, <1>10, <3>1 DEF SessionInv, IncidentInv
    <3>2. CASE unclean' = unclean \cup {boots} /\ at \in Up
      <4>1. boots \notin clean /\ unclean \cap clean = {}
        BY <3>2 DEF SessionInv, IncidentInv
      <4>2. boots \in 1..boots
        BY <1>1, <3>2 DEF SessionInv, IncidentInv
      <4> QED
        BY <1>1, <1>10, <3>2, <4>1, <4>2
    <3>3. CASE unclean' = unclean \cup {boots} /\ boots \in unclean
      BY <1>1, <1>10, <3>3 DEF SessionInv, IncidentInv
    <3> QED
      BY <2>1, <3>1, <3>2, <3>3
  <2>3. SessionType'
    BY <1>1, <1>2, <1>10, <2>2 DEF SessionInv, SessionType, Steps
  <2>4. sessionFile'.state = "running" => sessionFile'.boot \in unclean'
    <3>1. CASE at \in Up
      BY <1>10, <3>1 DEF SessionInv, IncidentInv
    <3>2. CASE at \notin Up
      BY <1>10, <2>2, <3>2 DEF SessionInv, IncidentInv
    <3> QED
      BY <3>1, <3>2
  <2>5. \A e \in Known' : e.boot \in unclean' /\ e.boot < sessionFile'.boot
    BY <1>8, <1>10, <2>2 DEF SessionInv, IncidentInv
  <2>6. \A e, f \in Known' : e.boot = f.boot => e = f
    BY <1>8 DEF SessionInv, IncidentInv
  <2>7. sessionFile'.boot <= boots'
    BY <1>10 DEF SessionInv, IncidentInv
  <2>8. IncidentInv'
    BY <2>2, <2>4, <2>5, <2>6, <2>7 DEF IncidentInv, Up
  <2> QED
    BY <1>4, <2>3, <2>8 DEF SessionInv
<1> QED
  BY <1>9, <1>10

\* The three ways out of a process.
LEMMA ExitSession ==
  ASSUME SessionInv, Stop \/ StopFails \/ Crash
  PROVE  SessionInv'
<1>1. /\ at \in Steps \ {"down"} /\ at' = "down" /\ phase' = 1 /\ Forgotten
      /\ UNCHANGED <<runFile, boots, outbox>>
  BY DEF Stop, StopFails, Crash, Exits, MarkClean, MarkCleanFails, SessionLost, SessionInv,
         SessionType, Steps, sessionDisk
<1>2. CASE Stop
  <2>1. at = "ready" /\ sessionFile' = Cleaned /\ clean' = clean \cup {boots} /\ UNCHANGED unclean
    BY <1>2 DEF Stop, MarkClean, Written
  <2> QED
    BY <1>1, <2>1, EndSession
<1>3. CASE StopFails
  <2>1. sessionFile.state = "running" /\ sessionFile.boot = boots /\ at = "ready"
    BY <1>3 DEF StopFails, SessionInv, IncidentInv, Up
  <2>2. \/ sessionFile' = Cleaned /\ clean' = clean \cup {boots} /\ UNCHANGED unclean
        \/ UNCHANGED <<sessionFile, clean>> /\ unclean' = unclean \cup {boots}
    BY <1>3 DEF StopFails, MarkCleanFails, Failing
  <2> QED
    BY <1>1, <2>1, <2>2, EndSession
<1>4. CASE Crash
  BY <1>1, <1>4, EndSession DEF Crash, SessionLost, sessionDisk
<1> QED
  BY <1>2, <1>3, <1>4

\* The steps of the loop that the session takes no part in.
LEMMA OtherSession ==
  ASSUME SessionInv,
         \/ Start \/ Recovered \/ OpenFails \/ NoIncidents \/ SkipMeter \/ Observe \/ ObserveReturns
         \/ SkipTelemetry \/ MeterFails \/ RecoverFails \/ BeginRefused \/ MeterSteps \/ Deliver
         \/ UNCHANGED vars
  PROVE  SessionInv'
<1>1. UNCHANGED sessionVars
  BY DEF Start, Recovered, OpenFails, NoIncidents, SkipMeter, Observe, ObserveReturns,
     SkipTelemetry,
         MeterFails, RecoverFails, BeginRefused, MeterSteps, Deliver, vars
<1>2. phase \in 1..7 /\ at \in Steps /\ PhaseAfter \in 1..7
  BY PhaseTypes DEF SessionInv, SessionType
<1>3. CASE Start \/ Recovered \/ OpenFails \/ RecoverFails \/ BeginRefused
  <2>1. /\ at \in {"down", "recover", "open", "begin"} /\ at' \in {"down", "recover", "open"}
        /\ UNCHANGED phase
    BY <1>3 DEF Start, Recovered, OpenFails, RecoverFails, BeginRefused, GoTo
  <2> QED
    BY <1>1, <1>2, <2>1, SessionQuiet DEF Up, Numbering, Steps
<1>4. CASE NoIncidents \/ SkipMeter \/ Observe \/ ObserveReturns \/ SkipTelemetry
  <2>1. at \in {"ready", "observe"} /\ at' \in {"ready", "observe"} /\ phase' \in 1..7
    BY <1>2, <1>4 DEF NoIncidents, SkipMeter, Observe, ObserveReturns, SkipTelemetry, GoTo,
       GoOn, NextPhase
  <2> QED
    BY <1>1, <1>2, <2>1, SessionQuiet DEF Up, Numbering, Steps
<1>5. CASE MeterFails \/ MeterSteps \/ Deliver \/ UNCHANGED vars
  <2>1. UNCHANGED <<at, phase>>
    BY <1>5 DEF MeterFails, MeterSteps, Deliver, vars, loopVars
  <2> QED
    BY <1>1, <1>2, <2>1, SessionQuiet
<1> QED
  BY <1>3, <1>4, <1>5

\* Nothing was reported and no process ran.
LEMMA InitSession ==
  ASSUME Init
  PROVE  SessionInv
<1>1. NoDocument \in Documents /\ NoSequences \in [Domains -> Nat] /\ NoDocument.pending = {}
      /\ NoDocument.state = "none" /\ NoDocument.boot = 0
  BY DEF NoDocument, NoSequences, Documents, Incidents
<1>2. /\ runFile = NoSequences /\ runMem = NoSequences /\ sessionFile = NoDocument
      /\ sessionMem = NoDocument /\ boots = 0 /\ outbox = [dom \in Domains |-> <<>>]
      /\ drawn = 0 /\ unclean = {} /\ clean = {} /\ at = "down" /\ phase = 1
  BY DEF Init, SessionInit
<1>3. \A dom \in Domains : outbox[dom] \in Seq(Telemetry) /\ 1..Len(outbox[dom]) = {}
  BY <1>2
<1>4. SessionType
  BY <1>1, <1>2, <1>3 DEF SessionType, Steps
<1>5. SeqInv
  BY <1>2, <1>3 DEF SeqInv, Below, SequencesIncrease, Numbering, Up
<1>6. Known = {}
  <2>1. \A dom \in Domains : Told(dom) = {}
    BY <1>3 DEF Told
  <2>2. EventsOf(sessionFile.pending) = {} /\ EventsOf(sessionMem.pending) = {}
    BY <1>1, <1>2 DEF EventsOf
  <2> QED
    BY <2>1, <2>2 DEF Known, Reported, Domains
<1>7. IncidentInv
  BY <1>1, <1>2, <1>6 DEF IncidentInv, Up
<1> QED
  BY <1>4, <1>5, <1>7 DEF SessionInv

\* Every step keeps the session's invariant.
LEMMA NextSession ==
  ASSUME SessionInv, [Next]_vars
  PROVE  SessionInv'
BY OpenSession, NumberSession, EnqueueSession, BeginInv, MarkSession, ExitSession, OtherSession
   DEF Next, Loop, Faults

\* The session's invariant holds in every reachable state.
LEMMA SessionHolds == Spec => []SessionInv
<1>1. Init => SessionInv
  BY InitSession
<1>2. SessionInv /\ [Next]_vars => SessionInv'
  BY NextSession
<1> QED
  BY <1>1, <1>2, PTL DEF Spec

\* The sequence of a domain only grows over the batches queued for it, across
\* restarts and failed writes of the run state (runstate.NextWebsite and
\* NextMonitoring save a number before they hand it out).
THEOREM SequencesGrow == Spec => []SequencesIncrease
<1>1. SessionInv => SequencesIncrease
  BY DEF SessionInv, SeqInv
<1> QED
  BY <1>1, SessionHolds, PTL

\* An incident names a process that did end without its clean marker, and one
\* exit has one event in both domains and after every restart; no process both
\* marked a clean exit and is counted as unclean (lifecycle.Begin,
\* MarkQueued and MarkClean).
THEOREM ExitsToldTruly == Spec => [](IncidentsTruthful /\ unclean \cap clean = {})
<1>1. SessionInv => IncidentsTruthful /\ unclean \cap clean = {}
  BY DEF SessionInv, IncidentInv, IncidentsTruthful, Known
<1> QED
  BY <1>1, SessionHolds, PTL

-----------------------------------------------------------------------------
(* The meter.                                                              *)

\* What the meter directory holds.
Disks == [state : States, txn : Transactions]
\* The inductive invariant of the meter.
MeterInv == MeterType /\ CoverInv

\* What a snapshot holds.
LEMMA SampleTypes ==
  ASSUME NEW snapshot \in Snapshots, NEW sample \in snapshot
  PROVE  /\ sample.key \in Keys /\ sample.key \in Nat /\ sample.value \in Nat
         /\ sample.identity \in Identities /\ sample.identity # "none"
BY SnapshotsAssumption DEF Keys, Identities, Samples

\* The numbers of a snapshot's events.
LEMMA EventNumbers ==
  ASSUME NEW snapshot \in Snapshots, NEW sample \in snapshot
  PROVE  /\ Cardinality(snapshot) \in Nat
         /\ Cardinality({s \in snapshot : s.key <= sample.key}) \in 1..Cardinality(snapshot)
<1> DEFINE upTo == {s \in snapshot : s.key <= sample.key}
<1>1. IsFiniteSet(snapshot) /\ upTo \subseteq snapshot
  BY SnapshotsAssumption
<1>2. IsFiniteSet(upTo) /\ Cardinality(upTo) <= Cardinality(snapshot)
  BY <1>1, FS_Subset
<1>3. Cardinality(upTo) \in Nat /\ Cardinality(snapshot) \in Nat
  BY <1>1, <1>2, FS_CardinalityType
<1>4. sample \in upTo
  BY SampleTypes
<1>5. Cardinality(upTo) # 0
  BY <1>2, <1>4, FS_EmptySet
<1> QED
  BY <1>2, <1>3, <1>5

\* A counter stays in its epoch only when it has one.
LEMMA EpochTypes ==
  ASSUME meterMem \in States, meterIds \in Nat, NEW snapshot \in Snapshots, NEW sample \in snapshot
  PROVE  /\ EpochOf(sample) \in Epochs
         /\ \/ EpochOf(sample) = <<meterIds + 1, sample.key>>
            \/ /\ EpochOf(sample) = meterMem.counters[sample.key].epoch
               /\ meterMem.counters[sample.key] # NoCounter
               /\ sample.identity = meterMem.counters[sample.key].identity
               /\ sample.value >= meterMem.counters[sample.key].value
<1> DEFINE previous == meterMem.counters[sample.key]
<1>1. /\ sample.key \in Keys /\ sample.key \in Nat /\ sample.value \in Nat
      /\ sample.identity \in Identities /\ sample.identity # "none"
  BY SampleTypes
<1>2. previous \in Counters /\ previous.value \in Nat
  BY <1>1 DEF States, Counters, NoCounter
<1>3. CASE Rotates(previous, sample)
  BY <1>1, <1>3 DEF EpochOf, Epochs
<1>4. CASE ~Rotates(previous, sample)
  <2>1. /\ EpochOf(sample) = previous.epoch /\ sample.identity = previous.identity
        /\ sample.value >= previous.value
    BY <1>1, <1>2, <1>4 DEF EpochOf, Rotates
  <2>2. previous # NoCounter
    BY <1>1, <2>1 DEF NoCounter
  <2>3. previous.epoch \in Epochs
    BY <1>2, <2>2 DEF Counters
  <2> QED
    BY <2>1, <2>2, <2>3
<1> QED
  BY <1>3, <1>4

\* The sample a counter is taken from.
LEMMA SampleOf ==
  ASSUME NEW snapshot \in Snapshots, NEW sample \in snapshot
  PROVE  (CHOOSE s \in snapshot : s.key = sample.key) = sample
BY SnapshotsAssumption

\* A transaction's counters: those of the samples, and the others as they were.
LEMMA NextCounters ==
  ASSUME NEW snapshot \in Snapshots
  PROVE  /\ \A sample \in snapshot :
              Transaction(snapshot).state.counters[sample.key] =
                [identity |-> sample.identity, epoch |-> EpochOf(sample), value |-> sample.value]
         /\ \A k \in Keys : \/ \E sample \in snapshot : sample.key = k
                            \/ Transaction(snapshot).state.counters[k] = meterMem.counters[k]
<1> DEFINE Counter(k) == IF \E s \in snapshot : s.key = k
                         THEN LET sample == CHOOSE s \in snapshot : s.key = k
                              IN [identity |-> sample.identity, epoch |-> EpochOf(sample),
                                  value |-> sample.value]
                         ELSE meterMem.counters[k]
<1>1. Transaction(snapshot).state.counters = [k \in Keys |-> Counter(k)]
  BY DEF Transaction
<1>2. ASSUME NEW sample \in snapshot
      PROVE  Counter(sample.key)
               = [identity |-> sample.identity, epoch |-> EpochOf(sample), value |-> sample.value]
  BY SampleOf
<1>3. ASSUME NEW k \in Keys, ~ \E sample \in snapshot : sample.key = k
      PROVE  Counter(k) = meterMem.counters[k]
  BY <1>3
<1>4. \A sample \in snapshot : sample.key \in Keys
  BY SampleTypes
<1>5. \A k \in Keys : Transaction(snapshot).state.counters[k] = Counter(k)
  BY <1>1
<1>6. \A sample \in snapshot :
         Transaction(snapshot).state.counters[sample.key] = Counter(sample.key)
  BY <1>4, <1>5
<1> HIDE DEF Counter
<1>7. \A k \in Keys : \/ \E sample \in snapshot : sample.key = k
                      \/ Transaction(snapshot).state.counters[k] = meterMem.counters[k]
  BY <1>3, <1>5
<1>8. ASSUME NEW sample \in snapshot
      PROVE  Transaction(snapshot).state.counters[sample.key]
               = [identity |-> sample.identity, epoch |-> EpochOf(sample), value |-> sample.value]
  <2>1. Transaction(snapshot).state.counters[sample.key] = Counter(sample.key)
    BY <1>6
  <2> QED
    BY <1>2, <2>1, Zenon
<1>9. \A sample \in snapshot :
        Transaction(snapshot).state.counters[sample.key]
          = [identity |-> sample.identity, epoch |-> EpochOf(sample), value |-> sample.value]
  BY <1>8, Zenon
<1> QED
  BY <1>7, <1>9, Zenon

\* What a transaction is made of.
LEMMA TransactionParts ==
  ASSUME NEW snapshot
  PROVE  /\ Transaction(snapshot).batch.id = meterIds + 1
         /\ Transaction(snapshot).batch.seq = meterMem.seq + 1
         /\ Transaction(snapshot).batch.events = {UsageEvent(snapshot, s) : s \in snapshot}
         /\ Transaction(snapshot).state.seq = meterMem.seq + 1
         /\ Transaction(snapshot).state.events = meterMem.events + Cardinality(snapshot)
         /\ DOMAIN Transaction(snapshot).state.counters = Keys
         /\ Transaction(snapshot) # NoTxn
<1>1. Transaction(snapshot) # NoTxn
  <2>1. "state" \in DOMAIN Transaction(snapshot) /\ "state" \notin DOMAIN NoTxn
    BY DEF Transaction, NoTxn
  <2> QED
    BY <2>1
<1> QED
  BY <1>1 DEF Transaction

\* An event is a record.
LEMMA EventTypes ==
  ASSUME meterMem \in States, meterIds \in Nat, NEW snapshot \in Snapshots, NEW sample \in snapshot
  PROVE  UsageEvent(snapshot, sample) \in Records
<1>1. meterMem.events \in Nat
  BY DEF States
<1>2. meterMem.events + Cardinality({s \in snapshot : s.key <= sample.key}) \in Nat
  BY <1>1, EventNumbers
<1> QED
  BY <1>2, SampleTypes, EpochTypes DEF UsageEvent, Records

\* A transaction has a batch and a state.
LEMMA TransactionType ==
  ASSUME meterMem \in States, meterIds \in Nat, NEW snapshot \in Snapshots
  PROVE  Transaction(snapshot) \in [batch : Batches, state : States]
<1> DEFINE T == Transaction(snapshot)
<1>1. Cardinality(snapshot) \in Nat
  BY SnapshotsAssumption, FS_CardinalityType
<1>2. meterMem.seq + 1 \in Nat /\ meterMem.events + Cardinality(snapshot) \in Nat
  BY <1>1 DEF States
<1>3. {UsageEvent(snapshot, s) : s \in snapshot} \in SUBSET Records
  BY EventTypes
<1>4. T.batch \in Batches
  BY <1>2, <1>3 DEF Transaction, Batches
<1>5. \A k \in Keys : T.state.counters[k] \in Counters
  <2> SUFFICES ASSUME NEW k \in Keys PROVE T.state.counters[k] \in Counters
    OBVIOUS
  <2>1. CASE \E sample \in snapshot : sample.key = k
    <3>1. PICK sample \in snapshot : sample.key = k
      BY <2>1
    <3>2. T.state.counters[k]
            = [identity |-> sample.identity, epoch |-> EpochOf(sample), value |-> sample.value]
      BY <3>1, NextCounters
    <3> QED
      BY <3>2, SampleTypes, EpochTypes DEF Counters
  <2>2. CASE T.state.counters[k] = meterMem.counters[k]
    BY <2>2 DEF States
  <2> QED
    BY <2>1, <2>2, NextCounters
<1>6. T.state.counters \in [Keys -> Counters]
  <2>1. T.state.counters = [k \in Keys |-> T.state.counters[k]]
    BY DEF Transaction
  <2> QED
    BY <1>5, <2>1
<1>7. T.state = [seq |-> meterMem.seq + 1, events |-> meterMem.events + Cardinality(snapshot),
                 counters |-> T.state.counters]
  BY DEF Transaction
<1>8. T.state \in States
  BY <1>2, <1>6, <1>7 DEF States
<1>9. T = [batch |-> T.batch, state |-> T.state]
  BY DEF Transaction
<1> QED
  BY <1>4, <1>8, <1>9

\* Batches are only added.
LEMMA CoverMono ==
  ASSUME NEW state, NEW batches, NEW more, batches \subseteq more, Covered(state, batches)
  PROVE  Covered(state, more)
BY DEF Covered

\* The state a transaction leads to is backed by the batch beside it.
LEMMA TransactionCovered ==
  ASSUME meterMem \in States, meterIds \in Nat, NEW snapshot \in Snapshots, Covered(meterMem, usage)
  PROVE  Covered(Transaction(snapshot).state, usage \cup {Transaction(snapshot).batch})
<1> DEFINE T == Transaction(snapshot)
<1>1. T.batch.seq = meterMem.seq + 1 /\ T.state.seq = meterMem.seq + 1 /\ meterMem.seq \in Nat
  BY TransactionParts DEF States
<1>2. 1..T.state.seq \subseteq {b.seq : b \in usage \cup {T.batch}}
  <2> SUFFICES ASSUME NEW n \in 1..meterMem.seq + 1 PROVE n \in {b.seq : b \in usage \cup {T.batch}}
    BY <1>1
  <2>1. CASE n = meterMem.seq + 1
    BY <1>1, <2>1
  <2>2. CASE n # meterMem.seq + 1
    <3>1. n \in 1..meterMem.seq
      BY <1>1, <2>2
    <3> QED
      BY <3>1 DEF Covered
  <2> QED
    BY <2>1, <2>2
<1>3. ASSUME NEW k \in Keys
      PROVE  \/ T.state.counters[k] = NoCounter
             \/ \E b \in usage \cup {T.batch} : \E e \in b.events :
                  /\ e.key = k /\ e.epoch = T.state.counters[k].epoch
                  /\ e.value = T.state.counters[k].value
  <2>1. CASE \E sample \in snapshot : sample.key = k
    <3>1. PICK sample \in snapshot : sample.key = k
      BY <2>1
    <3>2. T.state.counters[k]
            = [identity |-> sample.identity, epoch |-> EpochOf(sample), value |-> sample.value]
      BY <3>1, NextCounters
    <3>3. UsageEvent(snapshot, sample) \in T.batch.events
      BY TransactionParts
    <3>4. /\ UsageEvent(snapshot, sample).key = k
          /\ UsageEvent(snapshot, sample).epoch = T.state.counters[k].epoch
          /\ UsageEvent(snapshot, sample).value = T.state.counters[k].value
      BY <3>1, <3>2 DEF UsageEvent
    <3> HIDE DEF T
    <3> QED
      BY <3>3, <3>4
  <2>2. CASE T.state.counters[k] = meterMem.counters[k]
    BY <2>2 DEF Covered
  <2> QED
    BY <2>1, <2>2, NextCounters
<1> HIDE DEF T
<1>4. Covered(T.state, usage \cup {T.batch})
  BY <1>2, <1>3 DEF Covered
<1> QED
  BY <1>4 DEF T

\* A step whose states were covered before, or are.
LEMMA MeterGoes ==
  ASSUME MeterInv, usage \subseteq usage', usage' \subseteq Batches, meterQueue' \subseteq usage',
         meterDir' \in Disks, meterSynced' \in Disks, meterMem' \in States, meterIds' \in Nat,
         meterOp' \in [pc : MeterPcs, next : {"observe", "return"}],
         \A s \in {meterDir'.state, meterSynced'.state, meterMem'} :
           s \in {meterDir.state, meterSynced.state, meterMem} \/ Covered(s, usage),
         \A t \in {meterDir'.txn, meterSynced'.txn} :
           \/ t \in {meterDir.txn, meterSynced.txn, NoTxn}
           \/ Covered(t.state, usage \cup {t.batch}),
         meterOp'.pc \in {"enqueue", "save"} => meterDir'.txn # NoTxn,
         meterOp'.pc = "save" => meterDir'.txn.batch \in usage'
  PROVE  MeterInv'
<1>1. MeterType'
  BY DEF MeterType, Disks
<1>2. \A s \in {meterDir'.state, meterSynced'.state, meterMem'} : Covered(s, usage')
  <2> SUFFICES ASSUME NEW s \in {meterDir'.state, meterSynced'.state, meterMem'}
               PROVE  Covered(s, usage')
    OBVIOUS
  <2>1. Covered(s, usage)
    BY DEF MeterInv, CoverInv
  <2> QED
    BY <2>1, CoverMono
<1>3. \A t \in {meterDir'.txn, meterSynced'.txn} \ {NoTxn} : Covered(t.state, usage' \cup {t.batch})
  <2> SUFFICES ASSUME NEW t \in {meterDir'.txn, meterSynced'.txn} \ {NoTxn}
               PROVE  Covered(t.state, usage' \cup {t.batch})
    OBVIOUS
  <2>1. Covered(t.state, usage \cup {t.batch})
    BY DEF MeterInv, CoverInv, Txns
  <2>2. usage \cup {t.batch} \subseteq usage' \cup {t.batch}
    OBVIOUS
  <2> QED
    BY <2>1, <2>2, CoverMono
<1>4. CoverInv'
  <2>1. /\ Covered(meterDir.state, usage)' /\ Covered(meterSynced.state, usage)'
        /\ Covered(meterMem, usage)'
    BY <1>2 DEF Covered
  <2>2. (\A t \in Txns : Covered(t.state, usage \cup {t.batch}))'
    BY <1>3 DEF Covered, Txns
  <2> QED
    BY <2>1, <2>2 DEF CoverInv
<1> QED
  BY <1>1, <1>4 DEF MeterInv

\* The values the meter's state takes.
LEMMA MeterTypes ==
  ASSUME MeterInv
  PROVE  /\ meterDir \in Disks /\ meterDir.state \in States /\ meterDir.txn \in Transactions
         /\ meterSynced \in Disks /\ meterSynced.state \in States /\ meterSynced.txn \in Transactions
         /\ meterMem \in States /\ meterIds \in Nat /\ usage \subseteq Batches /\ meterQueue \subseteq usage
         /\ meterOp \in [pc : MeterPcs, next : {"observe", "return"}]
         /\ \A pc \in MeterPcs : /\ [meterOp EXCEPT !.pc = pc].pc = pc
                                 /\ [meterOp EXCEPT !.pc = pc].next = meterOp.next
                                 /\ [meterOp EXCEPT !.pc = pc] \in [pc : MeterPcs, next : {"observe", "return"}]
         /\ \A state \in States : /\ [meterDir EXCEPT !.state = state] \in Disks
                                  /\ [meterDir EXCEPT !.state = state].state = state
                                  /\ [meterDir EXCEPT !.state = state].txn = meterDir.txn
         /\ \A txn \in Transactions : /\ [meterDir EXCEPT !.txn = txn] \in Disks
                                      /\ [meterDir EXCEPT !.txn = txn].txn = txn
                                      /\ [meterDir EXCEPT !.txn = txn].state = meterDir.state
         /\ NoTxn \in Transactions /\ Idle \in [pc : MeterPcs, next : {"observe", "return"}]
         /\ Idle.pc = "idle"
         /\ meterDir.txn # NoTxn => meterDir.txn.batch \in Batches /\ meterDir.txn.state \in States
BY DEF MeterInv, MeterType, Disks, Transactions, Idle, MeterPcs

\* A call begins with a transaction that is pending, or with none.
LEMMA BeginMeter ==
  ASSUME MeterInv, NEW next \in {"observe", "return"}, MeterBegin(next)
  PROVE  MeterInv'
<1>1. UNCHANGED <<meterDir, meterSynced, meterMem, meterQueue, usage, meterIds>>
  BY DEF MeterBegin, meterDisk
<1>2. /\ meterOp' \in [pc : MeterPcs, next : {"observe", "return"}] /\ meterOp'.pc # "save"
      /\ meterOp'.pc = "enqueue" => meterDir.txn # NoTxn
  BY DEF MeterBegin, MeterPcs, Idle
<1> QED
  BY <1>1, <1>2, MeterTypes, MeterGoes

\* A step after which the meter waits, its states among those it had.
LEMMA IdleMeter ==
  ASSUME MeterInv, meterOp' \in {Idle, [meterOp EXCEPT !.pc = "failed"]},
         usage' = usage, meterQueue' \subseteq meterQueue, meterIds' \in Nat,
         meterDir' \in Disks, meterSynced' \in Disks, meterMem' \in States,
         {meterDir'.state, meterSynced'.state, meterMem'}
           \subseteq {meterDir.state, meterSynced.state, meterMem},
         {meterDir'.txn, meterSynced'.txn} \subseteq {meterDir.txn, meterSynced.txn, NoTxn}
  PROVE  MeterInv'
<1>1. meterOp' \in [pc : MeterPcs, next : {"observe", "return"}] /\ meterOp'.pc \in {"idle", "failed"}
  BY MeterTypes DEF MeterPcs
<1> QED
  BY <1>1, MeterTypes, MeterGoes

\* The transaction file is written.
LEMMA WriteMeter ==
  ASSUME MeterInv, NEW snapshot \in Snapshots, WriteTxn(snapshot)
  PROVE  MeterInv'
<1> DEFINE T == Transaction(snapshot)
<1>1. T \in Transactions /\ T # NoTxn
  BY MeterTypes, TransactionType, TransactionParts DEF Transactions
<1>2. Covered(T.state, usage \cup {T.batch})
  BY MeterTypes, TransactionCovered DEF MeterInv, CoverInv
<1>3. /\ meterDir' = [meterDir EXCEPT !.txn = T] /\ meterSynced' = meterDir'
      /\ meterOp' = [meterOp EXCEPT !.pc = "enqueue"] /\ meterIds' = meterIds + 1
      /\ UNCHANGED <<meterMem, meterQueue, usage>>
  BY DEF WriteTxn, MeterStep
<1> HIDE DEF T
<1>4. meterDir' \in Disks /\ meterDir'.txn = T /\ meterDir'.state = meterDir.state
  BY <1>1, <1>3, MeterTypes
<1>5. meterOp'.pc = "enqueue" /\ meterOp' \in [pc : MeterPcs, next : {"observe", "return"}]
  BY <1>3, MeterTypes DEF MeterPcs
<1>6. meterIds' \in Nat
  BY <1>3, MeterTypes
<1> QED
  BY <1>1, <1>2, <1>3, <1>4, <1>5, <1>6, MeterTypes, MeterGoes

\* The batch of the transaction is queued, with or without an error after it.
LEMMA EnqueueMeter ==
  ASSUME MeterInv, meterOp.pc = "enqueue",
         meterQueue' = meterQueue \cup {meterDir.txn.batch}, usage' = usage \cup {meterDir.txn.batch},
         meterOp' \in {[meterOp EXCEPT !.pc = "save"], [meterOp EXCEPT !.pc = "failed"]},
         UNCHANGED <<meterDir, meterSynced, meterMem, meterIds>>
  PROVE  MeterInv'
<1>1. meterDir.txn # NoTxn /\ meterDir.txn.batch \in Batches
  BY MeterTypes DEF MeterInv, CoverInv
<1>2. meterOp' \in [pc : MeterPcs, next : {"observe", "return"}] /\ meterOp'.pc \in {"save", "failed"}
  BY MeterTypes DEF MeterPcs
<1> QED
  BY <1>1, <1>2, MeterTypes, MeterGoes

\* The state file is written, its batch being queued.
LEMMA SaveMeter ==
  ASSUME MeterInv, meterOp.pc = "save", meterDir' = [meterDir EXCEPT !.state = meterDir.txn.state],
         meterSynced' \in {meterSynced, meterDir'}, meterMem' \in {meterMem, meterDir.txn.state},
         meterOp' \in {[meterOp EXCEPT !.pc = "remove"], [meterOp EXCEPT !.pc = "failed"]},
         UNCHANGED <<meterQueue, usage, meterIds>>
  PROVE  MeterInv'
<1>1. /\ meterDir.txn # NoTxn /\ meterDir.txn.state \in States
      /\ meterDir.txn.batch \in usage
  BY MeterTypes DEF MeterInv, CoverInv
<1>2. Covered(meterDir.txn.state, usage)
  <2>1. Covered(meterDir.txn.state, usage \cup {meterDir.txn.batch})
    BY <1>1 DEF MeterInv, CoverInv, Txns
  <2>2. usage \cup {meterDir.txn.batch} = usage
    BY <1>1
  <2> QED
    BY <2>1, <2>2
<1>3. meterDir' \in Disks /\ meterDir'.txn = meterDir.txn /\ meterDir'.state = meterDir.txn.state
  BY <1>1, MeterTypes
<1>4. meterOp' \in [pc : MeterPcs, next : {"observe", "return"}] /\ meterOp'.pc \in {"remove", "failed"}
  BY MeterTypes DEF MeterPcs
<1>5. /\ meterSynced' \in Disks /\ meterMem' \in States
      /\ meterSynced'.state \in {meterSynced.state, meterDir.txn.state}
      /\ meterSynced'.txn \in {meterSynced.txn, meterDir.txn}
  BY <1>1, <1>3, MeterTypes
<1>6. \A s \in {meterDir'.state, meterSynced'.state, meterMem'} :
        s \in {meterDir.state, meterSynced.state, meterMem} \/ Covered(s, usage)
  BY <1>2, <1>3, <1>5
<1>7. \A t \in {meterDir'.txn, meterSynced'.txn} : t \in {meterDir.txn, meterSynced.txn, NoTxn}
  BY <1>3, <1>5
<1> QED
  BY <1>1, <1>3, <1>4, <1>5, <1>6, <1>7, MeterTypes, MeterGoes

\* The transaction file is removed.
LEMMA RemoveMeter ==
  ASSUME MeterInv, RemoveTxn
  PROVE  MeterInv'
<1>1. /\ meterDir' = [meterDir EXCEPT !.txn = NoTxn] /\ meterSynced' = meterDir'
      /\ UNCHANGED <<meterMem, meterQueue, usage, meterIds>>
  BY DEF RemoveTxn
<1>2. meterDir' \in Disks /\ meterDir'.txn = NoTxn /\ meterDir'.state = meterDir.state
  BY <1>1, MeterTypes
<1>3. meterOp' \in [pc : MeterPcs, next : {"observe", "return"}] /\ meterOp'.pc \in {"observe", "idle"}
  BY DEF RemoveTxn, MeterPcs, Idle
<1> QED
  BY <1>1, <1>2, <1>3, MeterTypes, MeterGoes

\* The meter's own steps.
LEMMA WorkMeter ==
  ASSUME MeterInv, MeterWork
  PROVE  MeterInv'
<1>1. CASE \E snapshot \in Snapshots : WriteTxn(snapshot)
  BY <1>1, WriteMeter
<1>2. CASE NothingToMeter \/ EnqueueRefused
  BY <1>2, IdleMeter, MeterTypes DEF NothingToMeter, EnqueueRefused, MeterReturns, MeterError,
     MeterStep,
       meterDisk
<1>3. CASE EnqueueBatch
  BY <1>3, EnqueueMeter DEF EnqueueBatch, MeterStep, meterDisk
<1>4. CASE SaveState
  BY <1>4, SaveMeter DEF SaveState, MeterStep
<1> QED
  BY <1>1, <1>2, <1>3, <1>4, RemoveMeter DEF MeterWork

\* A file operation that fails leaves the directory as it was or as it should
\* have become.
LEMMA FaultMeter ==
  ASSUME MeterInv, MeterFault
  PROVE  MeterInv'
<1>1. meterOp' = [meterOp EXCEPT !.pc = "failed"] /\ UNCHANGED <<meterSynced, meterMem>>
  BY DEF MeterFault, MeterError, MeterStep
<1>2. CASE UNCHANGED <<meterDir, meterQueue, usage, meterIds>>
  BY <1>1, <1>2, MeterTypes, IdleMeter
<1>3. CASE /\ \E snapshot \in Snapshots : meterDir' = [meterDir EXCEPT !.txn = Transaction(snapshot)]
           /\ meterIds' = meterIds + 1 /\ UNCHANGED <<meterQueue, usage>>
  <2>1. PICK snapshot \in Snapshots : meterDir' = [meterDir EXCEPT !.txn = Transaction(snapshot)]
    BY <1>3
  <2> DEFINE T == Transaction(snapshot)
  <2>2. T \in Transactions
    BY MeterTypes, TransactionType DEF Transactions
  <2>3. Covered(T.state, usage \cup {T.batch})
    BY MeterTypes, TransactionCovered DEF MeterInv, CoverInv
  <2> HIDE DEF T
  <2>4. meterDir' \in Disks /\ meterDir'.txn = T /\ meterDir'.state = meterDir.state
    BY <2>1, <2>2, MeterTypes DEF T
  <2>5. meterOp'.pc = "failed" /\ meterOp' \in [pc : MeterPcs, next : {"observe", "return"}]
    BY <1>1, MeterTypes DEF MeterPcs
  <2>6. meterIds' \in Nat
    BY <1>3, MeterTypes
  <2> QED
    BY <1>1, <1>3, <2>2, <2>3, <2>4, <2>5, <2>6, MeterTypes, MeterGoes
<1>4. CASE /\ meterOp.pc = "enqueue" /\ meterQueue' = meterQueue \cup {meterDir.txn.batch}
           /\ usage' = usage \cup {meterDir.txn.batch} /\ UNCHANGED <<meterDir, meterIds>>
  BY <1>1, <1>4, EnqueueMeter
<1>5. CASE /\ meterOp.pc = "save" /\ meterDir' = [meterDir EXCEPT !.state = meterDir.txn.state]
           /\ UNCHANGED <<meterQueue, usage, meterIds>>
  BY <1>1, <1>5, SaveMeter
<1>6. CASE meterDir' = [meterDir EXCEPT !.txn = NoTxn] /\ UNCHANGED <<meterQueue, usage, meterIds>>
  <2>1. meterDir' \in Disks /\ meterDir'.txn = NoTxn /\ meterDir'.state = meterDir.state
    BY <1>6, MeterTypes
  <2> QED
    BY <1>1, <1>6, <2>1, MeterTypes, IdleMeter
<1> QED
  BY <1>2, <1>3, <1>4, <1>5, <1>6 DEF MeterFault

\* Of the changes since the last sync each may survive a crash.
LEMMA CrashMeter ==
  ASSUME MeterInv, MeterCrash
  PROVE  MeterInv'
<1>1. PICK s \in {meterDir.state, meterSynced.state}, t \in {meterDir.txn, meterSynced.txn} :
        meterDir' = [state |-> s, txn |-> t]
  BY DEF MeterCrash
<1>2. /\ meterSynced' = meterDir' /\ meterMem' = meterDir'.state /\ meterOp' = Idle
      /\ UNCHANGED <<meterQueue, usage, meterIds>>
  BY DEF MeterCrash
<1>3. meterDir' \in Disks /\ meterDir'.state = s /\ meterDir'.txn = t
  BY <1>1, MeterTypes DEF Disks
<1> QED
  BY <1>2, <1>3, MeterTypes, IdleMeter

\* Every step keeps the meter's invariant.
LEMMA NextMeter ==
  ASSUME MeterInv, [Next]_vars
  PROVE  MeterInv'
<1>1. CASE UNCHANGED meterVars
  BY <1>1 DEF MeterInv, MeterType, CoverInv, Covered, Txns, meterVars, meterDisk
<1>2. CASE Start \/ Observe
  BY <1>2, BeginMeter DEF Start, Observe
<1>3. CASE ObserveReturns \/ RecoverFails
  BY <1>3, IdleMeter, MeterTypes DEF ObserveReturns, RecoverFails, meterDisk
<1>4. CASE Stop \/ StopFails
  <2>1. meterMem' = meterDir.state /\ UNCHANGED <<meterDir, meterSynced, meterOp, meterQueue, usage, meterIds>>
    BY <1>4 DEF Stop, StopFails, meterDisk
  <2> QED
    BY <2>1, MeterTypes, MeterGoes DEF MeterInv, CoverInv
<1>5. CASE Crash
  BY <1>5, CrashMeter DEF Crash
<1>6. CASE MeterSteps
  BY <1>6, WorkMeter DEF MeterSteps
<1>7. CASE MeterFails
  BY <1>7, FaultMeter DEF MeterFails
<1>8. CASE Deliver
  <2>1. /\ meterQueue' \subseteq meterQueue
        /\ UNCHANGED <<meterDir, meterSynced, meterMem, meterOp, usage, meterIds>>
    BY <1>8 DEF Deliver, DeliverBatch, meterDisk
  <2> QED
    BY <2>1, MeterTypes, MeterGoes DEF MeterInv, CoverInv
<1>9. CASE \/ Recovered \/ Open \/ BeginSession \/ BeginRefused \/ NoIncidents \/ NumberIncidents
           \/ EnqueueIncidents \/ MarkIncidents \/ SkipMeter \/ SkipTelemetry \/ NumberTelemetry
           \/ EnqueueSample \/ OpenFails \/ BeginSessionFails \/ NumberFails \/ EnqueueFails \/ MarkFails
           \/ UNCHANGED vars
  BY <1>1, <1>9 DEF Recovered, Open, BeginSession, BeginRefused, NoIncidents, NumberIncidents,
       EnqueueIncidents, MarkIncidents, SkipMeter, SkipTelemetry, NumberTelemetry, EnqueueSample,
       OpenFails, BeginSessionFails, NumberFails, EnqueueFails, MarkFails, vars
<1> QED
  BY <1>2, <1>3, <1>4, <1>5, <1>6, <1>7, <1>8, <1>9 DEF Next, Loop, Faults

\* No file, no batch.
LEMMA InitMeter ==
  ASSUME Init
  PROVE  MeterInv
<1>1. /\ meterDir = [state |-> NewState, txn |-> NoTxn] /\ meterSynced = meterDir
      /\ meterMem = NewState /\ meterOp = Idle /\ meterQueue = {} /\ usage = {} /\ meterIds = 0
  BY DEF Init, MeterInit
<1>2. NewState \in States /\ NoTxn \in Transactions
  BY DEF NewState, States, Counters, Transactions
<1>3. MeterType
  BY <1>1, <1>2 DEF MeterType, MeterPcs, Idle
<1>4. Covered(NewState, {})
  BY DEF Covered, NewState
<1>5. CoverInv
  BY <1>1, <1>4 DEF CoverInv, Txns, Idle
<1> QED
  BY <1>3, <1>5 DEF MeterInv

\* The meter's invariant holds in every reachable state.
LEMMA MeterHolds == Spec => []MeterInv
<1>1. Init => MeterInv
  BY InitMeter
<1>2. MeterInv /\ [Next]_vars => MeterInv'
  BY NextMeter
<1> QED
  BY <1>1, <1>2, PTL DEF Spec

\* No crash or failed write moves the meter's baseline past usage nobody was
\* told of: what the state file holds was queued before (Observe and
\* recoverLocked write the state after the batch is in the queue).
THEOREM BaselineKept == Spec => []BaselineBacked
<1>1. SessionInv /\ MeterInv => TypeOK
  <2> SUFFICES ASSUME SessionInv, MeterInv PROVE TypeOK
    OBVIOUS
  <2>1. \A dom \in Domains : \A i \in 1..Len(outbox[dom]) :
          outbox[dom][i].seq \in Nat /\ outbox[dom][i].events \subseteq Events
    BY QueuedTypes DEF SessionInv
  <2>2. at \in Steps /\ phase \in 1..Len(Phases)
    BY PhaseTypes DEF SessionInv, SessionType
  <2>3. meterOp.pc \in {"idle", "observe", "enqueue", "save", "remove", "failed"}
    BY MeterTypes DEF MeterPcs
  <2> QED
    BY <2>1, <2>2, <2>3, MeterTypes DEF TypeOK, SessionInv, SessionType
<1>2. MeterInv =>
        /\ 1..meterDir.state.seq \subseteq {b.seq : b \in usage}
        /\ \A k \in Keys : meterDir.state.counters[k] = NoCounter
             \/ \E e \in UsageEvents : /\ e.key = k /\ e.epoch = meterDir.state.counters[k].epoch
                                       /\ e.value = meterDir.state.counters[k].value
  <2>1. ASSUME NEW b \in usage, NEW e \in b.events PROVE e \in UsageEvents
    BY DEF UsageEvents
  <2> QED
    BY <2>1 DEF MeterInv, CoverInv, Covered
<1>3. SessionInv /\ MeterInv => BaselineBacked
  BY <1>1, <1>2 DEF BaselineBacked
<1> QED
  BY <1>3, SessionHolds, MeterHolds, PTL

-----------------------------------------------------------------------------
(* Usage, while no file operation failed: crashes may come anywhere.       *)

\* The parts of an event of a batch.
LEMMA EventParts ==
  ASSUME NEW batch \in Batches, NEW e \in batch.events
  PROVE  e.event \in Nat /\ e.key \in Keys /\ e.epoch \in Epochs /\ e.epoch[1] \in Nat /\ e.value \in Nat
<1>1. e \in Records
  BY DEF Batches
<1>2. e.epoch \in Nat \X Keys
  BY <1>1 DEF Records, Epochs
<1> QED
  BY <1>1, <1>2 DEF Records, Epochs

\* The parts of a counter, present or not.
LEMMA CounterParts ==
  ASSUME NEW state \in States, NEW k \in Keys
  PROVE  state.counters[k].epoch[1] \in Nat /\ state.counters[k].value \in Nat
<1>1. state.counters[k] \in Counters
  BY DEF States
<1>2. CASE state.counters[k] = NoCounter
  BY <1>2 DEF NoCounter
<1>3. CASE state.counters[k] \in [identity : Identities, epoch : Epochs, value : Nat]
  <2>1. state.counters[k].epoch \in Nat \X Keys /\ state.counters[k].value \in Nat
    BY <1>3 DEF Epochs
  <2> QED
    BY <2>1
<1> QED
  BY <1>1, <1>2, <1>3 DEF Counters

\* The parts of an event that is accounted for.
LEMMA OldParts ==
  ASSUME MeterInv, NEW e \in OldEvents
  PROVE  e.event \in Nat /\ e.key \in Keys /\ e.epoch \in Epochs /\ e.epoch[1] \in Nat /\ e.value \in Nat
<1>1. PICK b \in Old : e \in b.events
  BY DEF OldEvents
<1>2. b \in Batches
  BY MeterTypes DEF Old
<1> QED
  BY <1>1, <1>2, EventParts

\* A sample is numbered after those of smaller keys.
LEMMA NumbersDiffer ==
  ASSUME NEW snapshot \in Snapshots, NEW s \in snapshot, NEW t \in snapshot, s.key < t.key
  PROVE  Cardinality({x \in snapshot : x.key <= s.key}) # Cardinality({x \in snapshot : x.key <= t.key})
<1> DEFINE UpTo(k) == {x \in snapshot : x.key <= k}
<1>1. /\ s.key \in Nat /\ t.key \in Nat /\ \A x \in snapshot : x.key \in Nat
  BY SampleTypes
<1>2. t \in UpTo(t.key) /\ t \notin UpTo(s.key) /\ UpTo(s.key) \subseteq UpTo(t.key)
  BY <1>1
<1>3. IsFiniteSet(UpTo(t.key))
  BY SnapshotsAssumption, FS_Subset
<1>4. UpTo(s.key) # UpTo(t.key)
  BY <1>2
<1> HIDE DEF UpTo
<1>5. Cardinality(UpTo(t.key)) # Cardinality(UpTo(s.key))
  BY <1>2, <1>3, <1>4, FS_Subset
<1> QED
  BY <1>5 DEF UpTo

\* The events of one batch are told apart by their numbers and by their keys.
LEMMA BatchDistinct ==
  ASSUME meterMem \in States, NEW snapshot \in Snapshots, NEW s \in snapshot, NEW t \in snapshot,
         \/ UsageEvent(snapshot, s).event = UsageEvent(snapshot, t).event
         \/ UsageEvent(snapshot, s).key = UsageEvent(snapshot, t).key
  PROVE  s = t
<1>1. s.key \in Nat /\ t.key \in Nat
  BY SampleTypes
<1>2. CASE UsageEvent(snapshot, s).key = UsageEvent(snapshot, t).key
  BY <1>2, SnapshotsAssumption DEF UsageEvent
<1>3. CASE UsageEvent(snapshot, s).event = UsageEvent(snapshot, t).event
  <2> DEFINE n == Cardinality({x \in snapshot : x.key <= s.key})
             m == Cardinality({x \in snapshot : x.key <= t.key})
  <2>1. n \in Nat /\ m \in Nat /\ meterMem.events \in Nat
    BY EventNumbers DEF States
  <2>2. meterMem.events + n = meterMem.events + m
    BY <1>3 DEF UsageEvent
  <2>3. n = m
    <3> HIDE DEF n, m
    <3> QED
      BY <2>1, <2>2
  <2>4. ~(s.key < t.key) /\ ~(t.key < s.key)
    BY <2>3, NumbersDiffer
  <2>5. s.key = t.key
    <3> HIDE DEF n, m
    <3> QED
      BY <1>1, <2>4
  <2> QED
    BY <2>5, SnapshotsAssumption
<1> QED
  BY <1>2, <1>3

\* Followed by its transaction the meter's past stays consistent.
LEMMA FollowedConsistent ==
  ASSUME MeterInv, SettledInv, meterDir.txn # NoTxn, Follows(meterDir.txn)
  PROVE  \A e, f \in OldEvents \cup meterDir.txn.batch.events : Consistent(e, f) /\ e.epoch[2] = e.key
<1> DEFINE batch == meterDir.txn.batch
           state == meterDir.state
<1>1. batch \in Batches /\ batch.id \in Nat /\ state \in States /\ state.events \in Nat
      /\ meterDir.txn.state \in States /\ meterDir.txn.state.events \in Nat
  BY MeterTypes DEF Batches, States
<1>2. \A e \in OldEvents \cup batch.events :
        e.event \in Nat /\ e.key \in Keys /\ e.epoch[1] \in Nat /\ e.value \in Nat
  BY <1>1, EventParts, OldParts
<1>3. \A e \in OldEvents :
        /\ e.event <= state.events /\ e.epoch[1] < batch.id /\ e.epoch[2] = e.key
        /\ e.epoch = state.counters[e.key].epoch =>
             e.identity = state.counters[e.key].identity /\ e.value <= state.counters[e.key].value
  BY DEF SettledInv, Minted, Follows
<1>4. \A e \in batch.events :
        /\ e.event \in state.events+1..meterDir.txn.state.events /\ e.epoch[2] = e.key
        /\ \/ e.epoch[1] = batch.id
           \/ /\ e.epoch = state.counters[e.key].epoch /\ e.identity = state.counters[e.key].identity
              /\ e.value >= state.counters[e.key].value
  BY DEF Follows, Minted
<1>5. \A e \in batch.events : e.event > state.events
  BY <1>1, <1>4
<1>6. \A e, f \in OldEvents : Consistent(e, f)
  BY DEF SettledInv
<1>7. \A e, f \in batch.events : e.event = f.event \/ e.key = f.key => e = f
  BY DEF Follows
<1>8. ASSUME NEW e \in batch.events, NEW f \in batch.events
      PROVE  Consistent(e, f)
  <2>1. e.epoch = f.epoch => e = f
    BY <1>4, <1>7
  <2>2. e.value <= e.value
    BY <1>2
  <2> QED
    BY <1>7, <2>1, <2>2 DEF Consistent
<1>9. ASSUME NEW e \in OldEvents, NEW f \in batch.events
      PROVE  Consistent(e, f) /\ Consistent(f, e)
  <2>1. e.event < f.event /\ e.event \in Nat /\ f.event \in Nat
    BY <1>1, <1>2, <1>3, <1>5
  <2>2. ~(f.event <= e.event) /\ e.event # f.event
    BY <2>1
  <2>3. ASSUME e.epoch = f.epoch PROVE e.identity = f.identity /\ e.value <= f.value
    <3>1. e.key = f.key
      BY <1>3, <1>4, <2>3
    <3>2. e.epoch[1] # batch.id
      BY <1>1, <1>2, <1>3
    <3>3. /\ f.epoch = state.counters[f.key].epoch /\ f.identity = state.counters[f.key].identity
          /\ f.value >= state.counters[f.key].value
      BY <1>4, <2>3, <3>2
    <3>4. /\ e.identity = state.counters[f.key].identity /\ e.value <= state.counters[f.key].value
      BY <1>3, <2>3, <3>1, <3>3
    <3>5. state.counters[f.key].value \in Nat /\ e.value \in Nat /\ f.value \in Nat
      BY <1>1, <1>2, CounterParts
    <3> HIDE DEF state
    <3> QED
      BY <3>3, <3>4, <3>5
  <2> QED
    BY <2>2, <2>3 DEF Consistent
<1> QED
  BY <1>3, <1>4, <1>6, <1>8, <1>9

\* The transaction written for a snapshot follows the state it was built on.
LEMMA WrittenFollows ==
  ASSUME MeterInv, NoFaultInv, NEW snapshot \in Snapshots, WriteTxn(snapshot)
  PROVE  Follows(meterDir.txn)'
<1> DEFINE T == Transaction(snapshot)
           state == meterDir.state
<1>1. /\ meterDir'.txn = T /\ meterDir'.state = state /\ meterIds' = meterIds + 1 /\ UNCHANGED usage
      /\ meterMem = state
  <2>1. T \in Transactions
    BY MeterTypes, TransactionType DEF Transactions
  <2> HIDE DEF T
  <2>2. meterDir'.txn = T /\ meterDir'.state = state
    BY <2>1, MeterTypes DEF WriteTxn, T
  <2> QED
    BY <2>2 DEF WriteTxn, NoFaultInv
<1>2. OldEvents' = OldEvents
  BY <1>1 DEF Old, OldEvents
<1>3. state \in States /\ state.events \in Nat /\ state.seq \in Nat /\ meterIds \in Nat
  BY MeterTypes DEF States
<1>4. /\ T.batch.id = meterIds + 1 /\ T.batch.seq = state.seq + 1 /\ T.state.seq = state.seq + 1
      /\ T.batch.events = {UsageEvent(snapshot, s) : s \in snapshot}
      /\ T.state.events = state.events + Cardinality(snapshot)
  BY <1>1, TransactionParts
<1>5. T.batch.id \in 1..meterIds' /\ state.events <= T.state.events
  <2>1. Cardinality(snapshot) \in Nat
    BY SnapshotsAssumption, FS_CardinalityType
  <2> HIDE DEF T, state
  <2> QED
    BY <1>1, <1>3, <1>4, <2>1
<1>6. \A e \in OldEvents : e.epoch[1] < T.batch.id
  <2>1. \A e \in OldEvents : e.epoch[1] \in 1..meterIds
    BY DEF NoFaultInv, SettledInv, Minted
  <2> HIDE DEF T
  <2> QED
    BY <1>3, <1>4, <2>1
<1>7. ASSUME NEW k \in Keys
      PROVE  /\ state.counters[k].epoch[1] < T.batch.id
             /\ \/ T.state.counters[k] = state.counters[k]
                \/ \E e \in T.batch.events : e.key = k
  <2>1. state.counters[k].epoch[1] \in 0..meterIds
    <3>1. CASE state.counters[k] = NoCounter
      BY <1>3, <3>1 DEF NoCounter
    <3>2. CASE Minted(state.counters[k].epoch, k, meterIds)
      BY <1>3, <3>2 DEF Minted
    <3> QED
      BY <3>1, <3>2 DEF NoFaultInv, SettledInv
  <2>2. CASE \E s \in snapshot : s.key = k
    <3>1. PICK s \in snapshot : s.key = k
      BY <2>2
    <3>2. UsageEvent(snapshot, s) \in T.batch.events /\ UsageEvent(snapshot, s).key = k
      BY <1>4, <3>1 DEF UsageEvent
    <3> HIDE DEF T, state
    <3> QED
      BY <1>3, <1>4, <2>1, <3>2
  <2>3. CASE T.state.counters[k] = meterMem.counters[k]
    <3> HIDE DEF T
    <3> QED
      BY <1>1, <1>3, <1>4, <2>1, <2>3
  <2> QED
    BY <2>2, <2>3, NextCounters
<1>8. ASSUME NEW e \in T.batch.events
      PROVE  /\ e.event \in state.events+1..T.state.events /\ Holds(T.state.counters[e.key], e)
             /\ Minted(e.epoch, e.key, T.batch.id)
             /\ \/ e.epoch[1] = T.batch.id
                \/ /\ e.epoch = state.counters[e.key].epoch
                   /\ e.identity = state.counters[e.key].identity
                   /\ e.value >= state.counters[e.key].value
  <2>1. PICK s \in snapshot : e = UsageEvent(snapshot, s)
    BY <1>4
  <2>2. /\ e.key = s.key /\ e.identity = s.identity /\ e.epoch = EpochOf(s) /\ e.value = s.value
        /\ e.event = meterMem.events + Cardinality({x \in snapshot : x.key <= s.key})
    BY <2>1 DEF UsageEvent
  <2>3. e.event \in state.events+1..T.state.events
    <3> DEFINE n == Cardinality({x \in snapshot : x.key <= s.key})
               m == Cardinality(snapshot)
    <3>1. n \in 1..m /\ m \in Nat
      BY EventNumbers
    <3>2. e.event = state.events + n /\ T.state.events = state.events + m
      BY <1>1, <1>4, <2>2
    <3> HIDE DEF n, m, T, state
    <3> QED
      BY <1>3, <3>1, <3>2
  <2>4. Holds(T.state.counters[e.key], e)
    BY <2>2, NextCounters DEF Holds
  <2>5. \/ EpochOf(s) = <<meterIds + 1, s.key>>
        \/ /\ EpochOf(s) = state.counters[s.key].epoch /\ state.counters[s.key] # NoCounter
           /\ s.identity = state.counters[s.key].identity
           /\ s.value >= state.counters[s.key].value
    BY <1>1, <1>3, EpochTypes
  <2>6. Minted(e.epoch, e.key, T.batch.id)
    <3>1. CASE EpochOf(s) = <<meterIds + 1, s.key>>
      BY <1>3, <1>4, <2>2, <3>1 DEF Minted
    <3>2. CASE EpochOf(s) = state.counters[s.key].epoch /\ state.counters[s.key] # NoCounter
      <4>1. Minted(state.counters[s.key].epoch, s.key, meterIds)
        BY <3>2, SampleTypes DEF NoFaultInv, SettledInv
      <4> HIDE DEF T, state
      <4> QED
        BY <1>3, <1>4, <2>2, <3>2, <4>1 DEF Minted
    <3> QED
      BY <2>5, <3>1, <3>2
  <2>7. \/ e.epoch[1] = T.batch.id
        \/ /\ e.epoch = state.counters[e.key].epoch
           /\ e.identity = state.counters[e.key].identity
           /\ e.value >= state.counters[e.key].value
    <3>1. CASE EpochOf(s) = <<meterIds + 1, s.key>>
      BY <1>4, <2>2, <3>1
    <3> HIDE DEF T, state
    <3> QED
      BY <2>2, <2>5, <3>1
  <2> QED
    BY <2>3, <2>4, <2>6, <2>7
<1>9. ASSUME NEW e \in T.batch.events, NEW f \in T.batch.events, e.event = f.event \/ e.key = f.key
      PROVE  e = f
  <2>1. PICK s \in snapshot : e = UsageEvent(snapshot, s)
    BY <1>4
  <2>2. PICK t \in snapshot : f = UsageEvent(snapshot, t)
    BY <1>4
  <2>3. s = t
    BY <1>9, <2>1, <2>2, MeterTypes, BatchDistinct
  <2> QED
    BY <2>1, <2>2, <2>3
<1> HIDE DEF T, state
<1>10. /\ meterDir'.txn.batch = T.batch /\ meterDir'.txn.state = T.state /\ meterDir'.state = state
  BY <1>1
<1> QED
  BY <1>2, <1>4, <1>5, <1>6, <1>7, <1>8, <1>9, <1>10 DEF Follows, Holds, Minted

\* A step that leaves the directory and the batches alone.
LEMMA UsageQuiet ==
  ASSUME NoFaultInv, UNCHANGED <<meterDir, meterSynced, meterMem, usage, meterIds>>,
         meterOp'.pc = "observe" => meterDir.txn = NoTxn,
         meterOp'.pc = "remove" => meterOp.pc = "remove"
  PROVE  NoFaultInv'
<1>1. Old' = Old /\ OldEvents' = OldEvents
  BY DEF Old, OldEvents
<1>2. SettledInv'
  BY <1>1 DEF NoFaultInv, SettledInv
<1>3. Follows(meterDir.txn) => Follows(meterDir.txn)'
  BY <1>1 DEF Follows
<1> QED
  BY <1>1, <1>2, <1>3 DEF NoFaultInv

\* The transaction written follows.
LEMMA WriteUsage ==
  ASSUME MeterInv, NoFaultInv, NEW snapshot \in Snapshots, WriteTxn(snapshot)
  PROVE  NoFaultInv'
<1> DEFINE T == Transaction(snapshot)
<1>1. T \in Transactions /\ T # NoTxn
  BY MeterTypes, TransactionType, TransactionParts DEF Transactions
<1> HIDE DEF T
<1>2. /\ meterDir'.txn = T /\ meterDir'.state = meterDir.state /\ meterSynced' = meterDir'
      /\ meterIds' = meterIds + 1 /\ UNCHANGED <<usage, meterMem>> /\ meterDir.txn = NoTxn
      /\ meterOp'.pc = "enqueue"
  BY <1>1, MeterTypes DEF WriteTxn, MeterStep, NoFaultInv, MeterPcs, T
<1>3. Old' = Old /\ OldEvents' = OldEvents
  BY <1>2 DEF Old, OldEvents
<1>4. SettledInv'
  <2>1. \A epoch, key : Minted(epoch, key, meterIds) => Minted(epoch, key, meterIds')
    BY <1>2, MeterTypes DEF Minted
  <2> QED
    BY <1>2, <1>3, <2>1 DEF NoFaultInv, SettledInv, Consistent, Minted
<1>5. Follows(meterDir.txn)'
  BY WrittenFollows
<1> QED
  BY <1>1, <1>2, <1>3, <1>4, <1>5 DEF NoFaultInv

\* The batch queued is the next, or was queued before a crash.
LEMMA EnqueueUsage ==
  ASSUME MeterInv, NoFaultInv, EnqueueBatch
  PROVE  NoFaultInv'
<1>1. /\ meterDir.txn # NoTxn /\ usage' = usage \cup {meterDir.txn.batch}
      /\ UNCHANGED <<meterDir, meterSynced, meterMem, meterIds>> /\ meterOp'.pc = "save"
  BY MeterTypes DEF EnqueueBatch, MeterStep, meterDisk, MeterInv, CoverInv, MeterPcs
<1>2. CASE meterDir.state = meterDir.txn.state /\ meterDir.txn.batch \in Old
  <2>1. usage' = usage
    BY <1>1, <1>2 DEF Old
  <2> QED
    BY <1>1, <2>1, UsageQuiet
<1>3. CASE Follows(meterDir.txn)
  <2>1. meterDir.txn.batch.seq = meterDir.state.seq + 1 /\ meterDir.state.seq \in Nat
    BY <1>3, MeterTypes DEF Follows, States
  <2>2. Old' = Old
    BY <1>1, <2>1 DEF Old
  <2>3. OldEvents' = OldEvents
    BY <2>2 DEF OldEvents
  <2>4. SettledInv'
    BY <1>1, <2>2, <2>3 DEF NoFaultInv, SettledInv
  <2>5. Follows(meterDir.txn)'
    BY <1>1, <1>3, <2>3 DEF Follows
  <2> QED
    BY <1>1, <2>2, <2>4, <2>5 DEF NoFaultInv
<1> QED
  BY <1>1, <1>2, <1>3 DEF NoFaultInv

\* The parts of a counter that an event left.
LEMMA HoldsParts ==
  ASSUME NEW counter, NEW e, Holds(counter, e)
  PROVE  counter.identity = e.identity /\ counter.epoch = e.epoch /\ counter.value = e.value
BY DEF Holds

\* The state file takes over what the transaction holds.
LEMMA SaveUsage ==
  ASSUME MeterInv, NoFaultInv, SaveState
  PROVE  NoFaultInv'
<1> DEFINE batch == meterDir.txn.batch
           state == meterDir.state
           next == meterDir.txn.state
<1>1. meterDir.txn # NoTxn /\ batch \in usage /\ next \in States /\ state \in States /\ batch \in Batches
  BY MeterTypes DEF SaveState, MeterInv, CoverInv
<1>2. /\ meterDir'.txn = meterDir.txn /\ meterDir'.state = next /\ meterMem' = next
      /\ meterSynced' = meterDir' /\ UNCHANGED <<usage, meterIds>> /\ meterOp'.pc = "remove"
  BY <1>1, MeterTypes DEF SaveState, MeterStep, MeterPcs
<1>3. SettledInv' /\ batch \in Old' /\ usage \subseteq Old'
  <2>1. CASE state = next /\ batch \in Old
    <3>1. Old' = Old /\ OldEvents' = OldEvents
      BY <1>2, <2>1 DEF Old, OldEvents
    <3>2. usage \subseteq Old
      BY <2>1 DEF NoFaultInv
    <3> QED
      BY <1>2, <2>1, <3>1, <3>2 DEF NoFaultInv, SettledInv
  <2>2. CASE Follows(meterDir.txn)
    <3>1. batch.seq = state.seq + 1 /\ next.seq = state.seq + 1 /\ state.seq \in Nat
      BY <1>1, <2>2 DEF Follows, States
    <3>2. \A b \in usage : b.seq \in Nat /\ (b.seq <= state.seq \/ b = batch)
      BY <1>1, MeterTypes DEF NoFaultInv, Old, Batches
    <3> HIDE DEF batch, state, next
    <3>3. Old' = Old \cup {batch}
      <4>1. \A b \in usage : b.seq <= next.seq /\ (b \in Old \/ b = batch)
        BY <3>1, <3>2 DEF Old, state
      <4>2. Old' = {b \in usage : b.seq <= next.seq}
        BY <1>2 DEF Old
      <4>3. Old \subseteq usage
        BY DEF Old
      <4> QED
        BY <1>1, <4>1, <4>2, <4>3
    <3>4. OldEvents' = OldEvents \cup batch.events
      BY <3>3 DEF OldEvents
    <3>5. \A a, b \in Old' : a.seq = b.seq => a = b
      <4>1. \A b \in Old : b.seq # batch.seq
        BY <3>1, <3>2 DEF Old, state
      <4> QED
        BY <3>3, <4>1 DEF NoFaultInv, SettledInv
    <3>6. \A e, f \in OldEvents' : Consistent(e, f)
      BY <1>1, <2>2, <3>4, FollowedConsistent DEF NoFaultInv, batch
    <3>7. \A e \in OldEvents : e.event <= state.events /\ Minted(e.epoch, e.key, meterIds)
                               /\ e.epoch[1] < batch.id
      BY <2>2 DEF NoFaultInv, SettledInv, Follows, state, batch
    <3>8. /\ state.events \in Nat /\ next.events \in Nat /\ state.events <= next.events
          /\ batch.id \in 1..meterIds /\ meterIds \in Nat
      BY <1>1, <2>2, MeterTypes DEF States, Follows, state, next, batch
    <3>9. \A e \in batch.events : /\ e.event \in state.events+1..next.events
                                  /\ Holds(next.counters[e.key], e) /\ Minted(e.epoch, e.key, batch.id)
      BY <2>2 DEF Follows, state, next, batch
    <3>10. \A e \in OldEvents' : e.event <= next.events /\ Minted(e.epoch, e.key, meterIds)
      <4>1. \A e \in OldEvents : e.event <= next.events /\ Minted(e.epoch, e.key, meterIds)
        BY <3>7, <3>8, OldParts
      <4>2. \A e \in batch.events : e.event <= next.events /\ Minted(e.epoch, e.key, meterIds)
        BY <3>8, <3>9 DEF Minted
      <4> QED
        BY <3>4, <4>1, <4>2
    <3>11. ASSUME NEW e \in OldEvents', e.epoch = next.counters[e.key].epoch
           PROVE  e.identity = next.counters[e.key].identity /\ e.value <= next.counters[e.key].value
      <4>1. CASE e \in batch.events
        <5>1. next.counters[e.key].identity = e.identity /\ next.counters[e.key].value = e.value
          BY <3>9, <4>1, HoldsParts
        <5>2. e.value \in Nat
          BY <1>1, <4>1, EventParts
        <5> QED
          BY <5>1, <5>2
      <4>2. CASE e \in OldEvents
        <5>1. e.key \in Keys /\ e.value \in Nat /\ e.epoch[1] \in Nat
          BY <4>2, OldParts
        <5>2. e.epoch = state.counters[e.key].epoch =>
                e.identity = state.counters[e.key].identity /\ e.value <= state.counters[e.key].value
          BY <4>2 DEF NoFaultInv, SettledInv, state
        <5>3. CASE next.counters[e.key] = state.counters[e.key]
          BY <3>11, <5>2, <5>3
        <5>4. CASE \E f \in batch.events : f.key = e.key
          <6>1. PICK f \in batch.events : f.key = e.key
            BY <5>4
          <6>2. /\ next.counters[e.key].identity = f.identity /\ next.counters[e.key].epoch = f.epoch
                /\ next.counters[e.key].value = f.value
            BY <3>9, <6>1, HoldsParts
          <6>3. f.epoch[1] # batch.id
            BY <3>7, <3>8, <3>11, <4>2, <5>1, <6>2
          <6>4. /\ f.epoch = state.counters[f.key].epoch /\ f.identity = state.counters[f.key].identity
                /\ f.value >= state.counters[f.key].value
            BY <2>2, <6>3 DEF Follows, state, batch
          <6>5. e.identity = state.counters[e.key].identity /\ e.value <= state.counters[e.key].value
            BY <3>11, <5>2, <6>1, <6>2, <6>4
          <6>6. f.value \in Nat /\ state.counters[e.key].value \in Nat
            BY <1>1, <5>1, EventParts, CounterParts
          <6>7. e.value <= f.value
            BY <5>1, <6>1, <6>4, <6>5, <6>6
          <6> QED
            BY <6>1, <6>2, <6>4, <6>5, <6>7
        <5> QED
          BY <2>2, <5>1, <5>3, <5>4 DEF Follows, state, next, batch
      <4> QED
        BY <3>4, <4>1, <4>2
    <3>12. ASSUME NEW k \in Keys
           PROVE  next.counters[k] = NoCounter \/ Minted(next.counters[k].epoch, k, meterIds)
      <4>1. CASE next.counters[k] = state.counters[k]
        BY <4>1 DEF NoFaultInv, SettledInv, state
      <4>2. CASE \E f \in batch.events : f.key = k
        <5>1. PICK f \in batch.events : f.key = k
          BY <4>2
        <5>2. next.counters[k].epoch = f.epoch /\ Minted(f.epoch, k, batch.id)
          BY <3>9, <5>1, HoldsParts
        <5> QED
          BY <3>8, <5>2 DEF Minted
      <4> QED
        BY <2>2, <4>1, <4>2 DEF Follows, state, next, batch
    <3>13. SettledInv'
      BY <1>2, <3>5, <3>6, <3>10, <3>11, <3>12 DEF SettledInv, Consistent, Minted
    <3>14. usage \subseteq Old'
      BY <3>2, <3>3 DEF Old, state
    <3> QED
      BY <3>3, <3>13, <3>14
  <2> QED
    BY <1>1, <2>1, <2>2 DEF NoFaultInv
<1> HIDE DEF batch, next
<1>4. \A b \in usage' : b \in Old'
  BY <1>2, <1>3
<1>5. meterDir'.state = meterDir'.txn.state /\ meterDir'.txn.batch \in Old' /\ meterDir'.txn # NoTxn
  BY <1>1, <1>2, <1>3 DEF next, batch
<1> QED
  BY <1>2, <1>3, <1>4, <1>5 DEF NoFaultInv

\* The transaction goes once the state file holds it.
LEMMA RemoveUsage ==
  ASSUME MeterInv, NoFaultInv, RemoveTxn
  PROVE  NoFaultInv'
<1>1. meterDir.txn # NoTxn /\ meterDir.state = meterDir.txn.state /\ meterDir.state.seq \in Nat
  BY MeterTypes DEF RemoveTxn, NoFaultInv, States
<1>2. ~Follows(meterDir.txn)
  BY <1>1 DEF Follows
<1>3. usage \subseteq Old
  BY <1>1, <1>2 DEF NoFaultInv
<1>4. /\ meterDir'.txn = NoTxn /\ meterDir'.state = meterDir.state /\ meterSynced' = meterDir'
      /\ UNCHANGED <<meterMem, usage, meterIds>> /\ meterOp'.pc # "remove"
  BY MeterTypes DEF RemoveTxn, Idle
<1>5. Old' = Old /\ OldEvents' = OldEvents
  BY <1>4 DEF Old, OldEvents
<1>6. SettledInv'
  BY <1>4, <1>5 DEF NoFaultInv, SettledInv
<1> QED
  BY <1>3, <1>4, <1>5, <1>6 DEF NoFaultInv

\* Every step keeps what is said of usage.
LEMMA NextUsage ==
  ASSUME MeterInv, UsageInv, [Next]_vars
  PROVE  UsageInv'
<1>1. /\ faults' = faults \/ (faults' = faults + 1 /\ Fault)
      /\ faults \in Nat
  BY DEF UsageInv, Next, Loop, Faults, vars, loopVars, Start, Recovered, Open, BeginSession,
     BeginRefused,
         RecoverFails, NoIncidents, NumberIncidents, EnqueueIncidents, MarkIncidents, SkipMeter, Observe,
         ObserveReturns, MeterSteps, SkipTelemetry, NumberTelemetry, EnqueueSample, OpenFails,
         BeginSessionFails, NumberFails, EnqueueFails, MarkFails, MeterFails, StopFails, Stop, Crash,
         Deliver, GoTo, GoOn, FailsOn, Fault
<1>2. faults' \in Nat
  BY <1>1
<1> SUFFICES ASSUME faults' = 0 PROVE NoFaultInv'
  BY <1>2 DEF UsageInv
<1>3. faults = 0 /\ ~Fault /\ NoFaultInv
  BY <1>1 DEF UsageInv, Fault
<1>4. CASE UNCHANGED meterVars
  BY <1>3, <1>4, UsageQuiet DEF meterVars, meterDisk, NoFaultInv
<1>5. CASE Start \/ Observe
  BY <1>3, <1>5, UsageQuiet DEF Start, Observe, MeterBegin, meterDisk, Idle
<1>6. CASE ObserveReturns \/ RecoverFails
  <2>1. meterOp' = Idle /\ UNCHANGED <<meterDir, meterSynced, meterMem, usage, meterIds>>
    BY <1>3, <1>6 DEF ObserveReturns, RecoverFails, meterDisk, NoFaultInv
  <2> QED
    BY <1>3, <2>1, UsageQuiet DEF Idle
<1>7. CASE Stop
  BY <1>3, <1>7, UsageQuiet DEF Stop, meterDisk, NoFaultInv
<1>8. CASE Crash
  <2>1. /\ meterDir' = [state |-> meterDir.state, txn |-> meterDir.txn] /\ meterOp' = Idle
        /\ meterSynced' = meterDir' /\ meterMem' = meterDir'.state /\ UNCHANGED <<usage, meterIds>>
    BY <1>3, <1>8 DEF Crash, MeterCrash, NoFaultInv
  <2>2. meterDir' = meterDir
    BY <2>1, MeterTypes DEF Disks
  <2>3. UNCHANGED <<meterDir, meterSynced, meterMem, usage, meterIds>>
    BY <1>3, <2>1, <2>2 DEF NoFaultInv
  <2> QED
    BY <1>3, <2>1, <2>3, UsageQuiet DEF Idle
<1>9. CASE MeterSteps
  <2>1. CASE NothingToMeter \/ EnqueueRefused
    <3>1. meterOp'.pc \in {"idle", "failed"} /\ UNCHANGED <<meterDir, meterSynced, meterMem, usage, meterIds>>
      BY <2>1, MeterTypes DEF NothingToMeter, EnqueueRefused, MeterReturns, MeterError,
         MeterStep,
           meterDisk, MeterPcs
    <3> QED
      BY <1>3, <3>1, UsageQuiet
  <2> QED
    BY <1>3, <1>9, <2>1, WriteUsage, EnqueueUsage, SaveUsage, RemoveUsage DEF MeterSteps,
       MeterWork
<1>10. CASE Deliver
  BY <1>3, <1>10, UsageQuiet DEF Deliver, DeliverBatch, meterDisk, NoFaultInv
<1>11. CASE Faults
  BY <1>3, <1>11 DEF Faults, OpenFails, BeginSessionFails, NumberFails, EnqueueFails, MarkFails,
       MeterFails, StopFails, FailsOn
<1>12. CASE \/ Recovered \/ Open \/ BeginSession \/ BeginRefused \/ NoIncidents \/ NumberIncidents
            \/ EnqueueIncidents \/ MarkIncidents \/ SkipMeter \/ SkipTelemetry \/ NumberTelemetry
            \/ EnqueueSample \/ UNCHANGED vars
  BY <1>4, <1>12 DEF Recovered, Open, BeginSession, BeginRefused, NoIncidents, NumberIncidents,
       EnqueueIncidents, MarkIncidents, SkipMeter, SkipTelemetry, NumberTelemetry, EnqueueSample, vars
<1> QED
  BY <1>5, <1>6, <1>7, <1>8, <1>9, <1>10, <1>11, <1>12 DEF Next, Loop

\* There is no usage.
LEMMA InitUsage ==
  ASSUME Init
  PROVE  UsageInv
<1>1. /\ meterDir = [state |-> NewState, txn |-> NoTxn] /\ meterSynced = meterDir
      /\ meterMem = NewState /\ meterOp = Idle /\ usage = {} /\ faults = 0
  BY DEF Init, MeterInit
<1>2. Old = {} /\ OldEvents = {}
  BY <1>1 DEF Old, OldEvents
<1>3. \A k \in Keys : NewState.counters[k] = NoCounter
  BY DEF NewState
<1>4. SettledInv
  BY <1>1, <1>2, <1>3 DEF SettledInv
<1> QED
  BY <1>1, <1>4 DEF UsageInv, NoFaultInv, Idle

\* While no file operation has failed, whatever crashes came between the steps
\* of a transaction, the receiver may subtract: batches and events with one
\* sequence are one, and within a counter epoch everything belongs to one
\* counter of one identity and values never fall (appendUsageRecord, Observe
\* and recoverLocked).
THEOREM ReceiverSubtracts == Spec => []UsageSubtractable
<1>1. MeterInv /\ UsageInv => UsageSubtractable
  <2> SUFFICES ASSUME MeterInv, NoFaultInv
               PROVE  /\ \A a, b \in usage : a.seq = b.seq => a = b
                      /\ \A e, f \in UsageEvents :
                           /\ e.event = f.event => e = f
                           /\ e.epoch = f.epoch =>
                                /\ e.key = f.key /\ e.identity = f.identity
                                /\ e.event <= f.event => e.value <= f.value
    BY DEF UsageInv, UsageSubtractable
  <2>1. CASE usage \subseteq Old
    <3>1. UsageEvents \subseteq OldEvents
      BY <2>1 DEF UsageEvents, OldEvents
    <3>2. \A e \in OldEvents : e.epoch[2] = e.key
      BY DEF NoFaultInv, SettledInv, Minted
    <3>3. \A a, b \in usage : a.seq = b.seq => a = b
      BY <2>1 DEF NoFaultInv, SettledInv
    <3>4. \A e, f \in OldEvents : Consistent(e, f)
      BY DEF NoFaultInv, SettledInv
    <3> QED
      BY <3>1, <3>2, <3>3, <3>4 DEF Consistent
  <2>2. CASE /\ meterDir.txn # NoTxn /\ Follows(meterDir.txn)
             /\ \A b \in usage : b \in Old \/ b = meterDir.txn.batch
    <3>1. UsageEvents \subseteq OldEvents \cup meterDir.txn.batch.events
      BY <2>2 DEF UsageEvents, OldEvents
    <3>2. \A e, f \in UsageEvents : Consistent(e, f) /\ e.epoch[2] = e.key
      BY <2>2, <3>1, FollowedConsistent DEF NoFaultInv
    <3>3. \A b \in Old : b.seq # meterDir.txn.batch.seq
      <4>1. meterDir.txn.batch.seq = meterDir.state.seq + 1 /\ meterDir.state.seq \in Nat
        BY <2>2, MeterTypes DEF Follows, States
      <4>2. \A b \in Old : b.seq \in Nat /\ b.seq <= meterDir.state.seq
        BY MeterTypes DEF Old, Batches
      <4> QED
        BY <4>1, <4>2
    <3>4. \A a, b \in usage : a.seq = b.seq => a = b
      BY <2>2, <3>3 DEF NoFaultInv, SettledInv
    <3> QED
      BY <3>2, <3>4 DEF Consistent
  <2>3. usage \subseteq Old \/ (meterDir.txn # NoTxn /\ \A b \in usage : b \in Old \/ b = meterDir.txn.batch)
    BY DEF NoFaultInv
  <2>4. meterDir.txn # NoTxn => meterDir.txn.batch \in Old \/ Follows(meterDir.txn)
    BY DEF NoFaultInv
  <2> QED
    BY <2>1, <2>2, <2>3, <2>4
<1>2. Init => UsageInv
  BY InitUsage
<1>3. MeterInv /\ UsageInv /\ [Next]_vars => UsageInv'
  BY NextUsage
<1> QED
  BY <1>1, <1>2, <1>3, MeterHolds, PTL DEF Spec

=============================================================================
