---------------------------- MODULE AgentSession ----------------------------
(***************************************************************************)
(* lifecycle.Session and runstate.State: what a process leaves on disk so  *)
(* that the next one can report an unclean exit to both trust domains, and *)
(* the wire sequences that stay monotonic across restarts.                 *)
(*                                                                         *)
(* Each file is replaced atomically and read only at start, so a write     *)
(* that reports an error is simply one that did or did not happen.         *)
(***************************************************************************)
EXTENDS Integers, Sequences, FiniteSets

CONSTANTS
  Enabled,      \* the trust domains whose telemetry destination is enabled
  MaxEvents     \* maximumEvents: limit of the incident backlog

Domains == {"website", "monitoring"}

VARIABLES
  runFile,      \* run-state.json: last sequence drawn per domain
  runMem,       \* State.value
  sessionFile,  \* lifecycle-state.json: state, boot and pending incidents
  sessionMem,   \* Session.value
  boots,        \* boot ids drawn so far; the last is this process'
  outbox,       \* domain -> batches queued, in order: sequence and incidents
  drawn,        \* the sequence drawn for the batch being built, 0 if none
  unclean,      \* boots that ended without a clean marker
  clean         \* boots that ended with one

sessionDisk == <<runFile, sessionFile>>
sessionVars == <<sessionDisk, runMem, sessionMem, boots, outbox, drawn, unclean, clean>>

\* One incident per unclean exit, with a flag per domain.
Incidents == [event : Nat, boot : Nat, queued : SUBSET Domains]
Events == [event : Nat, boot : Nat]
Documents == [state : {"none", "running", "clean"}, boot : Nat, pending : SUBSET Incidents]
NoDocument == [state |-> "none", boot |-> 0, pending |-> {}]
NoSequences == [d \in Domains |-> 0]

SessionInit ==
  /\ runFile = NoSequences /\ runMem = NoSequences
  /\ sessionFile = NoDocument /\ sessionMem = NoDocument /\ boots = 0
  /\ outbox = [d \in Domains |-> <<>>] /\ drawn = 0 /\ unclean = {} /\ clean = {}

\* A write takes effect; one that fails may or may not have.
Written(file, value) == file' = value
Failing(file, value) == file' \in {file, value}

-----------------------------------------------------------------------------
\* runstate.Open: the sequences of the last process, and a new boot id;
\* the id is named when the session begins, the first to use it.
OpenRunState ==
  /\ runMem' = runFile
  /\ UNCHANGED <<sessionDisk, sessionMem, boots, outbox, drawn, unclean, clean>>

\* Slip in Begin: any last process counts as an unclean exit.
PreviousExitAlways ==
  sessionFile.pending \cup
    (IF sessionFile.state # "none"
     THEN {[event |-> boots + 1, boot |-> sessionFile.boot, queued |-> {}]} ELSE {})

\* The incidents Begin carries over, with one for an unclean last process.
PreviousExit ==
  sessionFile.pending \cup
    (IF sessionFile.state = "running"
     THEN {[event |-> boots + 1, boot |-> sessionFile.boot, queued |-> {}]} ELSE {})

BacklogFull ==
  sessionFile.state = "running" /\ Cardinality(sessionFile.pending) >= MaxEvents

Begun == [state |-> "running", boot |-> boots + 1, pending |-> PreviousExit]

Begin ==
  /\ ~BacklogFull
  /\ Written(sessionFile, Begun) /\ sessionMem' = Begun /\ boots' = boots + 1
  /\ UNCHANGED <<runFile, runMem, outbox, drawn, unclean, clean>>

\* Begin fails: the process ends, its session perhaps on disk.
BeginFails ==
  /\ ~BacklogFull /\ Failing(sessionFile, Begun) /\ boots' = boots + 1
  /\ unclean' = IF sessionFile' = Begun THEN unclean \cup {boots'} ELSE unclean
  /\ UNCHANGED <<runFile, runMem, sessionMem, outbox, drawn, clean>>

-----------------------------------------------------------------------------
(* Telemetry of domain d, with the incidents pending for it.               *)

Pending(d) == {i \in sessionMem.pending : d \notin i.queued}
EventsOf(incidents) == {[event |-> i.event, boot |-> i.boot] : i \in incidents}

Drawn(d) == [runMem EXCEPT ![d] = @ + 1]

\* Slip in NextWebsite: the sequence is handed out and saved later.
NextSequenceUnsaved(d) ==
  /\ runMem' = Drawn(d) /\ drawn' = runMem[d] + 1
  /\ UNCHANGED <<runFile, sessionFile, sessionMem, boots, outbox, unclean, clean>>

\* NextWebsite, NextMonitoring: the sequence is saved before it is used.
NextSequence(d) ==
  /\ Written(runFile, Drawn(d)) /\ runMem' = Drawn(d) /\ drawn' = runMem[d] + 1
  /\ UNCHANGED <<sessionFile, sessionMem, boots, outbox, unclean, clean>>

\* The number is taken back, and was handed to nobody.
NextSequenceFails(d) ==
  /\ Failing(runFile, Drawn(d))
  /\ UNCHANGED <<sessionFile, runMem, sessionMem, boots, outbox, drawn, unclean, clean>>

Sent(d, incidents) ==
  outbox' = [outbox EXCEPT ![d] = Append(@, [seq |-> drawn, events |-> EventsOf(incidents)])]

EnqueueTelemetry(d, incidents) ==
  /\ Sent(d, incidents) /\ drawn' = 0
  /\ UNCHANGED <<sessionDisk, runMem, sessionMem, boots, unclean, clean>>

\* The enqueue fails, with or without the batch in the queue.
EnqueueTelemetryFails(d, incidents) ==
  /\ Sent(d, incidents) \/ UNCHANGED outbox
  /\ drawn' = 0
  /\ UNCHANGED <<sessionDisk, runMem, sessionMem, boots, unclean, clean>>

\* Slip in MarkQueued: one domain's success clears the incident.
AfterQueuedForAll(d) == [sessionMem EXCEPT !.pending = {}]

\* MarkQueued: the incidents are marked, and dropped once both have them.
AfterQueued(d) ==
  [sessionMem EXCEPT !.pending =
     {i \in {[p EXCEPT !.queued = @ \cup {d}] : p \in @} : i.queued # Domains}]

MarkQueued(d) ==
  /\ sessionMem' = AfterQueued(d) /\ Written(sessionFile, AfterQueued(d))
  /\ UNCHANGED <<runFile, runMem, boots, outbox, drawn, unclean, clean>>

\* The marks are in memory whatever becomes of the file.
MarkQueuedFails(d) ==
  /\ sessionMem' = AfterQueued(d) /\ Failing(sessionFile, AfterQueued(d))
  /\ UNCHANGED <<runFile, runMem, boots, outbox, drawn, unclean, clean>>

-----------------------------------------------------------------------------
\* What an ending process held in memory is gone.
Forgotten == sessionMem' = NoDocument /\ runMem' = NoSequences /\ drawn' = 0

Cleaned == [sessionMem EXCEPT !.state = "clean"]

MarkClean ==
  /\ Written(sessionFile, Cleaned) /\ clean' = clean \cup {boots} /\ Forgotten
  /\ UNCHANGED <<runFile, boots, outbox, unclean>>

\* MarkClean fails: the session on disk says one thing or the other.
MarkCleanFails ==
  /\ Failing(sessionFile, Cleaned) /\ Forgotten
  /\ IF sessionFile' = Cleaned THEN clean' = clean \cup {boots} /\ UNCHANGED unclean
     ELSE unclean' = unclean \cup {boots} /\ UNCHANGED clean
  /\ UNCHANGED <<runFile, boots, outbox>>

\* The process ends in any other way: the session stays "running".
SessionLost ==
  /\ unclean' = IF sessionFile.state = "running" /\ sessionFile.boot = boots
                THEN unclean \cup {boots} ELSE unclean
  /\ Forgotten
  /\ UNCHANGED <<sessionDisk, boots, outbox, clean>>
=============================================================================
