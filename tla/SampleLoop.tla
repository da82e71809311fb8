----------------------------- MODULE SampleLoop -----------------------------
(***************************************************************************)
(* A process of the agent from start to exit, as far as it produces data:  *)
(* agent.New recovers the meter and opens the run state, App.Run begins a  *)
(* session and reports earlier exits, and the collection loop samples      *)
(* again and again while the delivery loop drains the metering queue.      *)
(*                                                                         *)
(* The collection loop is one goroutine, so its calls come in a fixed      *)
(* order (Phases); a crash may come between any two steps.                 *)
(***************************************************************************)
EXTENDS Metering, AgentSession

CONSTANTS
  MaxExits,     \* bound on crashes and stops
  MaxFaults,    \* bound on failing file operations
  MaxTelemetry  \* bound on ordinary telemetry batches

ASSUME LoopBounds == MaxExits \in Nat /\ MaxFaults \in Nat /\ MaxTelemetry \in Nat

VARIABLES
  at,           \* where the process is: down, starting, or in a call
  phase,        \* the call of Phases it is in
  sampled,      \* ordinary telemetry batches built so far
  exits,        \* crashes and stops so far
  faults        \* failing file operations so far

loopVars == <<at, phase, sampled, exits, faults>>
vars == <<meterVars, sessionVars, loopVars>>

\* run: the incidents of earlier exits; then sample, again and again: the
\* incidents left over, the meter, and ordinary telemetry.
Phases ==
  <<[call |-> "incidents", domain |-> "website"], [call |-> "incidents", domain |-> "monitoring"],
    [call |-> "incidents", domain |-> "website"], [call |-> "incidents", domain |-> "monitoring"],
    [call |-> "meter", domain |-> "website"],
    [call |-> "telemetry", domain |-> "website"], [call |-> "telemetry", domain |-> "monitoring"]>>
FirstOfSample == 3

Steps == {"down", "recover", "open", "begin", "ready", "observe", "enqueue", "mark"}

d == Phases[phase].domain
Call(name) == Phases[phase].call = name
\* The delivery loops run from the first sample on.
Serving == at \in {"ready", "observe", "enqueue", "mark"} /\ phase >= FirstOfSample

Init ==
  /\ MeterInit /\ SessionInit
  /\ at = "down" /\ phase = 1 /\ sampled = 0 /\ exits = 0 /\ faults = 0

GoTo(step) == at' = step /\ UNCHANGED <<phase, sampled, exits, faults>>
PhaseAfter == IF phase = Len(Phases) THEN FirstOfSample ELSE phase + 1
NextPhase == at' = "ready" /\ phase' = PhaseAfter
GoOn == NextPhase /\ UNCHANGED <<sampled, exits, faults>>
Fault == faults < MaxFaults /\ faults' = faults + 1
Exits == exits < MaxExits /\ exits' = exits + 1 /\ at' = "down" /\ phase' = 1
\* A failed call is logged, and the sample goes on with the next.
FailsOn == Fault /\ NextPhase /\ UNCHANGED <<sampled, exits>>

-----------------------------------------------------------------------------
(* agent.New and the beginning of Run                                      *)

Start ==
  /\ at = "down"
  /\ MeterBegin("return") /\ GoTo("recover") /\ UNCHANGED sessionVars

\* Open persists the new boot id with the sequences it read.
Recovered ==
  /\ at = "recover" /\ meterOp.pc = "idle"
  /\ GoTo("open") /\ UNCHANGED <<meterVars, sessionVars>>

Open == at = "open" /\ OpenRunState /\ GoTo("begin") /\ UNCHANGED meterVars

OpenFails ==
  /\ at = "open" /\ Fault /\ at' = "down"
  /\ UNCHANGED <<meterVars, sessionVars, phase, sampled, exits>>

BeginSession ==
  /\ at = "begin" /\ Begin
  /\ at' = "ready" /\ phase' = 1 /\ UNCHANGED <<meterVars, sampled, exits, faults>>

BeginSessionFails ==
  /\ at = "begin" /\ Fault /\ BeginFails
  /\ at' = "down" /\ UNCHANGED <<meterVars, phase, sampled, exits>>

-----------------------------------------------------------------------------
(* enqueueLifecycleTelemetry, one domain at a time                         *)

NoIncidents ==
  /\ at = "ready" /\ Call("incidents") /\ (Pending(d) = {} \/ d \notin Enabled)
  /\ GoOn /\ UNCHANGED <<meterVars, sessionVars>>

IncidentsDue == at = "ready" /\ Call("incidents") /\ Pending(d) # {} /\ d \in Enabled

NumberIncidents ==
  /\ IncidentsDue /\ NextSequence(d)
  /\ GoTo("enqueue") /\ UNCHANGED meterVars

EnqueueIncidents ==
  /\ at = "enqueue" /\ Call("incidents") /\ EnqueueTelemetry(d, Pending(d))
  /\ GoTo("mark") /\ UNCHANGED meterVars

MarkIncidents ==
  /\ at = "mark" /\ MarkQueued(d)
  /\ GoOn /\ UNCHANGED meterVars

-----------------------------------------------------------------------------
(* The rest of sample                                                      *)

\* The meter is not due in every sample.
SkipMeter == at = "ready" /\ Call("meter") /\ GoOn /\ UNCHANGED <<meterVars, sessionVars>>

Observe ==
  /\ at = "ready" /\ Call("meter") /\ MeterBegin("observe")
  /\ GoTo("observe") /\ UNCHANGED sessionVars

ObserveReturns ==
  /\ at = "observe" /\ meterOp.pc \in {"idle", "failed"}
  /\ meterOp' = Idle /\ GoOn
  /\ UNCHANGED <<meterDisk, meterMem, meterQueue, usage, meterIds, sessionVars>>

\* Telemetry of a domain that is disabled or not due.
SkipTelemetry ==
  /\ at = "ready" /\ Call("telemetry") /\ GoOn /\ UNCHANGED <<meterVars, sessionVars>>

TelemetryDue ==
  at = "ready" /\ Call("telemetry") /\ d \in Enabled /\ sampled < MaxTelemetry

NumberTelemetry ==
  /\ TelemetryDue /\ NextSequence(d)
  /\ at' = "enqueue" /\ sampled' = sampled + 1 /\ UNCHANGED <<meterVars, phase, exits, faults>>

EnqueueSample ==
  /\ at = "enqueue" /\ Call("telemetry") /\ EnqueueTelemetry(d, {})
  /\ GoOn /\ UNCHANGED meterVars

-----------------------------------------------------------------------------
(* Failures, exits and delivery                                            *)

NumberFails ==
  /\ IncidentsDue \/ TelemetryDue
  /\ NextSequenceFails(d) /\ FailsOn /\ UNCHANGED meterVars

EnqueueFails ==
  /\ at = "enqueue" /\ EnqueueTelemetryFails(d, IF Call("incidents") THEN Pending(d) ELSE {})
  /\ FailsOn /\ UNCHANGED meterVars

MarkFails == at = "mark" /\ MarkQueuedFails(d) /\ FailsOn /\ UNCHANGED meterVars

MeterFails == MeterFault /\ Fault /\ UNCHANGED <<at, phase, sampled, exits, sessionVars>>

\* A start that fails ends the process: an unfinished meter transaction
\* that cannot be enqueued, or a full backlog of incidents.
RecoverFails ==
  /\ at = "recover" /\ meterOp.pc = "failed"
  /\ meterOp' = Idle /\ meterMem' = meterDir.state /\ GoTo("down")
  /\ UNCHANGED <<meterDisk, meterQueue, usage, meterIds, sessionVars>>

BeginRefused == at = "begin" /\ BacklogFull /\ GoTo("down") /\ UNCHANGED <<meterVars, sessionVars>>

\* The loops have ended, the sample in progress with them.
Stop ==
  /\ at = "ready" /\ phase = FirstOfSample /\ Exits
  /\ MarkClean /\ meterMem' = meterDir.state
  /\ UNCHANGED <<meterDisk, meterOp, meterQueue, usage, meterIds, sampled, faults>>

StopFails ==
  /\ at = "ready" /\ phase = FirstOfSample /\ Exits
  /\ Fault /\ MarkCleanFails /\ meterMem' = meterDir.state
  /\ UNCHANGED <<meterDisk, meterOp, meterQueue, usage, meterIds, sampled>>

\* The process is killed, the machine loses power, or a loop's error ends it.
Crash ==
  /\ at # "down" /\ Exits
  /\ MeterCrash /\ SessionLost /\ UNCHANGED <<sampled, faults>>

MeterSteps == MeterWork /\ UNCHANGED <<sessionVars, loopVars>>
Deliver == Serving /\ DeliverBatch /\ UNCHANGED <<sessionVars, loopVars>>

Loop ==
  \/ Recovered \/ Open \/ BeginSession \/ BeginRefused \/ RecoverFails
  \/ NoIncidents \/ NumberIncidents \/ EnqueueIncidents \/ MarkIncidents
  \/ SkipMeter \/ Observe \/ ObserveReturns \/ MeterSteps
  \/ SkipTelemetry \/ NumberTelemetry \/ EnqueueSample

Faults ==
  \/ OpenFails \/ BeginSessionFails \/ NumberFails \/ EnqueueFails \/ MarkFails
  \/ MeterFails \/ StopFails

Next == Start \/ Loop \/ Deliver \/ Stop \/ Crash \/ Faults

Spec == Init /\ [][Next]_vars

\* systemd restarts the process (Restart=always); its goroutines are
\* scheduled, and a website that is reached takes batches.
FairSpec == Spec /\ WF_vars(Start) /\ WF_vars(Loop) /\ WF_vars(Deliver)
-----------------------------------------------------------------------------
(* Properties                                                              *)

\* The shape of the state; part of BaselineBacked.
TypeOK ==
  /\ meterDir.state \in States /\ meterDir.txn \in Transactions
  /\ meterSynced.state \in States /\ meterSynced.txn \in Transactions
  /\ meterMem \in States /\ meterIds \in Nat /\ meterQueue \subseteq usage
  /\ meterOp.pc \in {"idle", "observe", "enqueue", "save", "remove", "failed"}
  /\ usage \subseteq Batches
  /\ runFile \in [Domains -> Nat] /\ runMem \in [Domains -> Nat]
  /\ sessionFile \in Documents /\ sessionMem \in Documents
  /\ boots \in Nat /\ drawn \in Nat /\ unclean \subseteq 1..boots /\ clean \subseteq 1..boots
  /\ \A dom \in Domains : \A i \in 1..Len(outbox[dom]) :
       outbox[dom][i].seq \in Nat /\ outbox[dom][i].events \subseteq Events
  /\ at \in Steps /\ phase \in 1..Len(Phases)

UsageEvents == UNION {b.events : b \in usage}

\* The receiver may subtract, whatever crash came between the steps of a
\* transaction: it tells batches and events apart by their sequences, so two
\* with one sequence are one; and within a counter epoch everything belongs
\* to one counter of one identity and values never fall.
UsageSubtractable ==
  faults = 0 =>
    /\ \A a, b \in usage : a.seq = b.seq => a = b
    /\ \A e, f \in UsageEvents :
         /\ e.event = f.event => e = f
         /\ e.epoch = f.epoch =>
              /\ e.key = f.key /\ e.identity = f.identity
              /\ e.event <= f.event => e.value <= f.value

\* What the state file holds was queued before: no sequence up to it is
\* missing, and its counters are those of queued events, so that no crash
\* moves a baseline past usage nobody was told of.
BaselineBacked ==
  LET state == meterDir.state IN
  /\ TypeOK
  /\ 1..state.seq \subseteq {b.seq : b \in usage}
  /\ \A k \in Keys : state.counters[k] = NoCounter
       \/ \E e \in UsageEvents : /\ e.key = k /\ e.epoch = state.counters[k].epoch
                                 /\ e.value = state.counters[k].value

\* Incidents a domain was told of, and those still on disk.
Told(dom) == UNION {outbox[dom][i].events : i \in 1..Len(outbox[dom])}
Reported == Told("website") \cup Told("monitoring") \cup EventsOf(sessionFile.pending)

\* Incidents are truthful: none names a process that marked a clean exit,
\* and an exit has one event, in both domains and after every restart.
IncidentsTruthful ==
  /\ \A e \in Reported : e.boot \in unclean
  /\ \A e, f \in Reported : e.boot = f.boot => e = f

\* The sequence of a domain only grows over its batches, across restarts and
\* failed writes of the run state.
SequencesIncrease ==
  \A dom \in Domains : \A i, j \in 1..Len(outbox[dom]) :
    i < j => outbox[dom][i].seq < outbox[dom][j].seq

\* The two ways in which a start is refused for good.
StartRefused ==
  at = "down" /\ (BacklogFull \/ (meterDir.txn # NoTxn /\ ~HasRoom(meterDir.txn.batch)))

\* Every unclean exit comes to the knowledge of each enabled domain, through
\* further crashes and failed writes, unless no process can start any more.
ExitReported ==
  []<>(StartRefused \/ \A b \in unclean, dom \in Enabled : \E e \in Told(dom) : e.boot = b)

\* A process that is down serves again: with the website away the agent
\* only retries its polls and uploads.
ServesAgain == at = "down" ~> Serving
=============================================================================
