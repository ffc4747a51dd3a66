-------------------------- MODULE SupervisorRuntime --------------------------
(***************************************************************************)
(* The in-process multi-agent supervisor                                   *)
(* (packages/agent-core/src/multi-agent/supervisor-runtime.ts).            *)
(*                                                                         *)
(* A host admits handoffs; each becomes a child run.  A bounded number of  *)
(* runs has a slot in activeRuns and a worker executing it.  The host may  *)
(* pause, resume, interrupt, cancel or defer a run and send it input while *)
(* its worker executes; the worker reads input, parks on the input port or *)
(* on a pause, reports, and at some point returns or throws.               *)
(*                                                                         *)
(* One action is one synchronous call on the JavaScript thread, except     *)
(* that the loop of startQueuedRuns is one action per iteration; no other  *)
(* action is enabled while that loop runs.  Listeners of child events and  *)
(* the synchronous prefix of a worker are taken not to call back into the  *)
(* runtime here: SweepReentrancy models that they may.                     *)
(***************************************************************************)
EXTENDS Integers, FiniteSets, Sequences

CONSTANTS
    Run,         \* run ids, ordered as sortedRecords() orders them
    MaxActive,   \* maxActiveRuns
    Unservable,  \* runs whose handoff no configured worker can handle
    MaxInputs    \* bound: inputs the host sends during a behaviour

ASSUME RunAssumption == Run \subseteq Nat /\ IsFiniteSet(Run)
ASSUME CapacityAssumption == MaxActive \in Nat \ {0}
ASSUME UnservableAssumption == Unservable \subseteq Run
ASSUME InputsAssumption == MaxInputs \in Nat

VARIABLES
    status,      \* records: the status of each run, "none" before admission
    activeRuns,  \* activeRuns: the runs that hold a slot
    paused,      \* the runs whose ActiveRunState.paused is true
    aborted,     \* the runs whose AbortController was aborted
    worker,      \* where the asynchronous worker of each run is
    completion,  \* what the run's completion promise resolved with
    inputs,      \* pendingInputs: inputs waiting for the worker
    nextInput,   \* nextInputSequence
    sweep,       \* startQueuedRuns: startable runs its loop has yet to visit
    delivered,   \* history: inputs the worker received, in order
    offered      \* history: runs that were startable when some loop began

records  == <<status, activeRuns, paused, aborted, completion>>
port     == <<inputs, nextInput, delivered>>
schedule == <<sweep, offered>>
vars     == <<records, port, schedule, worker>>

TerminalStatus == {"completed", "failed", "cancelled", "deferred"}

\* WORKER_HEARTBEAT_STATUSES: what a running worker may report of itself.
RunningStatus == {"active", "blocked", "waiting_for_review", "aggregating"}

\* "assigned" is written and overwritten within one iteration of the loop.
Status == {"none", "queued", "cancel_requested"} \cup RunningStatus
             \cup TerminalStatus

\* A worker that never started, is running, is parked in waitForInput or in
\* waitUntilResumed, or has settled.  A worker awaits one promise at a time.
WorkerState == {"idle", "running", "awaitingInput", "awaitingResume", "ended"}

Known(r)    == status[r] # "none"
Terminal(r) == status[r] \in TerminalStatus

\* isControlLockedStatus: the host's controls leave such a run alone.
ControlLocked(r) == Terminal(r) \/ status[r] = "cancel_requested"

Queued == {r \in Run : status[r] = "queued"}

Init ==
    /\ status = [r \in Run |-> "none"]
    /\ activeRuns = {} /\ paused = {} /\ aborted = {}
    /\ worker = [r \in Run |-> "idle"]
    /\ completion = [r \in Run |-> "pending"]
    /\ inputs = [r \in Run |-> <<>>]
    /\ nextInput = 0
    /\ delivered = [r \in Run |-> <<>>]
    /\ sweep = {} /\ offered = {}

-----------------------------------------------------------------------------
(* The parts the operations are made of. *)

Write(r, s) == status' = [status EXCEPT ![r] = s]

\* Resolving the waiters a worker is parked on lets it run again.
Unpark(r, parkedOn) ==
    worker' = [worker EXCEPT ![r] = IF @ \in parkedOn THEN "running" ELSE @]

\* resolveCompletion: the first resolution of a promise is the one that counts.
ResolveCompletion(r, outcome) ==
    completion' = [completion EXCEPT ![r] = IF @ = "pending" THEN outcome ELSE @]

\* closeInputPort: pending input is dropped (its waiters: Unpark).
ClosePort(r) ==
    /\ inputs' = [inputs EXCEPT ![r] = <<>>]
    /\ UNCHANGED <<nextInput, delivered>>

\* A call of startQueuedRuns takes its snapshot of the records.
BeginSweep == sweep' = Queued' /\ offered' = offered \cup Queued'

-----------------------------------------------------------------------------
(* Admission and scheduling. *)

AdmitRecord(r) == ~Known(r) /\ Write(r, "queued")

\* admitHandoff: a run already known is only reported back.
AdmitHandoff(r) ==
    /\ AdmitRecord(r)
    /\ UNCHANGED <<activeRuns, paused, aborted, completion, worker, port, schedule>>

\* dispatch: admit the handoff unless it is known, then start what can start.
Dispatch(r) ==
    /\ AdmitRecord(r) \/ (Known(r) /\ UNCHANGED status)
    /\ BeginSweep
    /\ UNCHANGED <<activeRuns, paused, aborted, completion, worker, port>>

\* startQueuedRuns, called by the host.
StartQueuedRuns ==
    /\ UNCHANGED <<records, port, worker>>
    /\ BeginSweep

\* startRun when a worker can handle the handoff.
StartRun(r) ==
    /\ r \notin Unservable
    /\ Write(r, "active")
    /\ activeRuns' = activeRuns \cup {r}
    /\ worker' = [worker EXCEPT ![r] = "running"]
    /\ UNCHANGED <<paused, aborted, completion, port>>

\* startRun when no worker can: the run fails at once.
FailUnservable(r) ==
    /\ r \in Unservable
    /\ Write(r, "failed")
    /\ ResolveCompletion(r, "failed")
    /\ ClosePort(r)
    /\ UNCHANGED <<activeRuns, paused, aborted, worker>>

\* One iteration of startQueuedRuns' loop: stop at the limit, else start the
\* first run of the snapshot not yet visited.
StartNextQueuedRun ==
    \E r \in sweep :
        /\ \A q \in sweep : r <= q
        /\ IF Cardinality(activeRuns) >= MaxActive
           THEN sweep' = {} /\ UNCHANGED <<records, port, worker, offered>>
           ELSE /\ sweep' = sweep \ {r}
                /\ StartRun(r) \/ FailUnservable(r)
                /\ UNCHANGED offered

-----------------------------------------------------------------------------
(* The host's controls. *)

\* Fault: a cancelled waiting run does not resolve its completion.
CancelWaitingUnresolved(r) ==
    /\ Known(r) /\ ~Terminal(r) /\ r \notin activeRuns
    /\ Write(r, "cancelled")
    /\ ClosePort(r)
    /\ BeginSweep
    /\ UNCHANGED <<activeRuns, paused, aborted, completion, worker>>

\* cancel of a run without a slot: it is cancelled on the spot.
CancelWaiting(r) ==
    /\ Known(r) /\ ~Terminal(r) /\ r \notin activeRuns
    /\ Write(r, "cancelled")
    /\ ResolveCompletion(r, "cancelled")
    /\ ClosePort(r)
    /\ BeginSweep
    /\ UNCHANGED <<activeRuns, paused, aborted, worker>>

\* Fault: cancel aborts but leaves a worker parked on a pause parked.
CancelActiveKeepsPause(r) ==
    /\ r \in activeRuns /\ ~Terminal(r)
    /\ aborted' = aborted \cup {r}
    /\ Unpark(r, {"awaitingInput"})
    /\ ClosePort(r)
    /\ Write(r, "cancel_requested")
    /\ UNCHANGED <<activeRuns, paused, completion, schedule>>

\* cancel of a run with a slot: abort, wake the worker, wait for it to return.
CancelActive(r) ==
    /\ r \in activeRuns /\ ~Terminal(r)
    /\ aborted' = aborted \cup {r}
    /\ paused' = paused \ {r}
    /\ Unpark(r, {"awaitingInput", "awaitingResume"})
    /\ ClosePort(r)
    /\ Write(r, "cancel_requested")
    /\ UNCHANGED <<activeRuns, completion, schedule>>

Cancel(r) == CancelWaiting(r) \/ CancelActive(r)

MarkPaused(r) == paused' = IF r \in activeRuns THEN paused \cup {r} ELSE paused

PauseRecord(r) ==
    /\ Known(r) /\ ~ControlLocked(r)
    /\ MarkPaused(r)
    /\ Write(r, "blocked")
    /\ UNCHANGED <<activeRuns, aborted, completion>>

\* pause: a run without a slot is blocked too, and so leaves the queue.
Pause(r) == PauseRecord(r) /\ UNCHANGED <<port, schedule, worker>>

\* Fault: resume puts a run that holds a slot back into the queue.
ResumeActiveRequeued(r) ==
    /\ r \in activeRuns /\ ~ControlLocked(r)
    /\ r \in paused \/ status[r] = "blocked"
    /\ paused' = paused \ {r}
    /\ Unpark(r, {"awaitingResume"})
    /\ Write(r, "queued")
    /\ UNCHANGED <<activeRuns, aborted, completion, port, schedule>>

\* resume of a run with a slot: its worker goes on.
ResumeActive(r) ==
    /\ r \in activeRuns /\ ~ControlLocked(r)
    /\ r \in paused \/ status[r] = "blocked"
    /\ paused' = paused \ {r}
    /\ Unpark(r, {"awaitingResume"})
    /\ Write(r, "active")
    /\ UNCHANGED <<activeRuns, aborted, completion, port, schedule>>

\* resume of a run without one: back to the queue, and a sweep.
ResumeWaiting(r) ==
    /\ Known(r) /\ r \notin activeRuns /\ ~ControlLocked(r)
    /\ Write(r, "queued")
    /\ BeginSweep
    /\ UNCHANGED <<activeRuns, paused, aborted, completion, worker, port>>

Resume(r) == ResumeActive(r) \/ ResumeWaiting(r)

\* wake: resume a blocked run; for any other run only sweep.
Wake(r) ==
    /\ Known(r) /\ ~ControlLocked(r)
    /\ IF status[r] = "blocked" THEN Resume(r) ELSE StartQueuedRuns

\* Fault: defer keeps the slot.
DeferKeepsSlot(r) ==
    /\ Known(r) /\ ~ControlLocked(r)
    /\ aborted' = IF r \in activeRuns THEN aborted \cup {r} ELSE aborted
    /\ paused' = paused \ {r}
    /\ UNCHANGED activeRuns
    /\ Write(r, "deferred")
    /\ ResolveCompletion(r, "deferred")
    /\ Unpark(r, {"awaitingInput", "awaitingResume"})
    /\ ClosePort(r)
    /\ BeginSweep

\* defer: terminal at once, and the slot is free at once; the worker of the
\* run is told to stop but is still executing.
Defer(r) ==
    /\ Known(r) /\ ~ControlLocked(r)
    /\ aborted' = IF r \in activeRuns THEN aborted \cup {r} ELSE aborted
    /\ paused' = paused \ {r}
    /\ activeRuns' = activeRuns \ {r}
    /\ Write(r, "deferred")
    /\ ResolveCompletion(r, "deferred")
    /\ Unpark(r, {"awaitingInput", "awaitingResume"})
    /\ ClosePort(r)
    /\ BeginSweep

\* Fault: the input is queued even when a worker is waiting for it.
EnqueueInputIgnoresWaiter(r) ==
    /\ Known(r) /\ ~ControlLocked(r)
    /\ nextInput < MaxInputs
    /\ nextInput' = nextInput + 1
    /\ inputs' = [inputs EXCEPT ![r] = Append(@, nextInput')]
    /\ UNCHANGED <<delivered, worker>>

\* enqueueInput: hand the input to a worker waiting for it, else queue it.
EnqueueInput(r) ==
    /\ Known(r) /\ ~ControlLocked(r)
    /\ nextInput < MaxInputs
    /\ nextInput' = nextInput + 1
    /\ IF worker[r] = "awaitingInput"
       THEN /\ delivered' = [delivered EXCEPT ![r] = Append(@, nextInput')]
            /\ Unpark(r, {"awaitingInput"})
            /\ UNCHANGED inputs
       ELSE /\ inputs' = [inputs EXCEPT ![r] = Append(@, nextInput')]
            /\ UNCHANGED <<delivered, worker>>

\* appendInput and sendInput: they differ in the input's kind only.
SendInput(r) == EnqueueInput(r) /\ UNCHANGED <<records, schedule>>

\* interrupt: the input goes in first, then the run is paused.
Interrupt(r) == EnqueueInput(r) /\ PauseRecord(r) /\ UNCHANGED schedule

\* heartbeat: a run with a slot may move among the running statuses; a paused
\* one may only be reported blocked.
Heartbeat(r, s) ==
    /\ r \in activeRuns /\ ~ControlLocked(r)
    /\ r \in paused => s = "blocked"
    /\ Write(r, s)
    /\ UNCHANGED <<activeRuns, paused, aborted, completion, port, schedule, worker>>

-----------------------------------------------------------------------------
(* The worker's side: the functions of its context, and how it settles. *)

\* reportBlocked and needsDecision: the run is paused before the summary is
\* validated, so a blank one throws and leaves the record as it was.
ReportEscalation(r) ==
    /\ worker[r] = "running" /\ ~ControlLocked(r)
    /\ MarkPaused(r)
    /\ Write(r, "blocked") \/ UNCHANGED status
    /\ UNCHANGED <<activeRuns, aborted, completion, port, schedule, worker>>

\* Fault: drained inputs stay pending.
DrainInputKeeps(r) ==
    /\ worker[r] = "running"
    /\ delivered' = [delivered EXCEPT ![r] = @ \o inputs[r]]
    /\ UNCHANGED <<records, inputs, nextInput, schedule, worker>>

DrainInput(r) ==
    /\ worker[r] = "running"
    /\ delivered' = [delivered EXCEPT ![r] = @ \o inputs[r]]
    /\ inputs' = [inputs EXCEPT ![r] = <<>>]
    /\ UNCHANGED <<records, nextInput, schedule, worker>>

\* waitForInput: the oldest pending input, or park until one arrives.
WaitForInput(r) ==
    /\ worker[r] = "running" /\ ~ControlLocked(r)
    /\ IF inputs[r] = <<>>
       THEN /\ worker' = [worker EXCEPT ![r] = "awaitingInput"]
            /\ UNCHANGED port
       ELSE /\ delivered' = [delivered EXCEPT ![r] = Append(@, Head(inputs[r]))]
            /\ inputs' = [inputs EXCEPT ![r] = Tail(@)]
            /\ UNCHANGED <<nextInput, worker>>
    /\ UNCHANGED <<records, schedule>>

WaitUntilResumed(r) ==
    /\ worker[r] = "running" /\ r \in activeRuns \cap paused
    /\ worker' = [worker EXCEPT ![r] = "awaitingResume"]
    /\ UNCHANGED <<records, port, schedule>>

\* Fault: a run that became terminal meanwhile is overwritten by its worker.
WorkerVerdictOverwrites(r, outcome) ==
    IF r \in aborted \/ status[r] = "cancel_requested" THEN "cancelled" ELSE outcome

\* Fault: a run that cancel left alone is left alone here as well.
WorkerVerdictKeepsRequest(r, outcome) ==
    IF ControlLocked(r) THEN status[r] ELSE outcome

\* The record runWorker leaves: a terminal one stands, a cancellation beats
\* whatever the worker returned or threw.
WorkerVerdict(r, outcome) ==
    IF Terminal(r) THEN status[r]
    ELSE IF r \in aborted \/ status[r] = "cancel_requested" THEN "cancelled"
    ELSE outcome

\* Fault: the slot a worker leaves is not offered to the queue.
WorkerReturnsNoSweep(r, outcome) ==
    /\ worker[r] = "running"
    /\ LET verdict == WorkerVerdict(r, outcome)
       IN  Write(r, verdict) /\ ResolveCompletion(r, verdict)
    /\ paused' = paused \ {r}
    /\ activeRuns' = activeRuns \ {r}
    /\ worker' = [worker EXCEPT ![r] = "ended"]
    /\ ClosePort(r)
    /\ UNCHANGED <<aborted, schedule>>

\* The rest of runWorker once the worker returned "completed" or "deferred", or
\* threw ("failed"), with its finally block.
WorkerReturns(r, outcome) ==
    /\ worker[r] = "running"
    /\ LET verdict == WorkerVerdict(r, outcome)
       IN  Write(r, verdict) /\ ResolveCompletion(r, verdict)
    /\ paused' = paused \ {r}
    /\ activeRuns' = activeRuns \ {r}
    /\ worker' = [worker EXCEPT ![r] = "ended"]
    /\ ClosePort(r)
    /\ BeginSweep
    /\ UNCHANGED aborted

WorkerOutcome == {"completed", "deferred", "failed"}

-----------------------------------------------------------------------------

HostStep(r) ==
    \/ AdmitHandoff(r) \/ Dispatch(r)
    \/ Cancel(r) \/ Pause(r) \/ Resume(r) \/ Wake(r) \/ Defer(r)
    \/ SendInput(r) \/ Interrupt(r)
    \/ \E s \in RunningStatus : Heartbeat(r, s)

WorkerStep(r) ==
    \/ ReportEscalation(r)
    \/ DrainInput(r) \/ WaitForInput(r) \/ WaitUntilResumed(r)
    \/ \E outcome \in WorkerOutcome : WorkerReturns(r, outcome)

Next ==
    \/ StartNextQueuedRun
    \/ /\ sweep = {}
       /\ \/ StartQueuedRuns
          \/ \E r \in Run : HostStep(r) \/ WorkerStep(r)

Spec == Init /\ [][Next]_vars

\* The worker of r settles; like every call, not in the middle of a sweep.
Settles(r) == sweep = {} /\ \E outcome \in WorkerOutcome : WorkerReturns(r, outcome)

(***************************************************************************)
(* A started loop finishes.  A worker that is not parked settles sooner or *)
(* later; other calls may come between its steps, hence strong fairness:   *)
(* the event loop runs the continuation of every settled promise.  Nothing *)
(* is assumed of the host: it need not resume, send input or call again.   *)
(***************************************************************************)
FairSpec ==
    /\ Spec
    /\ WF_vars(StartNextQueuedRun)
    /\ \A r \in Run : SF_vars(Settles(r))

-----------------------------------------------------------------------------
(* Safety. *)

\* Every variable has its type.
TypeOK ==
    /\ status \in [Run -> Status]
    /\ activeRuns \subseteq Run /\ paused \subseteq Run /\ aborted \subseteq Run
    /\ worker \in [Run -> WorkerState]
    /\ completion \in [Run -> TerminalStatus \cup {"pending"}]
    /\ inputs \in [Run -> Seq(1 .. MaxInputs)]
    /\ nextInput \in 0 .. MaxInputs
    /\ delivered \in [Run -> Seq(1 .. MaxInputs)]
    /\ sweep \subseteq Run /\ offered \subseteq Run

\* maxActiveRuns bounds the slots, whatever order runs are admitted, deferred,
\* cancelled and finished in.
CapacityRespected == Cardinality(activeRuns) <= MaxActive

Executing(r) == worker[r] \in {"running", "awaitingInput", "awaitingResume"}

\* The two maps the runtime keeps agree: a run holds a slot exactly when its
\* record is in a state only a started run can be in and its worker executes;
\* a worker executing without a slot belongs to a deferred run.
SlotMatchesRecord ==
    \A r \in Run :
        /\ r \in activeRuns =>
              /\ Executing(r)
              /\ status[r] \in RunningStatus \cup {"cancel_requested"}
        /\ r \notin activeRuns =>
              /\ status[r] \in {"none", "queued", "blocked"} \cup TerminalStatus
              /\ Executing(r) => status[r] = "deferred" /\ r \in aborted

\* Whoever awaits a handle's completion is answered when the run becomes
\* terminal, not before, and with the very status the record keeps.
CompletionMatchesRecord ==
    \A r \in Run : completion[r] = IF Terminal(r) THEN status[r] ELSE "pending"

\* No worker stays parked after what it waits for has happened: an input is
\* there, the run was resumed, cancelled or deferred.
NoStrandedWorker ==
    \A r \in Run :
        /\ worker[r] = "awaitingInput" => ~ControlLocked(r) /\ inputs[r] = <<>>
        /\ worker[r] = "awaitingResume" => ~ControlLocked(r) /\ r \in paused

Increasing(s) == \A i, j \in 1 .. Len(s) : i < j => s[i] < s[j]

\* A worker gets every input at most once and in the order it was sent, through
\* whichever of drainInput and waitForInput it comes.
InputsInOrder == \A r \in Run : Increasing(delivered[r] \o inputs[r])

\* A slot is never left idle while a run that was ever offered waits in the
\* queue: every operation that frees a slot or requeues a run sweeps.
NoIdleSlot ==
    (sweep = {} /\ Queued \cap offered # {}) => Cardinality(activeRuns) >= MaxActive

\* A run is reported cancelled only when no worker executes it any more.
CancelledMeansStopped ==
    \A r \in Run : status[r] = "cancelled" => worker[r] \in {"idle", "ended"}

(* What makes these inductive: the parts of IInv that are not in a run's list. *)

\* While the loop runs it has exactly the queue before it.
SweepIsQueue == sweep # {} => sweep = Queued

OfferedAreKnown == \A r \in offered : Known(r)

\* Only cancel and defer abort: an aborted run is beyond the host's controls.
AbortedIsLocked == \A r \in aborted : ControlLocked(r)

\* Only a run with a slot is paused, and cancel and defer end a pause.
PausedIsLive == \A r \in paused : r \in activeRuns /\ ~ControlLocked(r)

IInv ==
    /\ TypeOK
    /\ SlotMatchesRecord /\ CompletionMatchesRecord /\ NoStrandedWorker
    /\ SweepIsQueue /\ OfferedAreKnown /\ AbortedIsLocked /\ PausedIsLive
    /\ CapacityRespected /\ NoIdleSlot

(* What a step may never do. *)

\* A terminal record is final and its worker is never started again.
TerminalIsFinal ==
    [][\A r \in Run :
          Terminal(r) => /\ status'[r] = status[r]
                         /\ worker[r] \in {"idle", "ended"} => worker'[r] = worker[r]]_vars

\* Once a cancellation is requested nothing but "cancelled" can follow: not a
\* late heartbeat, not a pause, not the worker's own result.
CancelWins ==
    [][\A r \in Run : status[r] = "cancel_requested" =>
          status'[r] \in {"cancel_requested", "cancelled"}]_vars

-----------------------------------------------------------------------------
(* Liveness, of FairSpec. *)

\* A cancellation that was requested takes effect, even if the worker was parked: the
\* run does not stay in cancel_requested, and CancelWins says what it becomes.
CancelTakesEffect == \A r \in Run : []<>(status[r] # "cancel_requested")

Parked(r) == worker[r] \in {"awaitingInput", "awaitingResume"}

\* A run offered to the scheduler leaves the queue sooner or later, whatever the
\* host does, unless all the slots come to be held by workers parked for good.
QueueMovesOn ==
    \A r \in Run :
        \/ []<>(r \notin Queued \cap offered)
        \/ <>[](Cardinality(activeRuns) = MaxActive /\ \A q \in activeRuns : Parked(q))

-----------------------------------------------------------------------------
(* The supervisor implements the life of a child run as its users see it. *)

\* A queued run, or one paused before it started, waits.
PhaseOf(r) ==
    CASE status[r] = "none"             -> "absent"
      [] status[r] = "cancel_requested" -> "stopping"
      [] Terminal(r)                    -> status[r]
      [] status[r] = "queued" \/ (status[r] = "blocked" /\ r \notin activeRuns)
                                        -> "waiting"
      [] OTHER                          -> "running"

LifecyclePhase == [r \in Run |-> PhaseOf(r)]

Lifecycle == INSTANCE ChildRunLifecycle WITH phase <- LifecyclePhase, result <- completion

\* Every behaviour of the supervisor is one of ChildRunLifecycle: no run jumps
\* a phase, the limit holds, and a promise is resolved once, with the outcome.
ImplementsLifecycle == Lifecycle!Spec

=============================================================================
