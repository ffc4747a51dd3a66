----------------------- MODULE SupervisorRuntimeProofs -----------------------
(***************************************************************************)
(* Theorems about the supervisor, for every finite set of runs, limit, set *)
(* of unservable runs and bound on inputs.                                 *)
(***************************************************************************)
EXTENDS SupervisorRuntime, FiniteSetTheorems, TLAPS

USE RunAssumption, CapacityAssumption, UnservableAssumption, InputsAssumption

(* Type correctness. *)

LEMMA TypeInit == Init => TypeOK
BY DEF Init, TypeOK, Status, WorkerState

LEMMA VerdictTyped ==
    ASSUME TypeOK, NEW r \in Run, NEW outcome \in WorkerOutcome
    PROVE  WorkerVerdict(r, outcome) \in TerminalStatus
BY DEF TypeOK, WorkerVerdict, Terminal, TerminalStatus, WorkerOutcome

LEMMA QueuedTyped == Queued' \subseteq Run
BY DEF Queued

LEMMA EnqueueTyped ==
    ASSUME TypeOK, NEW r \in Run, EnqueueInput(r)
    PROVE  /\ inputs' \in [Run -> Seq(1 .. MaxInputs)]
           /\ delivered' \in [Run -> Seq(1 .. MaxInputs)]
           /\ nextInput' \in 0 .. MaxInputs
           /\ worker' \in [Run -> WorkerState]
<1>1. nextInput' = nextInput + 1 /\ nextInput' \in 1 .. MaxInputs
  BY DEF EnqueueInput, TypeOK
<1>2. inputs[r] \in Seq(1 .. MaxInputs) /\ delivered[r] \in Seq(1 .. MaxInputs)
  BY DEF TypeOK
<1>3. Append(inputs[r], nextInput') \in Seq(1 .. MaxInputs)
  BY <1>1, <1>2
<1>4. Append(delivered[r], nextInput') \in Seq(1 .. MaxInputs)
  BY <1>1, <1>2
<1>5. inputs' \in [Run -> Seq(1 .. MaxInputs)]
  <2>1. inputs' = inputs \/ inputs' = [inputs EXCEPT ![r] = Append(inputs[r], nextInput')]
    BY DEF EnqueueInput
  <2>2. QED BY <2>1, <1>3 DEF TypeOK
<1>6. delivered' \in [Run -> Seq(1 .. MaxInputs)]
  <2>1. \/ delivered' = delivered
        \/ delivered' = [delivered EXCEPT ![r] = Append(delivered[r], nextInput')]
    BY DEF EnqueueInput
  <2>2. QED BY <2>1, <1>4 DEF TypeOK
<1>7. worker' \in [Run -> WorkerState]
  BY DEF EnqueueInput, Unpark, TypeOK, WorkerState
<1>8. QED BY <1>1, <1>5, <1>6, <1>7

LEMMA TypeStep == TypeOK /\ [Next]_vars => TypeOK'
<1> SUFFICES ASSUME TypeOK, [Next]_vars PROVE TypeOK'
    OBVIOUS
<1> USE DEF TypeOK, records, port, schedule
<1> USE DEF Status, RunningStatus, TerminalStatus, WorkerState, Write
<1>1. CASE StartNextQueuedRun
  <2>1. PICK r \in sweep :
           IF Cardinality(activeRuns) >= MaxActive
           THEN sweep' = {} /\ UNCHANGED <<records, port, worker, offered>>
           ELSE /\ sweep' = sweep \ {r}
                /\ StartRun(r) \/ FailUnservable(r)
                /\ UNCHANGED offered
    BY <1>1 DEF StartNextQueuedRun
  <2>2. CASE UNCHANGED <<records, port, worker, offered>> /\ sweep' = {}
    BY <2>2
  <2>3. CASE StartRun(r) /\ sweep' = sweep \ {r} /\ UNCHANGED offered
    BY <2>3 DEF StartRun
  <2>4. CASE FailUnservable(r) /\ sweep' = sweep \ {r} /\ UNCHANGED offered
    BY <2>4 DEF FailUnservable, ResolveCompletion, ClosePort
  <2>5. QED BY <2>1, <2>2, <2>3, <2>4
<1>2. CASE StartQueuedRuns
  BY <1>2, QueuedTyped DEF StartQueuedRuns, BeginSweep
<1>3. ASSUME NEW r \in Run, AdmitHandoff(r) PROVE TypeOK'
  BY <1>3 DEF AdmitHandoff, AdmitRecord
<1>4. ASSUME NEW r \in Run, Dispatch(r) PROVE TypeOK'
  BY <1>4, QueuedTyped DEF Dispatch, AdmitRecord, BeginSweep
<1>5. ASSUME NEW r \in Run, CancelWaiting(r) PROVE TypeOK'
  BY <1>5, QueuedTyped DEF CancelWaiting, ResolveCompletion, ClosePort, BeginSweep
<1>6. ASSUME NEW r \in Run, CancelActive(r) PROVE TypeOK'
  BY <1>6 DEF CancelActive, Unpark, ClosePort
<1>7. ASSUME NEW r \in Run, PauseRecord(r), UNCHANGED <<port, schedule, worker>>
      PROVE  TypeOK'
  BY <1>7 DEF PauseRecord, MarkPaused
<1>8. ASSUME NEW r \in Run, Resume(r) PROVE TypeOK'
  <2>1. CASE ResumeActive(r)
    BY <2>1 DEF ResumeActive, Unpark
  <2>2. CASE ResumeWaiting(r)
    BY <2>2, QueuedTyped DEF ResumeWaiting, BeginSweep
  <2>3. QED BY <1>8, <2>1, <2>2 DEF Resume
<1>9. ASSUME NEW r \in Run, Defer(r) PROVE TypeOK'
  BY <1>9, QueuedTyped DEF Defer, ResolveCompletion, Unpark, ClosePort, BeginSweep
<1>10. ASSUME NEW r \in Run, EnqueueInput(r)
       PROVE  /\ inputs' \in [Run -> Seq(1 .. MaxInputs)]
              /\ delivered' \in [Run -> Seq(1 .. MaxInputs)]
              /\ nextInput' \in 0 .. MaxInputs
              /\ worker' \in [Run -> WorkerState]
  BY <1>10, EnqueueTyped DEF WorkerState
<1>11. ASSUME NEW r \in Run, SendInput(r) PROVE TypeOK'
  BY <1>10, <1>11 DEF SendInput
<1>12. ASSUME NEW r \in Run, Interrupt(r) PROVE TypeOK'
  BY <1>10, <1>12 DEF Interrupt, PauseRecord, MarkPaused
<1>13. ASSUME NEW r \in Run, NEW s \in RunningStatus, Heartbeat(r, s) PROVE TypeOK'
  BY <1>13 DEF Heartbeat
<1>14. ASSUME NEW r \in Run, ReportEscalation(r) PROVE TypeOK'
  BY <1>14 DEF ReportEscalation, MarkPaused
<1>15. ASSUME NEW r \in Run, DrainInput(r) PROVE TypeOK'
  <2>1. delivered[r] \o inputs[r] \in Seq(1 .. MaxInputs)
    OBVIOUS
  <2>2. QED BY <1>15, <2>1 DEF DrainInput
<1>16. ASSUME NEW r \in Run, WaitForInput(r) PROVE TypeOK'
  <2>1. CASE inputs[r] = <<>>
    BY <1>16, <2>1 DEF WaitForInput
  <2>2. CASE inputs[r] # <<>>
    <3>1. /\ Head(inputs[r]) \in 1 .. MaxInputs
          /\ Tail(inputs[r]) \in Seq(1 .. MaxInputs)
      BY <2>2
    <3>2. Append(delivered[r], Head(inputs[r])) \in Seq(1 .. MaxInputs)
      BY <3>1
    <3>3. /\ inputs' = [inputs EXCEPT ![r] = Tail(inputs[r])]
          /\ delivered' = [delivered EXCEPT ![r] = Append(delivered[r], Head(inputs[r]))]
          /\ worker' = worker
      BY <1>16, <2>2 DEF WaitForInput
    <3>4. /\ inputs' \in [Run -> Seq(1 .. MaxInputs)]
          /\ delivered' \in [Run -> Seq(1 .. MaxInputs)]
      BY <3>1, <3>2, <3>3
    <3>5. QED BY <1>16, <3>3, <3>4 DEF WaitForInput
  <2>3. QED BY <2>1, <2>2
<1>17. ASSUME NEW r \in Run, WaitUntilResumed(r) PROVE TypeOK'
  BY <1>17 DEF WaitUntilResumed
<1>18. ASSUME NEW r \in Run, NEW outcome \in WorkerOutcome, WorkerReturns(r, outcome)
       PROVE  TypeOK'
  <2>1. WorkerVerdict(r, outcome) \in TerminalStatus
    BY VerdictTyped
  <2>2. /\ status' \in [Run -> Status]
        /\ completion' \in [Run -> TerminalStatus \cup {"pending"}]
    BY <1>18, <2>1 DEF WorkerReturns, ResolveCompletion
  <2>3. QED BY <1>18, <2>2, QueuedTyped DEF WorkerReturns, ClosePort, BeginSweep
<1>19. CASE UNCHANGED vars
  BY <1>19 DEF vars
<1>20. QED
  BY <1>1, <1>2, <1>3, <1>4, <1>5, <1>6, <1>7, <1>8, <1>9, <1>11, <1>12, <1>13,
     <1>14, <1>15, <1>16, <1>17, <1>18, <1>19
     DEF Next, HostStep, WorkerStep, Cancel, Pause, Wake

\* Every variable keeps its type: in particular a completion is only ever
\* resolved with a terminal status and every input id is one that was issued.
THEOREM TypeCorrect == Spec => []TypeOK
<1>1. QED BY TypeInit, TypeStep, PTL DEF Spec

(***************************************************************************)
(* The inductive invariant.  SlotMatchesRecord ties the two maps together; *)
(* SweepIsQueue is why a run the loop starts is still queued, and with     *)
(* OfferedAreKnown why a free slot means that nothing offered is waiting.  *)
(***************************************************************************)

\* The cases of a step, as the lemmas below distinguish them.
LEMMA StepCases ==
    ASSUME [Next]_vars
    PROVE  \/ \E r \in sweep : /\ sweep' = sweep \ {r} /\ UNCHANGED offered
                               /\ StartRun(r) /\ ~(Cardinality(activeRuns) >= MaxActive)
           \/ \E r \in sweep : /\ sweep' = sweep \ {r} /\ UNCHANGED offered
                               /\ FailUnservable(r)
           \/ /\ sweep' = {} /\ UNCHANGED <<records, port, worker, offered>>
              /\ Cardinality(activeRuns) >= MaxActive
           \/ /\ sweep = {}
              /\ \/ StartQueuedRuns
                 \/ \E r \in Run :
                       \/ AdmitHandoff(r) \/ Dispatch(r)
                       \/ CancelWaiting(r) \/ CancelActive(r) \/ Pause(r)
                       \/ ResumeActive(r) \/ ResumeWaiting(r) \/ Defer(r)
                       \/ SendInput(r) \/ Interrupt(r)
                       \/ \E s \in RunningStatus : Heartbeat(r, s)
                       \/ ReportEscalation(r)
                       \/ DrainInput(r) \/ WaitForInput(r) \/ WaitUntilResumed(r)
                       \/ \E outcome \in WorkerOutcome : WorkerReturns(r, outcome)
           \/ UNCHANGED vars
<1>1. CASE StartNextQueuedRun
  BY <1>1 DEF StartNextQueuedRun
<1>2. QED
  BY <1>1 DEF Next, HostStep, WorkerStep, Cancel, Resume, Wake

Records ==
    /\ SlotMatchesRecord /\ CompletionMatchesRecord
    /\ AbortedIsLocked /\ PausedIsLive
Scheduling == SweepIsQueue /\ OfferedAreKnown /\ NoIdleSlot

LEMMA RecordsStep ==
    TypeOK /\ Records /\ SweepIsQueue /\ [Next]_vars => Records'
<1> SUFFICES ASSUME TypeOK, Records, SweepIsQueue, [Next]_vars PROVE Records'
    OBVIOUS
<1> USE DEF TypeOK, Records, SlotMatchesRecord, CompletionMatchesRecord
<1> USE DEF AbortedIsLocked, PausedIsLive
<1> USE DEF SweepIsQueue, Executing, Queued, Known, Terminal, ControlLocked
<1> USE DEF records, port, schedule, Write
<1> USE DEF Status, RunningStatus, TerminalStatus, WorkerState
<1>1. ASSUME NEW r \in sweep, StartRun(r), sweep' = sweep \ {r}, UNCHANGED offered,
            ~(Cardinality(activeRuns) >= MaxActive)
      PROVE  Records'
  BY <1>1 DEF StartRun
<1>2. ASSUME NEW r \in sweep, FailUnservable(r), sweep' = sweep \ {r}, UNCHANGED offered
      PROVE  Records'
  <2>1. SlotMatchesRecord'
    BY <1>2 DEF FailUnservable, ResolveCompletion, ClosePort
  <2>2. CompletionMatchesRecord'
    BY <1>2 DEF FailUnservable, ResolveCompletion, ClosePort
  <2>3. AbortedIsLocked'
    BY <1>2 DEF FailUnservable, ResolveCompletion, ClosePort
  <2>4. PausedIsLive'
    BY <1>2 DEF FailUnservable, ResolveCompletion, ClosePort
  <2>5. QED BY <2>1, <2>2, <2>3, <2>4
<1>3. CASE /\ sweep' = {} /\ UNCHANGED <<records, port, worker, offered>>
           /\ Cardinality(activeRuns) >= MaxActive
  BY <1>3
<1>4. ASSUME StartQueuedRuns, sweep = {} PROVE Records'
  BY <1>4 DEF StartQueuedRuns, BeginSweep
<1>5a. ASSUME NEW r \in Run, sweep = {}, AdmitHandoff(r) PROVE Records'
  BY <1>5a DEF AdmitHandoff, AdmitRecord
<1>5b. ASSUME NEW r \in Run, sweep = {}, Dispatch(r) PROVE Records'
  BY <1>5b DEF Dispatch, AdmitRecord, BeginSweep
<1>6. ASSUME NEW r \in Run, sweep = {}, CancelWaiting(r) PROVE Records'
  BY <1>6 DEF CancelWaiting, ResolveCompletion, ClosePort, BeginSweep
<1>7. ASSUME NEW r \in Run, sweep = {}, CancelActive(r) PROVE Records'
  BY <1>7 DEF CancelActive, Unpark, ClosePort
<1>8. ASSUME NEW r \in Run, sweep = {}, Pause(r) PROVE Records'
  BY <1>8 DEF Pause, PauseRecord, MarkPaused
<1>9. ASSUME NEW r \in Run, sweep = {}, ResumeActive(r) PROVE Records'
  BY <1>9 DEF ResumeActive, Unpark
<1>10. ASSUME NEW r \in Run, sweep = {}, ResumeWaiting(r) PROVE Records'
  BY <1>10 DEF ResumeWaiting, BeginSweep
<1>11. ASSUME NEW r \in Run, sweep = {}, Defer(r) PROVE Records'
  BY <1>11 DEF Defer, ResolveCompletion, Unpark, ClosePort, BeginSweep
<1>12. ASSUME NEW r \in Run, sweep = {}, SendInput(r) PROVE Records'
  BY <1>12 DEF SendInput, EnqueueInput, Unpark
<1>13. ASSUME NEW r \in Run, sweep = {}, Interrupt(r) PROVE Records'
  BY <1>13 DEF Interrupt, EnqueueInput, Unpark, PauseRecord, MarkPaused
<1>14. ASSUME NEW r \in Run, sweep = {}, NEW s \in RunningStatus, Heartbeat(r, s)
       PROVE  Records'
  BY <1>14 DEF Heartbeat
<1>15. ASSUME NEW r \in Run, sweep = {}, ReportEscalation(r) PROVE Records'
  <2>1. SlotMatchesRecord'
    BY <1>15 DEF ReportEscalation, MarkPaused
  <2>2. CompletionMatchesRecord'
    BY <1>15 DEF ReportEscalation, MarkPaused
  <2>3. AbortedIsLocked'
    BY <1>15 DEF ReportEscalation, MarkPaused
  <2>4. PausedIsLive'
    BY <1>15 DEF ReportEscalation, MarkPaused
  <2>5. QED BY <2>1, <2>2, <2>3, <2>4
<1>16a. ASSUME NEW r \in Run, sweep = {}, DrainInput(r) PROVE Records'
  BY <1>16a DEF DrainInput
<1>16b. ASSUME NEW r \in Run, sweep = {}, WaitForInput(r) PROVE Records'
  BY <1>16b DEF WaitForInput
<1>16c. ASSUME NEW r \in Run, sweep = {}, WaitUntilResumed(r) PROVE Records'
  BY <1>16c DEF WaitUntilResumed
<1>17. ASSUME NEW r \in Run, sweep = {}, NEW outcome \in WorkerOutcome, WorkerReturns(r, outcome)
       PROVE  Records'
  <2> DEFINE verdict == WorkerVerdict(r, outcome)
  <2>1. /\ verdict \in TerminalStatus
        /\ Terminal(r) => verdict = status[r]
    BY VerdictTyped DEF WorkerVerdict
  <2>2. /\ worker[r] = "running" /\ worker' = [worker EXCEPT ![r] = "ended"]
        /\ status' = [status EXCEPT ![r] = verdict]
        /\ completion' = [completion EXCEPT ![r] = IF @ = "pending" THEN verdict ELSE @]
        /\ paused' = paused \ {r} /\ activeRuns' = activeRuns \ {r} /\ aborted' = aborted
    BY <1>17 DEF WorkerReturns, ResolveCompletion
  <2> HIDE DEF verdict
  <2>3. \A q \in Run \ {r} : /\ status'[q] = status[q] /\ completion'[q] = completion[q]
                             /\ worker'[q] = worker[q]
    BY <2>2
  <2>4. /\ status'[r] = verdict /\ worker'[r] = "ended"
        /\ completion'[r] = IF completion[r] = "pending" THEN verdict ELSE completion[r]
    BY <2>2
  <2>5. SlotMatchesRecord'
    <3>1. r \notin activeRuns' /\ status'[r] \in TerminalStatus /\ ~Executing(r)'
      BY <2>1, <2>2, <2>4
    <3>2. ASSUME NEW q \in Run \ {r}
          PROVE  /\ q \in activeRuns' <=> q \in activeRuns
                 /\ Executing(q)' <=> Executing(q)
                 /\ status'[q] = status[q] /\ aborted' = aborted
      BY <2>2, <2>3
    <3>3. SlotMatchesRecord
      OBVIOUS
    <3> SUFFICES ASSUME NEW q \in Run
                 PROVE  /\ q \in activeRuns' =>
                              /\ Executing(q)'
                              /\ status'[q] \in RunningStatus \cup {"cancel_requested"}
                        /\ q \notin activeRuns' =>
                              /\ status'[q] \in {"none", "queued", "blocked"} \cup TerminalStatus
                              /\ Executing(q)' => status'[q] = "deferred" /\ q \in aborted'
      OBVIOUS
    <3> HIDE DEF Records, CompletionMatchesRecord, AbortedIsLocked, PausedIsLive, SweepIsQueue,
                 Executing, TypeOK, Status, WorkerState, RunningStatus, TerminalStatus
    <3>4. CASE q = r
      BY <3>1, <3>4
    <3>5. CASE q # r
      <4>1. /\ q \in activeRuns' <=> q \in activeRuns
            /\ Executing(q)' <=> Executing(q)
            /\ status'[q] = status[q] /\ aborted' = aborted
        BY <3>2, <3>5
      <4>2. QED BY <3>3, <4>1
    <3>6. QED BY <3>4, <3>5
  <2>6. CompletionMatchesRecord'
    <3>1. \A q \in Run : completion[q] = IF Terminal(q) THEN status[q] ELSE "pending"
      OBVIOUS
    <3>2. Terminal(r)' /\ completion'[r] = status'[r]
      BY <2>1, <2>4, <3>1
    <3>3. \A q \in Run \ {r} : completion'[q] = IF Terminal(q)' THEN status'[q] ELSE "pending"
      BY <2>3, <3>1
    <3>4. QED BY <3>2, <3>3
  <2>7. AbortedIsLocked'
    BY <2>1, <2>2, <2>3, <2>4
  <2>8. PausedIsLive'
    BY <2>1, <2>2, <2>3, <2>4
  <2>9. QED BY <2>5, <2>6, <2>7, <2>8
<1>18. CASE UNCHANGED vars
  BY <1>18 DEF vars
<1> HIDE DEF Records, records, port, schedule
<1>19. QED
  BY StepCases, <1>1, <1>2, <1>3, <1>4, <1>5a, <1>5b, <1>6, <1>7, <1>8, <1>9, <1>10,
     <1>11, <1>12, <1>13, <1>14, <1>15, <1>16a, <1>16b, <1>16c, <1>17, <1>18

LEMMA ParkedStep ==
    TypeOK /\ Records /\ SweepIsQueue /\ NoStrandedWorker /\ [Next]_vars => NoStrandedWorker'
<1> SUFFICES ASSUME TypeOK, Records, SweepIsQueue, NoStrandedWorker, [Next]_vars
             PROVE  NoStrandedWorker'
    OBVIOUS
<1> USE DEF TypeOK, Records, SlotMatchesRecord, PausedIsLive, NoStrandedWorker
<1> USE DEF SweepIsQueue, Executing, Queued, Known, Terminal, ControlLocked
<1> USE DEF records, port, schedule, Write
<1> USE DEF Status, RunningStatus, TerminalStatus, WorkerState
<1>1. ASSUME NEW r \in sweep, StartRun(r), sweep' = sweep \ {r}, UNCHANGED offered,
            ~(Cardinality(activeRuns) >= MaxActive)
      PROVE  NoStrandedWorker'
  BY <1>1 DEF StartRun
<1>2. ASSUME NEW r \in sweep, FailUnservable(r), sweep' = sweep \ {r}, UNCHANGED offered
      PROVE  NoStrandedWorker'
  BY <1>2 DEF FailUnservable, ResolveCompletion, ClosePort
<1>3. CASE /\ sweep' = {} /\ UNCHANGED <<records, port, worker, offered>>
           /\ Cardinality(activeRuns) >= MaxActive
  BY <1>3
<1>4. ASSUME StartQueuedRuns, sweep = {} PROVE NoStrandedWorker'
  BY <1>4 DEF StartQueuedRuns, BeginSweep
<1>5a. ASSUME NEW r \in Run, sweep = {}, AdmitHandoff(r) PROVE NoStrandedWorker'
  BY <1>5a DEF AdmitHandoff, AdmitRecord
<1>5b. ASSUME NEW r \in Run, sweep = {}, Dispatch(r) PROVE NoStrandedWorker'
  BY <1>5b DEF Dispatch, AdmitRecord, BeginSweep
<1>6. ASSUME NEW r \in Run, sweep = {}, CancelWaiting(r) PROVE NoStrandedWorker'
  BY <1>6 DEF CancelWaiting, ResolveCompletion, ClosePort, BeginSweep
<1>7. ASSUME NEW r \in Run, sweep = {}, CancelActive(r) PROVE NoStrandedWorker'
  BY <1>7 DEF CancelActive, Unpark, ClosePort
<1>8. ASSUME NEW r \in Run, sweep = {}, Pause(r) PROVE NoStrandedWorker'
  BY <1>8 DEF Pause, PauseRecord, MarkPaused
<1>9. ASSUME NEW r \in Run, sweep = {}, ResumeActive(r) PROVE NoStrandedWorker'
  BY <1>9 DEF ResumeActive, Unpark
<1>10. ASSUME NEW r \in Run, sweep = {}, ResumeWaiting(r) PROVE NoStrandedWorker'
  BY <1>10 DEF ResumeWaiting, BeginSweep
<1>11. ASSUME NEW r \in Run, sweep = {}, Defer(r) PROVE NoStrandedWorker'
  BY <1>11 DEF Defer, ResolveCompletion, Unpark, ClosePort, BeginSweep
<1>12. ASSUME NEW r \in Run, sweep = {}, SendInput(r) PROVE NoStrandedWorker'
  BY <1>12 DEF SendInput, EnqueueInput, Unpark
<1>13. ASSUME NEW r \in Run, sweep = {}, Interrupt(r) PROVE NoStrandedWorker'
  BY <1>13 DEF Interrupt, EnqueueInput, Unpark, PauseRecord, MarkPaused
<1>14. ASSUME NEW r \in Run, sweep = {}, NEW s \in RunningStatus, Heartbeat(r, s)
       PROVE  NoStrandedWorker'
  BY <1>14 DEF Heartbeat
<1>15. ASSUME NEW r \in Run, sweep = {}, ReportEscalation(r) PROVE NoStrandedWorker'
  BY <1>15 DEF ReportEscalation, MarkPaused
<1>16a. ASSUME NEW r \in Run, sweep = {}, DrainInput(r) PROVE NoStrandedWorker'
  BY <1>16a DEF DrainInput
<1>16b. ASSUME NEW r \in Run, sweep = {}, WaitForInput(r) PROVE NoStrandedWorker'
  BY <1>16b DEF WaitForInput
<1>16c. ASSUME NEW r \in Run, sweep = {}, WaitUntilResumed(r) PROVE NoStrandedWorker'
  BY <1>16c DEF WaitUntilResumed
<1>17. ASSUME NEW r \in Run, sweep = {}, NEW outcome \in WorkerOutcome, WorkerReturns(r, outcome)
       PROVE  NoStrandedWorker'
  BY <1>17, VerdictTyped DEF WorkerReturns, ResolveCompletion, ClosePort, BeginSweep
<1>18. CASE UNCHANGED vars
  BY <1>18 DEF vars
<1>19. QED
  BY StepCases, <1>1, <1>2, <1>3, <1>4, <1>5a, <1>5b, <1>6, <1>7, <1>8, <1>9, <1>10,
     <1>11, <1>12, <1>13, <1>14, <1>15, <1>16a, <1>16b, <1>16c, <1>17, <1>18

LEMMA SchedulingStep ==
    TypeOK /\ Records /\ Scheduling /\ [Next]_vars => Scheduling'
<1> SUFFICES ASSUME TypeOK, Records, Scheduling, [Next]_vars PROVE Scheduling'
    OBVIOUS
<1> USE DEF TypeOK, Records, SlotMatchesRecord, Scheduling, OfferedAreKnown, NoIdleSlot
<1> USE DEF SweepIsQueue, Queued, Known, Terminal, ControlLocked
<1> USE DEF records, port, schedule, Write
<1> USE DEF Status, RunningStatus, TerminalStatus
<1>1. ASSUME NEW r \in sweep, StartRun(r), sweep' = sweep \ {r}, UNCHANGED offered,
            ~(Cardinality(activeRuns) >= MaxActive)
      PROVE  Scheduling'
  BY <1>1 DEF StartRun
<1>2. ASSUME NEW r \in sweep, FailUnservable(r), sweep' = sweep \ {r}, UNCHANGED offered
      PROVE  Scheduling'
  BY <1>2 DEF FailUnservable, ResolveCompletion, ClosePort
<1>3. CASE /\ sweep' = {} /\ UNCHANGED <<records, port, worker, offered>>
           /\ Cardinality(activeRuns) >= MaxActive
  BY <1>3
<1>4. ASSUME StartQueuedRuns, sweep = {} PROVE Scheduling'
  BY <1>4 DEF StartQueuedRuns, BeginSweep
<1>5a. ASSUME NEW r \in Run, sweep = {}, AdmitHandoff(r) PROVE Scheduling'
  BY <1>5a DEF AdmitHandoff, AdmitRecord
<1>5b. ASSUME NEW r \in Run, sweep = {}, Dispatch(r) PROVE Scheduling'
  BY <1>5b DEF Dispatch, AdmitRecord, BeginSweep
<1>6. ASSUME NEW r \in Run, sweep = {}, CancelWaiting(r) PROVE Scheduling'
  BY <1>6 DEF CancelWaiting, ResolveCompletion, ClosePort, BeginSweep
<1>7. ASSUME NEW r \in Run, sweep = {}, CancelActive(r) PROVE Scheduling'
  BY <1>7 DEF CancelActive, Unpark, ClosePort
<1>8. ASSUME NEW r \in Run, sweep = {}, Pause(r) PROVE Scheduling'
  BY <1>8 DEF Pause, PauseRecord, MarkPaused
<1>9. ASSUME NEW r \in Run, sweep = {}, ResumeActive(r) PROVE Scheduling'
  BY <1>9 DEF ResumeActive, Unpark
<1>10. ASSUME NEW r \in Run, sweep = {}, ResumeWaiting(r) PROVE Scheduling'
  BY <1>10 DEF ResumeWaiting, BeginSweep
<1>11. ASSUME NEW r \in Run, sweep = {}, Defer(r) PROVE Scheduling'
  BY <1>11 DEF Defer, ResolveCompletion, Unpark, ClosePort, BeginSweep
<1>12. ASSUME NEW r \in Run, sweep = {}, SendInput(r) PROVE Scheduling'
  BY <1>12 DEF SendInput, EnqueueInput, Unpark
<1>13. ASSUME NEW r \in Run, sweep = {}, Interrupt(r) PROVE Scheduling'
  BY <1>13 DEF Interrupt, EnqueueInput, Unpark, PauseRecord, MarkPaused
<1>14. ASSUME NEW r \in Run, sweep = {}, NEW s \in RunningStatus, Heartbeat(r, s)
       PROVE  Scheduling'
  BY <1>14 DEF Heartbeat
<1>15. ASSUME NEW r \in Run, sweep = {}, ReportEscalation(r) PROVE Scheduling'
  <2>1. /\ activeRuns' = activeRuns /\ sweep' = sweep /\ offered' = offered
        /\ status' = [status EXCEPT ![r] = "blocked"] \/ status' = status
    BY <1>15 DEF ReportEscalation
  <2>2. CASE status' = [status EXCEPT ![r] = "blocked"]
    BY <1>15, <2>1, <2>2
  <2>3. CASE status' = status
    BY <2>1, <2>3
  <2>4. QED BY <2>1, <2>2, <2>3
<1>16a. ASSUME NEW r \in Run, sweep = {}, DrainInput(r) PROVE Scheduling'
  BY <1>16a DEF DrainInput
<1>16b. ASSUME NEW r \in Run, sweep = {}, WaitForInput(r) PROVE Scheduling'
  BY <1>16b DEF WaitForInput
<1>16c. ASSUME NEW r \in Run, sweep = {}, WaitUntilResumed(r) PROVE Scheduling'
  BY <1>16c DEF WaitUntilResumed
<1>17. ASSUME NEW r \in Run, sweep = {}, NEW outcome \in WorkerOutcome, WorkerReturns(r, outcome)
       PROVE  Scheduling'
  BY <1>17, VerdictTyped DEF WorkerReturns, ResolveCompletion, ClosePort, BeginSweep
<1>18. CASE UNCHANGED vars
  BY <1>18 DEF vars
<1>19. QED
  BY StepCases, <1>1, <1>2, <1>3, <1>4, <1>5a, <1>5b, <1>6, <1>7, <1>8, <1>9, <1>10,
     <1>11, <1>12, <1>13, <1>14, <1>15, <1>16a, <1>16b, <1>16c, <1>17, <1>18

LEMMA CapacityStep ==
    TypeOK /\ CapacityRespected /\ [Next]_vars => CapacityRespected'
<1> SUFFICES ASSUME TypeOK, CapacityRespected, [Next]_vars PROVE CapacityRespected'
    OBVIOUS
<1>1. IsFiniteSet(activeRuns) /\ Cardinality(activeRuns) \in Nat
  <2>1. activeRuns \subseteq Run
    BY DEF TypeOK
  <2>2. QED BY <2>1, FS_Subset, FS_CardinalityType
<1>2. ASSUME NEW r \in Run, activeRuns' = activeRuns \cup {r},
             ~(Cardinality(activeRuns) >= MaxActive)
      PROVE  CapacityRespected'
  <2>1. Cardinality(activeRuns \cup {r}) \in {Cardinality(activeRuns), Cardinality(activeRuns) + 1}
    <3>1. CASE r \in activeRuns
      <4>1. activeRuns \cup {r} = activeRuns
        BY <3>1
      <4>2. QED BY <4>1
    <3>2. CASE r \notin activeRuns
      BY <1>1, <3>2, FS_AddElement
    <3>3. QED BY <3>1, <3>2
  <2>2. QED BY <1>1, <1>2, <2>1 DEF CapacityRespected
<1>3. ASSUME activeRuns' \subseteq activeRuns PROVE CapacityRespected'
  <2>1. Cardinality(activeRuns') <= Cardinality(activeRuns) /\ Cardinality(activeRuns') \in Nat
    BY <1>1, <1>3, FS_Subset, FS_CardinalityType
  <2>2. QED BY <1>1, <2>1 DEF CapacityRespected
<1>4. \/ \E r \in Run : /\ activeRuns' = activeRuns \cup {r}
                        /\ ~(Cardinality(activeRuns) >= MaxActive)
      \/ activeRuns' \subseteq activeRuns
  <2>1. ASSUME NEW r \in Run, \/ AdmitHandoff(r) \/ Dispatch(r) \/ CancelWaiting(r)
                              \/ CancelActive(r) \/ Pause(r) \/ ResumeActive(r)
                              \/ ResumeWaiting(r) \/ Interrupt(r)
        PROVE  activeRuns' = activeRuns
    BY <2>1 DEF AdmitHandoff, Dispatch, CancelWaiting, CancelActive, Pause, PauseRecord,
                ResumeActive, ResumeWaiting, Interrupt
  <2>2. ASSUME NEW r \in Run, \/ SendInput(r) \/ ReportEscalation(r) \/ DrainInput(r)
                              \/ WaitForInput(r) \/ WaitUntilResumed(r)
                              \/ \E s \in RunningStatus : Heartbeat(r, s)
        PROVE  activeRuns' = activeRuns
    BY <2>2 DEF SendInput, ReportEscalation, DrainInput, WaitForInput, WaitUntilResumed,
                Heartbeat, records
  <2>3. ASSUME NEW r \in Run,
               Defer(r) \/ \E outcome \in WorkerOutcome : WorkerReturns(r, outcome)
        PROVE  activeRuns' \subseteq activeRuns
    BY <2>3 DEF Defer, WorkerReturns
  <2>4. ASSUME NEW r \in sweep, StartRun(r) PROVE r \in Run /\ activeRuns' = activeRuns \cup {r}
    BY <2>4 DEF StartRun, TypeOK
  <2>5. ASSUME NEW r \in sweep, FailUnservable(r) PROVE activeRuns' = activeRuns
    BY <2>5 DEF FailUnservable
  <2>6. ASSUME StartQueuedRuns \/ UNCHANGED vars \/ UNCHANGED records PROVE activeRuns' = activeRuns
    BY <2>6 DEF StartQueuedRuns, vars, records
  <2>7. QED BY StepCases, <2>1, <2>2, <2>3, <2>4, <2>5, <2>6
<1>5. QED BY <1>2, <1>3, <1>4

LEMMA IInvInit == Init => IInv
<1> SUFFICES ASSUME Init PROVE IInv
    OBVIOUS
<1>1. TypeOK
  BY TypeInit
<1>2. CapacityRespected
  BY FS_EmptySet DEF Init, CapacityRespected
<1>3. SlotMatchesRecord /\ CompletionMatchesRecord /\ NoStrandedWorker
  BY DEF Init, SlotMatchesRecord, CompletionMatchesRecord, NoStrandedWorker, Executing,
         Terminal, TerminalStatus
<1>4. /\ SweepIsQueue /\ OfferedAreKnown /\ NoIdleSlot
      /\ AbortedIsLocked /\ PausedIsLive
  BY DEF Init, SweepIsQueue, OfferedAreKnown, NoIdleSlot, AbortedIsLocked, PausedIsLive
<1>5. QED BY <1>1, <1>2, <1>3, <1>4 DEF IInv

LEMMA IInvStep == IInv /\ [Next]_vars => IInv'
BY TypeStep, RecordsStep, ParkedStep, SchedulingStep, CapacityStep
   DEF IInv, Records, Scheduling

LEMMA Inductive == Spec => []IInv
<1>1. QED BY IInvInit, IInvStep, PTL DEF Spec

-----------------------------------------------------------------------------
(* The safety properties the runs check. *)

\* However the controls interleave, never more than maxActiveRuns runs hold a slot.
THEOREM Capacity == Spec => []CapacityRespected
<1>1. IInv => CapacityRespected
  BY DEF IInv
<1>2. QED BY <1>1, Inductive, PTL

\* records and activeRuns never disagree about who is running.
THEOREM SlotsAndRecordsAgree == Spec => []SlotMatchesRecord
<1>1. IInv => SlotMatchesRecord
  BY DEF IInv
<1>2. QED BY <1>1, Inductive, PTL

\* A completion promise is resolved exactly when its run is terminal, with the
\* status the record keeps for good.
THEOREM CompletionsAreTruthful == Spec => []CompletionMatchesRecord
<1>1. IInv => CompletionMatchesRecord
  BY DEF IInv
<1>2. QED BY <1>1, Inductive, PTL

\* No worker sleeps through the input, resume, cancel or defer that should wake it.
THEOREM NobodyStranded == Spec => []NoStrandedWorker
<1>1. IInv => NoStrandedWorker
  BY DEF IInv
<1>2. QED BY <1>1, Inductive, PTL

\* Work that was offered never waits beside a free slot.
THEOREM SlotsAreUsed == Spec => []NoIdleSlot
<1>1. IInv => NoIdleSlot
  BY DEF IInv
<1>2. QED BY <1>1, Inductive, PTL

\* "cancelled" is only written once nothing executes for the run.
THEOREM CancelledAreStopped == Spec => []CancelledMeansStopped
<1>1. IInv => CancelledMeansStopped
  BY DEF IInv, TypeOK, SlotMatchesRecord, CancelledMeansStopped, Executing,
         WorkerState, RunningStatus
<1>2. QED BY <1>1, Inductive, PTL

-----------------------------------------------------------------------------
(* What no step does. *)

StaysTerminal(q) ==
    Terminal(q) => /\ status'[q] = status[q]
                   /\ worker[q] \in {"idle", "ended"} => worker'[q] = worker[q]

LEMMA TerminalStep ==
    ASSUME IInv, [Next]_vars, NEW q \in Run PROVE StaysTerminal(q)
<1> USE DEF IInv, TypeOK, SlotMatchesRecord, SweepIsQueue, StaysTerminal
<1> USE DEF Queued, Known, Terminal, ControlLocked, Write, records, port, schedule
<1> USE DEF Status, RunningStatus, TerminalStatus, WorkerState
<1>1. ASSUME NEW r \in sweep, StartRun(r) PROVE StaysTerminal(q)
  BY <1>1 DEF StartRun
<1>2. ASSUME NEW r \in sweep, FailUnservable(r) PROVE StaysTerminal(q)
  BY <1>2 DEF FailUnservable
<1>3. ASSUME UNCHANGED <<records, port, worker, offered>> PROVE StaysTerminal(q)
  BY <1>3
<1>4. ASSUME StartQueuedRuns PROVE StaysTerminal(q)
  BY <1>4 DEF StartQueuedRuns
<1>5. ASSUME NEW r \in Run, AdmitHandoff(r) \/ Dispatch(r) PROVE StaysTerminal(q)
  BY <1>5 DEF AdmitHandoff, Dispatch, AdmitRecord
<1>6. ASSUME NEW r \in Run, CancelWaiting(r) PROVE StaysTerminal(q)
  BY <1>6 DEF CancelWaiting
<1>7. ASSUME NEW r \in Run, CancelActive(r) PROVE StaysTerminal(q)
  BY <1>7 DEF CancelActive, Unpark
<1>8. ASSUME NEW r \in Run, Pause(r) PROVE StaysTerminal(q)
  BY <1>8 DEF Pause, PauseRecord
<1>9. ASSUME NEW r \in Run, ResumeActive(r) \/ ResumeWaiting(r) PROVE StaysTerminal(q)
  BY <1>9 DEF ResumeActive, ResumeWaiting, Unpark
<1>10. ASSUME NEW r \in Run, Defer(r) PROVE StaysTerminal(q)
  BY <1>10 DEF Defer, Unpark
<1>11. ASSUME NEW r \in Run, SendInput(r) PROVE StaysTerminal(q)
  BY <1>11 DEF SendInput, EnqueueInput, Unpark
<1>12. ASSUME NEW r \in Run, Interrupt(r) PROVE StaysTerminal(q)
  BY <1>12 DEF Interrupt, EnqueueInput, Unpark, PauseRecord
<1>13. ASSUME NEW r \in Run, NEW s \in RunningStatus, Heartbeat(r, s) PROVE StaysTerminal(q)
  BY <1>13 DEF Heartbeat
<1>14. ASSUME NEW r \in Run, ReportEscalation(r) PROVE StaysTerminal(q)
  BY <1>14 DEF ReportEscalation
<1>15. ASSUME NEW r \in Run, DrainInput(r) \/ WaitForInput(r) \/ WaitUntilResumed(r) PROVE StaysTerminal(q)
  BY <1>15 DEF DrainInput, WaitForInput, WaitUntilResumed
<1>16. ASSUME NEW r \in Run, NEW outcome \in WorkerOutcome, WorkerReturns(r, outcome) PROVE StaysTerminal(q)
  BY <1>16 DEF WorkerReturns, WorkerVerdict
<1>17. ASSUME UNCHANGED vars PROVE StaysTerminal(q)
  BY <1>17 DEF vars
<1>18. QED
  BY StepCases, <1>1, <1>2, <1>3, <1>4, <1>5, <1>6, <1>7, <1>8, <1>9,
     <1>10, <1>11, <1>12, <1>13, <1>14, <1>15, <1>16, <1>17

\* A settled run keeps its status and no operation starts its worker again.
THEOREM TerminalRunsAreFinal == Spec => TerminalIsFinal
<1>1. IInv /\ [Next]_vars => [\A r \in Run : StaysTerminal(r)]_vars
  BY TerminalStep
<1>2. Spec => [][\A r \in Run : StaysTerminal(r)]_vars
  BY <1>1, Inductive, PTL DEF Spec
<1>3. QED BY <1>2 DEF TerminalIsFinal, StaysTerminal

StaysCancelled(q) ==
    status[q] = "cancel_requested" => status'[q] \in {"cancel_requested", "cancelled"}

LEMMA CancelStep ==
    ASSUME IInv, [Next]_vars, NEW q \in Run PROVE StaysCancelled(q)
<1> USE DEF IInv, TypeOK, SlotMatchesRecord, SweepIsQueue, StaysCancelled
<1> USE DEF Queued, Known, Terminal, ControlLocked, Write, records, port, schedule
<1> USE DEF Status, RunningStatus, TerminalStatus
<1>1. ASSUME NEW r \in sweep, StartRun(r) PROVE StaysCancelled(q)
  BY <1>1 DEF StartRun
<1>2. ASSUME NEW r \in sweep, FailUnservable(r) PROVE StaysCancelled(q)
  BY <1>2 DEF FailUnservable
<1>3. ASSUME UNCHANGED <<records, port, worker, offered>> PROVE StaysCancelled(q)
  BY <1>3
<1>4. ASSUME StartQueuedRuns PROVE StaysCancelled(q)
  BY <1>4 DEF StartQueuedRuns
<1>5. ASSUME NEW r \in Run, AdmitHandoff(r) \/ Dispatch(r) PROVE StaysCancelled(q)
  BY <1>5 DEF AdmitHandoff, Dispatch, AdmitRecord
<1>6. ASSUME NEW r \in Run, CancelWaiting(r) PROVE StaysCancelled(q)
  BY <1>6 DEF CancelWaiting
<1>7. ASSUME NEW r \in Run, CancelActive(r) PROVE StaysCancelled(q)
  BY <1>7 DEF CancelActive, Unpark
<1>8. ASSUME NEW r \in Run, Pause(r) PROVE StaysCancelled(q)
  BY <1>8 DEF Pause, PauseRecord
<1>9. ASSUME NEW r \in Run, ResumeActive(r) \/ ResumeWaiting(r) PROVE StaysCancelled(q)
  BY <1>9 DEF ResumeActive, ResumeWaiting, Unpark
<1>10. ASSUME NEW r \in Run, Defer(r) PROVE StaysCancelled(q)
  BY <1>10 DEF Defer, Unpark
<1>11. ASSUME NEW r \in Run, SendInput(r) PROVE StaysCancelled(q)
  BY <1>11 DEF SendInput, EnqueueInput, Unpark
<1>12. ASSUME NEW r \in Run, Interrupt(r) PROVE StaysCancelled(q)
  BY <1>12 DEF Interrupt, EnqueueInput, Unpark, PauseRecord
<1>13. ASSUME NEW r \in Run, NEW s \in RunningStatus, Heartbeat(r, s) PROVE StaysCancelled(q)
  BY <1>13 DEF Heartbeat
<1>14. ASSUME NEW r \in Run, ReportEscalation(r) PROVE StaysCancelled(q)
  BY <1>14 DEF ReportEscalation
<1>15. ASSUME NEW r \in Run, DrainInput(r) \/ WaitForInput(r) \/ WaitUntilResumed(r) PROVE StaysCancelled(q)
  BY <1>15 DEF DrainInput, WaitForInput, WaitUntilResumed
<1>16. ASSUME NEW r \in Run, NEW outcome \in WorkerOutcome, WorkerReturns(r, outcome) PROVE StaysCancelled(q)
  BY <1>16 DEF WorkerReturns, WorkerVerdict
<1>17. ASSUME UNCHANGED vars PROVE StaysCancelled(q)
  BY <1>17 DEF vars
<1>18. QED
  BY StepCases, <1>1, <1>2, <1>3, <1>4, <1>5, <1>6, <1>7, <1>8, <1>9,
     <1>10, <1>11, <1>12, <1>13, <1>14, <1>15, <1>16, <1>17

\* After a cancellation request no step of host or worker leads anywhere but to
\* "cancelled".
THEOREM CancellationWins == Spec => CancelWins
<1>1. IInv /\ [Next]_vars => [\A r \in Run : StaysCancelled(r)]_vars
  BY CancelStep
<1>2. Spec => [][\A r \in Run : StaysCancelled(r)]_vars
  BY <1>1, Inductive, PTL DEF Spec
<1>3. QED BY <1>2 DEF CancelWins, StaysCancelled

-----------------------------------------------------------------------------
(* Inputs reach their worker once and in order.  Strengthened with a bound: *)
(* no input that exists has an id beyond the counter.                       *)

Ids == 1 .. MaxInputs

Stream(r) == delivered[r] \o inputs[r]

InputsIssued ==
    \A r \in Run : Increasing(Stream(r)) /\ \A i \in 1 .. Len(Stream(r)) : Stream(r)[i] <= nextInput

LEMMA IncreasingAppend ==
    ASSUME NEW s \in Seq(Ids), NEW n \in Nat, Increasing(s), \A i \in 1 .. Len(s) : s[i] <= n
    PROVE  /\ Increasing(Append(s, n + 1))
           /\ \A i \in 1 .. Len(Append(s, n + 1)) : Append(s, n + 1)[i] <= n + 1
<1>1. /\ Len(Append(s, n + 1)) = Len(s) + 1
      /\ \A i \in 1 .. Len(s) : Append(s, n + 1)[i] = s[i] /\ s[i] \in Ids
      /\ Append(s, n + 1)[Len(s) + 1] = n + 1
  OBVIOUS
<1>2. QED BY <1>1 DEF Increasing, Ids

LEMMA IncreasingPrefix ==
    ASSUME NEW s \in Seq(Ids), NEW t \in Seq(Ids), NEW n \in Nat,
           Increasing(s \o t), \A i \in 1 .. Len(s \o t) : (s \o t)[i] <= n
    PROVE  /\ Increasing(s \o <<>>)
           /\ \A i \in 1 .. Len(s \o <<>>) : (s \o <<>>)[i] <= n
<1>1. /\ s \o <<>> = s
      /\ Len(s \o t) = Len(s) + Len(t) /\ Len(s) \in Nat /\ Len(t) \in Nat
      /\ \A i \in 1 .. Len(s) : (s \o t)[i] = s[i]
  OBVIOUS
<1>2. QED BY <1>1 DEF Increasing

LEMMA MoveHead ==
    ASSUME NEW s \in Seq(Ids), NEW t \in Seq(Ids), t # <<>>
    PROVE  Append(s, Head(t)) \o Tail(t) = s \o t
OBVIOUS

LEMMA InputsInit == Init => InputsIssued
BY DEF Init, InputsIssued, Stream, Increasing

LEMMA InputsStep == IInv /\ InputsIssued /\ [Next]_vars => InputsIssued'
<1> SUFFICES ASSUME IInv, InputsIssued, [Next]_vars, NEW q \in Run
             PROVE  /\ Increasing(Stream(q)')
                    /\ \A i \in 1 .. Len(Stream(q)') : Stream(q)'[i] <= nextInput'
    BY DEF InputsIssued
<1> DEFINE Fine == /\ Increasing(Stream(q)')
                   /\ \A i \in 1 .. Len(Stream(q)') : Stream(q)'[i] <= nextInput'
<1>1. /\ delivered[q] \in Seq(Ids) /\ inputs[q] \in Seq(Ids) /\ nextInput \in Nat
      /\ delivered \in [Run -> Seq(Ids)] /\ inputs \in [Run -> Seq(Ids)]
  BY DEF IInv, TypeOK, Ids
<1>2. /\ Increasing(Stream(q))
      /\ \A i \in 1 .. Len(Stream(q)) : Stream(q)[i] <= nextInput
  BY DEF InputsIssued
<1>3. ASSUME Stream(q)' = Stream(q), nextInput' = nextInput PROVE Fine
  BY <1>2, <1>3
<1>4. ASSUME UNCHANGED port PROVE Fine
  BY <1>3, <1>4 DEF port, Stream
<1>5. ASSUME NEW r \in Run, ClosePort(r) PROVE Fine
  <2>1. CASE r = q
    <3>1. Stream(q)' = delivered[q] \o <<>> /\ nextInput' = nextInput
      BY <1>1, <1>5, <2>1 DEF ClosePort, Stream
    <3>2. QED BY <1>1, <1>2, <3>1, IncreasingPrefix DEF Stream
  <2>2. CASE r # q
    BY <1>1, <1>3, <1>5, <2>2 DEF ClosePort, Stream
  <2>3. QED BY <2>1, <2>2
<1>6. ASSUME NEW r \in Run, EnqueueInput(r) PROVE Fine
  <2>1. nextInput' = nextInput + 1
    BY <1>6 DEF EnqueueInput
  <2>2. CASE r = q
    <3>1. Stream(q)' = Append(Stream(q), nextInput + 1)
      <4>1. CASE worker[q] = "awaitingInput"
        <5>1. inputs[q] = <<>> /\ inputs' = inputs
          BY <1>6, <2>2, <4>1 DEF EnqueueInput, IInv, NoStrandedWorker
        <5>2. delivered'[q] = Append(delivered[q], nextInput + 1)
          BY <1>1, <1>6, <2>1, <2>2, <4>1 DEF EnqueueInput
        <5>3. QED BY <1>1, <5>1, <5>2 DEF Stream
      <4>2. CASE worker[q] # "awaitingInput"
        <5>1. delivered' = delivered /\ inputs'[q] = Append(inputs[q], nextInput + 1)
          BY <1>1, <1>6, <2>1, <2>2, <4>2 DEF EnqueueInput
        <5>2. QED BY <1>1, <5>1 DEF Stream
      <4>3. QED BY <4>1, <4>2
    <3>2. Stream(q) \in Seq(Ids)
      BY <1>1 DEF Stream
    <3>3. QED BY <1>1, <1>2, <2>1, <3>1, <3>2, IncreasingAppend
  <2>3. CASE r # q
    <3>1. Stream(q)' = Stream(q)
      BY <1>1, <1>6, <2>3 DEF EnqueueInput, Stream
    <3>2. Stream(q) \in Seq(Ids)
      BY <1>1 DEF Stream
    <3>3. QED BY <1>1, <1>2, <2>1, <3>1, <3>2 DEF Ids
  <2>4. QED BY <2>2, <2>3
<1>7. ASSUME NEW r \in Run, DrainInput(r) PROVE Fine
  <2>1. CASE r = q
    <3>1. Stream(q)' = (delivered[q] \o inputs[q]) \o <<>> /\ nextInput' = nextInput
      BY <1>1, <1>7, <2>1 DEF DrainInput, Stream
    <3>2. (delivered[q] \o inputs[q]) \o <<>> = Stream(q)
      BY <1>1 DEF Stream
    <3>3. QED BY <1>3, <3>1, <3>2
  <2>2. CASE r # q
    BY <1>1, <1>3, <1>7, <2>2 DEF DrainInput, Stream
  <2>3. QED BY <2>1, <2>2
<1>8. ASSUME NEW r \in Run, WaitForInput(r) PROVE Fine
  <2>1. CASE inputs[r] = <<>>
    BY <1>4, <1>8, <2>1 DEF WaitForInput
  <2>2. CASE inputs[r] # <<>> /\ r = q
    <3>1. /\ Stream(q)' = Append(delivered[q], Head(inputs[q])) \o Tail(inputs[q])
          /\ nextInput' = nextInput
      BY <1>1, <1>8, <2>2 DEF WaitForInput, Stream
    <3>2. QED BY <1>1, <1>3, <2>2, <3>1, MoveHead DEF Stream
  <2>3. CASE inputs[r] # <<>> /\ r # q
    BY <1>1, <1>3, <1>8, <2>3 DEF WaitForInput, Stream
  <2>4. QED BY <2>1, <2>2, <2>3
<1>9. ASSUME NEW r \in Run, \/ FailUnservable(r) \/ CancelWaiting(r) \/ CancelActive(r) \/ Defer(r)
                            \/ \E outcome \in WorkerOutcome : WorkerReturns(r, outcome)
      PROVE  Fine
  BY <1>5, <1>9 DEF FailUnservable, CancelWaiting, CancelActive, Defer, WorkerReturns
<1>10. ASSUME NEW r \in Run, SendInput(r) \/ Interrupt(r) PROVE Fine
  BY <1>6, <1>10 DEF SendInput, Interrupt
<1>11. ASSUME NEW r \in Run, \/ StartRun(r) \/ AdmitHandoff(r) \/ Dispatch(r) \/ Pause(r)
                             \/ ResumeActive(r) \/ ResumeWaiting(r)
       PROVE  Fine
  BY <1>4, <1>11 DEF StartRun, AdmitHandoff, Dispatch, Pause, ResumeActive, ResumeWaiting
<1>12. ASSUME NEW r \in Run, \/ ReportEscalation(r) \/ WaitUntilResumed(r)
                             \/ \E s \in RunningStatus : Heartbeat(r, s)
       PROVE  Fine
  BY <1>4, <1>12 DEF ReportEscalation, WaitUntilResumed, Heartbeat
<1>13. ASSUME StartQueuedRuns \/ UNCHANGED vars \/ UNCHANGED port PROVE Fine
  BY <1>4, <1>13 DEF StartQueuedRuns, vars
<1>14. \A r \in sweep : r \in Run
  BY DEF IInv, TypeOK
<1> HIDE DEF Fine
<1>15. Fine
  BY StepCases, <1>7, <1>8, <1>9, <1>10, <1>11, <1>12, <1>13, <1>14
<1>16. QED BY <1>15 DEF Fine

\* A worker receives each input at most once and in sending order, whichever
\* way it reads them and however input, pause and cancel interleave.
THEOREM InputsArriveInOrder == Spec => []InputsInOrder
<1>1. InputsIssued => InputsInOrder
  BY DEF InputsIssued, InputsInOrder, Stream
<1>2. QED BY <1>1, InputsInit, InputsStep, Inductive, PTL DEF Spec

-----------------------------------------------------------------------------
(* The supervisor implements ChildRunLifecycle. *)

LEMMA PhaseTable ==
    ASSUME IInv, NEW r \in Run
    PROVE  /\ PhaseOf(r) = "absent" <=> status[r] = "none"
           /\ PhaseOf(r) = "stopping" <=> status[r] = "cancel_requested"
           /\ Terminal(r) => PhaseOf(r) = status[r]
           /\ PhaseOf(r) = "waiting" <=> Known(r) /\ ~ControlLocked(r) /\ r \notin activeRuns
           /\ PhaseOf(r) = "running" <=> r \in activeRuns /\ ~ControlLocked(r)
BY DEF PhaseOf, IInv, TypeOK, SlotMatchesRecord, Known, Terminal, ControlLocked, Status,
       RunningStatus, TerminalStatus

LEMMA HoldingIsActive ==
    ASSUME IInv PROVE Lifecycle!Holding = activeRuns
<1>1. ASSUME NEW r \in Run
      PROVE  PhaseOf(r) \in {"running", "stopping"} <=> r \in activeRuns
  BY <1>1, PhaseTable DEF IInv, SlotMatchesRecord, ControlLocked, Terminal, RunningStatus,
                          TerminalStatus
<1>2. QED BY <1>1 DEF Lifecycle!Holding, LifecyclePhase, IInv, TypeOK

LEMMA OnePhaseChanges ==
    ASSUME NEW r \in Run,
           \A q \in Run \ {r} : /\ status'[q] = status[q]
                                /\ q \in activeRuns' <=> q \in activeRuns
    PROVE  LifecyclePhase' = [LifecyclePhase EXCEPT ![r] = PhaseOf(r)']
<1>1. ASSUME NEW q \in Run \ {r} PROVE PhaseOf(q)' = PhaseOf(q)
  BY <1>1 DEF PhaseOf, Terminal
<1>2. QED BY <1>1 DEF LifecyclePhase

LEMMA SameCardinality ==
    ASSUME NEW S PROVE Lifecycle!Cardinality(S) = Cardinality(S)
BY DEF Cardinality, Lifecycle!Cardinality

LEMMA LifecycleInit == Init => Lifecycle!Init
<1> SUFFICES ASSUME Init PROVE Lifecycle!Init
    OBVIOUS
<1>1. \A r \in Run : PhaseOf(r) = "absent"
  BY DEF Init, PhaseOf, Terminal, TerminalStatus
<1>2. LifecyclePhase = [r \in Run |-> "absent"]
  BY <1>1 DEF LifecyclePhase
<1>3. completion = [r \in Run |-> "pending"]
  BY DEF Init
<1>4. QED BY <1>2, <1>3 DEF Lifecycle!Init

Abstracted == [Lifecycle!Next]_(Lifecycle!vars)

\* The steps that matter to ChildRunLifecycle touch one run.
Touches(r) ==
    \A q \in Run \ {r} : /\ status'[q] = status[q]
                         /\ q \in activeRuns' <=> q \in activeRuns

LEMMA NothingChanges ==
    ASSUME status' = status, activeRuns' = activeRuns, completion' = completion
    PROVE  Abstracted
<1>1. LifecyclePhase' = LifecyclePhase
  BY DEF LifecyclePhase, PhaseOf, Terminal
<1>2. QED BY <1>1 DEF Abstracted, Lifecycle!vars

LEMMA PhaseKept ==
    ASSUME NEW r \in Run, Touches(r), PhaseOf(r)' = PhaseOf(r), completion' = completion
    PROVE  Abstracted
<1>1. LifecyclePhase' = LifecyclePhase
  BY OnePhaseChanges DEF LifecyclePhase, Touches
<1>2. QED BY <1>1 DEF Abstracted, Lifecycle!vars

LEMMA Settled ==
    ASSUME IInv, NEW r \in Run, Touches(r),
           NEW outcome \in Lifecycle!MayEnd(PhaseOf(r)),
           status' = [status EXCEPT ![r] = outcome],
           completion' = [completion EXCEPT ![r] = IF @ = "pending" THEN outcome ELSE @]
    PROVE  Abstracted
<1>1. outcome \in TerminalStatus /\ PhaseOf(r) \in {"waiting", "running", "stopping"}
  BY DEF Lifecycle!MayEnd, TerminalStatus
<1>2. PhaseOf(r)' = outcome
  BY <1>1 DEF PhaseOf, Terminal, TerminalStatus, IInv, TypeOK
<1>3. ~Terminal(r) /\ completion[r] = "pending"
  BY <1>1, PhaseTable DEF IInv, CompletionMatchesRecord, Terminal, TerminalStatus
<1>4. completion' = [completion EXCEPT ![r] = outcome]
  BY <1>3 DEF IInv, TypeOK
<1>5. LifecyclePhase' = [LifecyclePhase EXCEPT ![r] = outcome]
  BY <1>2, OnePhaseChanges DEF Touches
<1>6. LifecyclePhase[r] = PhaseOf(r)
  BY DEF LifecyclePhase
<1>7. Lifecycle!Settle(r)
  BY <1>4, <1>5, <1>6 DEF Lifecycle!Settle
<1>8. QED BY <1>7 DEF Abstracted, Lifecycle!Next

LEMMA LifecycleStep == IInv /\ IInv' /\ [Next]_vars => Abstracted
<1> SUFFICES ASSUME IInv, IInv', [Next]_vars PROVE Abstracted
    OBVIOUS
<1> USE DEF records, Write
<1>1. ASSUME NEW r \in Run, StartRun(r), Known(r), status[r] = "queued",
             ~(Cardinality(activeRuns) >= MaxActive)
      PROVE  Abstracted
  <2>1. PhaseOf(r) = "waiting" /\ PhaseOf(r)' = "running" /\ Touches(r)
    BY <1>1 DEF StartRun, PhaseOf, Terminal, TerminalStatus, IInv, TypeOK, Touches
  <2>2. LifecyclePhase' = [LifecyclePhase EXCEPT ![r] = "running"] /\ LifecyclePhase[r] = "waiting"
    BY <2>1, OnePhaseChanges DEF Touches, LifecyclePhase
  <2>3. Cardinality(Lifecycle!Holding) < MaxActive
    <3>1. activeRuns \subseteq Run
      BY DEF IInv, TypeOK
    <3>2. Cardinality(activeRuns) \in Nat
      BY <3>1, FS_Subset, FS_CardinalityType
    <3>3. QED BY <1>1, <3>2, HoldingIsActive
  <2>4. completion' = completion
    BY <1>1 DEF StartRun
  <2>5. Lifecycle!Start(r)
    BY <2>2, <2>3, <2>4, SameCardinality DEF Lifecycle!Start
  <2>6. QED BY <2>5 DEF Abstracted, Lifecycle!Next
<1>2. ASSUME NEW r \in Run, FailUnservable(r), status[r] = "queued" PROVE Abstracted
  <2>1. PhaseOf(r) = "waiting" /\ Touches(r)
    BY <1>2 DEF FailUnservable, PhaseOf, Terminal, TerminalStatus, IInv, TypeOK, Touches
  <2>2. "failed" \in Lifecycle!MayEnd(PhaseOf(r))
    BY <2>1 DEF Lifecycle!MayEnd
  <2>3. QED BY <1>2, <2>1, <2>2, Settled DEF FailUnservable, ResolveCompletion
<1>3. ASSUME NEW r \in Run, AdmitRecord(r), UNCHANGED <<activeRuns, completion>> PROVE Abstracted
  <2>1. PhaseOf(r) = "absent" /\ PhaseOf(r)' = "waiting" /\ Touches(r)
    BY <1>3 DEF AdmitRecord, Known, PhaseOf, Terminal, TerminalStatus, IInv, TypeOK, Touches
  <2>2. LifecyclePhase' = [LifecyclePhase EXCEPT ![r] = "waiting"] /\ LifecyclePhase[r] = "absent"
    BY <2>1, OnePhaseChanges DEF Touches, LifecyclePhase
  <2>3. Lifecycle!Admit(r)
    BY <1>3, <2>2 DEF Lifecycle!Admit
  <2>4. QED BY <2>3 DEF Abstracted, Lifecycle!Next
<1>4. ASSUME NEW r \in Run, CancelWaiting(r) PROVE Abstracted
  <2>1. PhaseOf(r) = "waiting" /\ Touches(r)
    <3>1. Known(r) /\ ~Terminal(r) /\ r \notin activeRuns
      BY <1>4 DEF CancelWaiting
    <3>2. status[r] # "cancel_requested"
      BY <3>1 DEF IInv, SlotMatchesRecord, TerminalStatus
    <3>3. PhaseOf(r) = "waiting"
      BY <3>1, <3>2, PhaseTable DEF ControlLocked
    <3>4. /\ status' = [status EXCEPT ![r] = "cancelled"]
          /\ activeRuns' = activeRuns
      BY <1>4 DEF CancelWaiting
    <3>5. Touches(r)
      BY <3>4 DEF IInv, TypeOK, Touches
    <3>6. QED BY <3>3, <3>5
  <2>2. "cancelled" \in Lifecycle!MayEnd(PhaseOf(r))
    BY <2>1 DEF Lifecycle!MayEnd
  <2>3. QED BY <1>4, <2>1, <2>2, Settled DEF CancelWaiting, ResolveCompletion
<1>5. ASSUME NEW r \in Run, CancelActive(r) PROVE Abstracted
  <2>1. PhaseOf(r)' = "stopping" /\ Touches(r)
    BY <1>5 DEF CancelActive, PhaseOf, Terminal, TerminalStatus, IInv, TypeOK, Touches
  <2>2. CASE status[r] = "cancel_requested"
    BY <1>5, <2>1, <2>2, PhaseTable, PhaseKept DEF CancelActive
  <2>3. CASE status[r] # "cancel_requested"
    <3>1. PhaseOf(r) = "running"
      BY <1>5, <2>3, PhaseTable DEF CancelActive, ControlLocked
    <3>2. /\ LifecyclePhase' = [LifecyclePhase EXCEPT ![r] = "stopping"]
          /\ LifecyclePhase[r] = "running"
      BY <2>1, <3>1, OnePhaseChanges DEF Touches, LifecyclePhase
    <3>3. Lifecycle!AskToStop(r)
      BY <1>5, <3>2 DEF CancelActive, Lifecycle!AskToStop
    <3>4. QED BY <3>3 DEF Abstracted, Lifecycle!Next
  <2>4. QED BY <2>2, <2>3
<1>6. ASSUME NEW r \in Run, \/ PauseRecord(r) \/ ResumeActive(r) \/ ResumeWaiting(r)
                            \/ ReportEscalation(r)
                            \/ \E s \in RunningStatus : Heartbeat(r, s)
      PROVE  Abstracted
  <2>1. /\ Touches(r) /\ activeRuns' = activeRuns /\ completion' = completion
        /\ Known(r) /\ ~ControlLocked(r)
        /\ \/ status' = status
           \/ status' = [status EXCEPT ![r] = "blocked"]
           \/ r \in activeRuns /\ \E s \in RunningStatus : status' = [status EXCEPT ![r] = s]
           \/ r \notin activeRuns /\ status' = [status EXCEPT ![r] = "queued"]
    <3>1. CASE PauseRecord(r)
      BY <3>1 DEF PauseRecord, Touches, IInv, TypeOK
    <3>2. CASE ResumeActive(r) \/ \E s \in RunningStatus : Heartbeat(r, s)
      BY <3>2 DEF ResumeActive, Heartbeat, Touches, IInv, TypeOK, SlotMatchesRecord, Known,
                  RunningStatus
    <3>3. CASE ResumeWaiting(r)
      BY <3>3 DEF ResumeWaiting, Touches, IInv, TypeOK
    <3>4. CASE ReportEscalation(r)
      <4>1. Known(r)
        BY <3>4 DEF ReportEscalation, IInv, SlotMatchesRecord, Known, Executing, RunningStatus
      <4>2. /\ activeRuns' = activeRuns /\ completion' = completion /\ ~ControlLocked(r)
            /\ status' = status \/ status' = [status EXCEPT ![r] = "blocked"]
        BY <3>4 DEF ReportEscalation
      <4>3. Touches(r)
        BY <4>2 DEF Touches, IInv, TypeOK
      <4>4. QED BY <4>1, <4>2, <4>3
    <3>5. QED BY <1>6, <3>1, <3>2, <3>3, <3>4
  <2>2. PhaseOf(r)' = PhaseOf(r)
    <3>1. CASE r \in activeRuns
      BY <2>1, <3>1 DEF PhaseOf, IInv, TypeOK, SlotMatchesRecord, RunningStatus, ControlLocked,
                        Terminal, TerminalStatus
    <3>2. CASE r \notin activeRuns
      BY <2>1, <3>2 DEF PhaseOf, IInv, TypeOK, SlotMatchesRecord, Known, ControlLocked,
                        Terminal, TerminalStatus
    <3>3. QED BY <3>1, <3>2
  <2>3. QED BY <2>1, <2>2, PhaseKept
<1>7. ASSUME NEW r \in Run, Defer(r) PROVE Abstracted
  <2>1. PhaseOf(r) \in {"waiting", "running"} /\ Touches(r)
    BY <1>7, PhaseTable DEF Defer, IInv, TypeOK, Touches
  <2>2. "deferred" \in Lifecycle!MayEnd(PhaseOf(r))
    BY <2>1 DEF Lifecycle!MayEnd
  <2>3. QED BY <1>7, <2>1, <2>2, Settled DEF Defer, ResolveCompletion
<1>8. ASSUME NEW r \in Run, NEW outcome \in WorkerOutcome, WorkerReturns(r, outcome)
      PROVE  Abstracted
  <2> DEFINE verdict == WorkerVerdict(r, outcome)
  <2>1. /\ Touches(r) /\ Executing(r)
        /\ status' = [status EXCEPT ![r] = verdict]
        /\ completion' = [completion EXCEPT ![r] = IF @ = "pending" THEN verdict ELSE @]
    BY <1>8 DEF WorkerReturns, ResolveCompletion, Touches, IInv, TypeOK, Executing
  <2>2. CASE Terminal(r)
    <3>1. verdict = status[r] /\ completion[r] = status[r] /\ status[r] # "pending"
      BY <2>2 DEF WorkerVerdict, IInv, CompletionMatchesRecord, Terminal, TerminalStatus
    <3>2. status' = status /\ completion' = completion
      BY <2>1, <3>1 DEF IInv, TypeOK
    <3>3. PhaseOf(r)' = PhaseOf(r)
      BY <2>2, <3>2 DEF PhaseOf, Terminal, TerminalStatus
    <3>4. QED BY <2>1, <3>2, <3>3, PhaseKept
  <2>3. CASE ~Terminal(r)
    <3>1. r \in activeRuns
      BY <2>1, <2>3 DEF IInv, SlotMatchesRecord, Terminal, TerminalStatus
    <3>2. CASE status[r] = "cancel_requested"
      <4>1. verdict = "cancelled" /\ PhaseOf(r) = "stopping"
        BY <2>3, <3>2, PhaseTable DEF WorkerVerdict
      <4>2. verdict \in Lifecycle!MayEnd(PhaseOf(r))
        BY <4>1 DEF Lifecycle!MayEnd
      <4>3. QED BY <2>1, <4>2, Settled
    <3>3. CASE status[r] # "cancel_requested"
      <4>1. r \notin aborted
        BY <2>3, <3>3 DEF IInv, AbortedIsLocked, ControlLocked
      <4>2. verdict = outcome /\ PhaseOf(r) = "running"
        BY <2>3, <3>1, <3>3, <4>1, PhaseTable DEF WorkerVerdict, ControlLocked
      <4>3. verdict \in Lifecycle!MayEnd(PhaseOf(r))
        BY <4>2 DEF Lifecycle!MayEnd, WorkerOutcome
      <4>4. QED BY <2>1, <4>3, Settled
    <3>4. QED BY <3>2, <3>3
  <2>4. QED BY <2>2, <2>3
<1>9. ASSUME \/ UNCHANGED <<records, port, worker, offered>> \/ StartQueuedRuns \/ UNCHANGED vars
      PROVE  Abstracted
  BY <1>9, NothingChanges DEF StartQueuedRuns, vars
<1>10. ASSUME NEW r \in Run,
              SendInput(r) \/ DrainInput(r) \/ WaitForInput(r) \/ WaitUntilResumed(r)
       PROVE  Abstracted
  BY <1>10, NothingChanges DEF SendInput, DrainInput, WaitForInput, WaitUntilResumed
<1>11. ASSUME NEW r \in Run, AdmitHandoff(r) \/ Dispatch(r) PROVE Abstracted
  BY <1>11, <1>3, NothingChanges DEF AdmitHandoff, Dispatch
<1>12. \A r \in sweep : r \in Run /\ status[r] = "queued" /\ Known(r)
  BY DEF IInv, SweepIsQueue, Queued, Known
<1> HIDE DEF records, Write
<1>13. QED
  BY StepCases, <1>1, <1>2, <1>4, <1>5, <1>6, <1>7, <1>8, <1>9, <1>10, <1>11, <1>12
     DEF Pause, Interrupt

\* The supervisor is an implementation of the life of a child run its users see.
THEOREM Implements == Spec => ImplementsLifecycle
<1>1. Spec => Lifecycle!Init /\ [][Abstracted]_vars
  BY LifecycleInit, LifecycleStep, Inductive, PTL DEF Spec
<1>2. QED BY <1>1, LifecycleInit, LifecycleStep, Inductive, PTL
          DEF ImplementsLifecycle, Lifecycle!Spec, Spec, Abstracted

=============================================================================
