----------------------- MODULE BridgeSupervisorProofs -----------------------
(***************************************************************************)
(* Theorems about the native bridge's supervisor, for any number of starts *)
(* of the core, also without end.                                          *)
(***************************************************************************)
EXTENDS BridgeSupervisor, TLAPS

USE CoresAssumption

LEMMA TypeStep == TypeOK /\ [Next]_vars => TypeOK'
<1> SUFFICES ASSUME TypeOK, [Next]_vars PROVE TypeOK'
    OBVIOUS
<1> USE DEF TypeOK, Alive, Pipes, Nobody
<1>1. CASE StopCore \/ IsRunning \/ SpawnFails
  BY <1>1 DEF StopCore, IsRunning, SpawnFails
<1>2. ASSUME NEW c \in Cores, StartCore(c) \/ Exit(c) PROVE TypeOK'
  BY <1>2 DEF StartCore, Exit
<1>3. ASSUME NEW c \in Cores, NEW p \in Pipes,
             FindPort(c, p) \/ WritePort(c, p) \/ EndOfPipe(c, p)
      PROVE  TypeOK'
  BY <1>3 DEF FindPort, WritePort, EndOfPipe
<1>4. CASE UNCHANGED vars
  BY <1>4 DEF vars
<1>5. QED BY <1>1, <1>2, <1>3, <1>4 DEF Next

\* Every reachable state is well typed.
THEOREM TypeCorrect == Spec => []TypeOK
<1>1. Init => TypeOK
  BY DEF Init, TypeOK, Nobody, Pipes
<1>2. QED BY <1>1, TypeStep, PTL DEF Spec

LEMMA SupervisedStep ==
    TypeOK /\ NoUnsupervisedCore /\ [Next]_vars => NoUnsupervisedCore'
<1> SUFFICES ASSUME TypeOK, NoUnsupervisedCore, [Next]_vars,
                    NEW d \in Cores, core'[d] = "running"
             PROVE  bun' = d
    BY DEF NoUnsupervisedCore
<1> USE DEF TypeOK, NoUnsupervisedCore, Alive, Nobody
<1>1. CASE StopCore
  BY <1>1 DEF StopCore
<1>2. CASE IsRunning
  <2>1. core[d] = "running" /\ bun = d
    BY <1>2 DEF IsRunning
  <2>2. QED BY <1>2, <2>1 DEF IsRunning
<1>3. CASE SpawnFails
  BY <1>3 DEF SpawnFails
\* A start that goes on has found no child alive, so the new one is the only one.
<1>4. ASSUME NEW c \in Cores, StartCore(c) PROVE bun' = d
  <2>1. core[d] # "running"
    <3>1. core[d] = "running" => bun = d /\ d # Nobody
      OBVIOUS
    <3>2. QED BY <1>4, <3>1 DEF StartCore
  <2>2. QED BY <1>4, <2>1 DEF StartCore
<1>5. ASSUME NEW c \in Cores, Exit(c) PROVE bun' = d
  BY <1>5 DEF Exit
<1>6. ASSUME NEW c \in Cores, NEW p \in Pipes,
             FindPort(c, p) \/ WritePort(c, p) \/ EndOfPipe(c, p)
      PROVE  bun' = d
  BY <1>6 DEF FindPort, WritePort, EndOfPipe
<1>7. CASE UNCHANGED vars
  BY <1>7 DEF vars
<1>8. QED BY <1>1, <1>2, <1>3, <1>4, <1>5, <1>6, <1>7 DEF Next

\* No start, stop or status request, in whatever order and however children die,
\* leaves a child running that nobody supervises.
THEOREM CoresAreSupervised == Spec => []NoUnsupervisedCore
<1>1. Init => NoUnsupervisedCore
  BY DEF Init, NoUnsupervisedCore
<1>2. QED BY <1>1, TypeCorrect, SupervisedStep, PTL DEF Spec

=============================================================================
