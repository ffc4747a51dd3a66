-------------------------- MODULE ChildRunLifecycle --------------------------
(***************************************************************************)
(* What the supervisor promises of a child run, and nothing of how: a run  *)
(* waits, runs under a limit, may be asked to stop, and settles once.  The *)
(* promise handed out at dispatch is resolved at that very moment.         *)
(***************************************************************************)
EXTENDS Integers, FiniteSets

CONSTANTS Run, MaxActive

VARIABLES
    phase,   \* where each run is in its life
    result   \* what its completion promise holds

vars == <<phase, result>>

Outcome == {"completed", "failed", "cancelled", "deferred"}
Phase   == {"absent", "waiting", "running", "stopping"} \cup Outcome

Holding == {r \in Run : phase[r] \in {"running", "stopping"}}

Init ==
    /\ phase = [r \in Run |-> "absent"]
    /\ result = [r \in Run |-> "pending"]

Admit(r) ==
    /\ phase[r] = "absent"
    /\ phase' = [phase EXCEPT ![r] = "waiting"]
    /\ UNCHANGED result

Start(r) ==
    /\ phase[r] = "waiting"
    /\ Cardinality(Holding) < MaxActive
    /\ phase' = [phase EXCEPT ![r] = "running"]
    /\ UNCHANGED result

AskToStop(r) ==
    /\ phase[r] = "running"
    /\ phase' = [phase EXCEPT ![r] = "stopping"]
    /\ UNCHANGED result

\* How each phase may end: a waiting run cannot complete, a running one is not
\* cancelled without having been asked, one asked to stop has no other outcome.
MayEnd(p) ==
    CASE p = "waiting"  -> {"failed", "cancelled", "deferred"}
      [] p = "running"  -> {"completed", "failed", "deferred"}
      [] p = "stopping" -> {"cancelled"}
      [] OTHER          -> {}

Settle(r) ==
    \E outcome \in MayEnd(phase[r]) :
        /\ phase' = [phase EXCEPT ![r] = outcome]
        /\ result' = [result EXCEPT ![r] = outcome]

Next == \E r \in Run : Admit(r) \/ Start(r) \/ AskToStop(r) \/ Settle(r)

Spec == Init /\ [][Next]_vars

=============================================================================
