------------------------- MODULE MCSupervisorRuntime -------------------------
(***************************************************************************)
(* Small instances of the supervisor.  Run ids are numbers because the     *)
(* order of startQueuedRuns matters, so no symmetry is used.               *)
(***************************************************************************)
EXTENDS SupervisorRuntime

MCRun == 1 .. 3

\* A run in the middle of the order that no worker can serve: the loop has to
\* fail it and go on to the next one.
MCUnservable == {2}

=============================================================================
