-------------------------- MODULE BridgeSupervisor --------------------------
(***************************************************************************)
(* The native bridge's supervisor of the agent core                        *)
(* (crates/quilin-bridge/src/supervisor.rs and lib.rs).                    *)
(*                                                                         *)
(* The app's threads start, stop and ask for one child process under the   *)
(* lock of bun_process.  Two threads of each child, which nobody joins,    *)
(* read its two pipes and write the port they find into dashboard_port,    *)
(* under that lock only.  An operation of the app is one step: between its *)
(* own steps only readers run, which touch nothing but the port, and they  *)
(* may as well run before it or after it.  What cannot be asked for its    *)
(* status has ended, as the code takes it; kill, wait and the spawning of  *)
(* threads succeed.                                                        *)
(***************************************************************************)
EXTENDS Naturals

CONSTANT Cores  \* bound: the processes that are started, in their order

ASSUME CoresAssumption == Cores \subseteq Nat \ {0}

VARIABLES
    bun,    \* bun_process: the child that is supervised
    port,   \* dashboard_port: the child whose port it is
    core,   \* each child process
    reader  \* the threads of each child, one per pipe

vars == <<bun, port, core, reader>>

Nobody == 0
Pipes == {"stdout", "stderr"}

Init ==
    /\ bun = Nobody
    /\ port = Nobody
    /\ core = [c \in Cores |-> "none"]
    /\ reader = [c \in Cores |-> [p \in Pipes |-> "none"]]

Alive(c) == c # Nobody /\ core[c] = "running"

\* Fault: nobody asks whether the child that is supervised still runs.
StartAnother(c) ==
    /\ core[c] = "none" /\ \A d \in Cores : d < c => core[d] # "none"
    /\ bun' = c
    /\ port' = Nobody
    /\ core' = [core EXCEPT ![c] = "running"]
    /\ reader' = [reader EXCEPT ![c] = [p \in Pipes |-> "reading"]]

\* start_agent: a child that still runs stays, otherwise the port is reset and
\* the next child is spawned with its readers.
StartCore(c) ==
    /\ core[c] = "none" /\ \A d \in Cores : d < c => core[d] # "none"
    /\ ~Alive(bun)
    /\ bun' = c
    /\ port' = Nobody
    /\ core' = [core EXCEPT ![c] = "running"]
    /\ reader' = [reader EXCEPT ![c] = [p \in Pipes |-> "reading"]]

\* bun cannot be spawned: the port has been reset, what was supervised stays.
SpawnFails ==
    /\ ~Alive(bun)
    /\ port' = Nobody
    /\ UNCHANGED <<bun, core, reader>>

\* stop_agent kills the child and waits for it, then clears the port.
StopCore ==
    /\ bun' = Nobody
    /\ port' = Nobody
    /\ core' = [c \in Cores |-> IF c = bun THEN "ended" ELSE core[c]]
    /\ UNCHANGED reader

\* get_status forgets a child that has exited.
IsRunning ==
    /\ bun # Nobody /\ ~Alive(bun)
    /\ bun' = Nobody
    /\ UNCHANGED <<port, core, reader>>

\* The child exits by itself.
Exit(c) ==
    /\ Alive(c)
    /\ core' = [core EXCEPT ![c] = "ended"]
    /\ UNCHANGED <<bun, port, reader>>

\* A reader finds the dashboard's URL in a line the child has printed; the pipe keeps
\* the lines of a child that ended.
FindPort(c, p) ==
    /\ reader[c][p] = "reading"
    /\ reader' = [reader EXCEPT ![c][p] = "found"]
    /\ UNCHANGED <<bun, port, core>>

\* The reader takes the port's lock and writes, whoever is supervised by then.
WritePort(c, p) ==
    /\ reader[c][p] = "found"
    /\ port' = c
    /\ reader' = [reader EXCEPT ![c][p] = "reading"]
    /\ UNCHANGED <<bun, core>>

\* The pipe of a child that ended is at its end.
EndOfPipe(c, p) ==
    /\ reader[c][p] = "reading" /\ core[c] = "ended"
    /\ reader' = [reader EXCEPT ![c][p] = "none"]
    /\ UNCHANGED <<bun, port, core>>

Next ==
    \/ StopCore \/ IsRunning \/ SpawnFails
    \/ \E c \in Cores : StartCore(c) \/ Exit(c)
    \/ \E c \in Cores, p \in Pipes : FindPort(c, p) \/ WritePort(c, p) \/ EndOfPipe(c, p)

Spec == Init /\ [][Next]_vars

-----------------------------------------------------------------------------

\* Every variable has its type.
TypeOK ==
    /\ bun \in Cores \cup {Nobody} /\ port \in Cores \cup {Nobody}
    /\ core \in [Cores -> {"none", "running", "ended"}]
    /\ reader \in [Cores -> [Pipes -> {"none", "reading", "found"}]]

\* No child runs that is not supervised: none is left behind by a start, a stop or a
\* look at one that has exited.
NoUnsupervisedCore == \A c \in Cores : core[c] = "running" => bun = c

=============================================================================
