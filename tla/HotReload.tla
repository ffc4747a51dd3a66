----------------------------- MODULE HotReload -----------------------------
(***************************************************************************)
(* Reloading the capabilities configuration while the REPL runs            *)
(* (packages/agent-core/src/config/hot-reload.ts).                         *)
(*                                                                         *)
(* Signals, webhooks, the user and a debounced file watcher all call       *)
(* reload(); the calls overlap.  Each claims a generation, reads the file, *)
(* and commits what it read unless a newer call has claimed one since.  A  *)
(* call that committed still has to activate the skills it loaded, and     *)
(* then rebuilds the file watchers.                                        *)
(*                                                                         *)
(* One action is the code between two awaits of one call.  The watcher is  *)
(* taken to notice a write at once, the best case for the code.            *)
(***************************************************************************)
EXTENDS Integers

CONSTANTS
    MaxVersion,  \* bound: how often the file is written
    MaxRequests, \* bound: reloads requested by signal, webhook or user
    Invalid,     \* versions of the file that do not parse
    Servers,     \* ids of MCP servers
    ServersOf    \* what each version says of each server, 0 when it is not there

ASSUME BoundAssumption == MaxVersion \in Nat /\ MaxRequests \in Nat
ASSUME InvalidAssumption == Invalid \subseteq 1 .. MaxVersion
ASSUME ServersAssumption == ServersOf \in [0 .. MaxVersion -> [Servers -> Nat]]

VARIABLES
    disk,        \* the version of the file on disk
    requests,    \* reloads requested so far, watcher's not counted
    generation,  \* generation
    call,        \* the reload() call of each generation
    loaded,      \* loaded and runtime: the version committed last
    lastSuccess, \* lastSuccess: its generation
    lastFailure, \* lastFailure: its generation, 0 when null
    reconnect,   \* mcpReconnect: what the status says of the servers' change
    timer        \* pendingReloadTimer is set

vars == <<disk, requests, generation, call, loaded, lastSuccess, lastFailure, reconnect,
          timer>>

Version    == 0 .. MaxVersion
\* Generation 1 is bootstrap's; every write starts at most one debounced reload.
Generation == 1 .. 1 + MaxRequests + MaxVersion

\* base: the runtime the call found; read: what it read; asked: history, the
\* version on disk when the reload was asked for.
Unclaimed == [at |-> "unclaimed", base |-> 0, read |-> 0, asked |-> 0]
Bootstrap == [at |-> "done", base |-> 0, read |-> 0, asked |-> 0]

\* After bootstrap, the file unchanged since it was read.
Init ==
    /\ disk = 0 /\ requests = 0
    /\ generation = 1
    /\ call = [g \in Generation |-> IF g = 1 THEN Bootstrap ELSE Unclaimed]
    /\ loaded = 0 /\ lastSuccess = 1 /\ lastFailure = 0
    /\ reconnect = "not_requested"
    /\ timer = FALSE

-----------------------------------------------------------------------------

\* scheduleReload: the user saves the file, the watcher's listener restarts the
\* debounce timer.
WriteConfig ==
    /\ disk < MaxVersion
    /\ disk' = disk + 1
    /\ timer' = TRUE
    /\ UNCHANGED <<requests, generation, call, loaded, lastSuccess, lastFailure, reconnect>>

\* reload up to its first await.
Claim ==
    /\ generation' = generation + 1
    /\ call' = [call EXCEPT ![generation'] =
                    [at |-> "loading", base |-> loaded, read |-> 0, asked |-> disk]]
    /\ UNCHANGED <<disk, loaded, lastSuccess, lastFailure, reconnect>>

Request ==
    /\ requests < MaxRequests
    /\ requests' = requests + 1
    /\ Claim
    /\ UNCHANGED timer

\* Fault: the timer's callback leaves the timer set.
TimerFiresAgain == timer /\ Claim /\ UNCHANGED <<timer, requests>>

TimerFires == timer /\ timer' = FALSE /\ Claim /\ UNCHANGED requests

\* readFile takes the content.
Read(g) ==
    /\ call[g].at = "loading"
    /\ call' = [call EXCEPT ![g].at = "read", ![g].read = disk]
    /\ UNCHANGED <<disk, requests, generation, loaded, lastSuccess, lastFailure, reconnect,
                   timer>>

\* Fault: a call commits whatever was claimed since.
AlwaysCurrent(g) == TRUE

\* Fault: a call also gives way to one that committed and is activating skills.
CurrentAndAlone(g) ==
    g = generation /\ \A h \in Generation : call[h].at # "activating"

Current(g) == g = generation

Resolved(g, at) == call[g].at = "read" /\ call' = [call EXCEPT ![g].at = at]

\* A newer call was made: whatever was read or thrown, report the last success.
GiveWay(g) ==
    /\ Resolved(g, "done")
    /\ ~Current(g)
    /\ UNCHANGED <<disk, requests, generation, loaded, lastSuccess, lastFailure, reconnect,
                   timer>>

\* Fault: the failure of a reload leaves no trace.
FailSilently(g) ==
    /\ Resolved(g, "done")
    /\ Current(g) /\ call[g].read \in Invalid
    /\ UNCHANGED <<disk, requests, generation, loaded, lastSuccess, lastFailure, reconnect,
                   timer>>

\* The load threw: keep the runtime and record the failure.
Fail(g) ==
    /\ Resolved(g, "done")
    /\ Current(g) /\ call[g].read \in Invalid
    /\ lastFailure' = g
    /\ UNCHANGED <<disk, requests, generation, loaded, lastSuccess, reconnect, timer>>

\* The atomic swap, up to the await in activateSkillsRuntime.
Commit(g) ==
    /\ Resolved(g, "activating")
    /\ Current(g) /\ call[g].read \notin Invalid
    /\ loaded' = call[g].read
    /\ lastSuccess' = g
    /\ reconnect' = IF ServersOf[call[g].read] = ServersOf[call[g].base]
                    THEN "unchanged"
                    ELSE "pending_repl_apply"
    /\ UNCHANGED <<disk, requests, generation, lastFailure, timer>>

\* rebuildConfigWatchers begins with stopWatching, which clears the timer.
FinishActivation(g) ==
    /\ call[g].at = "activating"
    /\ call' = [call EXCEPT ![g].at = "done"]
    /\ timer' = FALSE
    /\ UNCHANGED <<disk, requests, generation, loaded, lastSuccess, lastFailure, reconnect>>

Continue(g) == Read(g) \/ GiveWay(g) \/ Fail(g) \/ Commit(g) \/ FinishActivation(g)

Next ==
    \/ WriteConfig \/ Request \/ TimerFires
    \/ \E g \in Generation : Continue(g)

Spec == Init /\ [][Next]_vars

\* Timers fire and awaited reads and scans finish; nobody has to write or ask.
FairSpec ==
    /\ Spec
    /\ WF_vars(TimerFires)
    /\ \A g \in Generation : WF_vars(Continue(g))

-----------------------------------------------------------------------------

\* Every variable has its type.
TypeOK ==
    /\ disk \in Version /\ loaded \in Version /\ requests \in 0 .. MaxRequests
    /\ generation \in Generation /\ lastSuccess \in Generation
    /\ lastFailure \in Generation \cup {0}
    /\ reconnect \in {"not_requested", "unchanged", "pending_repl_apply",
                      "applied_at_repl_turn_boundary"}
    /\ call \in [Generation ->
                    [at : {"unclaimed", "loading", "read", "activating", "done"},
                     base : Version, read : Version, asked : Version]]
    /\ timer \in BOOLEAN

Pending(g) == call[g].at \in {"loading", "read"}

\* Of all the calls that overlap the newest one decides, and it leaves a record:
\* once it is over, its success or its failure is what the status shows.
NewestDecides == Pending(generation) \/ generation \in {lastSuccess, lastFailure}

\* The runtime a call compares its servers with, and whose watchers it stops, was
\* read before its awaits; it is still the running one if the call commits.
BaseIsStillRunning == Pending(generation) => call[generation].base = loaded

(* What makes these inductive. *)

\* Each claim beyond bootstrap's used a request or a write, one per timer that was set.
ClaimsAreCounted ==
    /\ generation <= 1 + requests + disk
    /\ timer => generation <= requests + disk

\* Only claimed generations have a call, and one that ended never goes on.
ClaimedInOrder == \A g \in Generation : g > generation => call[g] = Unclaimed

\* What the newest call has read is no older than what runs.
ReadsAreNewer ==
    /\ loaded <= disk
    /\ call[generation].at = "read" =>
          loaded <= call[generation].read /\ call[generation].read <= disk

IInv == TypeOK /\ ClaimsAreCounted /\ ClaimedInOrder /\ ReadsAreNewer /\ NewestDecides
        /\ BaseIsStillRunning

\* However calls overlap, an older file never replaces a newer one.
NeverBackwards == [][loaded' >= loaded]_vars

\* Whoever asks for a reload gets the file as it was then, or a newer one, from
\* this call or from the one it gave way to, unless that one failed.
RequestsAreServed ==
    \A g \in Generation :
        []<>(call[g].at # "unclaimed" => loaded >= call[g].asked \/ lastFailure >= g)

\* What the comment on reload promises: the system settles on the file on disk.
SettlesOnDisk == []<>(disk = MaxVersion => loaded = disk)

=============================================================================
