--------------------------- MODULE RuntimeSurface ---------------------------
(***************************************************************************)
(* The reloaded capabilities at the REPL's turns                           *)
(* (packages/agent-core/src/repl.ts, config/hot-reload.ts and              *)
(* tools/registry.ts).                                                     *)
(*                                                                         *)
(* Before each turn syncRuntimeSurface compares the runtime that is there  *)
(* with the one the surface was built of.  If they differ it registers the *)
(* MCP servers that changed, unregisters those that are gone and builds a  *)
(* new surface, one await per server, while reloads go on.                 *)
(*                                                                         *)
(* HotReload has the reloads; the server processes are external and may    *)
(* disconnect or refuse at any time.                                       *)
(***************************************************************************)
EXTENDS HotReload

VARIABLES
    repl,      \* where the REPL is, and what its sync has captured and has left
    surface,   \* runtimeSurface: its key and the version it was built of
    signature, \* registeredMcpServerSignatures: by server, 0 when not there
    registry   \* MCPRegistry: the connection of each server

surfaceVars == <<repl, surface, signature, registry>>
allVars == <<vars, surfaceVars>>

NotThere == 0
NoKey == <<>>
NoConnection == [signature |-> NotThere, up |-> FALSE]

\* history: the servers that were down when the turn began to sync
SurfaceInit ==
    /\ repl = [at |-> "prompt", key |-> NoKey, version |-> 0, todo |-> {}, down |-> {}]
    /\ surface = [key |-> NoKey, version |-> 0]
    /\ signature = [s \in Servers |-> NotThere]
    /\ registry = [s \in Servers |-> NoConnection]

-----------------------------------------------------------------------------

\* Fault: the generation is taken to name the runtime.
KeyOfGeneration == <<generation>>

\* buildRuntimeSurfaceKey: the generation that is claimed, the identity of the runtime
\* that is there (and of its skills), and its servers.
RuntimeSurfaceKey == <<generation, lastSuccess, ServersOf[loaded]>>

Configured(version) == {s \in Servers : ServersOf[version][s] # NotThere}

Down == {s \in Configured(loaded) : signature[s] # NotThere /\ ~registry[s].up}

\* Fault: only servers that are configured are looked at.
ChangedThere == {s \in Configured(loaded) : signature[s] # ServersOf[loaded][s]}

Changed == {s \in Servers : signature[s] # ServersOf[loaded][s]}

\* syncRuntimeSurface up to its first await.
TurnBegins ==
    /\ repl.at = "prompt"
    /\ repl' = IF surface.key = RuntimeSurfaceKey
               THEN [repl EXCEPT !.at = "turn", !.version = loaded, !.down = Down]
               ELSE [at |-> "syncing", key |-> RuntimeSurfaceKey, version |-> loaded,
                     todo |-> Changed \cup Down, down |-> Down]
    /\ UNCHANGED <<vars, surface, signature, registry>>

Did(s) ==
    /\ repl.at = "syncing" /\ s \in repl.todo
    /\ repl' = [repl EXCEPT !.todo = @ \ {s}, !.down = @ \ {s}]
    /\ UNCHANGED <<vars, surface, signature>>

\* A changed or disconnected server is registered again; if that fails, what was
\* registered of it stays.
Register(s) ==
    /\ Did(s) /\ s \in Configured(repl.version)
    /\ \E connects \in BOOLEAN :
          registry' = IF connects
                      THEN [registry EXCEPT ![s] =
                               [signature |-> ServersOf[repl.version][s], up |-> TRUE]]
                      ELSE registry

\* A server that is gone goes after the others.
Unregister(s) ==
    /\ Did(s) /\ s \notin Configured(repl.version)
    /\ repl.todo \cap Configured(repl.version) = {}
    /\ registry' = [registry EXCEPT ![s] = NoConnection]

\* The rest of syncRuntimeSurface: the signatures of the configuration are recorded,
\* whether or not the servers came, whatever reconnect is pending is marked as applied,
\* and the surface is there.
SyncEnds ==
    /\ repl.at = "syncing" /\ repl.todo = {}
    /\ signature' = ServersOf[repl.version]
    /\ reconnect' = IF reconnect = "pending_repl_apply"
                    THEN "applied_at_repl_turn_boundary"
                    ELSE reconnect
    /\ surface' = [key |-> repl.key, version |-> repl.version]
    /\ repl' = [repl EXCEPT !.at = "turn"]
    /\ UNCHANGED <<disk, requests, generation, call, loaded, lastSuccess, lastFailure,
                   timer, registry>>

TurnEnds ==
    /\ repl.at = "turn"
    /\ repl' = [repl EXCEPT !.at = "prompt", !.down = {}]
    /\ UNCHANGED <<vars, surface, signature, registry>>

Disconnect(s) ==
    /\ registry[s].up
    /\ registry' = [registry EXCEPT ![s].up = FALSE]
    /\ UNCHANGED <<vars, repl, surface, signature>>

SurfaceNext ==
    \/ TurnBegins \/ SyncEnds \/ TurnEnds
    \/ \E s \in Servers : Register(s) \/ Unregister(s) \/ Disconnect(s)

Reloads == Next /\ UNCHANGED surfaceVars

SystemInit == Init /\ SurfaceInit

SystemSpec ==
    /\ SystemInit
    /\ [][Reloads \/ SurfaceNext]_allVars
    /\ WF_allVars(TimerFires /\ UNCHANGED surfaceVars)
    /\ \A g \in Generation : WF_allVars(Continue(g) /\ UNCHANGED surfaceVars)

-----------------------------------------------------------------------------

SurfaceKey == {NoKey} \cup (Generation \X Generation \X [Servers -> Nat])

\* Every variable has its type.
SurfaceTypeOK ==
    /\ TypeOK
    /\ repl \in [at : {"prompt", "syncing", "turn"}, key : SurfaceKey, version : Version,
                 todo : SUBSET Servers, down : SUBSET Servers]
    /\ surface \in [key : SurfaceKey, version : Version]
    /\ signature \in [Servers -> Nat]
    /\ registry \in [Servers -> [signature : Nat, up : BOOLEAN]]

\* A turn runs on the configuration that was the newest when it began, though the
\* generation in the key is claimed before the runtime changes and the early return
\* trusts the key.
TurnIsCurrent == repl.at = "turn" => surface.version = repl.version

\* In a turn no server has tools that its configuration does not name, whichever
\* registrations failed and in whatever order configurations came and went.
NoRemovedServerServes ==
    repl.at = "turn" =>
        \A s \in Servers :
            registry[s].signature # NotThere => s \in Configured(surface.version)

\* A change of the servers that awaits the REPL is not forgotten: the next turn will
\* sync, even where a sync under way during the reload has marked it as applied.
ReconnectIsDue ==
    \/ reconnect # "pending_repl_apply" /\ signature = ServersOf[loaded]
    \/ surface.key # RuntimeSurfaceKey

(* What makes these inductive. *)

Committed(g) == call[g].at \in {"activating", "done"}

SuccessIsLoaded == Committed(lastSuccess) /\ call[lastSuccess].read = loaded

\* The success in a key names the version, once and for all.
NamesVersion(key, version) ==
    key # NoKey =>
        key[2] \in Generation /\ Committed(key[2]) /\ call[key[2]].read = version

KeysNameVersions ==
    /\ NamesVersion(surface.key, surface.version)
    /\ repl.at = "syncing" => repl.key # NoKey /\ NamesVersion(repl.key, repl.version)
    /\ repl.at = "turn" => surface.key # NoKey

SignaturesOfSurface ==
    signature = IF surface.key = NoKey
                THEN [s \in Servers |-> NotThere]
                ELSE ServersOf[surface.version]

SyncedIsApplied ==
    surface.key # NoKey /\ surface.key[2] = lastSuccess => reconnect # "pending_repl_apply"

RegisteredAreNamed ==
    \A s \in Servers :
        registry[s].signature # NotThere =>
            IF repl.at = "syncing"
            THEN s \in Configured(repl.version) \cup repl.todo
            ELSE signature[s] # NotThere

SurfaceInv ==
    /\ IInv /\ SurfaceTypeOK
    /\ SuccessIsLoaded /\ KeysNameVersions /\ SignaturesOfSurface
    /\ SyncedIsApplied /\ RegisteredAreNamed /\ TurnIsCurrent

=============================================================================
