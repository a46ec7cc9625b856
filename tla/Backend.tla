------------------------------ MODULE Backend ------------------------------
(***************************************************************************)
(* The extension as the keeper of its backend: it spawns the core and the  *)
(* voice sidecar with the settings and secrets of that moment in their     *)
(* environment, connects to the core (DuplexRpc), and restarts both when   *)
(* what they were spawned with changes.                                    *)
(*                                                                         *)
(* A setting or secret is a version number.  Only one connection is        *)
(* tracked: what a killed core wrote and the old transport has not read    *)
(* yet is forgotten when a new core is spawned.                            *)
(***************************************************************************)
EXTENDS DuplexRpc

CONSTANTS
    MaxChanges,     \* bound on the changes of settings and secrets
    Complete        \* the versions that pass getVocodeSetupBlockReason

ASSUME ChangesAssumption == MaxChanges \in Nat /\ Complete \subseteq Nat

VARIABLES
    wanted,         \* the version the user has set
    phase,          \* where wireVocodeBackend is
    restarting,     \* restartInFlight
    watching,       \* the change listeners are registered
    timer,          \* daemonConfigRestartTimeout is set
    coreEnv,        \* the version the core was spawned with
    voiceEnv,       \* the version the sidecar was spawned with
    missed,         \* why the last change that came too late for a spawn began no restart
    failed          \* the last wiring failed

keeper == <<wanted, phase, restarting, watching, timer, coreEnv, voiceEnv, missed, failed>>
backendVars == <<vars, keeper>>

NoEnv == MaxChanges + 1

\* A change begins no restart: it comes in time when the core is still to be spawned,
\* or was spawned with it, and is lost on a core that was spawned before.
NoRestart(why) ==
    missed' = IF phase = "voice" /\ coreEnv # wanted' THEN why ELSE missed

\* Mutant: the processes are killed, but the client is not disposed of.
RestartUndisposed ==
    \/ /\ restarting
       /\ NoRestart("restarting")
       /\ UNCHANGED <<vars, phase, restarting, coreEnv, voiceEnv, failed>>
    \/ /\ ~restarting
       /\ disposed' = TRUE
       /\ alive' = FALSE /\ toCore' = << >>
       /\ phase' = "check" /\ restarting' = TRUE
       /\ coreEnv' = NoEnv /\ voiceEnv' = NoEnv
       /\ missed' = "none" /\ failed' = FALSE
       /\ UNCHANGED <<call, pending, answer, issued, hosting, exitSeen,
                      reader, handler, told, asked, awaited, toExt>>

\* restartVocode: nothing while a restart is in flight; otherwise the client is
\* disposed of and the processes are killed.
RestartVocode ==
    \/ /\ restarting
       /\ NoRestart("restarting")
       /\ UNCHANGED <<vars, phase, restarting, coreEnv, voiceEnv, failed>>
    \/ /\ ~restarting
       /\ disposed' = TRUE /\ RejectAll
       /\ alive' = FALSE /\ toCore' = << >>
       /\ phase' = "check" /\ restarting' = TRUE
       /\ coreEnv' = NoEnv /\ voiceEnv' = NoEnv
       /\ missed' = "none" /\ failed' = FALSE
       /\ UNCHANGED <<answer, issued, hosting, exitSeen,
                      reader, handler, told, asked, awaited, toExt>>

\* A secret changes: the listener restarts at once.
ChangeSecret ==
    /\ wanted < MaxChanges /\ wanted' = wanted + 1
    /\ IF watching THEN RestartVocode
       ELSE NoRestart("unwatched") /\ UNCHANGED <<vars, phase, restarting, coreEnv, voiceEnv, failed>>
    /\ UNCHANGED <<watching, timer>>

\* A setting changes: the listener (re)sets a timer.
ChangeSetting ==
    /\ wanted < MaxChanges /\ wanted' = wanted + 1
    /\ timer' = watching
    /\ IF watching THEN UNCHANGED missed ELSE NoRestart("unwatched")
    /\ UNCHANGED <<vars, phase, restarting, watching, coreEnv, voiceEnv, failed>>

TimerFires ==
    /\ timer /\ timer' = FALSE
    /\ UNCHANGED <<wanted, watching>>
    /\ RestartVocode

\* Mutant: restartInFlight is cleared only when something was spawned.
WiredInFlight ==
    /\ phase' = "idle" /\ watching' = TRUE
    /\ restarting' = (restarting /\ phase = "check")

\* wireVocodeBackend is over, in activate() or in restartVocode(): its caller
\* registers the listeners, or clears restartInFlight.
Wired ==
    /\ phase' = "idle" /\ restarting' = FALSE /\ watching' = TRUE

\* Mutant: an incomplete setup is waited for.
CheckSetupWaiting ==
    /\ phase = "check"
    /\ phase' = IF wanted \in Complete THEN "core" ELSE "check"
    /\ UNCHANGED <<vars, wanted, restarting, watching, timer, coreEnv, voiceEnv, missed, failed>>

\* getVocodeSetupBlockReason.
CheckSetup ==
    /\ phase = "check"
    /\ IF wanted \in Complete THEN phase' = "core" /\ UNCHANGED <<restarting, watching>>
       ELSE Wired
    /\ UNCHANGED <<vars, wanted, timer, coreEnv, voiceEnv, missed, failed>>

\* spawnDaemon: the environment is read and a process with new pipes is started.
SpawnCore ==
    /\ phase = "core" /\ phase' = "voice"
    /\ coreEnv' = wanted
    /\ alive' = TRUE /\ reader' = "reading" /\ asked' = << >> /\ awaited' = {}
    /\ toCore' = << >> /\ toExt' = << >> /\ hosting' = {}
    /\ handler' = [c \in Call |-> IF handler[c] \in {"running", "asking"} THEN "lost" ELSE handler[c]]
    /\ UNCHANGED <<call, answer, issued, pending, disposed, exitSeen, told,
                   wanted, restarting, watching, timer, voiceEnv, missed, failed>>

\* spawnVoiceSidecar, and then a transport for the core.  If the core has ended by
\* now, its exit event is over and is never seen.
SpawnVoice ==
    /\ phase = "voice" /\ Wired
    /\ voiceEnv' = wanted
    /\ disposed' = FALSE /\ exitSeen' = ~alive /\ issued' = << >> /\ pending' = {}
    /\ UNCHANGED <<call, answer, hosting, core, toCore, toExt,
                   wanted, timer, coreEnv, missed, failed>>

\* One of the two cannot be spawned.  (A core that was is left behind, without a
\* client; it is not tracked.)
SpawnFails ==
    /\ phase \in {"core", "voice"} /\ Wired
    /\ coreEnv' = NoEnv /\ failed' = TRUE
    /\ alive' = FALSE /\ toCore' = << >>
    /\ UNCHANGED <<extension, reader, handler, told, asked, awaited, toExt,
                   wanted, timer, voiceEnv, missed>>

Wiring == CheckSetup \/ SpawnCore \/ SpawnVoice \/ SpawnFails

\* The connection by itself.  (The client is disposed of by a restart only.)
Connection ==
    /\ \/ Extension \/ Core \/ Crash
       \/ \E c \in Call : MakeRefused(c) \/ \E long \in BOOLEAN : Make(c, long)
    /\ UNCHANGED keeper

\* Nothing has to be done.
Quiet ==
    /\ phase = "idle" /\ ~timer
    /\ UNCHANGED backendVars

BackendInit ==
    /\ call = [c \in Call |-> "idle"] /\ answer = [c \in Call |-> None]
    /\ handler = [c \in Call |-> "none"] /\ told = [c \in Call |-> None]
    /\ issued = << >> /\ pending = {} /\ hosting = {} /\ disposed = TRUE /\ exitSeen = TRUE
    /\ alive = FALSE /\ reader = "reading" /\ asked = << >> /\ awaited = {}
    /\ toCore = << >> /\ toExt = << >>
    /\ wanted = 0 /\ phase = "check" /\ restarting = FALSE /\ watching = FALSE
    /\ timer = FALSE /\ coreEnv = NoEnv /\ voiceEnv = NoEnv
    /\ missed = "none" /\ failed = FALSE

BackendNext ==
    ChangeSecret \/ ChangeSetting \/ TimerFires \/ Wiring \/ Connection \/ Quiet

BackendSpec == BackendInit /\ [][BackendNext]_backendVars

\* Spawning ends, in success or failure, and timers fire; on the connection, what
\* FairSpec of DuplexRpc assumes.
FairBackend ==
    /\ BackendSpec
    /\ WF_backendVars(Wiring) /\ WF_backendVars(TimerFires)
    /\ WF_backendVars(Extension /\ UNCHANGED keeper) /\ WF_backendVars(Core /\ UNCHANGED keeper)

-----------------------------------------------------------------------------
(* Properties.                                                             *)

\* Nothing is under way.  (A spawn that failed is reported to the user and not tried
\* again before the next change.)
AtRest == phase = "idle" /\ ~timer /\ ~failed

\* The processes run with what the user has set, or the setup lacks something and
\* none runs.
UpToDate ==
    \/ coreEnv = wanted /\ voiceEnv = wanted
    \/ wanted \notin Complete /\ coreEnv = NoEnv /\ voiceEnv = NoEnv

\* A change that comes before the core is spawned is in the spawn, one that comes when
\* the backend is at rest restarts it: unless the last spawn failed, only a change that
\* comes after the core and before the end of the wiring is missing from the processes
\* (extension.ts:243 drops it, or no listener is there yet).
LatestUnlessMissed == AtRest /\ missed = "none" => UpToDate

\* What extension.ts:358-359 says the listeners are for: "so the running sidecar/daemon
\* always see the latest configuration".  Every change that its listener heard is in
\* the processes when all is at rest.
LatestConfiguration == AtRest /\ missed # "unwatched" => UpToDate

\* A restart leaves no caller of the old connection waiting.
RestartSettlesCalls == disposed => \A c \in Call : call[c] # "pending"

\* However changes, spawns and timers interleave, the backend comes to rest.
ComesToRest == <>[](phase = "idle" /\ ~timer)

=============================================================================
