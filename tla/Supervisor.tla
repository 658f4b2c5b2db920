------------------------------ MODULE Supervisor ------------------------------
(***************************************************************************)
(* The backend as a process of the shell: spawned, awaited, restarted and   *)
(* stopped by BackendProcess (desktop/main/backend-process.ts), over the    *)
(* launches of the application, and the file through which the MCP bridge   *)
(* finds it (mcp_bridge/client.py).                                         *)
(*                                                                          *)
(* A backend is named by the launch of the shell that spawned it and a      *)
(* number.  It does not die with its shell: one that was not killed keeps   *)
(* the port, and answers /health whoever asks.                              *)
(***************************************************************************)
EXTENDS Integers, FiniteSets

CONSTANTS
    MaxRestarts,    \* MAX_RESTARTS
    MaxLaunches,    \* bound: launches of the application
    MaxKills,       \* bound: launches that end without before-quit
    Nobody

ASSUME SupervisorAssumption ==
    MaxRestarts \in Nat /\ MaxLaunches \in Nat /\ MaxKills \in Nat

VARIABLES
    launch,     \* the launches so far
    shell,      \* off, on, or stopping: stop() has run
    kills,
    boot,       \* where start() is
    child,      \* BackendProcess.child
    exited,     \* child.exitCode is a number
    spawnFailed, \* the last spawn of this launch made no process
    restarts,
    timer,      \* the restart timer is set
    live,       \* the backends that run
    doomed,     \* those that have been told to stop
    port,       \* the one that listens
    file,       \* runtime.json: the launch it names, or 0 where none can be read
    warned      \* this launch has logged that it could not write the file

shellVars == <<launch, shell, kills, boot, child, exited, spawnFailed, restarts, timer>>
vars == <<shellVars, live, doomed, port, file, warned>>

Backends == (1..MaxLaunches) \X (1..(MaxRestarts + 1))

Mine == {b \in live : b[1] = launch}

Init ==
    /\ launch = 0
    /\ shell = "off"
    /\ kills = 0
    /\ boot = "off"
    /\ child = Nobody
    /\ exited = FALSE
    /\ spawnFailed = FALSE
    /\ restarts = 0
    /\ timer = FALSE
    /\ live = {}
    /\ doomed = {}
    /\ port = Nobody
    /\ file = 0
    /\ warned = FALSE

(* spawnChild.  The process may not come to be: there is a child then, but  *)
(* nothing that could exit.                                                 *)
Spawn(b) ==
    /\ child' = b
    /\ exited' = FALSE
    /\ \/ live' = live \cup {b} /\ spawnFailed' = FALSE
       \/ live' = live /\ spawnFailed' = TRUE

-----------------------------------------------------------------------------
(* The shell.  Its single-instance lock keeps launches apart.               *)

Launch ==
    /\ shell = "off"
    /\ launch < MaxLaunches
    /\ launch' = launch + 1
    /\ shell' = "on"
    /\ boot' = "polling"
    /\ restarts' = 0
    /\ timer' = FALSE
    /\ warned' = FALSE
    /\ Spawn(<<launch + 1, 1>>)
    /\ UNCHANGED <<kills, doomed, port, file>>

Await(from, to) ==
    /\ boot = from
    /\ boot' = to
    /\ UNCHANGED <<launch, shell, kills, child, exited, spawnFailed, restarts, timer>>
    /\ UNCHANGED <<live, doomed, port>>

(* waitForReady.  Before each poll it looks whether the child has exited    *)
(* with a code; after stop() there is no child to look at.                  *)
Poll ==
    /\ ~exited
    /\ Await("polling", "asking")
    /\ UNCHANGED <<file, warned>>

(* Somebody answers on the port, or nobody does within a second. *)
HealthAnswers ==
    /\ port # Nobody
    /\ Await("asking", "answered")
    /\ UNCHANGED <<file, warned>>

NoAnswer ==
    /\ port = Nobody
    /\ Await("asking", "polling")
    /\ UNCHANGED <<file, warned>>

(* The child has exited with a code, or the 30 seconds are over. *)
GiveUpWaiting ==
    /\ Await("polling", "failed")
    /\ UNCHANGED <<file, warned>>

(* Mutant: a runtime file that is there is left as it is. *)
BecomeReadyOnce ==
    /\ Await("answered", "ready")
    /\ file' = IF file = 0 THEN launch ELSE file
    /\ UNCHANGED warned

(* The answer arrives, and the runtime file is written; or that fails and    *)
(* is logged, the file is as it was or cut short, and the shell is ready all *)
(* the same.                                                                *)
BecomeReady ==
    /\ Await("answered", "ready")
    /\ \/ file' = launch /\ UNCHANGED warned
       \/ file' \in {file, 0} /\ warned' = TRUE

(* Mutant: the timer repeats. *)
RestartEachInterval ==
    /\ timer
    /\ restarts < MaxRestarts
    /\ restarts' = restarts + 1
    /\ Spawn(<<launch, restarts + 1>>)
    /\ UNCHANGED <<launch, shell, kills, boot, timer, doomed, port, file, warned>>

(* The timer is not cleared by stop(). *)
Restart ==
    /\ timer
    /\ timer' = FALSE
    /\ Spawn(<<launch, restarts + 1>>)
    /\ UNCHANGED <<launch, shell, kills, boot, restarts, doomed, port, file, warned>>

(* The `error` event of a spawn that failed: it is logged, and gives the    *)
(* child an exitCode; no `exit` follows.                                    *)
SpawnError ==
    /\ spawnFailed
    /\ child # Nobody
    /\ ~exited
    /\ exited' = TRUE
    /\ UNCHANGED <<launch, shell, kills, boot, child, spawnFailed, restarts, timer>>
    /\ UNCHANGED <<live, doomed, port, file, warned>>

(* before-quit: stop().  The file is removed if it can be. *)
Stop ==
    /\ shell = "on"
    /\ shell' = "stopping"
    /\ file' \in {file, 0}
    /\ doomed' = doomed \cup ({child} \cap live)
    /\ child' = Nobody
    /\ exited' = FALSE
    /\ UNCHANGED <<launch, kills, boot, spawnFailed, restarts, timer, live, port, warned>>

(* The process of the shell ends: what it awaited and knew is gone with it. *)
LeaveShell ==
    /\ shell' = "off"
    /\ boot' = "off"
    /\ child' = Nobody
    /\ exited' = FALSE
    /\ timer' = FALSE
    /\ spawnFailed' = FALSE
    /\ warned' = FALSE
    /\ UNCHANGED <<launch, restarts, live, doomed, port, file>>

QuitCompletes ==
    /\ shell = "stopping"
    /\ LeaveShell
    /\ UNCHANGED kills

KillShell ==
    /\ shell # "off"
    /\ kills < MaxKills
    /\ kills' = kills + 1
    /\ LeaveShell

-----------------------------------------------------------------------------
(* The backends                                                             *)

Bind(b) ==
    /\ b \in live \ doomed
    /\ port = Nobody
    /\ port' = b
    /\ UNCHANGED <<shellVars, live, doomed, file, warned>>

Gone(b) ==
    /\ live' = live \ {b}
    /\ doomed' = doomed \ {b}
    /\ port' = IF port = b THEN Nobody ELSE port

(* Mutant: only an exit with a code is taken for a crash. *)
OnExitWithCode(b, how) ==
    /\ exited' = (exited \/ (child = b /\ how = "code"))
    /\ IF shell = "on" /\ how = "code" /\ restarts < MaxRestarts
       THEN restarts' = restarts + 1 /\ timer' = TRUE
       ELSE UNCHANGED <<restarts, timer>>

(* The `exit` event; exitCode stays null when a signal ended the child. *)
OnExit(b, how) ==
    /\ exited' = (exited \/ (child = b /\ how = "code"))
    /\ IF shell = "on" /\ restarts < MaxRestarts
       THEN restarts' = restarts + 1 /\ timer' = TRUE
       ELSE UNCHANGED <<restarts, timer>>

(* A backend crashes, exits because the port is taken, or stops as told;    *)
(* its shell, if it is still there, hears of it.                            *)
Die(b, how) ==
    /\ b \in live
    /\ Gone(b)
    /\ IF b \in Mine /\ shell # "off"
       THEN OnExit(b, how)
       ELSE UNCHANGED <<exited, restarts, timer>>
    /\ UNCHANGED <<launch, shell, kills, boot, child, spawnFailed, file, warned>>

Next ==
    \/ Launch
    \/ Poll \/ HealthAnswers \/ NoAnswer \/ BecomeReady \/ GiveUpWaiting
    \/ Restart \/ SpawnError
    \/ Stop \/ QuitCompletes \/ KillShell
    \/ \E b \in Backends : Bind(b)
    \/ \E b \in Backends, how \in {"code", "signal"} : Die(b, how)

(* Answers arrive and timers fire; a backend that starts comes to listen,   *)
(* or, where another listens, to exit, and so does one that is told to.     *)
Fairness ==
    /\ WF_vars(Poll \/ HealthAnswers \/ NoAnswer \/ BecomeReady)
    /\ WF_vars(Restart)
    /\ \A b \in Backends :
          /\ WF_vars(Bind(b))
          /\ WF_vars(Die(b, "code") /\ (b \in doomed \/ port \notin {b, Nobody}))

Spec == Init /\ [][Next]_vars /\ Fairness

-----------------------------------------------------------------------------
(* Every variable has its type. *)
TypeOK ==
    /\ launch \in 0..MaxLaunches
    /\ shell \in {"off", "on", "stopping"}
    /\ kills \in 0..MaxKills
    /\ boot \in {"off", "polling", "asking", "answered", "ready", "failed"}
    /\ child \in Backends \cup {Nobody}
    /\ exited \in BOOLEAN
    /\ spawnFailed \in BOOLEAN
    /\ restarts \in 0..MaxRestarts
    /\ timer \in BOOLEAN
    /\ live \subseteq Backends
    /\ doomed \subseteq live
    /\ port \in live \cup {Nobody}
    /\ file \in 0..MaxLaunches
    /\ warned \in BOOLEAN

(* A launch never has two backends at once, which would fight over the port *)
(* and the database: a restart comes only after an exit.                    *)
OneBackendEach ==
    \A b, c \in live : b[1] = c[1] => b = c

(* A shell that is ready and has not been told to quit can be found, or has *)
(* logged why not: the runtime file is its own, whatever an earlier launch  *)
(* has left behind, unless the writing of it failed (writeRuntimeFile).     *)
Discoverable ==
    (boot = "ready" /\ shell = "on") => file = launch \/ warned

(* A shell that stays, and whose spawns succeed, comes to have somebody     *)
(* listening for good, or has used up its restarts.  A spawn that fails is  *)
(* the one way in which supervision ends with restarts left (the `exit` and *)
(* `error` handlers of spawnChild).                                         *)
Served ==
    <>[](shell = "on" /\ ~spawnFailed)
        => <>[](port # Nobody) \/ <>[](restarts = MaxRestarts)
=============================================================================
