---------------------------- MODULE ServicesProofs ----------------------------
(***************************************************************************)
(* Proofs about what runs beside the trading view: the backend as a process *)
(* of the shell (Supervisor), the update check (Updater) and the chat       *)
(* (Chat).  Each is proved by itself; they share no variable.               *)
(***************************************************************************)
EXTENDS MCServices, FiniteSetTheorems, TLAPS

-----------------------------------------------------------------------------
(* Supervisor, for any number of launches, kills and restarts.              *)

(* A restart is due only when nothing of its launch runs, and every backend  *)
(* is of a launch that has been. *)
RestartsAlone == timer => launch # 0 /\ Mine = {}

SupervisorInv ==
    /\ TypeOK
    /\ RestartsAlone
    /\ \A b \in live : b[1] <= launch
    /\ OneBackendEach
    /\ Discoverable

LEMMA SupervisorInitInv == Init => SupervisorInv
  <1> SUFFICES ASSUME Init PROVE SupervisorInv
    OBVIOUS
  <1>1. TypeOK
    <2>1. live \subseteq Backends /\ doomed \subseteq live
      BY DEF Init
    <2>2. exited \in BOOLEAN /\ timer \in BOOLEAN /\ spawnFailed \in BOOLEAN /\ warned \in BOOLEAN
      BY DEF Init
    <2> QED
      BY <2>1, <2>2, SupervisorAssumption DEF Init, TypeOK
  <1> QED
    BY <1>1 DEF Init, SupervisorInv, RestartsAlone, OneBackendEach, Discoverable

(* A backend is started where none of its launch runs. *)
LEMMA SpawnKeeps ==
    ASSUME SupervisorInv, launch' \in {launch, launch + 1},
           launch' \in 1..MaxLaunches,
           NEW n \in 1..(MaxRestarts + 1), Spawn(<<launch', n>>),
           \A b \in live : b[1] # launch',
           timer' = FALSE, restarts' \in 0..MaxRestarts,
           UNCHANGED <<kills, doomed, port, file>>,
           \/ launch' = launch /\ UNCHANGED <<shell, boot, warned>>
           \/ shell' = "on" /\ boot' = "polling" /\ warned' = FALSE
    PROVE  SupervisorInv'
  <1> USE SupervisorAssumption
  <1>1. <<launch', n>> \in Backends
    BY DEF Backends
  <1>2. /\ child' = <<launch', n>> /\ exited' = FALSE /\ spawnFailed' \in BOOLEAN
        /\ live' = live \cup {<<launch', n>>} \/ live' = live
    BY DEF Spawn
  <1>3. TypeOK'
    <2>1. live' \subseteq Backends /\ doomed' \subseteq live'
      BY <1>1, <1>2 DEF SupervisorInv, TypeOK
    <2>2. exited' \in BOOLEAN /\ timer' \in BOOLEAN /\ spawnFailed' \in BOOLEAN
          /\ warned' \in BOOLEAN
      BY <1>2 DEF SupervisorInv, TypeOK
    <2>3. child' \in Backends \cup {Nobody} /\ port' \in live' \cup {Nobody}
      BY <1>1, <1>2 DEF SupervisorInv, TypeOK
    <2>4. shell' \in {"off", "on", "stopping"}
          /\ boot' \in {"off", "polling", "asking", "answered", "ready", "failed"}
      BY DEF SupervisorInv, TypeOK
    <2>5. launch' \in 0..MaxLaunches /\ file' \in 0..MaxLaunches /\ kills' \in 0..MaxKills
      BY DEF SupervisorInv, TypeOK
    <2> QED
      BY <2>1, <2>2, <2>3, <2>4, <2>5 DEF TypeOK
  <1>4. \A b \in live' : b[1] <= launch'
    BY <1>2 DEF SupervisorInv, TypeOK, Backends
  <1>5. OneBackendEach'
    BY <1>2 DEF SupervisorInv, OneBackendEach
  <1>6. RestartsAlone' /\ Discoverable'
    BY DEF SupervisorInv, RestartsAlone, Discoverable
  <1> QED
    BY <1>3, <1>4, <1>5, <1>6 DEF SupervisorInv

(* Nothing starts, and no restart is set. *)
LEMMA RestingKeeps ==
    ASSUME SupervisorInv, TypeOK', UNCHANGED <<launch, live>>, timer' => timer,
           Discoverable'
    PROVE  SupervisorInv'
  BY DEF SupervisorInv, RestartsAlone, OneBackendEach, Mine

LEMMA DeathKeeps ==
    ASSUME SupervisorInv, NEW b \in live, NEW how \in {"code", "signal"}, Die(b, how)
    PROVE  SupervisorInv'
  <1> USE SupervisorAssumption
  <1>1. /\ live' = live \ {b} /\ doomed' = doomed \ {b} /\ launch' = launch
        /\ port' \in live' \cup {Nobody}
        /\ UNCHANGED <<shell, kills, boot, child, spawnFailed, file, warned>>
    BY DEF Die, Gone, SupervisorInv, TypeOK
  <1>2. exited' \in BOOLEAN /\ restarts' \in 0..MaxRestarts /\ timer' \in BOOLEAN
    <2>1. CASE b \in Mine /\ shell # "off"
      <3>1. OnExit(b, how)
        BY <2>1 DEF Die
      <3>2. exited' \in BOOLEAN
        <4>1. exited' = (exited \/ (child = b /\ how = "code"))
          BY <3>1 DEF OnExit
        <4> QED
          BY ONLY <4>1, Zenon
      <3>3. restarts' \in 0..MaxRestarts /\ timer' \in BOOLEAN
        <4>1. CASE shell = "on" /\ restarts < MaxRestarts
          BY <3>1, <4>1 DEF OnExit, SupervisorInv, TypeOK
        <4>2. CASE ~(shell = "on" /\ restarts < MaxRestarts)
          BY <3>1, <4>2 DEF OnExit, SupervisorInv, TypeOK
        <4> QED
          BY <4>1, <4>2
      <3> QED
        BY <3>2, <3>3
    <2>2. CASE ~(b \in Mine /\ shell # "off")
      BY <2>2 DEF Die, SupervisorInv, TypeOK
    <2> QED
      BY <2>1, <2>2
  <1>3. TypeOK'
    BY <1>1, <1>2 DEF SupervisorInv, TypeOK
  <1>4. timer' => launch' # 0 /\ Mine' = {}
    <2>1. CASE timer' = timer
      BY <1>1, <2>1 DEF SupervisorInv, RestartsAlone, Mine
    <2>2. CASE b \in Mine
      <3>1. launch # 0
        BY <2>2 DEF Mine, SupervisorInv, TypeOK, Backends
      <3>2. Mine' = {}
        BY <1>1, <2>2 DEF Mine, SupervisorInv, OneBackendEach
      <3> QED
        BY <1>1, <3>1, <3>2
    <2> QED
      BY <2>1, <2>2 DEF Die
  <1>5. (\A c \in live' : c[1] <= launch') /\ OneBackendEach'
    BY <1>1 DEF SupervisorInv, OneBackendEach
  <1>6. Discoverable'
    BY <1>1 DEF SupervisorInv, Discoverable
  <1> QED
    BY <1>3, <1>4, <1>5, <1>6 DEF SupervisorInv, RestartsAlone

LEMMA SupervisorStepInv == SupervisorInv /\ [Next]_vars => SupervisorInv'
  <1> SUFFICES ASSUME SupervisorInv, [Next]_vars PROVE SupervisorInv'
    OBVIOUS
  <1> USE SupervisorAssumption
  <1>1. CASE Launch
    <2>1. /\ launch' = launch + 1 /\ launch' \in 1..MaxLaunches
          /\ Spawn(<<launch', 1>>) /\ 1 \in 1..(MaxRestarts + 1)
          /\ \A b \in live : b[1] # launch'
      BY <1>1 DEF Launch, SupervisorInv, TypeOK, Backends
    <2>2. timer' = FALSE /\ restarts' \in 0..MaxRestarts /\ shell' = "on" /\ boot' = "polling"
          /\ warned' = FALSE /\ UNCHANGED <<kills, doomed, port, file>>
      BY <1>1 DEF Launch
    <2> QED
      BY <2>1, <2>2, SpawnKeeps
  <1>2. CASE Restart
    <2>1. /\ launch' = launch /\ launch' \in 1..MaxLaunches
          /\ restarts + 1 \in 1..(MaxRestarts + 1) /\ Spawn(<<launch', restarts + 1>>)
          /\ \A b \in live : b[1] # launch'
      BY <1>2 DEF Restart, SupervisorInv, TypeOK, RestartsAlone, Mine
    <2>2. timer' = FALSE /\ restarts' \in 0..MaxRestarts /\ UNCHANGED <<shell, boot, warned>>
          /\ UNCHANGED <<kills, doomed, port, file>>
      BY <1>2 DEF Restart, SupervisorInv, TypeOK
    <2> QED
      BY <2>1, <2>2, SpawnKeeps
  <1>3. CASE Poll \/ HealthAnswers \/ NoAnswer \/ BecomeReady \/ GiveUpWaiting
    <2>1. /\ UNCHANGED <<launch, shell, kills, child, exited, spawnFailed, restarts, timer>>
          /\ UNCHANGED <<live, doomed, port>>
          /\ \/ boot' \in {"polling", "asking", "answered", "failed"} /\ UNCHANGED <<file, warned>>
             \/ boot' = "ready" /\ file' = launch /\ UNCHANGED warned
             \/ boot' = "ready" /\ file' \in {file, 0} /\ warned' = TRUE
      BY <1>3 DEF Poll, HealthAnswers, NoAnswer, BecomeReady, GiveUpWaiting, Await
    <2>2. file' \in 0..MaxLaunches
          /\ boot' \in {"off", "polling", "asking", "answered", "ready", "failed"}
      BY <2>1 DEF SupervisorInv, TypeOK
    <2>3. warned' \in BOOLEAN
      <3>1. warned \in BOOLEAN
        BY DEF SupervisorInv, TypeOK
      <3> QED
        BY <2>1, <3>1, Zenon
    <2>4. TypeOK'
      BY <2>1, <2>2, <2>3 DEF SupervisorInv, TypeOK
    <2>5. Discoverable'
      BY <2>1 DEF Discoverable
    <2> QED
      BY <2>1, <2>4, <2>5, RestingKeeps
  <1>4. CASE Stop
    <2>1. doomed' \subseteq live' /\ file' \in 0..MaxLaunches
      BY <1>4 DEF Stop, SupervisorInv, TypeOK
    <2>2. exited' \in BOOLEAN /\ shell' \in {"off", "on", "stopping"}
      BY <1>4 DEF Stop
    <2>3. TypeOK' /\ Discoverable'
      BY <1>4, <2>1, <2>2 DEF Stop, SupervisorInv, TypeOK, Discoverable
    <2> QED
      BY <1>4, <2>3, RestingKeeps DEF Stop
  <1>5. CASE QuitCompletes \/ KillShell
    <2>1. LeaveShell /\ kills' \in 0..MaxKills
      BY <1>5 DEF QuitCompletes, KillShell, SupervisorInv, TypeOK
    <2>2. TypeOK' /\ Discoverable'
      BY <2>1 DEF LeaveShell, SupervisorInv, TypeOK, Discoverable
    <2> QED
      BY <2>1, <2>2, RestingKeeps DEF LeaveShell
  <1>6. CASE SpawnError
    <2>1. TypeOK' /\ Discoverable'
      BY <1>6 DEF SpawnError, SupervisorInv, TypeOK, Discoverable
    <2> QED
      BY <1>6, <2>1, RestingKeeps DEF SpawnError
  <1>7. ASSUME NEW b \in Backends, Bind(b) PROVE SupervisorInv'
    <2>1. TypeOK' /\ Discoverable'
      BY <1>7 DEF Bind, shellVars, SupervisorInv, TypeOK, Discoverable
    <2> QED
      BY <1>7, <2>1, RestingKeeps DEF Bind, shellVars
  <1>8. CASE UNCHANGED vars
    BY <1>8 DEF vars, shellVars, SupervisorInv, TypeOK, RestartsAlone, Mine,
                OneBackendEach, Discoverable
  <1> QED
    BY <1>1, <1>2, <1>3, <1>4, <1>5, <1>6, <1>7, <1>8, DeathKeeps DEF Next, Die

LEMMA SupervisorInvariance == Spec => []SupervisorInv
  BY SupervisorInitInv, SupervisorStepInv, PTL DEF Spec

(* Backends, their processes and the runtime file have their types. *)
THEOREM SupervisorTypes == Spec => []TypeOK
  <1>1. SupervisorInv => TypeOK
    BY DEF SupervisorInv
  <1> QED
    BY <1>1, SupervisorInvariance, PTL

(* However crashes, restarts, stops and launches interleave, a launch never  *)
(* has two backends at once. *)
THEOREM OneBackend == Spec => []OneBackendEach
  <1>1. SupervisorInv => OneBackendEach
    BY DEF SupervisorInv
  <1> QED
    BY <1>1, SupervisorInvariance, PTL

(* Whatever earlier launches left behind, and whichever writes and removals  *)
(* of it fail, the runtime file of a shell that is ready is its own, or the  *)
(* shell has logged that it could not write it. *)
THEOREM Found == Spec => []Discoverable
  <1>1. SupervisorInv => Discoverable
    BY DEF SupervisorInv
  <1> QED
    BY <1>1, SupervisorInvariance, PTL

-----------------------------------------------------------------------------
(* Updater, for every sequence of releases, every number of checks in        *)
(* flight and every kind of build.                                          *)

(* What is held or on its way is later than what runs.  A state `ready` is   *)
(* about what is held, which no later step but one that leaves that state    *)
(* takes away; the macOS request never skips the comparison.                 *)
Later(r) == r \in Published /\ Newer(r, installed)

UpdaterInv ==
    /\ UpdaterTypeOK
    /\ download # Nothing => Later(download)
    /\ held # Nothing => Later(held)
    /\ status.name = "ready" => status.version = held /\ held # Nothing
    /\ status.name = "manual" =>
          Later(status.version) /\ Releases[status.version].image

LEMMA PublishedFacts ==
    /\ Len(Releases) \in Nat
    /\ 1 \in Published
    /\ Published \subseteq Int
    /\ Nothing \notin Published
    /\ Asked \notin Published
    /\ Free \notin Published
  BY UpdaterAssumption DEF Published, Nothing, Asked, Free

(* The answer of the macOS check, by itself. *)
LEMMA VerdictFits ==
    ASSUME installed \in Published, NEW r \in Published
    PROVE  /\ Verdict(r).name \in {"current", "error", "manual"}
           /\ Verdict(r) \in [name : {"current", "error", "manual"},
                              version : Published \cup {Nothing}]
           /\ Verdict(r).name = "manual" =>
                 Later(Verdict(r).version) /\ Releases[Verdict(r).version].image
  <1>1. CASE ~IsNewerVersion(Releases[r].core, Releases[installed].core)
    BY <1>1 DEF Verdict, Is
  <1>2. CASE /\ IsNewerVersion(Releases[r].core, Releases[installed].core)
             /\ ~Releases[r].image
    BY <1>2 DEF Verdict, Is
  <1>3. CASE /\ IsNewerVersion(Releases[r].core, Releases[installed].core)
             /\ Releases[r].image
    <2>1. Verdict(r) = [name |-> "manual", version |-> r]
      BY <1>3 DEF Verdict, Is
    <2>2. Newer(r, installed)
      BY <1>3, SemverAssumption DEF IsNewerVersion
    <2> QED
      BY <2>1, <2>2, <1>3 DEF Later
  <1> QED
    BY <1>1, <1>2, <1>3

LEMMA UpdaterInitInv == UpdaterInit => UpdaterInv
  <1> SUFFICES ASSUME UpdaterInit PROVE UpdaterInv
    OBVIOUS
  <1> USE PublishedFacts DEF UpdaterInit, Is
  <1>1. request \in [Slots -> Published \cup {Free, Asked}]
    OBVIOUS
  <1>2. /\ status.name = "idle"
        /\ status \in [name : {"idle"}, version : Published \cup {Nothing}]
    OBVIOUS
  <1>3. UpdaterTypeOK
    BY <1>1, <1>2 DEF UpdaterTypeOK
  <1> QED
    BY <1>2, <1>3 DEF UpdaterInv

(* A session that ends holds nothing and has nothing on its way. *)
LEMMA EndKeepsInv ==
    ASSUME UpdaterInv, EndProcess, installed' \in Published
    PROVE  UpdaterInv'
  BY PublishedFacts
  DEF UpdaterInv, UpdaterTypeOK, EndProcess, Is, Later, Published

LEMMA CheckKeepsInv ==
    ASSUME UpdaterInv, Check,
           UNCHANGED <<build, installed, latest, download, held>>,
           running' \in BOOLEAN
    PROVE  UpdaterInv'
  <1> USE PublishedFacts
  <1>1. /\ status' = [name |-> "checking", version |-> Nothing]
        /\ checking' \in BOOLEAN
    BY DEF Check, AskRelease, AskUpdater, Is, UpdaterInv, UpdaterTypeOK
  <1>2. request' \in [Slots -> Published \cup {Free, Asked}]
    <2>1. CASE request' = request
      BY <2>1 DEF UpdaterInv, UpdaterTypeOK, Published
    <2>2. ASSUME NEW s \in Slots, request' = [request EXCEPT ![s] = Asked]
          PROVE  request' \in [Slots -> Published \cup {Free, Asked}]
      BY <2>2 DEF UpdaterInv, UpdaterTypeOK, Published
    <2> QED
      BY <2>1, <2>2 DEF Check, AskRelease, AskUpdater
  <1>3. UpdaterTypeOK'
    BY <1>1, <1>2 DEF UpdaterInv, UpdaterTypeOK, Published
  <1> QED
    BY <1>1, <1>3 DEF UpdaterInv, Later, Newer, Published

LEMMA UpdaterStepInv == UpdaterInv /\ [UpdaterNext]_updaterVars => UpdaterInv'
  <1> SUFFICES ASSUME UpdaterInv, [UpdaterNext]_updaterVars PROVE UpdaterInv'
    OBVIOUS
  <1> USE PublishedFacts
  <1>1. CASE Publish
    BY <1>1 DEF Publish, UpdaterInv, UpdaterTypeOK, Later, Published, Newer
  <1>2. CASE StartUpdater
    <2>1. CASE Check
      BY <1>2, <2>1, CheckKeepsInv DEF StartUpdater
    <2>2. CASE ~Check
      BY <1>2, <2>2
      DEF StartUpdater, UpdaterInv, UpdaterTypeOK, Is, Later, Published, Newer
    <2> QED
      BY <2>1, <2>2
  <1>3. CASE CheckAgain
    BY <1>3, CheckKeepsInv DEF CheckAgain, UpdaterInv, UpdaterTypeOK
  <1>4. ASSUME NEW s \in Slots, FetchAnswers(s) PROVE UpdaterInv'
    BY <1>4
    DEF FetchAnswers, UpdaterInv, UpdaterTypeOK, Later, Published, Newer
  <1>5. ASSUME NEW s \in Slots, FinishCheck(s) PROVE UpdaterInv'
    <2>1. /\ installed \in Published /\ installed' = installed
          /\ request[s] \in Published
          /\ status' = Verdict(request[s])
      BY <1>5 DEF FinishCheck, UpdaterInv, UpdaterTypeOK
    <2>2. /\ status'.name \in {"current", "error", "manual"}
          /\ status' \in [name : {"current", "error", "manual"},
                          version : Published \cup {Nothing}]
          /\ status'.name = "manual" =>
                Later(status'.version) /\ Releases[status'.version].image
      BY <2>1, VerdictFits
    <2>3. UpdaterTypeOK'
      BY <1>5, <2>2 DEF FinishCheck, UpdaterInv, UpdaterTypeOK, Published
    <2> QED
      BY <1>5, <2>1, <2>2, <2>3
      DEF FinishCheck, UpdaterInv, Later, Published, Newer
  <1>6. ASSUME NEW s \in Slots, FailCheck(s) PROVE UpdaterInv'
    BY <1>6
    DEF FailCheck, UpdaterInv, UpdaterTypeOK, Is, Later, Published, Newer
  <1>7. CASE NotAvailable
    BY <1>7
    DEF NotAvailable, UpdaterInv, UpdaterTypeOK, Is, Later, Published, Newer
  <1>8. CASE Available
    <2>1. Later(latest)
      BY <1>8 DEF Available, UpdaterInv, UpdaterTypeOK, Later
    <2> QED
      BY <1>8, <2>1
      DEF Available, UpdaterInv, UpdaterTypeOK, Is, Later, Published, Newer
  <1>9. CASE Progress
    BY <1>9
    DEF Progress, UpdaterInv, UpdaterTypeOK, Is, Later, Published, Newer
  <1>10. CASE Downloaded
    BY <1>10
    DEF Downloaded, UpdaterInv, UpdaterTypeOK, Is, Later, Published, Newer
  <1>11. CASE UpdaterError
    BY <1>11
    DEF UpdaterError, UpdaterInv, UpdaterTypeOK, Is, Later, Published, Newer
  <1>12. CASE QuitInstalling \/ Install \/ InstallByHand \/ Crash
    <2>1. EndProcess /\ installed' \in Published
      BY <1>12
      DEF QuitInstalling, Install, InstallByHand, Crash, EndProcess,
          UpdaterInv, UpdaterTypeOK, Later
    <2> QED
      BY <2>1, EndKeepsInv
  <1>13. CASE UNCHANGED updaterVars
    BY <1>13
    DEF updaterVars, UpdaterInv, UpdaterTypeOK, Later, Published, Newer
  <1> QED
    BY <1>1, <1>2, <1>3, <1>4, <1>5, <1>6, <1>7, <1>8, <1>9, <1>10, <1>11,
       <1>12, <1>13
    DEF UpdaterNext

LEMMA UpdaterInvariance == UpdaterSpec => []UpdaterInv
  BY UpdaterInitInv, UpdaterStepInv, PTL DEF UpdaterSpec

-----------------------------------------------------------------------------
(* The state, the requests and what is on disk have their types. *)
THEOREM UpdaterTypes == UpdaterSpec => []UpdaterTypeOK
  <1>1. UpdaterInv => UpdaterTypeOK
    BY DEF UpdaterInv
  <1> QED
    BY <1>1, UpdaterInvariance, PTL

(* Whatever is offered, in whichever order the events came, can be had and   *)
(* is later than what runs.                                                  *)
THEOREM OffersAreThere == UpdaterSpec => []OfferIsThere
  <1>1. UpdaterInv => OfferIsThere
    BY DEF UpdaterInv, OfferIsThere, Later
  <1> QED
    BY <1>1, UpdaterInvariance, PTL

(* No way in which a session ends leaves an earlier release installed. *)
THEOREM NoDowngrade == UpdaterSpec => NeverDowngrades
  <1>1. ASSUME UpdaterInv, [UpdaterNext]_updaterVars
        PROVE  installed' = installed \/ Newer(installed', installed)
    <2>1. CASE QuitInstalling
      BY <1>1, <2>1 DEF QuitInstalling, UpdaterInv, Later
    <2>2. CASE Install
      BY <1>1, <2>2 DEF Install, UpdaterInv, Later
    <2>3. CASE InstallByHand
      BY <1>1, <2>3 DEF InstallByHand, UpdaterInv, Later
    <2>4. CASE installed' = installed
      BY <2>4
    <2>5. CASE UNCHANGED updaterVars
      BY <2>5 DEF updaterVars
    <2> QED
      BY <1>1, <2>1, <2>2, <2>3, <2>4, <2>5
      DEF UpdaterNext, Publish, StartUpdater, CheckAgain, FetchAnswers,
          FinishCheck, FailCheck, NotAvailable, Available, Progress,
          Downloaded, UpdaterError, Crash
  <1>2. UpdaterInv /\ [UpdaterNext]_updaterVars
           => [installed' = installed \/ Newer(installed', installed)]_updaterVars
    BY <1>1
  <1> QED
    BY <1>2, UpdaterInvariance, PTL DEF UpdaterSpec, NeverDowngrades

-----------------------------------------------------------------------------
(* Chat, for any number of requests, any size of the thread pool and any    *)
(* number of tool calls.                                                    *)

(* The sets the pool is shared by. *)
Inside == {r \in Requests : InThread(r)}
Serving == {r \in Requests : tool[r] = "served"}

PoolKept == Cardinality(Inside) + Cardinality(Serving) <= PoolSize

ChatTypes ==
    /\ forced \in {"auto", "cli", "api"}
    /\ key \in BOOLEAN
    /\ cli \in {"missing", "broken", "works"}
    /\ probe \in {"none", "good", "bad"}
    /\ at \in [Requests -> Places]
    /\ asks \in [Requests -> BOOLEAN]
    /\ chosen \in [Requests -> {"none", "cli", "api"}]
    /\ turns \in [Requests -> 0..MaxTurns]
    /\ tool \in [Requests -> {"none", "waiting", "served"}]
    /\ failed \in BOOLEAN
    /\ solid \in [Requests -> BOOLEAN]

(* A request is solid only while the CLI works and nothing has said          *)
(* otherwise; what is remembered against the CLI has been measured; nobody   *)
(* asks a provider that has not been chosen.                                 *)
ChatInv ==
    /\ ChatTypes
    /\ \A r \in Requests : solid[r] => cli = "works" /\ ~failed
    /\ probe = "bad" => failed
    /\ \A r \in Requests : at[r] = "usable" => chosen[r] # "none"
    /\ FreeWhenItCan

-----------------------------------------------------------------------------
LEMMA ChatInitInv == ChatInit => ChatInv
  <1> SUFFICES ASSUME ChatInit PROVE ChatInv
    OBVIOUS
  <1>1. turns \in [Requests -> 0..MaxTurns]
    <2>1. 0 \in 0..MaxTurns
      BY ChatAssumption
    <2> QED
      BY <2>1 DEF ChatInit
  <1>2. ChatTypes
    BY <1>1 DEF ChatInit, ChatTypes, Places
  <1>3. \A r \in Requests : ~solid[r]
    BY DEF ChatInit
  <1> QED
    BY <1>2, <1>3 DEF ChatInit, ChatInv, FreeWhenItCan

LEMMA RespondKeeps ==
    ASSUME ChatInv, NEW r \in Requests, Respond(r), UNCHANGED <<machine, probe, failed>>
    PROVE  ChatInv'
  BY ChatAssumption
  DEF ChatInv, ChatTypes, Places, FreeWhenItCan, Respond, Go, machine

(* Only `at` and `chosen` change, and the API is not chosen for a request    *)
(* that is solid.                                                            *)
LEMMA ChoiceKeeps ==
    ASSUME ChatInv, NEW r \in Requests, NEW place \in Places,
           NEW who \in {"none", "cli", "api"},
           at' = [at EXCEPT ![r] = place],
           chosen' = [chosen EXCEPT ![r] = who],
           forced = "auto" /\ solid[r] => who # "api",
           place = "usable" => who # "none",
           UNCHANGED <<machine, probe, asks, turns, tool, failed, solid>>
    PROVE  ChatInv'
  BY DEF ChatInv, ChatTypes, FreeWhenItCan, machine

LEMMA ToolKeeps ==
    ASSUME ChatInv, NEW r \in Requests,
           NEW from \in {"none", "waiting", "served"},
           NEW to \in {"none", "waiting", "served"},
           Tool(r, from, to), turns' \in [Requests -> 0..MaxTurns]
    PROVE  ChatInv'
  BY DEF ChatInv, ChatTypes, FreeWhenItCan, Tool, machine

LEMMA ChatStepInv == ChatInv /\ [ChatNext]_chatVars => ChatInv'
  <1> SUFFICES ASSUME ChatInv, [ChatNext]_chatVars PROVE ChatInv'
    OBVIOUS
  <1>1. ASSUME NEW state \in {"missing", "broken", "works"}, CliChanges(state)
        PROVE  ChatInv'
    BY <1>1 DEF CliChanges, ChatInv, ChatTypes, FreeWhenItCan
  <1>2. ASSUME NEW r \in Requests, NEW question \in BOOLEAN, Arrive(r, question)
        PROVE  ChatInv'
    BY <1>2
    DEF Arrive, Go, ChatInv, ChatTypes, Places, FreeWhenItCan, machine
  <1>3. ASSUME NEW r \in Requests, Begin(r) PROVE ChatInv'
    BY <1>3
    DEF Begin, Go, ChatInv, ChatTypes, Places, FreeWhenItCan, machine
  <1>4. ASSUME NEW r \in Requests, Look(r) PROVE ChatInv'
    <2>1. CASE Known = "none"
      BY <1>4, <2>1
      DEF Look, Go, ChatInv, ChatTypes, Places, FreeWhenItCan, machine
    <2>2. CASE Known # "none"
      <3>1. solid[r] => Known = "good"
        BY <2>2 DEF Known, ChatInv, ChatTypes
      <3> DEFINE who == IF Known = "good" THEN "cli" ELSE "api"
      <3>2. /\ at' = [at EXCEPT ![r] = "usable"]
            /\ chosen' = [chosen EXCEPT ![r] = who]
            /\ UNCHANGED <<machine, probe, asks, turns, tool, failed, solid>>
        BY <1>4, <2>2 DEF Look, Select, Go
      <3>3. who \in {"cli", "api"} /\ "usable" \in Places
        BY DEF Places
      <3>4. forced = "auto" /\ solid[r] => who # "api"
        BY <3>1
      <3> HIDE DEF who
      <3> QED
        BY <3>2, <3>3, <3>4, ChoiceKeeps
    <2> QED
      BY <2>1, <2>2
  <1>5. ASSUME NEW r \in Requests, NEW outcome \in {"good", "bad"},
               EndProbe(r, outcome)
        PROVE  ChatInv'
    <2>1. /\ probe' = outcome
          /\ failed' = (failed \/ outcome = "bad")
          /\ solid' = [q \in Requests |-> solid[q] /\ outcome = "good"]
          /\ at' \in [Requests -> Places]
          /\ \A q \in Requests : at'[q] = "usable" => at[q] = "usable" \/ chosen[q] # "none"
          /\ UNCHANGED <<forced, key, cli, asks, chosen, turns, tool>>
      BY <1>5 DEF EndProbe, Go, machine, ChatInv, ChatTypes, Places
    <2>2. solid' \in [Requests -> BOOLEAN]
          /\ \A q \in Requests : solid'[q] => solid[q] /\ outcome = "good"
      BY <2>1, Zenon
    <2>3. failed' \in BOOLEAN
      BY <2>1, Zenon
    <2>4. ChatTypes'
      BY <2>1, <2>2, <2>3 DEF ChatInv, ChatTypes
    <2>5. \A q \in Requests : solid'[q] => cli' = "works" /\ ~failed'
      BY <2>1, <2>2 DEF ChatInv
    <2>6. probe' = "bad" => failed'
      BY <2>1
    <2>7. FreeWhenItCan'
      BY <2>1, <2>2 DEF ChatInv, FreeWhenItCan
    <2>8. \A q \in Requests : at'[q] = "usable" => chosen'[q] # "none"
      BY <2>1 DEF ChatInv
    <2> QED
      BY <2>4, <2>5, <2>6, <2>7, <2>8 DEF ChatInv
  <1>6. ASSUME NEW r \in Requests, Usable(r) PROVE ChatInv'
    <2>1. CASE Respond(r)
      BY <1>6, <2>1, RespondKeeps DEF Usable
    <2>2. ASSUME NEW place \in Places \ {"usable"}, Go(r, place),
                 UNCHANGED <<machine, probe, asks, chosen, turns, tool, failed, solid>>
          PROVE  ChatInv'
      BY <2>2 DEF Go, ChatInv, ChatTypes, FreeWhenItCan, machine
    <2>3. \/ Respond(r)
          \/ \E place \in Places \ {"usable"} :
                /\ Go(r, place)
                /\ UNCHANGED <<machine, probe, asks, chosen, turns, tool, failed, solid>>
      <3>1. CASE (IF chosen[r] = "cli" THEN Known
                  ELSE IF key THEN "good" ELSE "bad") = "none"
        BY <1>6, <3>1 DEF Usable, Places
      <3>2. CASE (IF chosen[r] = "cli" THEN Known
                  ELSE IF key THEN "good" ELSE "bad") = "good" /\ asks[r]
        <4>1. /\ Go(r, chosen[r])
              /\ UNCHANGED <<machine, probe, asks, chosen, turns, tool, failed, solid>>
          BY <1>6, <3>2 DEF Usable
        <4>2. chosen[r] \in {"cli", "api"}
          BY <1>6 DEF Usable, ChatInv, ChatTypes
        <4> QED
          BY <4>1, <4>2 DEF Places
      <3> QED
        BY <1>6, <3>1, <3>2 DEF Usable
    <2> QED
      BY <2>1, <2>2, <2>3
  <1>7. ASSUME NEW r \in Requests, ApiAnswers(r) \/ CliTimesOut(r) \/ CliExits(r)
        PROVE  ChatInv'
    BY <1>7, RespondKeeps DEF ApiAnswers, CliTimesOut, CliExits
  <1>8. ASSUME NEW r \in Requests,
               CallTool(r) \/ ServeTool(r) \/ ToolAnswers(r) \/ ToolTimesOut(r)
        PROVE  ChatInv'
    <2>1. turns' \in [Requests -> 0..MaxTurns]
      BY <1>8, ChatAssumption
      DEF CallTool, ServeTool, ToolAnswers, ToolTimesOut, ChatInv, ChatTypes
    <2> QED
      BY <1>8, <2>1, ToolKeeps
      DEF CallTool, ServeTool, ToolAnswers, ToolTimesOut
  <1>9. CASE UNCHANGED chatVars
    BY <1>9 DEF chatVars, ChatInv, ChatTypes, FreeWhenItCan
  <1> QED
    BY <1>1, <1>2, <1>3, <1>4, <1>5, <1>6, <1>7, <1>8, <1>9
    DEF ChatNext, Handle

LEMMA ChatInvariance == ChatSpec => []ChatInv
  BY ChatInitInv, ChatStepInv, PTL DEF ChatSpec

-----------------------------------------------------------------------------
(* The pool: a step that adds neither a request nor a tool call to it, and   *)
(* one that adds a single one to a pool that has room.                       *)

LEMMA PoolFinite ==
    /\ IsFiniteSet(Inside) /\ IsFiniteSet(Serving)
    /\ Cardinality(Inside) \in Nat /\ Cardinality(Serving) \in Nat
  <1>1. IsFiniteSet(Inside) /\ IsFiniteSet(Serving)
    BY ChatAssumption, FS_Subset DEF Inside, Serving
  <1> QED
    BY <1>1, FS_CardinalityType

LEMMA PoolNoMore ==
    ASSUME PoolKept, Inside' \subseteq Inside, Serving' \subseteq Serving
    PROVE  PoolKept'
  <1>1. /\ IsFiniteSet(Inside') /\ IsFiniteSet(Serving')
        /\ Cardinality(Inside') <= Cardinality(Inside)
        /\ Cardinality(Serving') <= Cardinality(Serving)
    BY PoolFinite, FS_Subset
  <1>2. Cardinality(Inside') \in Nat /\ Cardinality(Serving') \in Nat
    BY <1>1, FS_CardinalityType
  <1> QED
    BY <1>1, <1>2, PoolFinite, ChatAssumption DEF PoolKept

LEMMA PoolOneMore ==
    ASSUME NEW r \in Requests, ThreadsUsed < PoolSize,
           \/ Inside' \subseteq Inside \cup {r} /\ Serving' \subseteq Serving
           \/ Inside' \subseteq Inside /\ Serving' \subseteq Serving \cup {r}
    PROVE  PoolKept'
  <1> DEFINE c == Cardinality(Inside)
             d == Cardinality(Serving)
             c1 == Cardinality(Inside')
             d1 == Cardinality(Serving')
  <1>1. c \in Nat /\ d \in Nat /\ c + d < PoolSize
    BY PoolFinite DEF ThreadsUsed, Inside, Serving
  <1>2. ASSUME NEW S, NEW T, IsFiniteSet(S), T \subseteq S \cup {r}
        PROVE  /\ Cardinality(T) \in Nat
               /\ Cardinality(T) <= Cardinality(S) + 1
    <2>1. /\ IsFiniteSet(S \cup {r})
          /\ Cardinality(S \cup {r}) <= Cardinality(S) + 1
          /\ Cardinality(S) \in Nat
      <3>1. Cardinality(S) \in Nat
        BY <1>2, FS_CardinalityType
      <3>2. /\ IsFiniteSet(S \cup {r})
            /\ \/ Cardinality(S \cup {r}) = Cardinality(S)
               \/ Cardinality(S \cup {r}) = Cardinality(S) + 1
        BY <1>2, FS_AddElement
      <3> QED
        BY <3>1, <3>2
    <2>2. /\ IsFiniteSet(T) /\ Cardinality(T) <= Cardinality(S \cup {r})
      BY <1>2, <2>1, FS_Subset
    <2> QED
      BY <2>1, <2>2, FS_CardinalityType
  <1>3. ASSUME NEW S, NEW T, IsFiniteSet(S), T \subseteq S
        PROVE  Cardinality(T) \in Nat /\ Cardinality(T) <= Cardinality(S)
    BY <1>3, FS_Subset, FS_CardinalityType
  <1>4. /\ c1 \in Nat /\ d1 \in Nat
        /\ (c1 <= c + 1 /\ d1 <= d) \/ (c1 <= c /\ d1 <= d + 1)
    BY <1>2, <1>3, PoolFinite
  <1>5. PoolSize \in Nat
    BY ChatAssumption
  <1> HIDE DEF c, d, c1, d1
  <1>6. c1 + d1 <= PoolSize
    BY <1>1, <1>4, <1>5
  <1> QED
    BY <1>6 DEF PoolKept, c1, d1

LEMMA PoolInit == ChatInit => PoolKept
  <1> SUFFICES ASSUME ChatInit PROVE PoolKept
    OBVIOUS
  <1>1. Inside = {} /\ Serving = {}
    BY DEF ChatInit, Inside, Serving, InThread
  <1> QED
    BY <1>1, FS_EmptySet, ChatAssumption DEF PoolKept

LEMMA PoolStep == ChatInv /\ PoolKept /\ [ChatNext]_chatVars => PoolKept'
  <1> SUFFICES ASSUME ChatInv, PoolKept, [ChatNext]_chatVars PROVE PoolKept'
    OBVIOUS
  <1>1. ASSUME NEW r \in Requests, Begin(r) PROVE PoolKept'
    <2>1. Inside' \subseteq Inside \cup {r} /\ Serving' \subseteq Serving
      BY <1>1 DEF Begin, Go, Inside, Serving, InThread, ChatInv, ChatTypes
    <2> QED
      BY <1>1, <2>1, PoolOneMore DEF Begin
  <1>2. ASSUME NEW r \in Requests, ServeTool(r) PROVE PoolKept'
    <2>1. Inside' \subseteq Inside /\ Serving' \subseteq Serving \cup {r}
      BY <1>2
      DEF ServeTool, Tool, Inside, Serving, InThread, ChatInv, ChatTypes
    <2> QED
      BY <1>2, <2>1, PoolOneMore DEF ServeTool
  <1>3. ASSUME NEW state \in {"missing", "broken", "works"}, CliChanges(state)
        PROVE  PoolKept'
    <2>1. Inside' \subseteq Inside /\ Serving' \subseteq Serving
      BY <1>3 DEF CliChanges, Inside, Serving, InThread
    <2> QED
      BY <2>1, PoolNoMore
  <1>4. ASSUME NEW r \in Requests, NEW question \in BOOLEAN, Arrive(r, question)
        PROVE  PoolKept'
    <2>1. Inside' \subseteq Inside /\ Serving' \subseteq Serving
      BY <1>4 DEF Arrive, Go, Inside, Serving, InThread, ChatInv, ChatTypes
    <2> QED
      BY <2>1, PoolNoMore
  <1>5. ASSUME NEW r \in Requests,
               \/ Look(r) \/ Usable(r)
               \/ \E outcome \in {"good", "bad"} : EndProbe(r, outcome)
        PROVE  PoolKept'
    <2>1. InThread(r)
      BY <1>5 DEF Look, Usable, EndProbe, InThread
    <2>2. /\ \A q \in Requests \ {r} : at'[q] = at[q]
          /\ \A q \in Requests : tool'[q] = "served" => tool[q] = "served"
      BY <1>5
      DEF Look, Usable, EndProbe, Select, Respond, Go, ChatInv, ChatTypes
    <2>3. Inside' \subseteq Inside /\ Serving' \subseteq Serving
      BY <2>1, <2>2 DEF Inside, Serving, InThread
    <2> QED
      BY <2>3, PoolNoMore
  <1>6. ASSUME NEW r \in Requests, ApiAnswers(r) \/ CliTimesOut(r) \/ CliExits(r)
        PROVE  PoolKept'
    <2>1. Inside' \subseteq Inside /\ Serving' \subseteq Serving
      BY <1>6
      DEF ApiAnswers, CliTimesOut, CliExits, Respond, Go, Inside, Serving,
          InThread, ChatInv, ChatTypes
    <2> QED
      BY <2>1, PoolNoMore
  <1>7. ASSUME NEW r \in Requests, CallTool(r) \/ ToolAnswers(r) \/ ToolTimesOut(r)
        PROVE  PoolKept'
    <2>1. Inside' \subseteq Inside /\ Serving' \subseteq Serving
      BY <1>7
      DEF CallTool, ToolAnswers, ToolTimesOut, Tool, Inside, Serving,
          InThread, ChatInv, ChatTypes
    <2> QED
      BY <2>1, PoolNoMore
  <1>8. CASE UNCHANGED chatVars
    BY <1>8, PoolNoMore DEF chatVars, Inside, Serving, InThread
  <1> QED
    BY <1>1, <1>2, <1>3, <1>4, <1>5, <1>6, <1>7, <1>8 DEF ChatNext, Handle

-----------------------------------------------------------------------------
(* Every variable has its type, and requests and tool calls never hold more  *)
(* threads than the pool has.                                                *)
THEOREM ChatTypeCorrectness == ChatSpec => []ChatTypeOK
  <1>1. ChatSpec => []PoolKept
    BY PoolInit, PoolStep, ChatInvariance, PTL DEF ChatSpec
  <1>2. ChatInv /\ PoolKept => ChatTypeOK
    BY DEF ChatInv, ChatTypes, PoolKept, Inside, Serving, ChatTypeOK, ThreadsUsed
  <1> QED
    BY <1>1, <1>2, ChatInvariance, PTL

(* Whatever probes overlap and however the CLI comes and goes, no question   *)
(* is sent to the API while the CLI would do.                                *)
THEOREM FreeFirst == ChatSpec => []FreeWhenItCan
  <1>1. ChatInv => FreeWhenItCan
    BY DEF ChatInv
  <1> QED
    BY <1>1, ChatInvariance, PTL

-----------------------------------------------------------------------------
(* The three beside each other, as in MCServices.                           *)

LEMMA ServicesStep ==
    [MCNext]_<<vars, updaterVars, chatVars>>
        => [Next]_vars /\ [UpdaterNext]_updaterVars /\ [ChatNext]_chatVars
  BY DEF MCNext, UpdaterRests, ChatRests

(* Whichever of the three runs while the others rest, every variable of each *)
(* keeps its type, for all constants. *)
THEOREM ServicesTypes == MCSpec => []MCTypeOK
  <1> DEFINE Inv == SupervisorInv /\ UpdaterInv /\ ChatInv /\ PoolKept
  <1>1. MCInit => Inv
    BY SupervisorInitInv, UpdaterInitInv, ChatInitInv, PoolInit DEF MCInit
  <1>2. Inv /\ [MCNext]_<<vars, updaterVars, chatVars>> => Inv'
    BY ServicesStep, SupervisorStepInv, UpdaterStepInv, ChatStepInv, PoolStep
  <1>3. Inv => MCTypeOK
    <2>1. ChatInv /\ PoolKept => ChatTypeOK
      BY DEF ChatInv, ChatTypes, PoolKept, Inside, Serving, ChatTypeOK, ThreadsUsed
    <2> QED
      BY <2>1 DEF SupervisorInv, UpdaterInv, MCTypeOK
  <1> HIDE DEF Inv
  <1> QED
    BY <1>1, <1>2, <1>3, PTL DEF MCSpec
=============================================================================
