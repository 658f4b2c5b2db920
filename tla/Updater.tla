-------------------------------- MODULE Updater --------------------------------
(***************************************************************************)
(* The update check of the shell (desktop/main/updater.ts), over any number *)
(* of sessions of the application.                                          *)
(*                                                                          *)
(* Where the application can replace itself, electron-updater checks,       *)
(* downloads and installs, and the Updater follows its events.  On macOS    *)
(* the Updater reads the newest release itself and offers a link.  A        *)
(* release is an index into the order of publication; a request is its own  *)
(* step, apart from its answer.                                             *)
(***************************************************************************)
EXTENDS Integers, Sequences

CONSTANTS
    Releases,   \* Seq([core : Seq(Nat), rank : Nat, image : BOOLEAN])
    Slots,      \* bound: requests of checkManually in flight
    Builds      \* of {"development", "manual", "self"}

ASSUME UpdaterAssumption ==
    /\ Releases \in Seq([core : Seq(Nat), rank : Nat, image : BOOLEAN])
    /\ Len(Releases) > 0

VARIABLES
    build,      \* app.isPackaged and CAN_SELF_INSTALL
    installed,  \* the release the application was started from
    latest,     \* the newest published
    running,
    status,     \* Updater.state: its name, and the release it names or 0
    request,    \* checkManually: [Slots -> 0 free, -1 asked, or the answer]
    checking,   \* electron-updater: a check is in flight
    download,   \* electron-updater: the release being downloaded, or 0
    held        \* electron-updater: the release it holds verified, or 0

updaterVars ==
    <<build, installed, latest, running, status, request, checking, download, held>>

Published == 1..Len(Releases)
Free == 0
Asked == -1
Nothing == 0

Is(name, release) == [name |-> name, version |-> release]

(* The order of the releases, which semver gives electron-updater. *)
Newer(r, than) == Releases[r].rank > Releases[than].rank

-----------------------------------------------------------------------------
Part(core, i) == IF i \in DOMAIN core THEN core[i] ELSE 0

(* Mutant: any larger component will do. *)
IsNewerVersionAnywhere(candidate, current) ==
    \E i \in DOMAIN candidate : candidate[i] > Part(current, i)

(* isNewerVersion: the first component that differs decides; one that is    *)
(* missing is 0, and what follows a hyphen is not compared.                 *)
IsNewerVersion(candidate, current) ==
    \E i \in DOMAIN candidate :
        /\ candidate[i] > Part(current, i)
        /\ \A j \in 1 .. i - 1 : candidate[j] = Part(current, j)

(* Semver decides by the numbers first, by what follows a hyphen second.    *)
ASSUME SemverAssumption ==
    \A r, s \in Published :
        \A i \in DOMAIN Releases[r].core :
            /\ \A j \in 1 .. i - 1 : Releases[r].core[j] = Part(Releases[s].core, j)
            /\ Releases[r].core[i] > Part(Releases[s].core, i)
            => Newer(r, s)

-----------------------------------------------------------------------------
UpdaterInit ==
    /\ build \in Builds
    /\ installed = 1
    /\ latest = 1
    /\ running = FALSE
    /\ status = Is("idle", Nothing)
    /\ request = [s \in Slots |-> Free]
    /\ checking = FALSE
    /\ download = Nothing
    /\ held = Nothing

Publish ==
    /\ latest < Len(Releases)
    /\ latest' = latest + 1
    /\ UNCHANGED <<build, installed, running, status, request, checking, download, held>>

(* checkManually up to its fetch. *)
AskRelease(s) ==
    /\ request[s] = Free
    /\ request' = [request EXCEPT ![s] = Asked]
    /\ status' = Is("checking", Nothing)
    /\ UNCHANGED checking

(* checkForUpdates; asked again during a check it does nothing. *)
AskUpdater ==
    /\ ~checking
    /\ checking' = TRUE
    /\ status' = Is("checking", Nothing)
    /\ UNCHANGED request

(* check() *)
Check ==
    \/ build = "manual" /\ \E s \in Slots : AskRelease(s)
    \/ build = "self" /\ AskUpdater

(* start(), which checks at once. *)
StartUpdater ==
    /\ ~running
    /\ running' = TRUE
    /\ \/ Check
       \/ /\ build = "development"
          /\ status' = Is("disabled", Nothing)
          /\ UNCHANGED <<request, checking>>
    /\ UNCHANGED <<build, installed, latest, download, held>>

(* Mutant: only an updater that has nothing to say checks again. *)
CheckAgainIfQuiet ==
    /\ running
    /\ status.name \in {"idle", "checking", "error"}
    /\ Check
    /\ UNCHANGED <<build, installed, latest, running, download, held>>

(* The six hours are over, or the user asks to look again. *)
CheckAgain ==
    /\ running
    /\ Check
    /\ UNCHANGED <<build, installed, latest, running, download, held>>

-----------------------------------------------------------------------------
(* macOS: checkManually after its fetch *)

FetchAnswers(s) ==
    /\ request[s] = Asked
    /\ request' = [request EXCEPT ![s] = latest]
    /\ UNCHANGED <<build, installed, latest, running, status, checking, download, held>>

Verdict(r) ==
    IF ~IsNewerVersion(Releases[r].core, Releases[installed].core)
    THEN Is("current", installed)
    ELSE IF ~Releases[r].image THEN Is("error", Nothing)
    ELSE Is("manual", r)

FinishCheck(s) ==
    /\ request[s] \in Published
    /\ status' = Verdict(request[s])
    /\ request' = [request EXCEPT ![s] = Free]
    /\ UNCHANGED <<build, installed, latest, running, checking, download, held>>

(* No answer within 15 seconds, or one that is of no use. *)
FailCheck(s) ==
    /\ request[s] # Free
    /\ status' = Is("error", Nothing)
    /\ request' = [request EXCEPT ![s] = Free]
    /\ UNCHANGED <<build, installed, latest, running, checking, download, held>>

-----------------------------------------------------------------------------
(* Windows and Linux: the events of electron-updater.  A check that finds a *)
(* release has it downloaded, unless a download is under way; what was held *)
(* of another release is discarded.                                         *)

NotAvailable ==
    /\ checking
    /\ ~Newer(latest, installed)
    /\ checking' = FALSE
    /\ status' = Is("current", installed)
    /\ UNCHANGED <<build, installed, latest, running, request, download, held>>

Available ==
    /\ checking
    /\ Newer(latest, installed)
    /\ checking' = FALSE
    /\ status' = Is("downloading", latest)
    /\ download' = IF download = Nothing THEN latest ELSE download
    /\ held' = IF held = download' THEN held ELSE Nothing
    /\ UNCHANGED <<build, installed, latest, running, request>>

(* The state keeps the release it names, and names none after a check. *)
Progress ==
    /\ download # Nothing
    /\ status' = Is("downloading", status.version)
    /\ UNCHANGED <<build, installed, latest, running, request, checking, download, held>>

(* Mutant: the release the state names is taken for the one downloaded. *)
DownloadedAsNamed ==
    /\ download # Nothing
    /\ held' = download
    /\ download' = Nothing
    /\ status' = Is("ready", status.version)
    /\ UNCHANGED <<build, installed, latest, running, request, checking>>

Downloaded ==
    /\ download # Nothing
    /\ held' = download
    /\ download' = Nothing
    /\ status' = Is("ready", download)
    /\ UNCHANGED <<build, installed, latest, running, request, checking>>

UpdaterError ==
    /\ \/ checking /\ checking' = FALSE /\ UNCHANGED download
       \/ download # Nothing /\ download' = Nothing /\ UNCHANGED checking
    /\ status' = Is("error", Nothing)
    /\ UNCHANGED <<build, installed, latest, running, request, held>>

-----------------------------------------------------------------------------
(* The process ends, and what it had asked for with it. *)
EndProcess ==
    /\ running
    /\ running' = FALSE
    /\ status' = Is("idle", Nothing)
    /\ request' = [s \in Slots |-> Free]
    /\ checking' = FALSE
    /\ download' = Nothing
    /\ held' = Nothing
    /\ UNCHANGED <<build, latest>>

(* The application quits: autoInstallOnAppQuit installs what is held,       *)
(* whatever the state says.                                                 *)
QuitInstalling ==
    /\ EndProcess
    /\ installed' = IF held # Nothing THEN held ELSE installed

(* install(): quitAndInstall, from the state `ready` only. *)
Install ==
    /\ build = "self" /\ status.name = "ready"
    /\ EndProcess
    /\ installed' = held

(* The user drags the image that was offered to Applications. *)
InstallByHand ==
    /\ status.name = "manual"
    /\ EndProcess
    /\ installed' = status.version

Crash == EndProcess /\ UNCHANGED installed

UpdaterNext ==
    \/ Publish
    \/ StartUpdater \/ CheckAgain
    \/ \E s \in Slots : FetchAnswers(s) \/ FinishCheck(s) \/ FailCheck(s)
    \/ NotAvailable \/ Available \/ Progress \/ Downloaded \/ UpdaterError
    \/ QuitInstalling \/ Install \/ InstallByHand \/ Crash

(* The interval comes round; a network that is tried again and again        *)
(* answers at last, and a download that is started again and again ends.    *)
UpdaterFairness ==
    /\ WF_updaterVars(CheckAgain)
    /\ \A s \in Slots : SF_updaterVars(FetchAnswers(s)) /\ SF_updaterVars(FinishCheck(s))
    /\ SF_updaterVars(NotAvailable \/ Available)
    /\ SF_updaterVars(Downloaded)

UpdaterSpec ==
    UpdaterInit /\ [][UpdaterNext]_updaterVars /\ UpdaterFairness

-----------------------------------------------------------------------------
(* Every variable has its type. *)
UpdaterTypeOK ==
    /\ build \in Builds
    /\ installed \in Published
    /\ latest \in Published
    /\ running \in BOOLEAN
    /\ status \in [name : {"idle", "disabled", "checking", "current", "downloading",
                           "ready", "manual", "error"},
                   version : Published \cup {Nothing}]
    /\ request \in [Slots -> Published \cup {Free, Asked}]
    /\ checking \in BOOLEAN
    /\ download \in Published \cup {Nothing}
    /\ held \in Published \cup {Nothing}

(* What is offered can be had and is worth having, in whichever order       *)
(* checks and downloads end: a `ready` release is the one held on disk, a   *)
(* `manual` one has an image, and either is later than the one that runs.   *)
OfferIsThere ==
    /\ status.name = "ready" => status.version = held /\ Newer(held, installed)
    /\ status.name = "manual" =>
          Releases[status.version].image /\ Newer(status.version, installed)

(* No session leaves the application at an earlier release: a hotfix of an  *)
(* old line that is published last is no update for the new one.            *)
NeverDowngrades ==
    [][installed' = installed \/ Newer(installed', installed)]_updaterVars

Offered == status.name \in {"ready", "manual"}

(* An application that stays open is offered the newest release again and   *)
(* again, although every check takes a standing offer away until it ends.   *)
UpdateIsOffered ==
    /\ <>[](running /\ build # "development")
    /\ <>[](Newer(latest, installed) /\ Releases[latest].image)
    => []<>Offered
=============================================================================
