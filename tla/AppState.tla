------------------------------- MODULE AppState -------------------------------
(***************************************************************************)
(* The application state: kept by the shell (desktop/main/app-state.ts,     *)
(* main.ts), driven by the extraction loop (fortrade-adapter.ts), posted to *)
(* the backend, and kept there a second time (backend/fortrade/state.py).   *)
(*                                                                          *)
(* The shell runs on one thread, so that what it does between two awaits is *)
(* one step.  POSTs of the state are not awaited: they overtake each other  *)
(* and are lost silently.  A snapshot the shell gave up on after 3 seconds  *)
(* may still reach the backend.                                             *)
(***************************************************************************)
EXTENDS Integers

CONSTANTS
    Tolerated,      \* FAILURES_BEFORE_DISCONNECT
    MaxDeaths,      \* bound: deaths of the backend
    NoTimer

ASSUME AppAssumption == Tolerated \in Nat \ {0} /\ MaxDeaths \in Nat

VARIABLES
    page,       \* what the Fortrade view shows
    opened,     \* history: it has shown the trading page
    calm,       \* the outside gives no more trouble
    boot,       \* where whenReady is
    ready,      \* backendReady
    shell,      \* AppStateMachine: [state, detail]
    settle,     \* the settle timer, with the view state it will classify
    failures,   \* consecutiveFailures, counted up to Tolerated
    tick,       \* where FortradeAdapter.tick is
    snap,       \* snapshots on their way
    posts,      \* states on their way to the backend
    up,         \* the backend answers
    deaths,
    bstate,     \* StateStore._state
    fresh       \* it has a snapshot younger than STALE_AFTER

outside == <<page, opened, calm>>
adapter == <<failures, tick, snap>>
backend == <<up, deaths, bstate, fresh>>
vars == <<outside, boot, ready, shell, settle, adapter, posts, backend>>

States == {"STARTING", "FORTRADE_LOADING", "AUTH_REQUIRED", "CONNECTED",
           "BACKEND_ERROR", "DISCONNECTED"}
Details == {"none", "notStarted", "nothingUsable", "noAccount", "error"}
Pages == {"blank", "loading", "login", "trading", "hung"}

Init ==
    /\ page = "blank"
    /\ opened = FALSE
    /\ calm = FALSE
    /\ boot = "starting"
    /\ ready = FALSE
    /\ shell = [state |-> "STARTING", detail |-> "none"]
    /\ settle = NoTimer
    /\ failures = 0
    /\ tick = "idle"
    /\ snap = {}
    /\ posts = {}
    /\ up = FALSE
    /\ deaths = 0
    /\ bstate = "STARTING"
    /\ fresh = FALSE

(* AppStateMachine.set: an unchanged state and detail tell nobody. *)
SetState(state, detail) ==
    /\ shell' = [state |-> state, detail |-> detail]
    /\ posts' = IF shell' = shell THEN posts ELSE posts \cup {state}

KeepState == UNCHANGED <<shell, posts>>

-----------------------------------------------------------------------------
(* whenReady: the backend is awaited, then the view is created, and the     *)
(* state set, whatever became of the backend.                               *)

BackendStarted ==
    /\ boot = "starting"
    /\ up
    /\ ready' = TRUE
    /\ boot' = "view"
    /\ KeepState
    /\ UNCHANGED <<outside, settle, adapter, backend>>

BackendFailed ==
    /\ boot = "starting"
    /\ ~calm
    /\ boot' = "view"
    /\ SetState("BACKEND_ERROR", "notStarted")
    /\ UNCHANGED <<outside, ready, settle, adapter, backend>>

CreateView ==
    /\ boot = "view"
    /\ boot' = "done"
    /\ page' = "loading"
    /\ settle' = "loading"
    /\ SetState("FORTRADE_LOADING", "none")
    /\ UNCHANGED <<opened, calm, ready, adapter, backend>>

-----------------------------------------------------------------------------
(* The view: every event restarts the settle timer with the state it saw.   *)
(* A view that hangs or whose process is gone sends no event.               *)

Navigate(to) ==
    /\ boot = "done"
    /\ ~calm
    /\ page # to
    /\ page' = to
    /\ settle' = IF to = "hung" THEN settle ELSE to
    /\ opened' = (opened \/ to = "trading")
    /\ KeepState
    /\ UNCHANGED <<calm, boot, ready, adapter, backend>>

(* applyFortradeUrl *)
Classify(seen) == IF seen = "login" THEN "AUTH_REQUIRED" ELSE "FORTRADE_LOADING"

(* Mutant: a URL overrides a confirmed session. *)
SettleAlways ==
    /\ settle # NoTimer
    /\ settle' = NoTimer
    /\ SetState(Classify(settle), "none")
    /\ UNCHANGED <<outside, boot, ready, adapter, backend>>

Settle ==
    /\ settle # NoTimer
    /\ settle' = NoTimer
    /\ IF shell.state # "CONNECTED" THEN SetState(Classify(settle), "none") ELSE KeepState
    /\ UNCHANGED <<outside, boot, ready, adapter, backend>>

-----------------------------------------------------------------------------
(* FortradeAdapter.tick                                                     *)

Capped(n) == IF n > Tolerated THEN Tolerated ELSE n

(* Mutant: one failure more is tolerated, each time. *)
RecordFailureLate(state, detail) ==
    /\ failures' = Capped(failures + 1)
    /\ IF failures >= Tolerated THEN SetState(state, detail) ELSE KeepState

RecordFailure(state, detail) ==
    /\ failures' = Capped(failures + 1)
    /\ IF failures + 1 >= Tolerated THEN SetState(state, detail) ELSE KeepState

(* The interval fires; a tick that runs is not joined by another. *)
StartTick ==
    /\ boot = "done" /\ ready
    /\ tick = "idle"
    /\ tick' = "extracting"
    /\ KeepState
    /\ UNCHANGED <<outside, boot, ready, settle, failures, snap, backend>>

(* executeJavaScript resolves once the page's own thread runs the script;   *)
(* it has no timeout.                                                       *)
ExtractNothing ==
    /\ tick = "extracting"
    /\ page = "loading" \/ (page = "trading" /\ ~calm)
    /\ tick' = "idle"
    /\ \E detail \in {"nothingUsable", "error"} : RecordFailure("DISCONNECTED", detail)
    /\ UNCHANGED <<outside, boot, ready, settle, snap, backend>>

ExtractNoAccount ==
    /\ tick = "extracting"
    /\ page = "login"
    /\ tick' = "idle"
    /\ RecordFailure("AUTH_REQUIRED", "noAccount")
    /\ UNCHANGED <<outside, boot, ready, settle, snap, backend>>

(* Mutant: whatever was extracted is posted. *)
ExtractAnyAccount ==
    /\ tick = "extracting"
    /\ page \in {"loading", "login", "trading"}
    /\ tick' = "posting"
    /\ snap' = snap \cup {"current"}
    /\ KeepState
    /\ UNCHANGED <<outside, boot, ready, settle, failures, backend>>

ExtractAccount ==
    /\ tick = "extracting"
    /\ page = "trading"
    /\ tick' = "posting"
    /\ snap' = snap \cup {"current"}
    /\ KeepState
    /\ UNCHANGED <<outside, boot, ready, settle, failures, backend>>

(* The backend has accepted the snapshot and its answer arrives. *)
PostOk ==
    /\ tick = "posting"
    /\ "accepted" \in snap
    /\ tick' = "idle"
    /\ snap' = snap \ {"accepted"}
    /\ failures' = 0
    /\ SetState("CONNECTED", "none")
    /\ UNCHANGED <<outside, boot, ready, settle, backend>>

(* The POST is refused, cut off or times out; it may have been accepted, or *)
(* (bound: one of them) be on its way still.                                *)
PostFails ==
    /\ tick = "posting"
    /\ ~calm \/ snap \cap {"current", "accepted"} = {}
    /\ tick' = "idle"
    /\ \E late \in {{}, {"late"}} :
          /\ late # {} => "current" \in snap
          /\ snap' = (snap \ {"current", "accepted"}) \cup late
    /\ RecordFailure("DISCONNECTED", "error")
    /\ UNCHANGED <<outside, boot, ready, settle, backend>>

-----------------------------------------------------------------------------
(* The backend                                                              *)

(* Mutant: a disconnected backend waits to be told. *)
PromotableButDisconnected == {"STARTING", "FORTRADE_LOADING", "AUTH_REQUIRED"}

Promotable == {"STARTING", "FORTRADE_LOADING", "AUTH_REQUIRED", "DISCONNECTED"}

(* StateStore.update_snapshot, in ingest_snapshot *)
Accept(which) ==
    /\ up
    /\ which \in snap
    /\ snap' = (snap \ {which}) \cup (IF which = "current" THEN {"accepted"} ELSE {})
    /\ bstate' = IF bstate \in Promotable THEN "CONNECTED" ELSE bstate
    /\ fresh' = TRUE
    /\ UNCHANGED <<outside, boot, ready, shell, settle, failures, tick, posts, up, deaths>>

(* StateStore.set_state, in set_app_state *)
DeliverState(state) ==
    /\ up
    /\ state \in posts
    /\ posts' = posts \ {state}
    /\ bstate' = state
    /\ UNCHANGED <<outside, boot, ready, shell, settle, adapter, up, deaths, fresh>>

LoseState(state) ==
    /\ state \in posts
    /\ posts' = posts \ {state}
    /\ UNCHANGED <<outside, boot, ready, shell, settle, adapter, backend>>

(* STALE_AFTER passes without a snapshot. *)
GrowStale ==
    /\ fresh
    /\ fresh' = FALSE
    /\ UNCHANGED <<outside, boot, ready, shell, settle, adapter, posts, up, deaths, bstate>>

(* lifespan *)
BackendUp ==
    /\ ~up
    /\ up' = TRUE
    /\ bstate' = "FORTRADE_LOADING"
    /\ fresh' = FALSE
    /\ UNCHANGED <<outside, boot, ready, shell, settle, adapter, posts, deaths>>

BackendDown ==
    /\ up
    /\ ~calm
    /\ deaths < MaxDeaths
    /\ deaths' = deaths + 1
    /\ up' = FALSE
    /\ snap' = {}
    /\ UNCHANGED <<outside, boot, ready, shell, settle, failures, tick, posts, bstate, fresh>>

(* From now on the session is open, the page answers, and no call is late. *)
CalmDown ==
    /\ ~calm /\ page = "trading" /\ up /\ ready
    /\ calm' = TRUE
    /\ UNCHANGED <<page, opened, boot, ready, shell, settle, adapter, posts, backend>>

Adapter ==
    \/ StartTick \/ ExtractNothing \/ ExtractNoAccount \/ ExtractAccount
    \/ PostOk \/ PostFails

Backend ==
    \/ \E which \in {"current", "late"} : Accept(which)
    \/ \E state \in States : DeliverState(state)
    \/ GrowStale

Next ==
    \/ BackendStarted \/ BackendFailed \/ CreateView
    \/ \E to \in Pages \ {"blank"} : Navigate(to)
    \/ Settle
    \/ Adapter
    \/ Backend
    \/ \E state \in States : LoseState(state)
    \/ BackendUp \/ BackendDown
    \/ CalmDown

(* Timers fire, the shell's thread runs, and a backend that is up handles   *)
(* what reaches it.  Nothing makes a page change, a call fail or a process  *)
(* die.                                                                     *)
Fairness ==
    /\ WF_vars(BackendStarted \/ CreateView)
    /\ WF_vars(Settle)
    /\ WF_vars(Adapter)
    /\ WF_vars(BackendUp)
    /\ WF_vars(GrowStale)
    /\ \A which \in {"current", "late"} : WF_vars(Accept(which))
    /\ \A state \in States : WF_vars(DeliverState(state))

Spec == Init /\ [][Next]_vars /\ Fairness

-----------------------------------------------------------------------------
(* Mutant: the age of the snapshot is not looked at. *)
FortradeStatusOfState ==
    IF bstate = "CONNECTED" THEN "READY"
    ELSE IF bstate = "BACKEND_ERROR" THEN "ERROR" ELSE "PENDING"

(* StateStore.status: what the status strip shows of Fortrade. *)
FortradeStatus ==
    IF bstate = "CONNECTED" /\ fresh THEN "READY"
    ELSE IF bstate = "BACKEND_ERROR" THEN "ERROR" ELSE "PENDING"

(* Every variable has its type, and the shell claims CONNECTED only while   *)
(* fewer extractions in a row have failed than it tolerates.                *)
TypeOK ==
    /\ page \in Pages
    /\ opened \in BOOLEAN /\ calm \in BOOLEAN /\ ready \in BOOLEAN /\ up \in BOOLEAN /\ fresh \in BOOLEAN
    /\ boot \in {"starting", "view", "done"}
    /\ shell \in [state : States, detail : Details]
    /\ settle \in {NoTimer, "loading", "login", "trading"}
    /\ failures \in 0..Tolerated
    /\ shell.state = "CONNECTED" => failures < Tolerated
    /\ tick \in {"idle", "extracting", "posting"}
    /\ snap \subseteq {"current", "accepted", "late"}
    /\ posts \subseteq States
    /\ deaths \in 0..MaxDeaths
    /\ bstate \in States

(* A confirmed session is given up only by failing extractions: no page     *)
(* event and no timer set before it was confirmed overrides it.             *)
SessionNotOverridden ==
    [][(shell.state = "CONNECTED" /\ shell'.state # "CONNECTED")
          => failures' = Tolerated]_vars

(* CONNECTED is only reachable through a successful extraction: until the   *)
(* trading page has been shown neither side says so, and no post on its way *)
(* does.                                                                    *)
ConnectedMeansExtracted ==
    (shell.state = "CONNECTED" \/ bstate = "CONNECTED" \/ "CONNECTED" \in posts)
        => opened

(* Once the session is open and nothing fails, both sides come to say       *)
(* CONNECTED and keep saying so, whatever was in flight before.             *)
Recovers == calm ~> [](shell.state = "CONNECTED" /\ bstate = "CONNECTED")

(* When the session stays away the status strip stops saying READY for      *)
(* good, even if the page hangs and the extraction with it.                 *)
NeverReadyOnSilence ==
    <>[](page # "trading") => <>[](FortradeStatus # "READY")

(* A failed backend is where the shell stops. *)
BackendErrorStays ==
    [][shell.state = "BACKEND_ERROR" => shell'.state = "BACKEND_ERROR"]_vars
=============================================================================
