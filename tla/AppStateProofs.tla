---------------------------- MODULE AppStateProofs ----------------------------
(***************************************************************************)
(* Proofs about AppState, for every number of tolerated failures and of     *)
(* deaths of the backend.                                                   *)
(***************************************************************************)
EXTENDS AppState, TLAPS

(* Nothing is extracted before there is a view. *)
NoSessionYet == boot # "done" => tick = "idle" /\ shell.state # "CONNECTED"

(* Before the trading page is shown nothing is on its way that could make    *)
(* anyone say CONNECTED: no snapshot, no answer to one and no state. *)
NothingExtracted ==
    ~opened =>
        /\ page # "trading"
        /\ tick # "posting" /\ snap = {}
        /\ "CONNECTED" \notin posts \cup {shell.state, bstate}

AppInv == TypeOK /\ NoSessionYet /\ NothingExtracted

(* The step of SessionNotOverridden. *)
NotOverridden ==
    shell.state = "CONNECTED" /\ shell'.state # "CONNECTED" => failures' = Tolerated

Shells == [state : States, detail : Details]

LEMMA AppInitInv == Init => AppInv
  <1> SUFFICES ASSUME Init PROVE AppInv
    OBVIOUS
  <1>1. /\ shell = [state |-> "STARTING", detail |-> "none"]
        /\ shell \in Shells
    BY DEF Init, Shells, States, Details
  <1>2. opened \in BOOLEAN /\ calm \in BOOLEAN /\ ready \in BOOLEAN /\ up \in BOOLEAN
        /\ fresh \in BOOLEAN
    BY DEF Init
  <1>3. TypeOK
    BY <1>1, <1>2, AppAssumption DEF Init, TypeOK, Shells, States, Pages
  <1> QED
    BY <1>1, <1>3 DEF Init, AppInv, NoSessionYet, NothingExtracted

(* What AppStateMachine.set leaves: the state it was given, and at most that *)
(* state as one more on its way. *)
LEMMA SetStateFacts ==
    ASSUME posts \subseteq States, NEW state \in States, NEW detail \in Details,
           SetState(state, detail)
    PROVE  /\ shell' \in Shells /\ shell'.state = state
           /\ posts' \subseteq States /\ posts' \subseteq posts \cup {state}
  BY DEF SetState, Shells

(* What a failed extraction leaves: the state is given up with the last      *)
(* failure that is tolerated, and not before. *)
LEMMA RecordFailureFacts ==
    ASSUME TypeOK, NEW state \in States \ {"CONNECTED"}, NEW detail \in Details,
           RecordFailure(state, detail)
    PROVE  /\ failures' \in 0..Tolerated
           /\ shell' \in Shells /\ shell'.state \in {shell.state, state}
           /\ posts' \subseteq States /\ posts' \subseteq posts \cup {state}
           /\ shell'.state = "CONNECTED" => failures' < Tolerated
           /\ NotOverridden
  <1>1. /\ Tolerated \in Nat \ {0} /\ failures \in 0..Tolerated
        /\ posts \subseteq States /\ shell \in Shells
    BY AppAssumption DEF TypeOK, Shells
  <1>2. CASE failures + 1 >= Tolerated
    <2>1. SetState(state, detail) /\ failures' = Tolerated
      BY <1>1, <1>2 DEF RecordFailure, Capped
    <2> QED
      BY <1>1, <2>1, SetStateFacts DEF NotOverridden
  <1>3. CASE ~(failures + 1 >= Tolerated)
    <2>1. shell' = shell /\ posts' = posts /\ failures' = failures + 1
      BY <1>1, <1>3 DEF RecordFailure, KeepState, Capped
    <2> QED
      BY <1>1, <1>3, <2>1 DEF NotOverridden
  <1> QED
    BY <1>2, <1>3

(* The steps of the shell, one by one. *)
LEMMA BootKeeps ==
    ASSUME AppInv, BackendStarted \/ BackendFailed \/ CreateView
    PROVE  AppInv' /\ NotOverridden
  <1> USE AppAssumption
  <1>1. CASE BackendStarted
    BY <1>1 DEF BackendStarted, KeepState, outside, adapter, backend, AppInv, TypeOK,
                NoSessionYet, NothingExtracted, NotOverridden
  <1>2. CASE BackendFailed
    <2>1. /\ shell' \in Shells /\ shell'.state = "BACKEND_ERROR" /\ posts' \subseteq States
          /\ posts' \subseteq posts \cup {"BACKEND_ERROR"}
      BY <1>2, SetStateFacts DEF BackendFailed, AppInv, TypeOK, States, Details
    <2> QED
      BY <1>2, <2>1 DEF BackendFailed, outside, adapter, backend, AppInv, TypeOK, Shells,
                        NoSessionYet, NothingExtracted, NotOverridden
  <1>3. CASE CreateView
    <2>1. /\ shell' \in Shells /\ shell'.state = "FORTRADE_LOADING" /\ posts' \subseteq States
          /\ posts' \subseteq posts \cup {"FORTRADE_LOADING"}
      BY <1>3, SetStateFacts DEF CreateView, AppInv, TypeOK, States, Details
    <2> QED
      BY <1>3, <2>1 DEF CreateView, adapter, backend, AppInv, TypeOK, Shells, Pages,
                        NoSessionYet, NothingExtracted, NotOverridden
  <1> QED
    BY <1>1, <1>2, <1>3

LEMMA ViewKeeps ==
    ASSUME AppInv, Settle \/ (\E to \in Pages \ {"blank"} : Navigate(to))
    PROVE  AppInv' /\ NotOverridden
  <1> USE AppAssumption
  <1>1. CASE Settle
    <2>1. CASE shell.state = "CONNECTED"
      BY <1>1, <2>1 DEF Settle, KeepState, outside, adapter, backend, AppInv, TypeOK,
                        NoSessionYet, NothingExtracted, NotOverridden
    <2>2. CASE shell.state # "CONNECTED"
      <3>1. PICK state \in {"AUTH_REQUIRED", "FORTRADE_LOADING"} : SetState(state, "none")
        BY <1>1, <2>2 DEF Settle, Classify
      <3>2. /\ shell' \in Shells /\ shell'.state = state /\ posts' \subseteq States
            /\ posts' \subseteq posts \cup {state}
        BY <3>1, SetStateFacts DEF AppInv, TypeOK, States, Details
      <3> QED
        BY <1>1, <2>2, <3>2
        DEF Settle, outside, adapter, backend, AppInv, TypeOK, Shells,
            NoSessionYet, NothingExtracted, NotOverridden
    <2> QED
      BY <2>1, <2>2
  <1>2. ASSUME NEW to \in Pages \ {"blank"}, Navigate(to)
        PROVE  AppInv' /\ NotOverridden
    <2>1. /\ page' = to /\ opened' = (opened \/ to = "trading")
          /\ settle' \in {NoTimer, "loading", "login", "trading"}
      BY <1>2 DEF Navigate, AppInv, TypeOK, Pages
    <2>2. opened' \in BOOLEAN
      BY ONLY <2>1, Zenon
    <2>3. UNCHANGED <<shell, posts, calm, boot, ready, failures, tick, snap, up, deaths, bstate, fresh>>
      BY <1>2 DEF Navigate, KeepState, adapter, backend
    <2>4. TypeOK'
      BY <2>1, <2>2, <2>3 DEF AppInv, TypeOK
    <2> QED
      BY <2>1, <2>3, <2>4
      DEF AppInv, NoSessionYet, NothingExtracted, NotOverridden
  <1> QED
    BY <1>1, <1>2

LEMMA AdapterKeeps ==
    ASSUME AppInv, Adapter
    PROVE  AppInv' /\ NotOverridden
  <1> USE AppAssumption
  <1>1. CASE StartTick \/ ExtractAccount
    BY <1>1 DEF StartTick, ExtractAccount, KeepState, outside, backend, AppInv, TypeOK,
                NoSessionYet, NothingExtracted, NotOverridden
  <1>2. CASE ExtractNothing \/ ExtractNoAccount \/ PostFails
    <2>1. PICK state \in {"DISCONNECTED", "AUTH_REQUIRED"}, detail \in Details :
             RecordFailure(state, detail)
      BY <1>2 DEF ExtractNothing, ExtractNoAccount, PostFails, Details
    <2>2. /\ failures' \in 0..Tolerated
          /\ shell' \in Shells /\ shell'.state \in {shell.state, state}
          /\ posts' \subseteq States /\ posts' \subseteq posts \cup {state}
          /\ shell'.state = "CONNECTED" => failures' < Tolerated
          /\ NotOverridden
      BY <2>1, RecordFailureFacts DEF AppInv, States
    <2>3. /\ tick' = "idle" /\ tick \in {"extracting", "posting"}
          /\ tick = "posting" \/ snap' = snap
          /\ snap' \subseteq {"current", "accepted", "late"}
          /\ UNCHANGED <<page, opened, calm, boot, ready, settle, up, deaths, bstate, fresh>>
      BY <1>2 DEF ExtractNothing, ExtractNoAccount, PostFails, outside, backend, AppInv, TypeOK
    <2>4. TypeOK'
      BY <2>2, <2>3 DEF AppInv, TypeOK, Shells
    <2> QED
      BY <2>2, <2>3, <2>4 DEF AppInv, NoSessionYet, NothingExtracted
  <1>3. CASE PostOk
    <2>1. /\ shell' \in Shells /\ shell'.state = "CONNECTED" /\ posts' \subseteq States
      BY <1>3, SetStateFacts DEF PostOk, AppInv, TypeOK, States, Details
    <2>2. /\ tick' = "idle" /\ tick = "posting" /\ failures' = 0
          /\ snap' \subseteq {"current", "accepted", "late"}
          /\ UNCHANGED <<page, opened, calm, boot, ready, settle, up, deaths, bstate, fresh>>
      BY <1>3 DEF PostOk, outside, backend, AppInv, TypeOK
    <2>3. TypeOK'
      BY <2>1, <2>2 DEF AppInv, TypeOK, Shells
    <2> QED
      BY <2>1, <2>2, <2>3 DEF AppInv, NoSessionYet, NothingExtracted, NotOverridden
  <1> QED
    BY <1>1, <1>2, <1>3 DEF Adapter

(* The steps of the backend, and of what is on its way to it. *)
LEMMA BackendKeeps ==
    ASSUME AppInv, Backend \/ (\E state \in States : LoseState(state)) \/ BackendUp
                           \/ BackendDown
    PROVE  AppInv' /\ NotOverridden
  <1> USE AppAssumption
  <1>1. ASSUME NEW which \in {"current", "late"}, Accept(which)
        PROVE  AppInv' /\ NotOverridden
    <2>1. /\ bstate' \in States /\ fresh' = TRUE /\ which \in snap
          /\ snap' \subseteq {"current", "accepted", "late"}
      BY <1>1 DEF Accept, AppInv, TypeOK, States
    <2> QED
      BY <1>1, <2>1 DEF Accept, outside, AppInv, TypeOK,
                        NoSessionYet, NothingExtracted, NotOverridden
  <1>2. ASSUME NEW state \in States, DeliverState(state) \/ LoseState(state)
        PROVE  AppInv' /\ NotOverridden
    BY <1>2 DEF DeliverState, LoseState, outside, adapter, backend, AppInv, TypeOK,
                NoSessionYet, NothingExtracted, NotOverridden
  <1>3. CASE GrowStale \/ BackendUp \/ BackendDown
    <2>1. /\ up' \in BOOLEAN /\ fresh' \in BOOLEAN
          /\ bstate' \in {bstate, "FORTRADE_LOADING"} /\ snap' \in SUBSET snap
          /\ deaths' \in 0..MaxDeaths
      <3>1. CASE GrowStale
        BY <1>3, <3>1 DEF GrowStale, adapter, AppInv, TypeOK
      <3>2. CASE BackendUp
        BY <1>3, <3>2 DEF BackendUp, adapter, AppInv, TypeOK
      <3>3. CASE BackendDown
        <4>1. deaths' \in 0..MaxDeaths
          BY <3>3 DEF BackendDown, AppInv, TypeOK
        <4>2. up' = FALSE /\ fresh' = fresh /\ bstate' = bstate /\ snap' = {}
          BY <3>3 DEF BackendDown
        <4>3. fresh' \in BOOLEAN
          BY <4>2 DEF AppInv, TypeOK
        <4> QED
          BY <4>1, <4>2, <4>3
      <3> QED
        BY <1>3, <3>1, <3>2, <3>3
    <2>2. UNCHANGED <<outside, boot, ready, shell, settle, failures, tick, posts>>
      BY <1>3 DEF GrowStale, BackendUp, BackendDown, adapter
    <2>3. TypeOK'
      BY <2>1, <2>2 DEF outside, AppInv, TypeOK, States
    <2> QED
      BY <2>1, <2>2, <2>3 DEF outside, AppInv, NoSessionYet, NothingExtracted, NotOverridden
  <1> QED
    BY <1>1, <1>2, <1>3 DEF Backend

LEMMA AppStep == AppInv /\ [Next]_vars => AppInv' /\ NotOverridden
  <1> SUFFICES ASSUME AppInv, [Next]_vars PROVE AppInv' /\ NotOverridden
    OBVIOUS
  <1>1. CASE CalmDown
    BY <1>1 DEF CalmDown, adapter, backend, AppInv, TypeOK,
                NoSessionYet, NothingExtracted, NotOverridden
  <1>2. CASE UNCHANGED vars
    BY <1>2 DEF vars, outside, adapter, backend, AppInv, TypeOK,
                NoSessionYet, NothingExtracted, NotOverridden
  <1> QED
    BY <1>1, <1>2, BootKeeps, ViewKeeps, AdapterKeeps, BackendKeeps DEF Next

LEMMA AppInvariance == Spec => []AppInv
  <1>1. AppInv /\ [Next]_vars => AppInv'
    BY AppStep
  <1> QED
    BY <1>1, AppInitInv, PTL DEF Spec

-----------------------------------------------------------------------------
(* Every variable has its type, and CONNECTED is claimed only while fewer    *)
(* extractions in a row have failed than are tolerated. *)
THEOREM AppTypes == Spec => []TypeOK
  <1>1. AppInv => TypeOK
    BY DEF AppInv
  <1> QED
    BY <1>1, AppInvariance, PTL

(* Until the trading page has been shown nobody says CONNECTED, however      *)
(* posts are lost, delayed and overtake each other. *)
THEOREM Extracted == Spec => []ConnectedMeansExtracted
  <1>1. AppInv => ConnectedMeansExtracted
    BY DEF AppInv, NothingExtracted, ConnectedMeansExtracted
  <1> QED
    BY <1>1, AppInvariance, PTL

(* No event of the view, timer or start-up gives up a confirmed session. *)
THEOREM SessionStays == Spec => SessionNotOverridden
  <1>1. AppInv /\ [Next]_vars
           => [(shell.state = "CONNECTED" /\ shell'.state # "CONNECTED")
                 => failures' = Tolerated]_vars
    BY AppStep DEF NotOverridden
  <1> QED
    BY <1>1, AppInvariance, PTL DEF Spec, SessionNotOverridden
=============================================================================
