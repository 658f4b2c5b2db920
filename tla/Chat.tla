---------------------------------- MODULE Chat ----------------------------------
(***************************************************************************)
(* Questions to a model: /api/chat and /api/chat/status, the choice between *)
(* the Claude Code CLI and the API (backend/chat/providers.py), the shared  *)
(* probe of the CLI, and the tools the CLI calls back through the MCP       *)
(* bridge.  Every request holds a thread of FastAPI's pool until it is      *)
(* answered, and a tool call of the CLI needs one as well.                  *)
(*                                                                          *)
(* What is asked and answered is left out; the guards of ask() on the       *)
(* message do not depend on anything else.                                  *)
(***************************************************************************)
EXTENDS Integers, FiniteSets

CONSTANTS
    Requests,   \* bound: requests at once
    PoolSize,   \* threads of the pool (40 in anyio)
    MaxTurns    \* MAX_TURNS: tool calls of one question

ASSUME ChatAssumption ==
    IsFiniteSet(Requests) /\ PoolSize \in Nat /\ MaxTurns \in Nat

VARIABLES
    forced,     \* FORTRADER_CHAT_PROVIDER
    key,        \* ANTHROPIC_API_KEY is set and the package is there
    cli,        \* the CLI on this machine: missing, broken, or works
    probe,      \* _cli_probe
    at,         \* where each request is
    asks,       \* it is a question; else it asks for the status only
    chosen,     \* the provider selected for it
    turns,      \* tool calls its CLI has made
    tool,       \* the tool call in flight: none, waiting, or served
    failed,     \* history: a probe has been run and has failed
    solid       \* history: since it began the CLI has worked, and none has failed

machine == <<forced, key, cli>>
chatVars == <<forced, key, cli, probe, at, asks, chosen, turns, tool, failed, solid>>

Places == {"idle", "queued", "look", "usable", "probing", "api", "cli"}

InThread(r) == at[r] \notin {"idle", "queued"}
ThreadsUsed ==
    Cardinality({r \in Requests : InThread(r)})
        + Cardinality({r \in Requests : tool[r] = "served"})

ChatInit ==
    /\ forced \in {"auto", "cli", "api"}
    /\ key \in BOOLEAN
    /\ cli \in {"missing", "broken", "works"}
    /\ probe = "none"
    /\ at = [r \in Requests |-> "idle"]
    /\ asks = [r \in Requests |-> FALSE]
    /\ chosen = [r \in Requests |-> "none"]
    /\ turns = [r \in Requests |-> 0]
    /\ tool = [r \in Requests |-> "none"]
    /\ failed = FALSE
    /\ solid = [r \in Requests |-> FALSE]

Go(r, place) == at' = [at EXCEPT ![r] = place]

(* The response is sent; a tool call that is being served goes on. *)
Respond(r) ==
    /\ Go(r, "idle")
    /\ asks' = [asks EXCEPT ![r] = FALSE]
    /\ chosen' = [chosen EXCEPT ![r] = "none"]
    /\ turns' = [turns EXCEPT ![r] = 0]
    /\ tool' = [tool EXCEPT ![r] = IF @ = "served" THEN @ ELSE "none"]
    /\ solid' = [solid EXCEPT ![r] = FALSE]

-----------------------------------------------------------------------------
(* The user installs, breaks or removes the CLI. *)
CliChanges(state) ==
    /\ cli # state
    /\ cli' = state
    /\ solid' = [r \in Requests |-> FALSE]
    /\ UNCHANGED <<forced, key, probe, at, asks, chosen, turns, tool, failed>>

Arrive(r, question) ==
    /\ at[r] = "idle" /\ tool[r] = "none"
    /\ Go(r, "queued")
    /\ asks' = [asks EXCEPT ![r] = question]
    /\ UNCHANGED <<machine, probe, chosen, turns, tool, failed, solid>>

(* A thread takes the request; select_provider reads what is forced. *)
Begin(r) ==
    /\ at[r] = "queued"
    /\ ThreadsUsed < PoolSize
    /\ Go(r, IF forced = "auto" THEN "look" ELSE "usable")
    /\ chosen' = [chosen EXCEPT ![r] = IF forced = "auto" THEN "none" ELSE forced]
    /\ solid' = [solid EXCEPT ![r] = cli = "works" /\ ~failed]
    /\ UNCHANGED <<machine, probe, asks, turns, tool, failed>>

(* What CliProvider.available answers without running anything. *)
Known == IF probe # "none" THEN probe ELSE IF cli = "missing" THEN "bad" ELSE "none"

Select(r, usable) ==
    /\ chosen' = [chosen EXCEPT ![r] = IF usable THEN "cli" ELSE "api"]
    /\ Go(r, "usable")

(* Mutant: that the CLI is missing is remembered too. *)
LookCachingAbsence(r) ==
    /\ at[r] = "look"
    /\ probe' = Known
    /\ IF Known = "none"
       THEN Go(r, "probing") /\ UNCHANGED chosen
       ELSE Select(r, Known = "good")
    /\ UNCHANGED <<machine, asks, turns, tool, failed, solid>>

(* select_provider asks the CLI first.  A missing CLI is not remembered. *)
Look(r) ==
    /\ at[r] = "look"
    /\ IF Known = "none"
       THEN Go(r, "probing") /\ UNCHANGED chosen
       ELSE Select(r, Known = "good")
    /\ UNCHANGED <<machine, probe, asks, turns, tool, failed, solid>>

(* `claude --version` ends, or is given up after 30 seconds even if it      *)
(* works; the last of two probes at once overwrites the other, and each     *)
(* goes on with what is there when it looks again.                          *)
EndProbe(r, outcome) ==
    /\ at[r] = "probing"
    /\ outcome = "good" => cli = "works"
    /\ probe' = outcome
    /\ failed' = (failed \/ outcome = "bad")
    /\ solid' = [q \in Requests |-> solid[q] /\ outcome = "good"]
    /\ Go(r, IF chosen[r] = "none" THEN "look" ELSE "usable")
    /\ UNCHANGED <<machine, asks, chosen, turns, tool>>

(* chosen.available(), a second time where the choice was automatic; a      *)
(* request that cannot go on, or asks for the status, has its answer.       *)
Usable(r) ==
    LET state == IF chosen[r] = "cli" THEN Known
                 ELSE IF key THEN "good" ELSE "bad"
        onTo(place) == Go(r, place) /\ UNCHANGED <<asks, chosen, turns, tool, solid>>
    IN  /\ at[r] = "usable"
        /\ CASE state = "none" -> onTo("probing")
             [] state = "good" /\ asks[r] -> onTo(chosen[r])
             [] OTHER -> Respond(r)
        /\ UNCHANGED <<machine, probe, failed>>

-----------------------------------------------------------------------------
(* complete() *)

(* The Messages call returns or raises; the SDK bounds it. *)
ApiAnswers(r) ==
    /\ at[r] = "api"
    /\ Respond(r)
    /\ UNCHANGED <<machine, probe, failed>>

(* The CLI exits, with an answer or without; or it has disappeared.         *)
CliExits(r) ==
    /\ at[r] = "cli"
    /\ Respond(r)
    /\ UNCHANGED <<machine, probe, failed>>

(* Mutant: only a CLI that is in a tool call is given up. *)
CliTimesOutInTool(r) ==
    /\ at[r] = "cli" /\ tool[r] # "none"
    /\ Respond(r)
    /\ UNCHANGED <<machine, probe, failed>>

(* subprocess.run gives it up after 120 seconds. *)
CliTimesOut(r) ==
    /\ at[r] = "cli"
    /\ Respond(r)
    /\ UNCHANGED <<machine, probe, failed>>

Tool(r, from, to) ==
    /\ tool[r] = from
    /\ tool' = [tool EXCEPT ![r] = to]
    /\ UNCHANGED <<machine, probe, at, asks, chosen, failed, solid>>

(* BackendClient._request: the CLI calls a tool, and the bridge asks the    *)
(* backend, which has this question in one of its threads.                  *)
CallTool(r) ==
    /\ at[r] = "cli" /\ turns[r] < MaxTurns
    /\ Tool(r, "none", "waiting")
    /\ turns' = [turns EXCEPT ![r] = @ + 1]

(* Mutant: a tool call is served outside the pool. *)
ServeToolAtOnce(r) == Tool(r, "waiting", "served") /\ UNCHANGED turns

ServeTool(r) ==
    /\ ThreadsUsed < PoolSize
    /\ Tool(r, "waiting", "served")
    /\ UNCHANGED turns

ToolAnswers(r) == Tool(r, "served", "none") /\ UNCHANGED turns

(* READ_TIMEOUT: the CLI is told that Fortrader AI did not respond. *)
ToolTimesOut(r) == Tool(r, "waiting", "none") /\ UNCHANGED turns

Handle(r) ==
    \/ Begin(r)
    \/ Look(r) \/ Usable(r)
    \/ \E outcome \in {"good", "bad"} : EndProbe(r, outcome)
    \/ ApiAnswers(r)
    \/ CliTimesOut(r)

ChatNext ==
    \/ \E state \in {"missing", "broken", "works"} : CliChanges(state)
    \/ \E r \in Requests :
          \/ \E question \in BOOLEAN : Arrive(r, question)
          \/ Handle(r)
          \/ CliExits(r)
          \/ CallTool(r) \/ ServeTool(r) \/ ToolAnswers(r) \/ ToolTimesOut(r)

(* A thread that works goes on, and takes what waits when it is done.  The  *)
(* CLI may hang for ever.                                                   *)
ChatFairness ==
    \A r \in Requests :
        /\ SF_chatVars(Begin(r))
        /\ WF_chatVars(Handle(r) /\ at[r] # "queued")
        /\ WF_chatVars(ToolAnswers(r)) /\ WF_chatVars(ToolTimesOut(r))

ChatSpec == ChatInit /\ [][ChatNext]_chatVars /\ ChatFairness

-----------------------------------------------------------------------------
(* Every variable has its type, and the pool has the threads it has. *)
ChatTypeOK ==
    /\ forced \in {"auto", "cli", "api"}
    /\ key \in BOOLEAN
    /\ cli \in {"missing", "broken", "works"}
    /\ probe \in {"none", "good", "bad"}
    /\ at \in [Requests -> Places]
    /\ asks \in [Requests -> BOOLEAN]
    /\ chosen \in [Requests -> {"none", "cli", "api"}]
    /\ turns \in [Requests -> 0..MaxTurns]
    /\ tool \in [Requests -> {"none", "waiting", "served"}]
    /\ failed \in BOOLEAN
    /\ solid \in [Requests -> BOOLEAN]
    /\ ThreadsUsed <= PoolSize

(* No question is sent to the API, which the user pays for, while the CLI   *)
(* would do: it has worked since the request began, and no probe has failed *)
(* - one installed while the application is open counts at once.            *)
FreeWhenItCan ==
    \A r \in Requests : (forced = "auto" /\ solid[r]) => chosen[r] # "api"

(* Every request is answered: a CLI that hangs does not hang its thread,    *)
(* nor do questions that hold the whole pool while their tools wait for it. *)
QuestionsEnd ==
    \A r \in Requests : at[r] # "idle" ~> at[r] = "idle"
=============================================================================
