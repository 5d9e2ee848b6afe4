------------------------------- MODULE LocalRun -------------------------------
(***************************************************************************)
(* The launcher of one complete ARB case (runtime/localrun/arb): it starts *)
(* the core process, the MCP adapter, the automatic lawyers and, for every *)
(* council opportunity the core opens, a Pi agent in a container; it then  *)
(* waits for whatever comes first, the core's outcome, the adapter's end,  *)
(* an agent's or a lawyer's error or the caller's cancellation, and stops  *)
(* everything it has started.  It waits for the core and the adapter       *)
(* without a bound; with an agent or a lawyer it has a patience of 30 s    *)
(* (agentStopWait, stopWait), and the removal of a container may fail: Run *)
(* then returns with the process or the container left, and an error.      *)
(*                                                                         *)
(* The core is a process of its own: here it only opens and resolves       *)
(* council opportunities over HTTP, closes its API and exits.  What its    *)
(* turns do inside is ArbRuntime.                                          *)
(***************************************************************************)
EXTENDS Integers, FiniteSets

CONSTANTS
  Members,     \* the council's roster
  Roles,       \* the automatic lawyers: autoLawyerRoles
  OutputLimit, \* is there an output limit: CouncilOutputLimitBytes > 0
  MaxOpps      \* bound on the council opportunities the core opens

ASSUME LauncherAssumption ==
  /\ IsFiniteSet(Members) /\ Members # {}
  /\ IsFiniteSet(Roles)
  /\ OutputLimit \in BOOLEAN
  /\ MaxOpps \in Nat

VARIABLES
  core,      \* the core process: where it is, its open opportunity, its council
  caseDone,  \* the channel with the core's outcome: empty, ok, err or taken
  mcp,       \* the adapter process
  mcpDone,   \* the channel with its end: empty, nil (cancelled), exit or taken
  lawyers,   \* each automatic lawyer's process
  agents,    \* the agent of each council opportunity
  starts,    \* s.councilStarts: the opportunities an agent was started for
  errs,      \* errors waiting in s.agentErrs and s.lawyers.Errors()
  main,      \* Run: where it is and what it is working on
  pending,   \* completions.casePending and mcpPending
  ctx,       \* is the caller's context cancelled, is runCtx
  ret        \* what Run returns

vars == <<core, caseDone, mcp, mcpDone, lawyers, agents, starts, errs, main,
          pending, ctx, ret>>
world == <<core, caseDone, mcp, mcpDone, lawyers, agents, errs>>

Opps == 1 .. MaxOpps
None == [id |-> 0]

\* An agent is a container and the process of the runtime's client that waits for
\* it.  The client is up, down (ended or killed, not yet waited for) or exited; its
\* exit goroutine then asks the core whose turn it is and may report a failure.
AgentStages == {"none", "up", "down", "exited", "ready", "settled"}

\* How far the launcher's stop of an agent is: asked of a container that is now
\* removed, failed to remove it, late when its patience with the client has ended,
\* again for a late one that the shutdown has to stop once more.
StopStages == {"no", "asked", "failed", "late", "again"}
NoAgent == [at |-> "none", box |-> FALSE, bad |-> FALSE, forced |-> FALSE, stop |-> "no",
            token |-> FALSE, listed |-> FALSE]

Serving == core.at = "serving" \/ core.at = "terminal"
Client(k) == agents[k].at \in {"up", "down"}
Running(k) == Client(k) \/ agents[k].box
Holder(k) == core.owner[k]
ReadyFor(k) == core.at = "serving" /\ core.opp = k

Init ==
  /\ core = [at |-> "none", opp |-> 0, opened |-> 0, seated |-> Members,
             owner |-> [k \in Opps |-> CHOOSE m \in Members : TRUE]]
  /\ caseDone = "empty" /\ mcp = "none" /\ mcpDone = "empty"
  /\ lawyers = [r \in Roles |-> "none"]
  /\ agents = [k \in Opps |-> NoAgent]
  /\ starts = {} /\ errs = {}
  /\ main = [at |-> "core", todo |-> {}, opp |-> 0]
  /\ pending = [case |-> FALSE, mcp |-> FALSE]
  /\ ctx = [user |-> FALSE, run |-> FALSE]
  /\ ret = [result |-> FALSE, err |-> FALSE, summary |-> FALSE]

-----------------------------------------------------------------------------
(* The core process, as the launcher sees it.                              *)

CoreServes ==
  /\ core.at = "starting"
  /\ core' = [core EXCEPT !.at = "serving"]
  /\ UNCHANGED <<caseDone, mcp, mcpDone, lawyers, agents, starts, errs, main, pending, ctx, ret>>

CoreOpens(m) ==
  /\ core.at = "serving" /\ core.opp = 0 /\ core.opened < MaxOpps
  /\ m \in core.seated
  /\ core' = [core EXCEPT !.opp = core.opened + 1, !.opened = @ + 1,
                          !.owner[core.opened + 1] = m]
  /\ UNCHANGED <<caseDone, mcp, mcpDone, lawyers, agents, starts, errs, main, pending, ctx, ret>>

\* The agent of the open opportunity votes, through the adapter.
CoreVote ==
  /\ core.at = "serving" /\ core.opp # 0
  /\ agents[core.opp].box /\ mcp = "up"
  /\ core' = [core EXCEPT !.opp = 0]
  /\ UNCHANGED <<caseDone, mcp, mcpDone, lawyers, agents, starts, errs, main, pending, ctx, ret>>

\* The opportunity's deadline fails its member, not the case.
CoreDeadline ==
  /\ core.at = "serving" /\ core.opp # 0
  /\ core' = [core EXCEPT !.opp = 0, !.seated = @ \ {Holder(core.opp)}]
  /\ UNCHANGED <<caseDone, mcp, mcpDone, lawyers, agents, starts, errs, main, pending, ctx, ret>>

\* The case ends between two opportunities; then the API closes.
CoreEnds ==
  /\ \/ core.at = "serving" /\ core.opp = 0 /\ core' = [core EXCEPT !.at = "terminal"]
     \/ core.at = "terminal" /\ core' = [core EXCEPT !.at = "closed"]
  /\ UNCHANGED <<caseDone, mcp, mcpDone, lawyers, agents, starts, errs, main, pending, ctx, ret>>

\* Mutant: the result is read without asking how the process ended.
CoreFinishesUnchecked ==
  /\ core.at \in {"starting", "serving", "terminal", "closed"}
  /\ core' = [core EXCEPT !.at = IF @ = "closed" /\ ~ctx.run THEN "completed" ELSE "died"]
  /\ caseDone' = "ok"
  /\ UNCHANGED <<mcp, mcpDone, lawyers, agents, starts, errs, main, pending, ctx, ret>>

\* The core exits, having written its result, or fails, or is killed once runCtx
\* is cancelled; the goroutine of startCoreCase waits for it and reads the
\* result, which counts only from a process that exited cleanly and wrote it.
CoreFinishes ==
  /\ \/ /\ core.at = "closed"
        /\ core' = [core EXCEPT !.at = "completed"]
        /\ caseDone' = "ok"
     \/ /\ core.at \in {"starting", "serving", "terminal", "closed"}
        /\ core' = [core EXCEPT !.at = "died"]
        /\ caseDone' = "err"
  /\ UNCHANGED <<mcp, mcpDone, lawyers, agents, starts, errs, main, pending, ctx, ret>>

-----------------------------------------------------------------------------
(* The adapter and the lawyers.                                            *)

\* A child ended after its context was cancelled reports no error.
MCPExits ==
  /\ mcp = "up"
  /\ mcp' = "exited"
  /\ mcpDone' = IF ctx.run THEN "nil" ELSE "exit"
  /\ UNCHANGED <<core, caseDone, lawyers, agents, starts, errs, main, pending, ctx, ret>>

LawyerExits(r) ==
  /\ lawyers[r] = "up"
  /\ lawyers' = [lawyers EXCEPT ![r] = "down"]
  /\ UNCHANGED <<core, caseDone, mcp, mcpDone, agents, starts, errs, main, pending, ctx, ret>>

\* handleLawyerExit: a lawyer may leave once the case deliberates or is over, if
\* the core can still be asked.  After a cancellation nobody is told.
LawyerChecked(r) ==
  /\ lawyers[r] = "down"
  /\ lawyers' = [lawyers EXCEPT ![r] = "settled"]
  /\ errs' = IF ctx.run \/ (Serving /\ (core.at = "terminal" \/ core.opened > 0))
             THEN errs ELSE errs \cup {"lawyer"}
  /\ UNCHANGED <<core, caseDone, mcp, mcpDone, agents, starts, main, pending, ctx, ret>>

-----------------------------------------------------------------------------
(* A council agent's process and its goroutines.                           *)

\* A container ends and its client with its status; or the client dies alone, as
\* the cancelled runCtx kills it, and its container goes on without it.
AgentExits(k) ==
  /\ \/ /\ agents[k].at = "up"
        /\ \E bad, left \in BOOLEAN :
             agents' = [agents EXCEPT ![k].at = "down", ![k].box = @ /\ left,
                                      ![k].bad = bad \/ left \/ ctx.run]
     \/ /\ agents[k].at # "up" /\ agents[k].box
        /\ agents' = [agents EXCEPT ![k].box = FALSE]
  /\ UNCHANGED <<core, caseDone, mcp, mcpDone, lawyers, starts, errs, main, pending, ctx, ret>>

\* monitorCouncilOutput: past the output limit the reason is set, the container
\* removed and the client killed unless it ends; a removal that fails and a kill
\* of a process that has ended but is not yet marked are errors of the run.
MonitorKills(k) ==
  /\ OutputLimit /\ Client(k) /\ ~agents[k].forced /\ ~ctx.run
  /\ \E left \in BOOLEAN :
       agents' = [agents EXCEPT ![k].at = "down", ![k].forced = TRUE, ![k].box = @ /\ left,
                                ![k].bad = @ \/ agents[k].at = "up"]
  /\ errs' \in {errs, errs \cup {"agent"}}
  /\ UNCHANGED <<core, caseDone, mcp, mcpDone, lawyers, starts, main, pending, ctx, ret>>

\* What is left to complain of in an ended process: an error status of its own,
\* not one that the launcher or the cancelled run has brought about.
Blamed(k) == agents[k].bad /\ ~ctx.run /\ ~agents[k].forced /\ agents[k].stop = "no"

\* The exit goroutine of startProcess: revokes the model token, notes whether
\* the run was cancelled, marks the exit and, unless cancelled, goes on to ask.
AgentWaited(k) ==
  /\ agents[k].at = "down"
  /\ agents' = [agents EXCEPT ![k] =
       [@ EXCEPT !.at = IF ctx.run THEN "settled" ELSE "exited", !.bad = Blamed(k),
                 !.forced = FALSE, !.token = FALSE]]
  /\ UNCHANGED <<core, caseDone, mcp, mcpDone, lawyers, starts, errs, main, pending, ctx, ret>>

\* handleCouncilProcessExit asks for the member's status: the exit matters only
\* while the agent's own opportunity is open.
AgentAsks(k) ==
  /\ agents[k].at = "exited"
  /\ IF Serving /\ ~ctx.run
     THEN /\ agents' = [agents EXCEPT ![k].at = IF ReadyFor(k) THEN "ready" ELSE "settled"]
          /\ UNCHANGED errs
     ELSE /\ agents' = [agents EXCEPT ![k].at = "settled"]
          /\ errs' = errs \cup {"agent"}
  /\ UNCHANGED <<core, caseDone, mcp, mcpDone, lawyers, starts, main, pending, ctx, ret>>

\* reportCouncilFailure: the core fails the member, or refuses the report for an
\* opportunity that has ended since; the refusal is an error of the run.
AgentReports(k) ==
  /\ agents[k].at = "ready"
  /\ agents' = [agents EXCEPT ![k].at = "settled"]
  /\ IF ReadyFor(k) /\ ~ctx.run
     THEN /\ core' = [core EXCEPT !.opp = 0, !.seated = @ \ {Holder(k)}]
          /\ UNCHANGED errs
     ELSE /\ errs' = errs \cup {"agent"}
          /\ UNCHANGED core
  /\ UNCHANGED <<caseDone, mcp, mcpDone, lawyers, starts, main, pending, ctx, ret>>

Environment ==
  \/ CoreServes \/ CoreVote \/ CoreDeadline \/ CoreEnds \/ CoreFinishes \/ MCPExits
  \/ \E m \in Members : CoreOpens(m)
  \/ \E r \in Roles : LawyerExits(r) \/ LawyerChecked(r)
  \/ \E k \in Opps : AgentExits(k) \/ MonitorKills(k) \/ AgentWaited(k)
                       \/ AgentAsks(k) \/ AgentReports(k)

-----------------------------------------------------------------------------
(* Run.                                                                    *)

\* Mutant: the shutdown waits for processes nobody has told to end.
LeaveUncancelled == /\ main' = [at |-> "shut_core", todo |-> {}, opp |-> 0]
                    /\ ret' = [ret EXCEPT !.err = TRUE]
                    /\ UNCHANGED ctx

\* cancel(), and out through the deferred shutdown with the error.
Leave == /\ main' = [at |-> "shut_core", todo |-> {}, opp |-> 0]
         /\ ctx' = [ctx EXCEPT !.run = TRUE]
         /\ ret' = [ret EXCEPT !.err = TRUE]

Goto(at) == main' = [main EXCEPT !.at = at] /\ UNCHANGED <<ctx, ret>>

Cancel ==
  /\ main.at # "returned" /\ ~ctx.user
  /\ ctx' = [user |-> TRUE, run |-> TRUE]
  /\ UNCHANGED <<world, starts, main, pending, ret>>

StartCore ==
  /\ main.at = "core"
  /\ \/ /\ ~ctx.run
        /\ core' = [core EXCEPT !.at = "starting"]
        /\ pending' = [pending EXCEPT !.case = TRUE]
        /\ Goto("api")
     \/ /\ Leave
        /\ UNCHANGED <<core, pending>>
  /\ UNCHANGED <<caseDone, mcp, mcpDone, lawyers, agents, starts, errs>>

\* While the run is being set up, a core or an adapter that ends is the end of
\* it; the outcome taken here is no longer pending.
TakeEarlyEnd ==
  /\ \/ /\ main.at \in {"api", "mcp_health", "roster"}
        /\ caseDone \in {"ok", "err"}
        /\ caseDone' = "taken" /\ pending' = [pending EXCEPT !.case = FALSE]
        /\ UNCHANGED mcpDone
     \/ /\ main.at \in {"mcp_health", "roster"}
        /\ mcpDone \in {"nil", "exit"}
        /\ mcpDone' = "taken" /\ pending' = [pending EXCEPT !.mcp = FALSE]
        /\ UNCHANGED caseDone
  /\ Leave
  /\ UNCHANGED <<core, mcp, lawyers, agents, starts, errs>>

\* The other ways out of the set-up, any of which may come at any of its points:
\* cancellation, an error of a lawyer that has been started, a poll or a start-up
\* that fails.
SetUpFails ==
  /\ main.at \in {"api", "mcp", "mcp_health", "roster", "lawyers"}
  /\ Leave
  /\ UNCHANGED <<core, caseDone, mcp, mcpDone, lawyers, agents, starts, errs, pending>>

SetUp ==
  /\ \/ /\ main.at = "api" /\ Serving
        /\ Goto("mcp")
        /\ UNCHANGED <<mcp, pending, lawyers>>
     \/ /\ main.at = "mcp"
        /\ mcp' = "up" /\ pending' = [pending EXCEPT !.mcp = TRUE]
        /\ Goto("mcp_health")
        /\ UNCHANGED lawyers
     \/ /\ main.at = "mcp_health" /\ mcp = "up"
        /\ Goto("roster")
        /\ UNCHANGED <<mcp, pending, lawyers>>
     \/ /\ main.at = "roster" /\ Serving
        /\ Goto("lawyers")
        /\ UNCHANGED <<mcp, pending, lawyers>>
     \/ /\ main.at = "lawyers"
        /\ IF \E r \in Roles : lawyers[r] = "none"
           THEN /\ \E r \in Roles : lawyers[r] = "none" /\ lawyers' = [lawyers EXCEPT ![r] = "up"]
                /\ Goto("lawyers")
           ELSE Goto("loop") /\ UNCHANGED lawyers
        /\ UNCHANGED <<mcp, pending>>
  /\ UNCHANGED <<core, caseDone, mcpDone, agents, starts, errs>>

\* The core's outcome, in the loop or while an agent's error waits for it: the
\* run is cancelled and the adapter's end awaited.
TakeCaseDone ==
  /\ main.at \in {"loop", "grace"} /\ caseDone \in {"ok", "err"}
  /\ caseDone' = "taken" /\ pending' = [pending EXCEPT !.case = FALSE]
  /\ main' = [main EXCEPT !.at = "mcp_wait"]
  /\ ctx' = [ctx EXCEPT !.run = TRUE]
  /\ ret' = [ret EXCEPT !.result = (caseDone = "ok"), !.err = (caseDone = "err")]
  /\ UNCHANGED <<core, mcp, mcpDone, lawyers, agents, starts, errs>>

\* An adapter that ended of its own is reported and no summary written.
TakeMCPAfterCase ==
  /\ main.at = "mcp_wait" /\ mcpDone \in {"nil", "exit"}
  /\ mcpDone' = "taken" /\ pending' = [pending EXCEPT !.mcp = FALSE]
  /\ main' = [main EXCEPT !.at = "shut_core"]
  /\ \/ /\ mcpDone = "nil"
        /\ ret' = [ret EXCEPT !.summary = TRUE]
     \/ \* the adapter's error, or an error writing the summary
        /\ ret' = [ret EXCEPT !.err = TRUE]
  /\ UNCHANGED <<core, caseDone, mcp, lawyers, agents, starts, errs, ctx>>

TakeMCPDone ==
  /\ main.at = "loop" /\ mcpDone \in {"nil", "exit"}
  /\ mcpDone' = "taken" /\ pending' = [pending EXCEPT !.mcp = FALSE]
  /\ Leave
  /\ UNCHANGED <<core, caseDone, mcp, lawyers, agents, starts, errs>>

SeeCancelled ==
  /\ main.at = "loop" /\ ctx.user
  /\ Leave
  /\ UNCHANGED <<world, starts, pending>>

\* handleAgentError: an agent may end because the case does, so the core is given
\* defaultAgentErrorCaseWait to end before the error stands.
TakeAgentError ==
  /\ main.at = "loop"
  /\ \E e \in errs : errs' = errs \ {e}
  /\ Goto("grace")
  /\ UNCHANGED <<core, caseDone, mcp, mcpDone, lawyers, agents, starts, pending>>

GraceExpires ==
  /\ main.at = "grace" /\ caseDone = "empty"
  /\ Leave
  /\ UNCHANGED <<world, starts, pending>>

-----------------------------------------------------------------------------
(* The ticker: startReadyCouncil asks the core for each member in turn.    *)

Tick ==
  /\ main.at = "loop"
  /\ main' = [main EXCEPT !.at = "poll", !.todo = Members]
  /\ UNCHANGED <<world, starts, pending, ctx, ret>>

\* The core's answer for a member: an opportunity not seen before gets an agent.
\* An error of the request ends the run at once.
Poll(m) ==
  /\ main.at = "poll" /\ m \in main.todo
  /\ IF ~Serving \/ ctx.run
     THEN Leave /\ UNCHANGED starts
     ELSE LET k == core.opp
              new == k # 0 /\ ReadyFor(k) /\ Holder(k) = m /\ k \notin starts
          IN /\ main' = [at |-> IF new THEN "stop_prior" ELSE "poll",
                         todo |-> main.todo \ {m},
                         opp |-> IF new THEN k ELSE main.opp]
             /\ starts' = IF new THEN starts \cup {k} ELSE starts
             /\ UNCHANGED <<ctx, ret>>
  /\ UNCHANGED <<world, pending>>

PollEnds ==
  /\ main.at = "poll" /\ main.todo = {}
  /\ main' = [at |-> "loop", todo |-> {}, opp |-> 0]
  /\ UNCHANGED <<world, starts, pending, ctx, ret>>

Listed == {k \in Opps : agents[k].listed}

\* Mutant: an agent that is still running is left to itself.
ExitedPrior == {k \in Listed : Holder(k) = Holder(main.opp) /\ ~Running(k)}

\* stopPriorCouncilProcesses stops the agents of the member's earlier
\* opportunities; stopAgents stops all.
Prior == {k \in Listed : Holder(k) = Holder(main.opp)}
Stopping == IF main.at = "stop_prior" THEN Prior
            ELSE IF main.at = "shut_agents" THEN Listed ELSE {}

\* stopContainerProcess has come to its end for an agent: its client was waited
\* for, or not any longer.  It returns an error if the container could not be
\* removed, if the wait timed out, or for a client that had ended by itself badly.
Stopped(k) == agents[k].stop = "late" \/ (agents[k].stop \in {"asked", "failed"} /\ ~Client(k))
Failing(k) == agents[k].bad \/ agents[k].stop \in {"failed", "late"}

NextToStop(k) ==
  /\ k \in Stopping /\ agents[k].stop \in {"no", "again"}
  /\ \A j \in Stopping : j < k => Stopped(j)

\* The agents are stopped one after the other, as they were started.  The container
\* goes and the client is left to end with it; if the container's ID is not
\* recorded or the removal fails, the client is killed instead.  The first stop
\* has deleted the record of the ID: a second one can only kill.
BeginStop(k) ==
  /\ NextToStop(k)
  /\ \/ /\ agents[k].stop = "no"
        /\ agents' = [agents EXCEPT ![k].stop = "asked", ![k].box = FALSE]
     \/ agents' = [agents EXCEPT ![k].stop = "failed", ![k].at = IF @ = "up" THEN "down" ELSE @]
  /\ UNCHANGED <<core, caseDone, mcp, mcpDone, lawyers, errs, starts, main, pending, ctx, ret>>

\* waitProcessExit's timer, agentStopWait after the stop.
GiveUp(k) ==
  /\ k \in Stopping /\ agents[k].stop \in {"asked", "failed"} /\ Client(k)
  /\ agents' = [agents EXCEPT ![k].stop = "late"]
  /\ UNCHANGED <<core, caseDone, mcp, mcpDone, lawyers, errs, starts, main, pending, ctx, ret>>

\* Of the stopped agents the launcher forgets those whose client has exited.
Unlisted(ks) ==
  [k \in Opps |-> IF k \notin ks THEN agents[k]
                  ELSE IF Client(k) THEN [agents[k] EXCEPT !.stop = "again"]
                  ELSE [agents[k] EXCEPT !.listed = FALSE]]

\* startPiCouncil, once every earlier agent of the member is stopped: a token is
\* bound and the process started with it; if that fails the token is unbound, and
\* if only recording the start fails its container may not be removable either.
StartAgent ==
  /\ main.at = "stop_prior" /\ \A k \in Prior : Stopped(k)
  /\ \/ /\ agents' = Unlisted(Prior)
        /\ Leave
     \/ /\ \A k \in Prior : ~Failing(k)
        /\ ~ctx.run
        /\ \/ /\ agents' = [Unlisted(Prior) EXCEPT ![main.opp] =
                  [NoAgent EXCEPT !.at = "up", !.box = TRUE, !.token = TRUE, !.listed = TRUE]]
              /\ Goto("poll")
           \/ /\ agents' = [Unlisted(Prior) EXCEPT ![main.opp] =
                  [NoAgent EXCEPT !.at = "settled", !.box = TRUE, !.stop = "failed"]]
              /\ Leave
  /\ UNCHANGED <<core, caseDone, mcp, mcpDone, lawyers, errs, starts, pending>>

-----------------------------------------------------------------------------
(* The deferred shutdown, in this order.                                   *)

ShutCore ==
  /\ main.at = "shut_core"
  /\ IF pending.case
     THEN /\ caseDone \in {"ok", "err"}
          /\ caseDone' = "taken"
          /\ ret' = [ret EXCEPT !.err = @ \/ caseDone = "err"]
     ELSE UNCHANGED <<caseDone, ret>>
  /\ pending' = [pending EXCEPT !.case = FALSE]
  /\ main' = [main EXCEPT !.at = "shut_mcp"]
  /\ UNCHANGED <<core, mcp, mcpDone, lawyers, agents, errs, starts, ctx>>

ShutMCP ==
  /\ main.at = "shut_mcp"
  /\ IF pending.mcp
     THEN /\ mcpDone \in {"nil", "exit"}
          /\ mcpDone' = "taken"
          /\ ret' = [ret EXCEPT !.err = @ \/ mcpDone = "exit"]
     ELSE UNCHANGED <<mcpDone, ret>>
  /\ pending' = [pending EXCEPT !.mcp = FALSE]
  /\ main' = [main EXCEPT !.at = "shut_lawyers"]
  /\ UNCHANGED <<core, caseDone, mcp, lawyers, agents, errs, starts, ctx>>

\* Supervisor.Stop (LawyerSupervisor has its steps) removes or kills each lawyer and
\* waits for it up to stopWait: a lawyer that is left, or one that ended badly, is
\* an error.
ShutLawyers ==
  /\ main.at = "shut_lawyers"
  /\ main' = [main EXCEPT !.at = "shut_agents"]
  /\ \E failed \in BOOLEAN :
       ret' = [ret EXCEPT !.err = @ \/ failed \/ \E r \in Roles : lawyers[r] \in {"up", "down"}]
  /\ UNCHANGED <<core, caseDone, mcp, mcpDone, lawyers, agents, errs, starts, pending, ctx>>

\* Mutant: an agent whose client has exited is taken to have no container any more.
ShutClients ==
  /\ main.at = "shut_agents" /\ \A k \in Listed : Client(k) => Stopped(k)
  /\ \E failed \in BOOLEAN :
       ret' = [ret EXCEPT !.err = @ \/ failed \/ \E k \in Listed : Failing(k)]
  /\ main' = [main EXCEPT !.at = "returned"]
  /\ UNCHANGED <<core, caseDone, mcp, mcpDone, lawyers, agents, errs, starts, pending, ctx>>

\* stopAgents' errors are joined into what Run returns; closing the model server or
\* removing the secrets may add one.
ShutAgents ==
  /\ main.at = "shut_agents" /\ \A k \in Listed : Stopped(k)
  /\ \E failed \in BOOLEAN :
       ret' = [ret EXCEPT !.err = @ \/ failed \/ \E k \in Listed : Failing(k)]
  /\ main' = [main EXCEPT !.at = "returned"]
  /\ UNCHANGED <<core, caseDone, mcp, mcpDone, lawyers, agents, errs, starts, pending, ctx>>

Run ==
  \/ StartCore \/ TakeEarlyEnd \/ SetUpFails \/ SetUp
  \/ TakeCaseDone \/ TakeMCPAfterCase \/ TakeMCPDone \/ SeeCancelled
  \/ TakeAgentError \/ GraceExpires \/ Tick \/ PollEnds \/ StartAgent
  \/ \E m \in Members : Poll(m)
  \/ \E k \in Opps : BeginStop(k) \/ GiveUp(k)
  \/ ShutCore \/ ShutMCP \/ ShutLawyers \/ ShutAgents

\* Run has returned and no goroutine of it is left.
Quiet == /\ main.at = "returned"
         /\ \A k \in Opps : agents[k].at \in {"none", "settled"}
         /\ UNCHANGED vars

Next == Run \/ Environment \/ Cancel \/ Quiet

Spec == Init /\ [][Next]_vars

(* The launcher is scheduled and its timers run out, the core and the      *)
(* adapter are killed once their context is cancelled, and a core that has *)
(* closed its API exits.  No agent and no lawyer need ever end.            *)
Killed ==
  \/ ctx.run /\ CoreFinishes
  \/ ctx.run /\ MCPExits
Fairness ==
  /\ WF_vars(Run) /\ WF_vars(Killed) /\ WF_vars(CoreServes)
  /\ WF_vars(core.at = "closed" /\ CoreFinishes)
  /\ \A r \in Roles : WF_vars(LawyerChecked(r))
  /\ \A k \in Opps : WF_vars(AgentWaited(k)) /\ WF_vars(AgentAsks(k)) /\ WF_vars(AgentReports(k))
FairSpec == Spec /\ Fairness

-----------------------------------------------------------------------------
(* Properties.                                                             *)

\* When Run has returned, whatever way it went, the core and the adapter have
\* ended; an agent's client or container is left only where the launcher's stop of
\* it failed or ran out of patience; and a Run that returns no error leaves no
\* lawyer, no agent and no model token: nothing is left that it does not report.
NothingLeftUnreported ==
  main.at = "returned" =>
    /\ core.at \in {"none", "completed", "died"} /\ mcp # "up"
    /\ \A k \in Opps : Running(k) => agents[k].stop \in {"failed", "late"}
    /\ ~ret.err => /\ \A r \in Roles : lawyers[r] \notin {"up", "down"}
                   /\ \A k \in Opps : ~Running(k) /\ ~agents[k].token

\* Run succeeds only with a case that completed and a summary of it on disk.
SuccessIsReal ==
  main.at = "returned" /\ ~ret.err =>
    ret.result /\ ret.summary /\ core.at = "completed"

\* Two agents of one member never run at the same time, not even one's container
\* that has outlived its client: they would share the member's home directory and
\* its capability.
OneAgentPerMember ==
  \A j, k \in Opps : j # k /\ Running(j) /\ Running(k) => Holder(j) # Holder(k)

\* Once the run is cancelled or has failed it returns: no wait of the shutdown is
\* for an end that was already taken or never comes.
ShutdownEnds == (ctx.run \/ main.at = "shut_core") ~> main.at = "returned"

=============================================================================
