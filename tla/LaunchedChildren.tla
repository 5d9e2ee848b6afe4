---------------------------- MODULE LaunchedChildren ----------------------------
(***************************************************************************)
(* The children that Run (runtime/localrun/arb) starts before the council: *)
(* the MCP adapter, owned from the moment mcpchild.Start returns it, and   *)
(* then the automatic lawyers under their supervisor.  McpChild and        *)
(* LawyerSupervisor are the two components; they share the run's context,  *)
(* and Run drives both: it starts the adapter and the lawyers, watches for *)
(* the end of either, cancels, waits for the adapter and stops the lawyers.*)
(* LocalRun has the rest of Run, with these two cut down to what it sees.  *)
(***************************************************************************)
EXTENDS Naturals, Sequences, FiniteSets

CONSTANTS
  Bearer,                        \* of McpChild
  Lawyers, Containers, Headless, \* of LawyerSupervisor
  ErrorCap

ASSUME ChildrenAssumption ==
  /\ Bearer \in BOOLEAN /\ IsFiniteSet(Lawyers) /\ Lawyers # {} /\ "free" \notin Lawyers
  /\ Containers \subseteq Lawyers /\ Headless \subseteq Lawyers
  /\ ErrorCap \in Nat \ {0}

VARIABLES
  run,   \* where Run is
  ctx,   \* is runCtx cancelled
  main, child, waiter, files, done, timeout,             \* of McpChild
  lock, stopped, procs, proc, crem, gor, errs, obs,      \* of LawyerSupervisor
  canceled, rec, marked, queue, spc, todo, late

Mcp == INSTANCE McpChild
Law == INSTANCE LawyerSupervisor

mcpVars == <<main, child, waiter, files, done, timeout>>
lawVars == <<lock, stopped, procs, proc, crem, gor, errs, obs,
             canceled, rec, marked, queue, spc, todo, late>>
vars == <<run, ctx, mcpVars, lawVars>>

Init == run = "mcp" /\ ctx = FALSE /\ Mcp!Init /\ Law!Init

Goto(at) == run' = at

-----------------------------------------------------------------------------
(* Run.                                                                    *)

\* mcpchild.Start has returned.
McpStarted ==
  /\ run = "mcp"
  /\ \/ main = "owned"  /\ Goto("health")
     \/ main = "failed" /\ Goto("cancel")
  /\ UNCHANGED <<ctx, mcpVars, lawVars>>

\* waitForMCP and waitForCouncilRoster: on to the lawyers, or out with an error.
SetUp ==
  /\ run = "health"
  /\ Goto("lawyers") \/ Goto("cancel")
  /\ UNCHANGED <<ctx, mcpVars, lawVars>>

\* startLawyer, one lawyer after the other; what fails ends the run.
StartLawyer ==
  /\ run = "lawyers"
  /\ \E l \in Lawyers :
       \/ Law!StartEnter(l) /\ UNCHANGED run
       \/ /\ Law!StartSucceeds(l)
          /\ Goto(IF Len(procs) + 1 = Cardinality(Lawyers) THEN "watch" ELSE "lawyers")
       \/ Law!StartFails(l) /\ Goto("cancel")
  /\ UNCHANGED mcpVars

\* The end of the adapter, a lawyer's error, the end of the case or of the
\* caller's context: whatever comes first ends the watch.
Watch ==
  /\ \/ run \in {"health", "watch"} /\ Mcp!OwnerTakes /\ UNCHANGED lawVars
     \/ run = "watch" /\ Law!LauncherTakes /\ UNCHANGED mcpVars
     \/ run = "watch" /\ UNCHANGED <<ctx, mcpVars, lawVars>>
  /\ Goto("cancel")

CancelRun ==
  /\ run = "cancel" /\ Goto("drain") /\ ctx' = TRUE
  /\ UNCHANGED <<mcpVars, lawVars>>

\* shutdown: the adapter's end, if it is still pending, then the lawyers.
Drain ==
  /\ run = "drain" /\ Goto("stop")
  /\ IF main = "owned" THEN Mcp!OwnerTakes ELSE UNCHANGED <<ctx, mcpVars>>
  /\ UNCHANGED lawVars

Stop ==
  /\ \/ run = "stop" /\ Law!StopEnter /\ Goto("stopping")
     \/ run = "stopping" /\ Law!StopStep /\ UNCHANGED run
     \/ run = "stopping" /\ spc = "returned" /\ Goto("returned") /\ UNCHANGED <<ctx, lawVars>>
  /\ UNCHANGED mcpVars

Run == McpStarted \/ SetUp \/ StartLawyer \/ Watch \/ CancelRun \/ Drain \/ Stop

-----------------------------------------------------------------------------
(* The components' own steps and the caller's cancellation.                *)

McpStep(A) == A /\ UNCHANGED <<run, lawVars>>
LawStep(A) == A /\ UNCHANGED <<run, mcpVars>>

CallerCancels ==
  /\ ~ctx /\ ctx' = TRUE
  /\ UNCHANGED <<run, mcpVars, lawVars>>

Next ==
  \/ Run \/ McpStep(Mcp!Next) \/ CallerCancels
  \/ \E l \in Lawyers : LawStep(Law!Process(l)) \/ LawStep(Law!Goroutine(l))

Spec == Init /\ [][Next]_vars

\* Goroutines run, the startup timeout passes, a removal command ends and a
\* cancelled context is acted on: os/exec kills what runs under it.  No child
\* need publish its address or end by itself.
FairSpec ==
  /\ Spec
  /\ WF_vars(Run) /\ WF_vars(McpStep(Mcp!Start)) /\ WF_vars(McpStep(Mcp!StartupTimeout))
  /\ SF_vars(McpStep(Mcp!GiveUp))
  /\ WF_vars(McpStep(Mcp!Reap)) /\ WF_vars(McpStep(Mcp!Send))
  /\ WF_vars(McpStep(ctx /\ Mcp!ChildExits))
  /\ \A l \in Lawyers :
       /\ WF_vars(LawStep(Law!Goroutine(l))) /\ WF_vars(LawStep(Law!ContextKills(l)))
       /\ WF_vars(LawStep(Law!ContainerRemoved(l))) /\ WF_vars(LawStep(Law!WaitDelayKills(l)))

-----------------------------------------------------------------------------
(* Properties.                                                             *)

\* An adapter whose start failed, for whatever reason and at whatever point,
\* leaves no process, no goroutine at work and no file; once it is owned its
\* secrets are on no disk; and when Run has returned neither adapter nor lawyer
\* runs, unless a lawyer outlived the patience of Stop.
NothingLeftBehind ==
  /\ main \in {"failed", "ended"} => child # "running" /\ waiter \in {"none", "sent"} /\ files = {}
  /\ main = "owned" => files \cap {"key", "bearer"} = {}
  /\ run = "returned" =>
       /\ main # "owned"
       /\ late \/ \A l \in Lawyers : proc[l] # "running"

\* Once a lawyer's end is settled its session may be resumed by a later run
\* exactly when the lawyer is on record as completed without an error.  (If the
\* withdrawal of the marker failed too, the lawyer's error says so.)  The context
\* may end between the mark and the record, and the record itself may fail.
ResumableIsCompleted ==
  \A l \in Headless : Law!IsExited(l) =>
    \/ marked[l] <=> (rec[l] = "completed" /\ errs[l] = {})
    \/ "marker" \in errs[l]

\* However the start, the run and the cancellation meet, a cancelled run returns:
\* neither Start nor the owner waits for an end that was already taken, no exit
\* goroutine for a removal nobody asked for, and Stop for no lawyer for ever.
CancelledRunReturns == ctx ~> run = "returned"
=============================================================================
