-------------------------- MODULE LawyerSupervisor --------------------------
(* The supervisor of the lawyers' agent processes (src/internal/lawyer/       *)
(* launcher.go): Start and Stop, one exit goroutine for each process, the     *)
(* removal of a container that two callers may ask for, the session marker    *)
(* that lets a later run resume an agent's session, and the channel on which  *)
(* a failed process is reported to the launcher.                              *)
EXTENDS Naturals, Sequences

CONSTANTS
    Lawyers,      \* one process each
    Containers,   \* the lawyers whose process is a container with a name
    Headless,     \* the lawyers with a session marker (Pi, Codex, Claude)
    ErrorCap      \* capacity of the errors channel (16 in the code)

VARIABLES
    ctx,       \* the run's context has ended
    lock,      \* startStopMu: "free" or the lawyer whose Start holds it
    stopped,   \* Supervisor.stopped
    procs,     \* Supervisor.processes, in the order of their start
    proc,      \* the operating system's view of each process
    crem,      \* containerStop: "idle", "started", "removed" or "failed"
    gor,       \* where the exit goroutine of each process is
    errs,      \* processExit: the fields of it that hold an error
    obs,       \* participantObsErr is set
    canceled,  \* processExit.canceled
    rec,       \* the state written with the process's finish record
    marked,    \* the session marker says the session may be resumed
    queue,     \* the errors channel
    spc,       \* where Stop is
    todo,      \* the processes Stop still has to stop
    late       \* Stop gave up waiting for some process

exitVars == <<errs, obs, canceled, rec, marked>>
stopVars == <<spc, todo, late>>

\* processExit's fields, joined wherever they are read: "exit" stands for the
\* errors of the wait, the usage, the removal, the status and the participant.
Fields == {"exit", "marker", "record"}

Init ==
    /\ lock = "free" /\ stopped = FALSE /\ procs = <<>>
    /\ proc = [l \in Lawyers |-> "none"] /\ crem = [l \in Lawyers |-> "idle"]
    /\ gor = [l \in Lawyers |-> "none"] /\ errs = [l \in Lawyers |-> {}]
    /\ obs = [l \in Lawyers |-> FALSE] /\ canceled = [l \in Lawyers |-> FALSE]
    /\ rec = [l \in Lawyers |-> "none"] /\ marked = [l \in Lawyers |-> FALSE]
    /\ queue = <<>> /\ spc = "idle" /\ todo = <<>> /\ late = FALSE

-----------------------------------------------------------------------------
(* Start, under startStopMu from its check of stopped to its append. A start  *)
(* that fails after the process ran has stopped it and awaited its end.       *)

StartEnter(l) ==
    /\ lock = "free" /\ proc[l] = "none" /\ ~stopped
    /\ lock' = l
    /\ UNCHANGED <<ctx, stopped, procs, proc, crem, gor, exitVars, queue, stopVars>>

StartSucceeds(l) ==
    /\ lock = l
    /\ lock' = "free" /\ procs' = Append(procs, l)
    /\ proc' = [proc EXCEPT ![l] = "running"] /\ gor' = [gor EXCEPT ![l] = "wait"]
    /\ UNCHANGED <<ctx, stopped, crem, exitVars, queue, stopVars>>

StartFails(l) ==
    /\ lock = l
    /\ lock' = "free"
    /\ UNCHANGED <<ctx, stopped, procs, proc, crem, gor, exitVars, queue, stopVars>>

-----------------------------------------------------------------------------
(* The process and the removal of its container. removeNamedContainer runs    *)
(* once; whoever asks second waits for the first's result.                    *)

ProcessExits(l) ==
    /\ proc[l] = "running"
    /\ \E how \in {"clean", "broken"} : proc' = [proc EXCEPT ![l] = how]
    /\ UNCHANGED <<ctx, lock, stopped, procs, crem, gor, exitVars, queue, stopVars>>

\* The context's end: os/exec calls cmd.Cancel, which removes the container or
\* kills the process.
ContextKills(l) ==
    /\ ctx /\ proc[l] = "running"
    /\ IF l \in Containers
       THEN /\ crem[l] = "idle"
            /\ crem' = [crem EXCEPT ![l] = "started"] /\ UNCHANGED proc
       ELSE /\ proc' = [proc EXCEPT ![l] = "broken"] /\ UNCHANGED crem
    /\ UNCHANGED <<ctx, lock, stopped, procs, gor, exitVars, queue, stopVars>>

ContainerRemoved(l) ==
    /\ crem[l] = "started"
    /\ \/ /\ crem' = [crem EXCEPT ![l] = "removed"]
          /\ proc' = [proc EXCEPT ![l] = IF @ = "running" THEN "broken" ELSE @]
       \/ crem' = [crem EXCEPT ![l] = "failed"] /\ UNCHANGED proc
    /\ UNCHANGED <<ctx, lock, stopped, procs, gor, exitVars, queue, stopVars>>

\* cmd.WaitDelay: stopWait after the context's end os/exec kills the command.
WaitDelayKills(l) ==
    /\ ctx /\ proc[l] = "running" /\ crem[l] = "failed"
    /\ proc' = [proc EXCEPT ![l] = "broken"]
    /\ UNCHANGED <<ctx, lock, stopped, procs, crem, gor, exitVars, queue, stopVars>>

-----------------------------------------------------------------------------
(* The exit goroutine of process l.                                           *)

Goto(l, at) == gor' = [gor EXCEPT ![l] = at]
Fail(l, fields) == errs' = [errs EXCEPT ![l] = @ \cup fields]
Outer == <<ctx, lock, stopped, procs, proc, crem, stopVars>>

\* cmd.Wait returns; it may return the context's error for a clean exit.
Waited(l) ==
    /\ gor[l] = "wait" /\ proc[l] \in {"clean", "broken"}
    /\ \E bad \in {proc[l] = "broken", proc[l] = "broken" \/ ctx} :
          Fail(l, IF bad THEN {"exit"} ELSE {})
    /\ Goto(l, "result")
    /\ UNCHANGED <<Outer, obs, canceled, rec, marked, queue>>

\* stop.result(): a removal that was started is awaited, one that was not is not;
\* then the usage is read, which may find that the provider refused the request.
Collected(l) ==
    /\ gor[l] = "result" /\ crem[l] # "started"
    /\ \E refused, unread \in BOOLEAN :
          /\ (refused \/ unread) => ~ctx
          /\ Fail(l, IF refused \/ crem[l] = "failed" THEN {"exit"} ELSE {})
          /\ obs' = [obs EXCEPT ![l] = unread]
    /\ Goto(l, "verify")
    /\ UNCHANGED <<Outer, canceled, rec, marked, queue>>

Verified(l) ==
    /\ gor[l] = "verify"
    /\ IF errs[l] = {} /\ ~ctx
       THEN \E ok \in BOOLEAN : Fail(l, IF ok THEN {} ELSE {"exit"})
       ELSE UNCHANGED errs
    /\ Goto(l, "mark")
    /\ UNCHANGED <<Outer, obs, canceled, rec, marked, queue>>

MarkedSuccessful(l) ==
    /\ gor[l] = "mark"
    /\ IF errs[l] = {} /\ ~obs[l] /\ ~ctx /\ l \in Headless
       THEN \/ marked' = [marked EXCEPT ![l] = TRUE] /\ UNCHANGED errs
            \/ Fail(l, {"marker"}) /\ UNCHANGED marked
       ELSE UNCHANGED <<errs, marked>>
    /\ Goto(l, "finish")
    /\ UNCHANGED <<Outer, obs, canceled, rec, queue>>

\* markUnsuccessful: the marker is withdrawn, or the failure to withdraw it joins
\* the process's error.
Withdraw(l, seen) ==
    \/ marked' = [marked EXCEPT ![l] = FALSE] /\ errs' = [errs EXCEPT ![l] = seen]
    \/ l \in Headless /\ errs' = [errs EXCEPT ![l] = seen \cup {"marker"}] /\ UNCHANGED marked

\* The cancellation seen before the mark is used instead of a new look at it.
FinishedStale(l) ==
    /\ gor[l] = "finish"
    /\ canceled' = [canceled EXCEPT ![l] = ctx]
    /\ \E bad \in BOOLEAN :
          LET seen == errs[l] \cup (IF bad \/ obs[l] THEN {"exit"} ELSE {})
          IN  IF seen # {} THEN Withdraw(l, seen) ELSE UNCHANGED <<errs, marked>>
    /\ Goto(l, "record")
    /\ UNCHANGED <<Outer, obs, rec, queue>>

Finished(l) ==
    /\ gor[l] = "finish"
    /\ canceled' = [canceled EXCEPT ![l] = ctx]
    /\ \E bad \in BOOLEAN :
          LET seen == errs[l] \cup (IF bad \/ obs[l] THEN {"exit"} ELSE {})
          IN  IF seen # {} \/ ctx THEN Withdraw(l, seen)
              ELSE UNCHANGED <<errs, marked>>
    /\ Goto(l, "record")
    /\ UNCHANGED <<Outer, obs, rec, queue>>

Recorded(l) ==
    /\ gor[l] = "record"
    /\ \/ /\ rec' = [rec EXCEPT ![l] = IF canceled[l] THEN "canceled"
                                       ELSE IF errs[l] # {} THEN "failed" ELSE "completed"]
          /\ UNCHANGED <<errs, marked>>
       \/ Withdraw(l, errs[l] \cup {"record"}) /\ UNCHANGED rec
    /\ Goto(l, "exited")
    /\ UNCHANGED <<Outer, obs, canceled, queue>>

\* markExited closes the finished channel; only then is the failure reported.
Exited(l) ==
    /\ gor[l] = "exited"
    /\ Goto(l, IF canceled[l] \/ errs[l] = {} THEN "done" ELSE "report")
    /\ UNCHANGED <<Outer, exitVars, queue>>

Reported(l) ==
    /\ gor[l] = "report"
    /\ \/ Len(queue) < ErrorCap /\ queue' = Append(queue, l)
       \/ ctx /\ UNCHANGED queue
    /\ Goto(l, "done")
    /\ UNCHANGED <<Outer, exitVars>>

IsExited(l) == gor[l] \in {"report", "done"}

-----------------------------------------------------------------------------
(* The launcher: takes an error while it waits for the case, and Stop.        *)

LauncherTakes ==
    /\ queue # <<>>
    /\ queue' = Tail(queue)
    /\ UNCHANGED <<Outer, gor, exitVars>>

StopEnter ==
    /\ spc = "idle" /\ lock = "free"
    /\ stopped' = TRUE /\ todo' = procs /\ spc' = "next"
    /\ UNCHANGED <<ctx, lock, procs, proc, crem, gor, exitVars, queue, late>>

SuperVars == <<ctx, lock, stopped, procs, gor, exitVars, queue>>

StopNext ==
    /\ spc = "next"
    /\ IF todo = <<>> THEN spc' = "returned" /\ UNCHANGED todo
       ELSE LET l == Head(todo)
            IN  IF IsExited(l) THEN todo' = Tail(todo) /\ UNCHANGED spc
                ELSE spc' = (IF l \in Containers THEN "remove" ELSE "kill") /\ UNCHANGED todo
    /\ UNCHANGED <<SuperVars, proc, crem, late>>

StopRemoves ==
    /\ spc = "remove"
    /\ LET l == Head(todo)
       IN  \/ crem[l] = "idle" /\ crem' = [crem EXCEPT ![l] = "started"] /\ UNCHANGED spc
           \/ crem[l] = "removed" /\ spc' = "await" /\ UNCHANGED crem
           \/ crem[l] = "failed" /\ spc' = "kill" /\ UNCHANGED crem
    /\ UNCHANGED <<SuperVars, proc, todo, late>>

StopKills ==
    /\ spc = "kill"
    /\ proc' = [proc EXCEPT ![Head(todo)] = IF @ = "running" THEN "broken" ELSE @]
    /\ spc' = "await"
    /\ UNCHANGED <<SuperVars, crem, todo, late>>

StopAwaits ==
    /\ spc = "await" /\ IsExited(Head(todo))
    /\ todo' = Tail(todo) /\ spc' = "next"
    /\ UNCHANGED <<SuperVars, proc, crem, late>>

\* waitProcessExit's timer. It is long against the goroutine's own file
\* operations and not against the process's end or the status check.
StopTimesOut ==
    /\ spc = "await"
    /\ LET l == Head(todo) IN proc[l] = "running" \/ gor[l] = "verify"
    /\ todo' = Tail(todo) /\ spc' = "next" /\ late' = TRUE
    /\ UNCHANGED <<SuperVars, proc, crem>>

StopStep == StopNext \/ StopRemoves \/ StopKills \/ StopAwaits \/ StopTimesOut

Goroutine(l) ==
    \/ Waited(l) \/ Collected(l) \/ Verified(l) \/ MarkedSuccessful(l)
    \/ Finished(l) \/ Recorded(l) \/ Exited(l) \/ Reported(l)

\* The operating system's and os/exec's side of a process.
Process(l) == ProcessExits(l) \/ ContextKills(l) \/ ContainerRemoved(l) \/ WaitDelayKills(l)

=============================================================================
