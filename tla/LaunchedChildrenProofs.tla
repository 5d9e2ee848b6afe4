------------------------- MODULE LaunchedChildrenProofs -------------------------
(***************************************************************************)
(* Proofs about LaunchedChildren, the adapter and the lawyers under Run,   *)
(* for every set of lawyers, with or without containers and markers.  The  *)
(* inductive invariant says where the adapter's end is, that Stop has met  *)
(* or will meet every process of the supervisor, and what the session      *)
(* marker of a lawyer says at each stage of its settlement.                *)
(***************************************************************************)
EXTENDS LaunchedChildren, SequenceTheorems, TLAPS

-----------------------------------------------------------------------------
(* The inductive invariant.                                                *)

GoroutineStages == {"none", "wait", "result", "verify", "mark", "finish", "record", "exited",
                    "report", "done"}

ChildrenTypeOK ==
  /\ ctx \in BOOLEAN /\ late \in BOOLEAN
  /\ lock \in Lawyers \cup {"free"}
  /\ procs \in Seq(Lawyers) /\ todo \in Seq(Lawyers)
  /\ proc \in [Lawyers -> {"none", "running", "clean", "broken"}]
  /\ gor \in [Lawyers -> GoroutineStages]
  /\ errs \in [Lawyers -> SUBSET Law!Fields]
  /\ obs \in [Lawyers -> BOOLEAN] /\ canceled \in [Lawyers -> BOOLEAN]
  /\ rec \in [Lawyers -> {"none", "canceled", "failed", "completed"}]
  /\ marked \in [Lawyers -> BOOLEAN]

\* The adapter's end is announced once it has ended and its directory is gone, and
\* Start fails only after it or before there was a process.
AdapterWaited ==
  /\ waiter \in {"none", "waiting", "cleaning", "sent"}
  /\ waiter = "none" =>
       /\ child # "running"
       /\ main \in {"prepare", "spawn", "failed"}
       /\ main # "spawn" => files = {}
  /\ main \in {"prepare", "spawn"} => waiter = "none"
  /\ waiter \in {"cleaning", "sent"} => child = "dead" /\ files = {}
  /\ done = "empty" <=> waiter # "sent"
  /\ main \in {"failed", "ended"} => waiter \in {"none", "sent"}
  /\ main = "owned" => files \cap {"key", "bearer"} = {}

\* Run leaves the start of the adapter with its answer, and the drain with its end.
AdapterDriven ==
  /\ run # "mcp" => main \in {"owned", "failed", "ended"}
  /\ run \in {"stop", "stopping", "returned"} => main \in {"failed", "ended"}

\* A process that was started is among the supervisor's and has a goroutine,
\* which waits until the process has ended.
ProcessesKept ==
  /\ run # "lawyers" => lock = "free"
  /\ \A l \in Lawyers :
       /\ lock = l => proc[l] = "none"
       /\ proc[l] = "none" <=> gor[l] = "none"
       /\ proc[l] = "running" => gor[l] = "wait"
       /\ proc[l] # "none" => \E i \in 1 .. Len(procs) : procs[i] = l

\* Stop has awaited or still has to stop every process, or has given up on one.
StopReaches ==
  /\ run \in {"stopping", "returned"} <=> spc # "idle"
  /\ spc \in {"remove", "kill", "await"} => todo # <<>>
  /\ spc = "returned" => todo = <<>>
  /\ run = "returned" => spc = "returned"
  /\ spc # "idle" /\ ~late =>
       \A l \in Lawyers : proc[l] # "none" =>
         Law!IsExited(l) \/ \E i \in 1 .. Len(todo) : todo[i] = l

\* What the session marker says of a lawyer, at each stage of its settlement.
MarkerKept ==
  \A l \in Headless :
    /\ gor[l] \in {"none", "wait", "result", "verify", "mark"} => ~marked[l] /\ rec[l] = "none"
    /\ gor[l] = "finish" =>
         /\ rec[l] = "none"
         /\ marked[l] \/ errs[l] # {} \/ obs[l] \/ ctx
    /\ gor[l] = "record" =>
         /\ rec[l] = "none"
         /\ "marker" \in errs[l] \/ (marked[l] <=> errs[l] = {} /\ ~canceled[l])
    /\ gor[l] \in {"exited", "report", "done"} =>
         "marker" \in errs[l] \/ (marked[l] <=> rec[l] = "completed" /\ errs[l] = {})

ChildrenInv ==
  /\ ChildrenTypeOK /\ AdapterWaited /\ AdapterDriven /\ ProcessesKept
  /\ StopReaches /\ MarkerKept

\* The adapter's end stays announced once, and Run ahead of its stages.
LEMMA AdapterStep ==
  AdapterWaited /\ AdapterDriven /\ [Next]_vars => (AdapterWaited /\ AdapterDriven)'
<1> SUFFICES ASSUME AdapterWaited, AdapterDriven, [Next]_vars
             PROVE  (AdapterWaited /\ AdapterDriven)'
  OBVIOUS
<1> USE DEF AdapterWaited, AdapterDriven
<1>1. CASE McpStarted
  BY <1>1 DEF McpStarted, Goto, mcpVars
<1>2. CASE SetUp
  BY <1>2 DEF SetUp, Goto, mcpVars
<1>3. CASE StartLawyer
  BY <1>3 DEF StartLawyer, Goto, mcpVars
<1>4. CASE Watch
  BY <1>4 DEF Watch, Goto, Mcp!OwnerTakes, Mcp!Goto, mcpVars
<1>5. CASE CancelRun
  BY <1>5 DEF CancelRun, Goto, mcpVars
<1>6. CASE Drain
  BY <1>6 DEF Drain, Goto, Mcp!OwnerTakes, Mcp!Goto, mcpVars
<1>7. CASE Stop
  BY <1>7 DEF Stop, Goto, mcpVars
<1>8. CASE McpStep(Mcp!Prepare)
  BY <1>8 DEF McpStep, Mcp!Prepare, Mcp!Goto, Mcp!Secrets
<1>9. CASE McpStep(Mcp!Spawn)
  BY <1>9 DEF McpStep, Mcp!Spawn, Mcp!Goto, Mcp!Secrets
<1>10. CASE McpStep(Mcp!Poll)
  BY <1>10 DEF McpStep, Mcp!Poll, Mcp!Goto, Mcp!Secrets
<1>11. CASE McpStep(Mcp!GiveUp)
  BY <1>11 DEF McpStep, Mcp!GiveUp, Mcp!Goto, Mcp!Secrets
<1>12. CASE McpStep(Mcp!PollAgain)
  BY <1>12 DEF McpStep, Mcp!PollAgain, Mcp!Goto, Mcp!Secrets
<1>13. CASE McpStep(Mcp!Remove)
  BY <1>13 DEF McpStep, Mcp!Remove, Mcp!Goto, Mcp!Secrets
<1>14. CASE McpStep(Mcp!Kill)
  BY <1>14 DEF McpStep, Mcp!Kill, Mcp!Goto, Mcp!Secrets
<1>15. CASE McpStep(Mcp!Await)
  BY <1>15 DEF McpStep, Mcp!Await, Mcp!Goto, Mcp!Secrets
<1>16. CASE McpStep(Mcp!Publish)
  BY <1>16 DEF McpStep, Mcp!Publish, Mcp!Goto, Mcp!Secrets
<1>17. CASE McpStep(Mcp!ChildExits)
  BY <1>17 DEF McpStep, Mcp!ChildExits, Mcp!Goto, Mcp!Secrets
<1>18. CASE McpStep(Mcp!Reap)
  BY <1>18 DEF McpStep, Mcp!Reap, Mcp!Goto, Mcp!Secrets
<1>19. CASE McpStep(Mcp!Send)
  BY <1>19 DEF McpStep, Mcp!Send, Mcp!Goto, Mcp!Secrets
<1>20. CASE McpStep(Mcp!StartupTimeout)
  BY <1>20 DEF McpStep, Mcp!StartupTimeout, Mcp!Goto, Mcp!Secrets
<1>21. CASE UNCHANGED <<run, mcpVars>>
  BY <1>21 DEF mcpVars
<1> QED
  BY <1>1, <1>2, <1>3, <1>4, <1>5, <1>6, <1>7, <1>8, <1>9, <1>10, <1>11, <1>12, <1>13, <1>14,
     <1>15, <1>16, <1>17, <1>18, <1>19, <1>20, <1>21
     DEF Next, vars, Run, McpStep, LawStep, CallerCancels, Mcp!Next, Mcp!Start, Mcp!Child

\* The adapter's own steps leave Run, the context and the lawyers alone.
LEMMA AdapterLeavesLawyers == McpStep(Mcp!Next) => UNCHANGED <<ctx, run, lawVars>>
  BY DEF McpStep, Mcp!Next, Mcp!Start, Mcp!Child, lawVars,
         Mcp!Prepare, Mcp!Spawn, Mcp!Poll, Mcp!GiveUp, Mcp!PollAgain, Mcp!Remove, Mcp!Kill,
         Mcp!Await, Mcp!Publish, Mcp!ChildExits, Mcp!Reap, Mcp!Send, Mcp!StartupTimeout


\* The rest of a list of lawyers is one.
LEMMA TailTyped == ASSUME NEW s \in Seq(Lawyers), s # <<>> PROVE Tail(s) \in Seq(Lawyers)
  BY HeadTailProperties

\* Withdrawing a marker keeps the types.
LEMMA WithdrawTyped ==
  ASSUME ChildrenTypeOK, NEW l \in Lawyers, NEW seen \in SUBSET Law!Fields, Law!Withdraw(l, seen)
  PROVE  errs' \in [Lawyers -> SUBSET Law!Fields] /\ marked' \in [Lawyers -> BOOLEAN]
<1> DEFINE more == seen \cup {"marker"}
<1>1. more \in SUBSET Law!Fields
  BY DEF Law!Fields
<1>2. errs' = [errs EXCEPT ![l] = seen] \/ errs' = [errs EXCEPT ![l] = more]
  BY DEF Law!Withdraw
<1>3. marked' = [marked EXCEPT ![l] = FALSE] \/ marked' = marked
  BY DEF Law!Withdraw
<1> HIDE DEF more
<1> QED
  BY <1>1, <1>2, <1>3 DEF ChildrenTypeOK

\* Every step keeps the types.
LEMMA ChildrenTypeStep ==
  ChildrenTypeOK /\ StopReaches /\ [Next]_vars
    => ChildrenTypeOK'
<1> SUFFICES ASSUME ChildrenTypeOK, StopReaches, [Next]_vars
             PROVE  ChildrenTypeOK'
  OBVIOUS
<1> USE DEF ChildrenTypeOK, Law!Fields, GoroutineStages
<1>1. CASE McpStarted
  BY <1>1 DEF McpStarted, Goto, lawVars
<1>2. CASE SetUp
  BY <1>2 DEF SetUp, Goto, lawVars
<1>3. ASSUME NEW l \in Lawyers, run = "lawyers", Law!StartEnter(l), UNCHANGED run
      PROVE  ChildrenTypeOK'
  BY <1>3 DEF Law!StartEnter, Law!exitVars, Law!stopVars
<1>4. ASSUME NEW l \in Lawyers, run = "lawyers", Law!StartSucceeds(l), run' \in {"lawyers", "watch"}
      PROVE  ChildrenTypeOK'
  BY <1>4 DEF Law!StartSucceeds, Law!exitVars, Law!stopVars
<1>5. ASSUME NEW l \in Lawyers, run = "lawyers", Law!StartFails(l), run' = "cancel"
      PROVE  ChildrenTypeOK'
  BY <1>5 DEF Law!StartFails, Law!exitVars, Law!stopVars
<1>6. CASE Watch
  BY <1>6 DEF Watch, Goto, Mcp!OwnerTakes, Law!LauncherTakes, Law!Outer, Law!exitVars,
     Law!stopVars, lawVars
<1>7. CASE CancelRun
  BY <1>7 DEF CancelRun, Goto, lawVars
<1>8. CASE Drain
  BY <1>8 DEF Drain, Goto, Mcp!OwnerTakes, lawVars
<1>9. ASSUME run = "stop", Law!StopEnter, run' = "stopping" PROVE ChildrenTypeOK'
  BY <1>9 DEF Law!StopEnter, Law!exitVars
<1>10. ASSUME run = "stopping", Law!StopNext, UNCHANGED run PROVE ChildrenTypeOK'
  <2>1. todo' \in Seq(Lawyers)
    BY <1>10, TailTyped DEF Law!StopNext, StopReaches
  <2> QED
    BY <1>10, <2>1 DEF Law!StopNext, Law!SuperVars, Law!exitVars
<1>11. ASSUME run = "stopping", Law!StopRemoves, UNCHANGED run PROVE ChildrenTypeOK'
  BY <1>11 DEF Law!StopRemoves, Law!SuperVars, Law!exitVars
<1>12. ASSUME run = "stopping", Law!StopKills, UNCHANGED run PROVE ChildrenTypeOK'
  BY <1>12 DEF Law!StopKills, Law!SuperVars, Law!exitVars
<1>13. ASSUME run = "stopping", Law!StopAwaits, UNCHANGED run PROVE ChildrenTypeOK'
  <2>1. todo' \in Seq(Lawyers)
    BY <1>13, TailTyped DEF Law!StopAwaits, StopReaches
  <2> QED
    BY <1>13, <2>1 DEF Law!StopAwaits, Law!SuperVars, Law!exitVars
<1>14. ASSUME run = "stopping", Law!StopTimesOut, UNCHANGED run PROVE ChildrenTypeOK'
  <2>1. todo' \in Seq(Lawyers)
    BY <1>14, TailTyped DEF Law!StopTimesOut, StopReaches
  <2> QED
    BY <1>14, <2>1 DEF Law!StopTimesOut, Law!SuperVars, Law!exitVars
<1>15. ASSUME run = "stopping", spc = "returned", run' = "returned", UNCHANGED <<ctx, lawVars>>
      PROVE  ChildrenTypeOK'
  BY <1>15 DEF lawVars
<1>16. ASSUME NEW l \in Lawyers, Law!ProcessExits(l), UNCHANGED run PROVE ChildrenTypeOK'
  BY <1>16 DEF Law!ProcessExits, Law!exitVars, Law!stopVars
<1>17. ASSUME NEW l \in Lawyers, Law!ContextKills(l), UNCHANGED run PROVE ChildrenTypeOK'
  BY <1>17 DEF Law!ContextKills, Law!exitVars, Law!stopVars
<1>18. ASSUME NEW l \in Lawyers, Law!ContainerRemoved(l), UNCHANGED run PROVE ChildrenTypeOK'
  BY <1>18 DEF Law!ContainerRemoved, Law!exitVars, Law!stopVars
<1>19. ASSUME NEW l \in Lawyers, Law!WaitDelayKills(l), UNCHANGED run PROVE ChildrenTypeOK'
  BY <1>19 DEF Law!WaitDelayKills, Law!exitVars, Law!stopVars
<1>20. ASSUME NEW l \in Lawyers, Law!Waited(l), UNCHANGED run PROVE ChildrenTypeOK'
  BY <1>20 DEF Law!Waited, Law!Goto, Law!Outer, Law!stopVars, Law!Fail
<1>21. ASSUME NEW l \in Lawyers, Law!Collected(l), UNCHANGED run PROVE ChildrenTypeOK'
  BY <1>21 DEF Law!Collected, Law!Goto, Law!Outer, Law!stopVars, Law!Fail
<1>22. ASSUME NEW l \in Lawyers, Law!Verified(l), UNCHANGED run PROVE ChildrenTypeOK'
  BY <1>22 DEF Law!Verified, Law!Goto, Law!Outer, Law!stopVars, Law!Fail
<1>23. ASSUME NEW l \in Lawyers, Law!MarkedSuccessful(l), UNCHANGED run PROVE ChildrenTypeOK'
  <2>1. errs' \in [Lawyers -> SUBSET Law!Fields]
    BY <1>23 DEF Law!MarkedSuccessful, Law!Fail
  <2>2. marked' \in [Lawyers -> BOOLEAN]
    BY <1>23 DEF Law!MarkedSuccessful, Law!Fail
  <2>3. gor' \in [Lawyers -> GoroutineStages]
    BY <1>23 DEF Law!MarkedSuccessful, Law!Goto
  <2> QED
    BY <1>23, <2>1, <2>2, <2>3 DEF Law!MarkedSuccessful, Law!Outer, Law!stopVars
<1>24. ASSUME NEW l \in Lawyers, Law!Finished(l), UNCHANGED run PROVE ChildrenTypeOK'
  <2> DEFINE c == [canceled EXCEPT ![l] = ctx]
  <2>1. errs' \in [Lawyers -> SUBSET Law!Fields] /\ marked' \in [Lawyers -> BOOLEAN]
    <3>1. PICK bad \in BOOLEAN :
            LET seen == errs[l] \cup (IF bad \/ obs[l] THEN {"exit"} ELSE {})
            IN  IF seen # {} \/ ctx THEN Law!Withdraw(l, seen) ELSE UNCHANGED <<errs, marked>>
      BY <1>24 DEF Law!Finished
    <3> DEFINE seen == errs[l] \cup (IF bad \/ obs[l] THEN {"exit"} ELSE {})
    <3>2. seen \in SUBSET Law!Fields /\ seen \cup {"marker"} \in SUBSET Law!Fields
      OBVIOUS
    <3>3. Law!Withdraw(l, seen) \/ UNCHANGED <<errs, marked>>
      BY <3>1
    <3> HIDE DEF seen
    <3> QED
      BY <3>2, <3>3, WithdrawTyped
  <2>2. c \in [Lawyers -> BOOLEAN] /\ canceled' = c
    BY <1>24 DEF Law!Finished
  <2>3. gor' \in [Lawyers -> GoroutineStages]
    BY <1>24 DEF Law!Finished, Law!Goto
  <2> HIDE DEF c
  <2> QED
    BY <1>24, <2>1, <2>2, <2>3 DEF Law!Finished, Law!Outer, Law!stopVars
<1>25. ASSUME NEW l \in Lawyers, Law!Recorded(l), UNCHANGED run PROVE ChildrenTypeOK'
  <2>1. errs[l] \cup {"record"} \in SUBSET Law!Fields
    OBVIOUS
  <2>2. errs' \in [Lawyers -> SUBSET Law!Fields] /\ marked' \in [Lawyers -> BOOLEAN]
    BY <1>25, <2>1, WithdrawTyped DEF Law!Recorded
  <2>3. rec' \in [Lawyers -> {"none", "canceled", "failed", "completed"}]
    BY <1>25 DEF Law!Recorded
  <2>4. gor' \in [Lawyers -> GoroutineStages]
    BY <1>25 DEF Law!Recorded, Law!Goto
  <2> QED
    BY <1>25, <2>2, <2>3, <2>4 DEF Law!Recorded, Law!Outer, Law!stopVars
<1>26. ASSUME NEW l \in Lawyers, Law!Exited(l), UNCHANGED run PROVE ChildrenTypeOK'
  BY <1>26 DEF Law!Exited, Law!Goto, Law!Outer, Law!stopVars, Law!exitVars
<1>27. ASSUME NEW l \in Lawyers, Law!Reported(l), UNCHANGED run PROVE ChildrenTypeOK'
  BY <1>27 DEF Law!Reported, Law!Goto, Law!Outer, Law!stopVars, Law!exitVars
<1>28. CASE CallerCancels
  BY <1>28 DEF CallerCancels, lawVars
<1>29. CASE UNCHANGED <<ctx, run, lawVars>>
  BY <1>29 DEF lawVars
<1> QED
  BY <1>1, <1>2, <1>3, <1>4, <1>5, <1>6, <1>7, <1>8, <1>9, <1>10, <1>11, <1>12, <1>13, <1>14,
     <1>15, <1>16, <1>17, <1>18, <1>19, <1>20, <1>21, <1>22, <1>23, <1>24, <1>25, <1>26,
     <1>27, <1>28, <1>29, AdapterLeavesLawyers
     DEF Next, vars, Run, LawStep, StartLawyer, Stop, Goto, Law!StopStep, Law!Process, Law!Goroutine

\* A process that is appended joins those on the list.
LEMMA StartedListed ==
  ASSUME ChildrenTypeOK, NEW l \in Lawyers, procs' = Append(procs, l),
         NEW h \in Lawyers, h = l \/ \E i \in 1 .. Len(procs) : procs[i] = h
  PROVE  \E i \in 1 .. Len(procs') : procs'[i] = h
<1> DEFINE n == Len(procs)
           v == procs'
<1>1. procs \in Seq(Lawyers) /\ v = Append(procs, l)
  BY DEF ChildrenTypeOK
<1>2. n \in Nat /\ Len(v) = n + 1 /\ v[n + 1] = l /\ \A i \in 1 .. n : v[i] = procs[i]
  BY <1>1, AppendProperties, LenProperties
<1> HIDE DEF v
<1>3. CASE h = l
  <2>1. n + 1 \in 1 .. Len(v)
    BY <1>2
  <2> QED
    BY <1>2, <1>3, <2>1
<1>4. CASE \E i \in 1 .. n : procs[i] = h
  <2>1. PICK i \in 1 .. n : procs[i] = h
    BY <1>4
  <2>2. i \in 1 .. Len(v) /\ v[i] = h
    BY <1>2, <2>1
  <2> QED
    BY <2>2
<1> QED
  BY <1>3, <1>4 DEF v

\* What the list has left once its first is gone.
LEMMA TailHas ==
  ASSUME NEW s \in Seq(Lawyers), s # <<>>, NEW x, NEW i \in 1 .. Len(s), s[i] = x, x # Head(s)
  PROVE  \E j \in 1 .. Len(Tail(s)) : Tail(s)[j] = x
<1> DEFINE t == Tail(s)
           n == Len(s)
<1>1. n \in Nat /\ i \in 1 .. n
  BY LenProperties
<1>2. Len(t) = n - 1 /\ \A j \in 1 .. Len(t) : t[j] = s[j + 1]
  BY HeadTailProperties
<1>3. i # 1
  BY HeadTailProperties
<1> HIDE DEF t, n
<1>4. i - 1 \in 1 .. Len(t) /\ t[i - 1] = x
  BY <1>1, <1>2, <1>3
<1> QED
  BY <1>4 DEF t

\* Taking an exited process off the front of Stop's list loses none that runs.
LEMMA ShorterList ==
  ASSUME ChildrenTypeOK, StopReaches, spc # "idle", ~late,
         todo # <<>>, Law!IsExited(Head(todo)), todo' = Tail(todo),
         NEW l \in Lawyers, proc[l] # "none"
  PROVE  gor[l] \in {"report", "done"} \/ \E i \in 1 .. Len(todo') : todo'[i] = l
<1>1. todo \in Seq(Lawyers)
  BY DEF ChildrenTypeOK
<1>2. CASE l = Head(todo)
  BY <1>2 DEF Law!IsExited
<1>3. CASE l # Head(todo) /\ \E i \in 1 .. Len(todo) : todo[i] = l
  <2>1. PICK i \in 1 .. Len(todo) : todo[i] = l
    BY <1>3
  <2>2. \E j \in 1 .. Len(Tail(todo)) : Tail(todo)[j] = l
    BY <1>1, <1>3, <2>1, TailHas
  <2> QED
    BY <2>2
<1> QED
  BY <1>2, <1>3 DEF StopReaches, Law!IsExited

\* Processes are started under the lock and never again, and end before their goroutines.
LEMMA ProcessesStep ==
  ChildrenTypeOK /\ ProcessesKept /\ [Next]_vars
    => ProcessesKept'
<1> SUFFICES ASSUME ChildrenTypeOK, ProcessesKept, [Next]_vars
             PROVE  ProcessesKept'
  OBVIOUS
<1> USE DEF ChildrenTypeOK, ProcessesKept, GoroutineStages
<1>1. CASE McpStarted
  BY <1>1 DEF McpStarted, Goto, lawVars
<1>2. CASE SetUp
  BY <1>2 DEF SetUp, Goto, lawVars
<1>3. ASSUME NEW l \in Lawyers, run = "lawyers", Law!StartEnter(l), UNCHANGED run
      PROVE  ProcessesKept'
  BY <1>3 DEF Law!StartEnter, Law!exitVars, Law!stopVars
<1>4. ASSUME NEW l \in Lawyers, run = "lawyers", Law!StartSucceeds(l), run' \in {"lawyers", "watch"}
      PROVE  ProcessesKept'
  <2>1. lock' = "free" /\ \A h \in Lawyers : lock' # h
    BY <1>4, ChildrenAssumption DEF Law!StartSucceeds, ChildrenAssumption
  <2>2. \A h \in Lawyers : h # l => proc'[h] = proc[h] /\ gor'[h] = gor[h]
    BY <1>4 DEF Law!StartSucceeds
  <2>3. proc'[l] = "running" /\ gor'[l] = "wait" /\ procs' = Append(procs, l)
    BY <1>4 DEF Law!StartSucceeds
  <2>4. \A h \in Lawyers : proc'[h] # "none" => \E i \in 1 .. Len(procs') : procs'[i] = h
    <3> SUFFICES ASSUME NEW h \in Lawyers, proc'[h] # "none"
                 PROVE  \E i \in 1 .. Len(procs') : procs'[i] = h
      OBVIOUS
    <3>1. h = l \/ \E i \in 1 .. Len(procs) : procs[i] = h
      BY <2>2
    <3>2. procs \in Seq(Lawyers) /\ l \in Lawyers
      BY <1>4
    <3> QED
      BY <2>3, <3>1, <3>2, StartedListed
  <2> QED
    BY <1>4, <2>1, <2>2, <2>3, <2>4
<1>5. ASSUME NEW l \in Lawyers, run = "lawyers", Law!StartFails(l), run' = "cancel"
      PROVE  ProcessesKept'
  <2>1. lock' = "free" /\ \A h \in Lawyers : lock' # h
    BY <1>5, ChildrenAssumption DEF Law!StartFails, ChildrenAssumption
  <2> QED
    BY <1>5, <2>1 DEF Law!StartFails
<1>6. CASE Watch
  BY <1>6 DEF Watch, Goto, Mcp!OwnerTakes, Law!LauncherTakes, Law!Outer, Law!exitVars,
     Law!stopVars, lawVars
<1>7. CASE CancelRun
  BY <1>7 DEF CancelRun, Goto, lawVars
<1>8. CASE Drain
  BY <1>8 DEF Drain, Goto, Mcp!OwnerTakes, lawVars
<1>9. ASSUME run = "stop", Law!StopEnter, run' = "stopping" PROVE ProcessesKept'
  BY <1>9 DEF Law!StopEnter, Law!exitVars
<1>10. ASSUME run = "stopping", Law!StopNext, UNCHANGED run PROVE ProcessesKept'
  BY <1>10 DEF Law!StopNext, Law!SuperVars, Law!exitVars
<1>11. ASSUME run = "stopping", Law!StopRemoves, UNCHANGED run PROVE ProcessesKept'
  BY <1>11 DEF Law!StopRemoves, Law!SuperVars, Law!exitVars
<1>12. ASSUME run = "stopping", Law!StopKills, UNCHANGED run PROVE ProcessesKept'
  BY <1>12 DEF Law!StopKills, Law!SuperVars, Law!exitVars
<1>13. ASSUME run = "stopping", Law!StopAwaits, UNCHANGED run PROVE ProcessesKept'
  BY <1>13 DEF Law!StopAwaits, Law!SuperVars, Law!exitVars
<1>14. ASSUME run = "stopping", Law!StopTimesOut, UNCHANGED run PROVE ProcessesKept'
  BY <1>14 DEF Law!StopTimesOut, Law!SuperVars, Law!exitVars
<1>15. ASSUME run = "stopping", spc = "returned", run' = "returned", UNCHANGED <<ctx, lawVars>>
      PROVE  ProcessesKept'
  BY <1>15 DEF lawVars
<1>16. ASSUME NEW l \in Lawyers, Law!ProcessExits(l), UNCHANGED run PROVE ProcessesKept'
  BY <1>16 DEF Law!ProcessExits, Law!exitVars, Law!stopVars
<1>17. ASSUME NEW l \in Lawyers, Law!ContextKills(l), UNCHANGED run PROVE ProcessesKept'
  BY <1>17 DEF Law!ContextKills, Law!exitVars, Law!stopVars
<1>18. ASSUME NEW l \in Lawyers, Law!ContainerRemoved(l), UNCHANGED run PROVE ProcessesKept'
  BY <1>18 DEF Law!ContainerRemoved, Law!exitVars, Law!stopVars
<1>19. ASSUME NEW l \in Lawyers, Law!WaitDelayKills(l), UNCHANGED run PROVE ProcessesKept'
  BY <1>19 DEF Law!WaitDelayKills, Law!exitVars, Law!stopVars
<1>20. ASSUME NEW l \in Lawyers, Law!Waited(l), UNCHANGED run PROVE ProcessesKept'
  BY <1>20 DEF Law!Waited, Law!Goto, Law!Outer, Law!stopVars, Law!Fail
<1>21. ASSUME NEW l \in Lawyers, Law!Collected(l), UNCHANGED run PROVE ProcessesKept'
  BY <1>21 DEF Law!Collected, Law!Goto, Law!Outer, Law!stopVars, Law!Fail
<1>22. ASSUME NEW l \in Lawyers, Law!Verified(l), UNCHANGED run PROVE ProcessesKept'
  BY <1>22 DEF Law!Verified, Law!Goto, Law!Outer, Law!stopVars, Law!Fail
<1>23. ASSUME NEW l \in Lawyers, Law!MarkedSuccessful(l), UNCHANGED run PROVE ProcessesKept'
  BY <1>23 DEF Law!MarkedSuccessful, Law!Goto, Law!Outer, Law!stopVars, Law!Fail
<1>24. ASSUME NEW l \in Lawyers, Law!Finished(l), UNCHANGED run PROVE ProcessesKept'
  BY <1>24 DEF Law!Finished, Law!Goto, Law!Outer, Law!stopVars, Law!Withdraw
<1>25. ASSUME NEW l \in Lawyers, Law!Recorded(l), UNCHANGED run PROVE ProcessesKept'
  BY <1>25 DEF Law!Recorded, Law!Goto, Law!Outer, Law!stopVars, Law!Withdraw
<1>26. ASSUME NEW l \in Lawyers, Law!Exited(l), UNCHANGED run PROVE ProcessesKept'
  BY <1>26 DEF Law!Exited, Law!Goto, Law!Outer, Law!stopVars, Law!exitVars
<1>27. ASSUME NEW l \in Lawyers, Law!Reported(l), UNCHANGED run PROVE ProcessesKept'
  BY <1>27 DEF Law!Reported, Law!Goto, Law!Outer, Law!stopVars, Law!exitVars
<1>28. CASE CallerCancels
  BY <1>28 DEF CallerCancels, lawVars
<1>29. CASE UNCHANGED <<ctx, run, lawVars>>
  BY <1>29 DEF lawVars
<1> QED
  BY <1>1, <1>2, <1>3, <1>4, <1>5, <1>6, <1>7, <1>8, <1>9, <1>10, <1>11, <1>12, <1>13, <1>14,
     <1>15, <1>16, <1>17, <1>18, <1>19, <1>20, <1>21, <1>22, <1>23, <1>24, <1>25, <1>26,
     <1>27, <1>28, <1>29, AdapterLeavesLawyers
     DEF Next, vars, Run, LawStep, StartLawyer, Stop, Goto, Law!StopStep, Law!Process, Law!Goroutine

\* Stop takes a process off its list only when it has exited, or gives it up.
LEMMA StopsStep ==
  ChildrenTypeOK /\ ProcessesKept /\ StopReaches /\ [Next]_vars
    => StopReaches'
<1> SUFFICES ASSUME ChildrenTypeOK, ProcessesKept, StopReaches, [Next]_vars
             PROVE  StopReaches'
  OBVIOUS
<1> USE DEF ChildrenTypeOK, ProcessesKept, StopReaches, GoroutineStages, Law!IsExited
<1>1. CASE McpStarted
  BY <1>1 DEF McpStarted, Goto, lawVars
<1>2. CASE SetUp
  BY <1>2 DEF SetUp, Goto, lawVars
<1>3. ASSUME NEW l \in Lawyers, run = "lawyers", Law!StartEnter(l), UNCHANGED run
      PROVE  StopReaches'
  BY <1>3 DEF Law!StartEnter, Law!exitVars, Law!stopVars
<1>4. ASSUME NEW l \in Lawyers, run = "lawyers", Law!StartSucceeds(l), run' \in {"lawyers", "watch"}
      PROVE  StopReaches'
  BY <1>4 DEF Law!StartSucceeds, Law!exitVars, Law!stopVars
<1>5. ASSUME NEW l \in Lawyers, run = "lawyers", Law!StartFails(l), run' = "cancel"
      PROVE  StopReaches'
  BY <1>5 DEF Law!StartFails, Law!exitVars, Law!stopVars
<1>6. CASE Watch
  BY <1>6 DEF Watch, Goto, Mcp!OwnerTakes, Law!LauncherTakes, Law!Outer, Law!exitVars,
     Law!stopVars, lawVars
<1>7. CASE CancelRun
  BY <1>7 DEF CancelRun, Goto, lawVars
<1>8. CASE Drain
  BY <1>8 DEF Drain, Goto, Mcp!OwnerTakes, lawVars
<1>9. ASSUME run = "stop", Law!StopEnter, run' = "stopping" PROVE StopReaches'
  BY <1>9 DEF Law!StopEnter, Law!exitVars
<1>10. ASSUME run = "stopping", Law!StopNext, UNCHANGED run PROVE StopReaches'
  <2>1. CASE todo = <<>>
    BY <1>10, <2>1 DEF Law!StopNext, Law!SuperVars
  <2>2. CASE todo # <<>> /\ Law!IsExited(Head(todo))
    <3>1. todo' = Tail(todo) /\ spc = "next" /\ UNCHANGED <<spc, late, proc, gor>>
      BY <1>10, <2>2 DEF Law!StopNext, Law!SuperVars
    <3>2. ~late => \A l \in Lawyers : proc[l] # "none" =>
                     gor[l] \in {"report", "done"} \/ \E i \in 1 .. Len(todo') : todo'[i] = l
      BY <2>2, <3>1, ShorterList
    <3> QED
      BY <1>10, <3>1, <3>2
  <2>3. CASE todo # <<>> /\ ~Law!IsExited(Head(todo))
    BY <1>10, <2>3 DEF Law!StopNext, Law!SuperVars
  <2> QED
    BY <2>1, <2>2, <2>3
<1>11. ASSUME run = "stopping", Law!StopRemoves, UNCHANGED run PROVE StopReaches'
  BY <1>11 DEF Law!StopRemoves, Law!SuperVars, Law!exitVars
<1>12. ASSUME run = "stopping", Law!StopKills, UNCHANGED run PROVE StopReaches'
  BY <1>12 DEF Law!StopKills, Law!SuperVars, Law!exitVars
<1>13. ASSUME run = "stopping", Law!StopAwaits, UNCHANGED run PROVE StopReaches'
  <2>1. todo # <<>> /\ Law!IsExited(Head(todo))
    BY <1>13 DEF Law!StopAwaits
  <2>2. todo' = Tail(todo) /\ spc' = "next" /\ spc = "await" /\ UNCHANGED <<late, proc, gor>>
    BY <1>13 DEF Law!StopAwaits, Law!SuperVars
  <2>3. ~late => \A l \in Lawyers : proc[l] # "none" =>
                   gor[l] \in {"report", "done"} \/ \E i \in 1 .. Len(todo') : todo'[i] = l
    BY <2>1, <2>2, ShorterList
  <2> QED
    BY <1>13, <2>2, <2>3
<1>14. ASSUME run = "stopping", Law!StopTimesOut, UNCHANGED run PROVE StopReaches'
  BY <1>14 DEF Law!StopTimesOut, Law!SuperVars, Law!exitVars
<1>15. ASSUME run = "stopping", spc = "returned", run' = "returned", UNCHANGED <<ctx, lawVars>>
      PROVE  StopReaches'
  BY <1>15 DEF lawVars
<1>16. ASSUME NEW l \in Lawyers, Law!ProcessExits(l), UNCHANGED run PROVE StopReaches'
  BY <1>16 DEF Law!ProcessExits, Law!exitVars, Law!stopVars
<1>17. ASSUME NEW l \in Lawyers, Law!ContextKills(l), UNCHANGED run PROVE StopReaches'
  BY <1>17 DEF Law!ContextKills, Law!exitVars, Law!stopVars
<1>18. ASSUME NEW l \in Lawyers, Law!ContainerRemoved(l), UNCHANGED run PROVE StopReaches'
  BY <1>18 DEF Law!ContainerRemoved, Law!exitVars, Law!stopVars
<1>19. ASSUME NEW l \in Lawyers, Law!WaitDelayKills(l), UNCHANGED run PROVE StopReaches'
  BY <1>19 DEF Law!WaitDelayKills, Law!exitVars, Law!stopVars
<1>20. ASSUME NEW l \in Lawyers, Law!Waited(l), UNCHANGED run PROVE StopReaches'
  BY <1>20 DEF Law!Waited, Law!Goto, Law!Outer, Law!stopVars, Law!Fail
<1>21. ASSUME NEW l \in Lawyers, Law!Collected(l), UNCHANGED run PROVE StopReaches'
  BY <1>21 DEF Law!Collected, Law!Goto, Law!Outer, Law!stopVars, Law!Fail
<1>22. ASSUME NEW l \in Lawyers, Law!Verified(l), UNCHANGED run PROVE StopReaches'
  BY <1>22 DEF Law!Verified, Law!Goto, Law!Outer, Law!stopVars, Law!Fail
<1>23. ASSUME NEW l \in Lawyers, Law!MarkedSuccessful(l), UNCHANGED run PROVE StopReaches'
  BY <1>23 DEF Law!MarkedSuccessful, Law!Goto, Law!Outer, Law!stopVars, Law!Fail
<1>24. ASSUME NEW l \in Lawyers, Law!Finished(l), UNCHANGED run PROVE StopReaches'
  BY <1>24 DEF Law!Finished, Law!Goto, Law!Outer, Law!stopVars, Law!Withdraw
<1>25. ASSUME NEW l \in Lawyers, Law!Recorded(l), UNCHANGED run PROVE StopReaches'
  BY <1>25 DEF Law!Recorded, Law!Goto, Law!Outer, Law!stopVars, Law!Withdraw
<1>26. ASSUME NEW l \in Lawyers, Law!Exited(l), UNCHANGED run PROVE StopReaches'
  BY <1>26 DEF Law!Exited, Law!Goto, Law!Outer, Law!stopVars, Law!exitVars
<1>27. ASSUME NEW l \in Lawyers, Law!Reported(l), UNCHANGED run PROVE StopReaches'
  BY <1>27 DEF Law!Reported, Law!Goto, Law!Outer, Law!stopVars, Law!exitVars
<1>28. CASE CallerCancels
  BY <1>28 DEF CallerCancels, lawVars
<1>29. CASE UNCHANGED <<ctx, run, lawVars>>
  BY <1>29 DEF lawVars
<1> QED
  BY <1>1, <1>2, <1>3, <1>4, <1>5, <1>6, <1>7, <1>8, <1>9, <1>10, <1>11, <1>12, <1>13, <1>14,
     <1>15, <1>16, <1>17, <1>18, <1>19, <1>20, <1>21, <1>22, <1>23, <1>24, <1>25, <1>26,
     <1>27, <1>28, <1>29, AdapterLeavesLawyers
     DEF Next, vars, Run, LawStep, StartLawyer, Stop, Goto, Law!StopStep, Law!Process, Law!Goroutine

\* The marker follows the settlement from its first stage to its last.
LEMMA MarkerStep ==
  ChildrenTypeOK /\ ProcessesKept /\ MarkerKept /\ [Next]_vars
    => MarkerKept'
<1> SUFFICES ASSUME ChildrenTypeOK, ProcessesKept, MarkerKept, [Next]_vars
             PROVE  MarkerKept'
  OBVIOUS
<1> USE DEF ChildrenTypeOK, ProcessesKept, MarkerKept, GoroutineStages, Law!Fields
<1>1. CASE McpStarted
  BY <1>1 DEF McpStarted, Goto, lawVars
<1>2. CASE SetUp
  BY <1>2 DEF SetUp, Goto, lawVars
<1>3. ASSUME NEW l \in Lawyers, run = "lawyers", Law!StartEnter(l), UNCHANGED run
      PROVE  MarkerKept'
  BY <1>3 DEF Law!StartEnter, Law!exitVars, Law!stopVars
<1>4. ASSUME NEW l \in Lawyers, run = "lawyers", Law!StartSucceeds(l), run' \in {"lawyers", "watch"}
      PROVE  MarkerKept'
  BY <1>4 DEF Law!StartSucceeds, Law!exitVars, Law!stopVars
<1>5. ASSUME NEW l \in Lawyers, run = "lawyers", Law!StartFails(l), run' = "cancel"
      PROVE  MarkerKept'
  BY <1>5 DEF Law!StartFails, Law!exitVars, Law!stopVars
<1>6. CASE Watch
  BY <1>6 DEF Watch, Goto, Mcp!OwnerTakes, Law!LauncherTakes, Law!Outer, Law!exitVars,
     Law!stopVars, lawVars
<1>7. CASE CancelRun
  BY <1>7 DEF CancelRun, Goto, lawVars
<1>8. CASE Drain
  BY <1>8 DEF Drain, Goto, Mcp!OwnerTakes, lawVars
<1>9. ASSUME run = "stop", Law!StopEnter, run' = "stopping" PROVE MarkerKept'
  BY <1>9 DEF Law!StopEnter, Law!exitVars
<1>10. ASSUME run = "stopping", Law!StopNext, UNCHANGED run PROVE MarkerKept'
  BY <1>10 DEF Law!StopNext, Law!SuperVars, Law!exitVars
<1>11. ASSUME run = "stopping", Law!StopRemoves, UNCHANGED run PROVE MarkerKept'
  BY <1>11 DEF Law!StopRemoves, Law!SuperVars, Law!exitVars
<1>12. ASSUME run = "stopping", Law!StopKills, UNCHANGED run PROVE MarkerKept'
  BY <1>12 DEF Law!StopKills, Law!SuperVars, Law!exitVars
<1>13. ASSUME run = "stopping", Law!StopAwaits, UNCHANGED run PROVE MarkerKept'
  BY <1>13 DEF Law!StopAwaits, Law!SuperVars, Law!exitVars
<1>14. ASSUME run = "stopping", Law!StopTimesOut, UNCHANGED run PROVE MarkerKept'
  BY <1>14 DEF Law!StopTimesOut, Law!SuperVars, Law!exitVars
<1>15. ASSUME run = "stopping", spc = "returned", run' = "returned", UNCHANGED <<ctx, lawVars>>
      PROVE  MarkerKept'
  BY <1>15 DEF lawVars
<1>16. ASSUME NEW l \in Lawyers, Law!ProcessExits(l), UNCHANGED run PROVE MarkerKept'
  BY <1>16 DEF Law!ProcessExits, Law!exitVars, Law!stopVars
<1>17. ASSUME NEW l \in Lawyers, Law!ContextKills(l), UNCHANGED run PROVE MarkerKept'
  BY <1>17 DEF Law!ContextKills, Law!exitVars, Law!stopVars
<1>18. ASSUME NEW l \in Lawyers, Law!ContainerRemoved(l), UNCHANGED run PROVE MarkerKept'
  BY <1>18 DEF Law!ContainerRemoved, Law!exitVars, Law!stopVars
<1>19. ASSUME NEW l \in Lawyers, Law!WaitDelayKills(l), UNCHANGED run PROVE MarkerKept'
  BY <1>19 DEF Law!WaitDelayKills, Law!exitVars, Law!stopVars
<1>20. ASSUME NEW l \in Lawyers, Law!Waited(l), UNCHANGED run PROVE MarkerKept'
  BY <1>20 DEF Law!Waited, Law!Goto, Law!Outer, Law!stopVars, Law!Fail
<1>21. ASSUME NEW l \in Lawyers, Law!Collected(l), UNCHANGED run PROVE MarkerKept'
  BY <1>21 DEF Law!Collected, Law!Goto, Law!Outer, Law!stopVars, Law!Fail
<1>22. ASSUME NEW l \in Lawyers, Law!Verified(l), UNCHANGED run PROVE MarkerKept'
  <2>1. \A h \in Lawyers : h # l =>
          /\ gor'[h] = gor[h] /\ errs'[h] = errs[h] /\ marked'[h] = marked[h]
          /\ rec'[h] = rec[h] /\ canceled'[h] = canceled[h] /\ obs'[h] = obs[h]
    BY <1>22 DEF Law!Verified, Law!Goto, Law!Fail
  <2>2. gor[l] = "verify" /\ gor'[l] = "mark" /\ UNCHANGED <<ctx, marked, rec>>
    BY <1>22 DEF Law!Verified, Law!Goto, Law!Outer
  <2> QED
    BY <2>1, <2>2, ChildrenAssumption DEF ChildrenAssumption
<1>23. ASSUME NEW l \in Lawyers, Law!MarkedSuccessful(l), UNCHANGED run PROVE MarkerKept'
  <2>1. \A h \in Lawyers : h # l =>
          /\ gor'[h] = gor[h] /\ errs'[h] = errs[h] /\ marked'[h] = marked[h]
          /\ rec'[h] = rec[h] /\ canceled'[h] = canceled[h] /\ obs'[h] = obs[h]
    BY <1>23 DEF Law!MarkedSuccessful, Law!Goto, Law!Fail
  <2>2. gor[l] = "mark" /\ gor'[l] = "finish" /\ UNCHANGED <<ctx, obs, rec>>
    BY <1>23 DEF Law!MarkedSuccessful, Law!Goto, Law!Outer
  <2>3. l \in Headless => marked'[l] \/ errs'[l] # {} \/ obs[l] \/ ctx
    <3>1. CASE marked' = [marked EXCEPT ![l] = TRUE]
      BY <3>1
    <3>2. CASE errs' = [errs EXCEPT ![l] = @ \cup {"marker"}]
      BY <3>2
    <3>3. CASE UNCHANGED <<errs, marked>> /\ ~(errs[l] = {} /\ ~obs[l] /\ ~ctx /\ l \in Headless)
      BY <3>3
    <3> QED
      BY <1>23, <3>1, <3>2, <3>3 DEF Law!MarkedSuccessful, Law!Fail
  <2> QED
    BY <2>1, <2>2, <2>3, ChildrenAssumption DEF ChildrenAssumption
<1>24. ASSUME NEW l \in Lawyers, Law!Finished(l), UNCHANGED run PROVE MarkerKept'
  <2>1. PICK bad \in BOOLEAN :
          LET seen == errs[l] \cup (IF bad \/ obs[l] THEN {"exit"} ELSE {})
          IN  IF seen # {} \/ ctx THEN Law!Withdraw(l, seen) ELSE UNCHANGED <<errs, marked>>
    BY <1>24 DEF Law!Finished
  <2> DEFINE seen == errs[l] \cup (IF bad \/ obs[l] THEN {"exit"} ELSE {})
  <2>2. \/ (seen # {} \/ ctx) /\ Law!Withdraw(l, seen)
        \/ seen = {} /\ ~ctx /\ UNCHANGED <<errs, marked>>
    BY <2>1
  <2>3. seen = {} => errs[l] = {} /\ ~obs[l]
    OBVIOUS
  <2>4. gor[l] = "finish" /\ gor'[l] = "record" /\ UNCHANGED <<ctx, obs, rec>>
    BY <1>24 DEF Law!Finished, Law!Goto, Law!Outer
  <2>5. canceled'[l] = ctx
    BY <1>24 DEF Law!Finished
  <2> HIDE DEF seen
  <2>6. \A h \in Lawyers : h # l => errs'[h] = errs[h] /\ marked'[h] = marked[h]
    BY <2>2 DEF Law!Withdraw
  <2>7. \A h \in Lawyers : h # l =>
          gor'[h] = gor[h] /\ rec'[h] = rec[h] /\ canceled'[h] = canceled[h] /\ obs'[h] = obs[h]
    BY <1>24 DEF Law!Finished, Law!Goto
  <2>8. l \in Headless => "marker" \in errs'[l] \/ (marked'[l] <=> errs'[l] = {} /\ ~canceled'[l])
    <3>1. CASE (seen # {} \/ ctx) /\ Law!Withdraw(l, seen)
      BY <2>5, <3>1 DEF Law!Withdraw
    <3>2. CASE seen = {} /\ ~ctx /\ UNCHANGED <<errs, marked>>
      BY <2>3, <2>4, <2>5, <3>2
    <3> QED
      BY <2>2, <3>1, <3>2
  <2> QED
    BY <2>4, <2>6, <2>7, <2>8, ChildrenAssumption DEF ChildrenAssumption
<1>25. ASSUME NEW l \in Lawyers, Law!Recorded(l), UNCHANGED run PROVE MarkerKept'
  <2>1. \A h \in Lawyers : h # l =>
          /\ gor'[h] = gor[h] /\ errs'[h] = errs[h] /\ marked'[h] = marked[h]
          /\ rec'[h] = rec[h] /\ canceled'[h] = canceled[h] /\ obs'[h] = obs[h]
    BY <1>25 DEF Law!Recorded, Law!Goto, Law!Withdraw
  <2>2. gor[l] = "record" /\ gor'[l] = "exited" /\ UNCHANGED <<ctx, obs, canceled>>
    BY <1>25 DEF Law!Recorded, Law!Goto, Law!Outer
  <2>3. l \in Headless =>
          "marker" \in errs'[l] \/ (marked'[l] <=> rec'[l] = "completed" /\ errs'[l] = {})
    BY <1>25 DEF Law!Recorded, Law!Withdraw
  <2> QED
    BY <2>1, <2>2, <2>3, ChildrenAssumption DEF ChildrenAssumption
<1>26. ASSUME NEW l \in Lawyers, Law!Exited(l), UNCHANGED run PROVE MarkerKept'
  BY <1>26 DEF Law!Exited, Law!Goto, Law!Outer, Law!stopVars, Law!exitVars
<1>27. ASSUME NEW l \in Lawyers, Law!Reported(l), UNCHANGED run PROVE MarkerKept'
  BY <1>27 DEF Law!Reported, Law!Goto, Law!Outer, Law!stopVars, Law!exitVars
<1>28. CASE CallerCancels
  BY <1>28 DEF CallerCancels, lawVars
<1>29. CASE UNCHANGED <<ctx, run, lawVars>>
  BY <1>29 DEF lawVars
<1> QED
  BY <1>1, <1>2, <1>3, <1>4, <1>5, <1>6, <1>7, <1>8, <1>9, <1>10, <1>11, <1>12, <1>13, <1>14,
     <1>15, <1>16, <1>17, <1>18, <1>19, <1>20, <1>21, <1>22, <1>23, <1>24, <1>25, <1>26,
     <1>27, <1>28, <1>29, AdapterLeavesLawyers
     DEF Next, vars, Run, LawStep, StartLawyer, Stop, Goto, Law!StopStep, Law!Process, Law!Goroutine

\* What the first state satisfies.
LEMMA ChildrenInit == Init => ChildrenInv
<1> SUFFICES ASSUME Init PROVE ChildrenInv
  OBVIOUS
<1> USE DEF Init, Mcp!Init, Law!Init
<1>1. ChildrenTypeOK
  <2>1. procs \in Seq(Lawyers) /\ todo \in Seq(Lawyers)
    BY EmptySeq
  <2>2. /\ proc \in [Lawyers -> {"none", "running", "clean", "broken"}]
        /\ gor \in [Lawyers -> GoroutineStages]
    BY DEF GoroutineStages
  <2>3. /\ errs \in [Lawyers -> SUBSET Law!Fields]
        /\ obs \in [Lawyers -> BOOLEAN] /\ canceled \in [Lawyers -> BOOLEAN]
        /\ rec \in [Lawyers -> {"none", "canceled", "failed", "completed"}]
        /\ marked \in [Lawyers -> BOOLEAN]
    OBVIOUS
  <2> QED
    BY <2>1, <2>2, <2>3 DEF ChildrenTypeOK
<1>2. AdapterWaited /\ AdapterDriven
  BY DEF AdapterWaited, AdapterDriven
<1>3. ProcessesKept
  BY ChildrenAssumption DEF ProcessesKept, ChildrenAssumption
<1>4. StopReaches
  BY DEF StopReaches
<1>5. MarkerKept
  BY ChildrenAssumption DEF MarkerKept, ChildrenAssumption
<1> QED
  BY <1>1, <1>2, <1>3, <1>4, <1>5 DEF ChildrenInv

-----------------------------------------------------------------------------
(* The theorems.                                                           *)

\* However the adapter's start, the lawyers, the cancellation and the stop meet,
\* what has been announced, awaited and marked agrees with what runs.
THEOREM ChildrenConsistent == Spec => []ChildrenInv
<1>1. ChildrenInv /\ [Next]_vars => ChildrenInv'
  BY ChildrenTypeStep, AdapterStep, ProcessesStep, StopsStep, MarkerStep DEF ChildrenInv
<1> QED
  BY ChildrenInit, <1>1, PTL DEF Spec

\* A failed start leaves no process and no file, an owned adapter no secret, and a
\* run that returned no child but one that outlived Stop's patience.
THEOREM NoChildLeftBehind == Spec => []NothingLeftBehind
<1>1. ChildrenInv => NothingLeftBehind
  <2> SUFFICES ASSUME ChildrenInv PROVE NothingLeftBehind
    OBVIOUS
  <2>1. main \in {"failed", "ended"} => child # "running" /\ waiter \in {"none", "sent"} /\ files = {}
    BY DEF ChildrenInv, AdapterWaited
  <2>2. main = "owned" => files \cap {"key", "bearer"} = {}
    BY DEF ChildrenInv, AdapterWaited
  <2>3. run = "returned" => main # "owned"
    BY DEF ChildrenInv, AdapterDriven
  <2>4. ASSUME run = "returned", ~late, NEW l \in Lawyers, proc[l] = "running" PROVE FALSE
    <3>1. spc = "returned" /\ todo = <<>>
      BY <2>4 DEF ChildrenInv, StopReaches
    <3>2. Law!IsExited(l)
      BY <2>4, <3>1 DEF ChildrenInv, StopReaches
    <3> QED
      BY <2>4, <3>2 DEF ChildrenInv, ProcessesKept, Law!IsExited
  <2> QED
    BY <2>1, <2>2, <2>3, <2>4 DEF NothingLeftBehind
<1> QED
  BY ChildrenConsistent, <1>1, PTL

\* A session may be resumed exactly when its lawyer is on record as completed, for
\* any number of lawyers, or the lawyer's error says that the marker is wrong.
THEOREM MarkersTellTheTruth == Spec => []ResumableIsCompleted
<1>1. ChildrenInv => ResumableIsCompleted
  BY DEF ChildrenInv, MarkerKept, ResumableIsCompleted, Law!IsExited
<1> QED
  BY ChildrenConsistent, <1>1, PTL
=============================================================================
