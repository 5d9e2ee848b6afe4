----------------------------- MODULE LocalRunProofs -----------------------------
(***************************************************************************)
(* Proofs about the launcher of a case, LocalRun, for every roster, every  *)
(* set of automatic lawyers and any number of council opportunities.  The  *)
(* inductive invariant ties the channels to the ends of the processes they *)
(* announce, the shutdown's stage to what has ended, the list of agents to *)
(* the clients and containers that run, every stop that failed or ran out  *)
(* of patience to an error, and an exit without error to a completed case. *)
(***************************************************************************)
EXTENDS LocalRun, TLAPS

\* The points Run passes, and the last of them, from which on the core and the
\* adapter have ended and the lawyers have been stopped.
MainStages == {"core", "api", "mcp", "mcp_health", "roster", "lawyers", "loop", "grace", "poll",
               "stop_prior", "mcp_wait", "shut_core", "shut_mcp", "shut_lawyers", "shut_agents",
               "returned"}
CoreStages == {"none", "starting", "serving", "terminal", "closed", "completed", "died"}
CoreWaited == {"shut_mcp", "shut_lawyers", "shut_agents", "returned"}
MCPWaited == {"shut_lawyers", "shut_agents", "returned"}
LawyersWaited == {"shut_agents", "returned"}
Shutdown == {"shut_core"} \cup CoreWaited
CoreEnded == {"completed", "died"}
Unfinished == {"failed", "late", "again"}

CoreType == [at : CoreStages, opp : Nat, opened : Nat,
             seated : SUBSET Members, owner : [Opps -> Members]]
AgentType == [at : AgentStages, box : BOOLEAN, bad : BOOLEAN, forced : BOOLEAN,
              stop : StopStages, token : BOOLEAN, listed : BOOLEAN]
MainType == [at : MainStages, todo : SUBSET Members, opp : Nat]
PendingType == [case : BOOLEAN, mcp : BOOLEAN]
CtxType == [user : BOOLEAN, run : BOOLEAN]
RetType == [result : BOOLEAN, err : BOOLEAN, summary : BOOLEAN]

RunTypeOK ==
  /\ core \in CoreType
  /\ core.opp <= core.opened /\ core.opened <= MaxOpps
  /\ caseDone \in {"empty", "ok", "err", "taken"}
  /\ mcp \in {"none", "up", "exited"} /\ mcpDone \in {"empty", "nil", "exit", "taken"}
  /\ lawyers \in [Roles -> {"none", "up", "down", "settled"}]
  /\ agents \in [Opps -> AgentType]
  /\ starts \subseteq Opps
  /\ main \in MainType
  /\ pending \in PendingType
  /\ ctx \in CtxType
  /\ ret \in RetType

\* The channel of the core holds its outcome from its end until it is taken.
OutcomeOfCore ==
  /\ caseDone = "empty" <=> core.at \notin CoreEnded
  /\ caseDone = "ok" => core.at = "completed"
  /\ pending.case <=> core.at # "none" /\ caseDone # "taken"
  /\ main.at = "core" => core.at = "none"

OutcomeOfMCP ==
  /\ mcpDone = "empty" <=> mcp # "exited"
  /\ pending.mcp <=> mcp # "none" /\ mcpDone # "taken"
  /\ main.at \in {"core", "api", "mcp"} => mcp = "none"

\* What the shutdown waits for without a bound has ended.
WaitedInOrder ==
  /\ main.at \in CoreWaited => core.at \in CoreEnded \cup {"none"}
  /\ main.at \in MCPWaited => mcp # "up"

\* The only way to the shutdown that leaves no error is a completed case with its
\* summary written.
SuccessEarned ==
  /\ ret.result => core.at = "completed"
  /\ main.at = "mcp_wait" => ret.result \/ ret.err
  /\ main.at \in Shutdown => ret.err \/ (ret.result /\ ret.summary)

\* An agent's client that runs is on the list the stops go by, and so is its
\* container, unless a stop has failed to remove it and the run has failed with it;
\* its opportunity is one that the core opened and that no second agent is started
\* for.
AgentListed(k) ==
  /\ agents[k].at # "none" => k \in starts
  /\ agents[k].at = "none" => ~agents[k].listed /\ ~agents[k].box
  /\ Client(k) => agents[k].listed
  /\ agents[k].token => Client(k)
  /\ agents[k].stop = "asked" => ~agents[k].box
  /\ agents[k].box /\ ~agents[k].listed =>
       main.at \in Shutdown /\ agents[k].stop \in {"failed", "late"}
AgentsListed ==
  /\ \A k \in starts : k <= core.opened
  /\ \A k \in Opps : AgentListed(k)
  /\ main.at = "stop_prior" => main.opp \in starts /\ agents[main.opp].at = "none"

\* A stop that failed or was given up is one that the launcher is about to report
\* or has reported; the same goes for a lawyer that is left.
StopsReported ==
  /\ \A k \in Opps : agents[k].stop \in Unfinished =>
       \/ main.at = "stop_prior" /\ k \in Prior
       \/ main.at = "shut_agents" /\ agents[k].listed
       \/ main.at \in Shutdown /\ ret.err
  /\ main.at = "returned" => \A k \in Opps : agents[k].listed => Stopped(k)
  /\ main.at \in LawyersWaited => ret.err \/ \A r \in Roles : lawyers[r] \notin {"up", "down"}

LauncherInv ==
  /\ RunTypeOK /\ OutcomeOfCore /\ OutcomeOfMCP /\ WaitedInOrder
  /\ SuccessEarned /\ AgentsListed /\ StopsReported /\ OneAgentPerMember

\* A member that is failed leaves the core's state in its type and its count alone.
LEMMA MemberFails ==
  ASSUME RunTypeOK, NEW m
  PROVE  LET c == [core EXCEPT !.opp = 0, !.seated = @ \ {m}]
         IN  c \in CoreType /\ c.opp <= c.opened /\ c.opened = core.opened
<1> DEFINE s == core.seated \ {m}
<1>1. s \in SUBSET Members
  BY DEF RunTypeOK, CoreType
<1> HIDE DEF s
<1>2. [core EXCEPT !.opp = 0, !.seated = s] \in CoreType
  BY <1>1 DEF RunTypeOK, CoreType
<1> QED
  BY <1>2 DEF RunTypeOK, CoreType, s

\* What taking stopped agents off the list changes of them, and what it leaves.
LEMMA Unlisting ==
  ASSUME RunTypeOK, NEW ks
  PROVE  /\ Unlisted(ks) \in [Opps -> AgentType]
         /\ \A j \in Opps :
              /\ Unlisted(ks)[j].at = agents[j].at /\ Unlisted(ks)[j].box = agents[j].box
              /\ Unlisted(ks)[j].token = agents[j].token
              /\ j \notin ks => Unlisted(ks)[j] = agents[j]
              /\ j \in ks /\ Client(j) => /\ Unlisted(ks)[j].listed = agents[j].listed
                                         /\ Unlisted(ks)[j].stop = "again"
              /\ j \in ks /\ ~Client(j) => /\ ~Unlisted(ks)[j].listed
                                          /\ Unlisted(ks)[j].stop = agents[j].stop
<1>1. ASSUME NEW j \in Opps
      PROVE  /\ Unlisted(ks)[j] \in AgentType
             /\ Unlisted(ks)[j].at = agents[j].at /\ Unlisted(ks)[j].box = agents[j].box
             /\ Unlisted(ks)[j].token = agents[j].token
             /\ j \notin ks => Unlisted(ks)[j] = agents[j]
             /\ j \in ks /\ Client(j) => /\ Unlisted(ks)[j].listed = agents[j].listed
                                        /\ Unlisted(ks)[j].stop = "again"
             /\ j \in ks /\ ~Client(j) => /\ ~Unlisted(ks)[j].listed
                                         /\ Unlisted(ks)[j].stop = agents[j].stop
  <2>1. agents[j] \in AgentType
    BY DEF RunTypeOK
  <2>2. CASE j \notin ks
    BY <2>1, <2>2 DEF Unlisted
  <2>3. CASE j \in ks /\ Client(j)
    <3>1. Unlisted(ks)[j] = [agents[j] EXCEPT !.stop = "again"]
      BY <2>3 DEF Unlisted
    <3> QED
      BY <2>1, <2>3, <3>1 DEF AgentType, StopStages
  <2>4. CASE j \in ks /\ ~Client(j)
    <3>1. Unlisted(ks)[j] = [agents[j] EXCEPT !.listed = FALSE]
      BY <2>4 DEF Unlisted
    <3> QED
      BY <2>1, <2>4, <3>1 DEF AgentType
  <2> QED
    BY <2>2, <2>3, <2>4
<1>2. Unlisted(ks) = [j \in Opps |-> Unlisted(ks)[j]]
  BY DEF Unlisted
<1>3. Unlisted(ks) \in [Opps -> AgentType]
  BY <1>1, <1>2
<1> QED
  BY <1>1, <1>3

\* The ways a start of an agent goes: it fails, it succeeds, or only its recording
\* fails.
StartRefused == Leave /\ agents' = Unlisted(Prior)
StartDone ==
  /\ \A k \in Prior : ~Failing(k)
  /\ Goto("poll")
  /\ agents' = [Unlisted(Prior) EXCEPT ![main.opp] =
       [NoAgent EXCEPT !.at = "up", !.box = TRUE, !.token = TRUE, !.listed = TRUE]]
StartUnrecorded ==
  /\ \A k \in Prior : ~Failing(k)
  /\ Leave
  /\ agents' = [Unlisted(Prior) EXCEPT ![main.opp] =
       [NoAgent EXCEPT !.at = "settled", !.box = TRUE, !.stop = "failed"]]

\* What each way leaves of the other agents, and of the place of the new one.
LEMMA Starting ==
  ASSUME RunTypeOK, StartAgent, main.opp \in Opps
  PROVE  /\ agents' \in [Opps -> AgentType]
         /\ \A j \in Opps \ {main.opp} : agents'[j] = Unlisted(Prior)[j]
         /\ \/ StartRefused /\ agents'[main.opp] = Unlisted(Prior)[main.opp]
            \/ /\ StartDone
               /\ agents'[main.opp].at = "up" /\ agents'[main.opp].listed
               /\ agents'[main.opp].stop = "no"
            \/ /\ StartUnrecorded
               /\ agents'[main.opp].at = "settled" /\ ~agents'[main.opp].token
               /\ agents'[main.opp].stop = "failed"
<1>1. Unlisted(Prior) \in [Opps -> AgentType]
  BY Unlisting
<1> DEFINE left == Unlisted(Prior)
           first == [NoAgent EXCEPT !.at = "up", !.box = TRUE, !.token = TRUE, !.listed = TRUE]
           lost == [NoAgent EXCEPT !.at = "settled", !.box = TRUE, !.stop = "failed"]
<1>2. first \in AgentType /\ first.at = "up" /\ first.listed /\ first.stop = "no"
  BY DEF NoAgent, AgentType, AgentStages, StopStages
<1>3. lost \in AgentType /\ lost.at = "settled" /\ ~lost.token /\ lost.stop = "failed"
  BY DEF NoAgent, AgentType, AgentStages, StopStages
<1>4. \/ StartRefused /\ agents' = left
      \/ StartDone /\ agents' = [left EXCEPT ![main.opp] = first]
      \/ StartUnrecorded /\ agents' = [left EXCEPT ![main.opp] = lost]
  BY DEF StartAgent, StartRefused, StartDone, StartUnrecorded
<1> HIDE DEF left, first, lost
<1>5. left \in [Opps -> AgentType] /\ left = Unlisted(Prior)
  BY <1>1 DEF left
<1>6. CASE StartRefused /\ agents' = left
  BY <1>5, <1>6
<1>7. CASE StartDone /\ agents' = [left EXCEPT ![main.opp] = first]
  BY <1>2, <1>5, <1>7
<1>8. CASE StartUnrecorded /\ agents' = [left EXCEPT ![main.opp] = lost]
  BY <1>3, <1>5, <1>8
<1> QED
  BY <1>4, <1>6, <1>7, <1>8

\* Starting an agent keeps the agents' type.
LEMMA StartedType == ASSUME RunTypeOK, StartAgent PROVE agents' \in [Opps -> AgentType]
<1>1. Unlisted(Prior) \in [Opps -> AgentType]
  BY Unlisting
<1>2. CASE main.opp \in Opps
  BY <1>2, Starting
<1>3. CASE main.opp \notin Opps
  <2>1. \E a : agents' = Unlisted(Prior) \/ agents' = [Unlisted(Prior) EXCEPT ![main.opp] = a]
    BY DEF StartAgent
  <2> QED
    BY <1>1, <1>3, <2>1
<1> QED
  BY <1>2, <1>3

\* What the end of a container or of its client changes of the agent.
LEMMA Exiting ==
  ASSUME RunTypeOK, NEW k \in Opps, AgentExits(k)
  PROVE  /\ agents' \in [Opps -> AgentType]
         /\ \A j \in Opps \ {k} : agents'[j] = agents[j]
         /\ agents'[k].listed = agents[k].listed /\ agents'[k].token = agents[k].token
         /\ agents'[k].stop = agents[k].stop /\ (agents'[k].box => agents[k].box)
         /\ \/ agents'[k].at = agents[k].at
            \/ agents[k].at = "up" /\ agents'[k].at = "down"
<1>1. PICK at \in AgentStages, box, bad \in BOOLEAN :
        /\ agents' = [agents EXCEPT ![k] = [@ EXCEPT !.at = at, !.box = box, !.bad = bad]]
        /\ box => agents[k].box
        /\ at = agents[k].at \/ (agents[k].at = "up" /\ at = "down")
  <2>1. CASE agents' = [agents EXCEPT ![k].box = FALSE]
    <3>1. agents[k].at \in AgentStages /\ agents[k].bad \in BOOLEAN /\ agents[k] \in AgentType
      BY DEF RunTypeOK, AgentType
    <3>2. [agents[k] EXCEPT !.box = FALSE]
            = [agents[k] EXCEPT !.at = agents[k].at, !.box = FALSE, !.bad = agents[k].bad]
      BY <3>1 DEF AgentType
    <3>3. agents' = [agents EXCEPT ![k] =
                       [@ EXCEPT !.at = agents[k].at, !.box = FALSE, !.bad = agents[k].bad]]
      BY <2>1, <3>2
    <3> QED
      BY <3>1, <3>3
  <2>2. CASE /\ agents[k].at = "up"
             /\ \E bad, left \in BOOLEAN :
                  agents' = [agents EXCEPT ![k].at = "down", ![k].box = @ /\ left,
                                           ![k].bad = bad \/ left \/ ctx.run]
    <3>1. PICK bad, left \in BOOLEAN :
            agents' = [agents EXCEPT ![k].at = "down", ![k].box = @ /\ left,
                                     ![k].bad = bad \/ left \/ ctx.run]
      BY <2>2
    <3> DEFINE b == agents[k].box /\ left
               c == bad \/ left \/ ctx.run
    <3>2. b \in BOOLEAN /\ c \in BOOLEAN /\ (b => agents[k].box)
      BY Zenon
    <3>3. agents' = [agents EXCEPT ![k] = [@ EXCEPT !.at = "down", !.box = b, !.bad = c]]
      BY <3>1, Zenon
    <3>4. "down" \in AgentStages
      BY DEF AgentStages
    <3> QED
      BY <2>2, <3>2, <3>3, <3>4, Zenon
  <2> QED
    BY <2>1, <2>2 DEF AgentExits
<1> DEFINE a == [agents[k] EXCEPT !.at = at, !.box = box, !.bad = bad]
<1>2. /\ a \in AgentType /\ a.at = at /\ a.box = box /\ a.listed = agents[k].listed
      /\ a.token = agents[k].token /\ a.stop = agents[k].stop
  <2>1. agents[k] \in AgentType
    BY DEF RunTypeOK
  <2> QED
    BY <2>1 DEF AgentType
<1>3. agents' = [agents EXCEPT ![k] = a]
  BY <1>1
<1> HIDE DEF a
<1>4. agents' \in [Opps -> AgentType] /\ agents'[k] = a /\ \A j \in Opps \ {k} : agents'[j] = agents[j]
  BY <1>2, <1>3 DEF RunTypeOK
<1> QED
  BY <1>1, <1>2, <1>4

\* Every step keeps the types.
LEMMA TypeStep == RunTypeOK /\ [Next]_vars => RunTypeOK'
<1> SUFFICES ASSUME RunTypeOK, [Next]_vars PROVE RunTypeOK'
  OBVIOUS
<1> USE DEF RunTypeOK
<1>1. CASE CoreServes
  BY <1>1 DEF CoreServes, CoreType, CoreStages
<1>2. CASE CoreVote
  BY <1>2 DEF CoreVote, CoreType, CoreStages
<1>3. CASE CoreDeadline
  <2>1. core' \in CoreType /\ core'.opp <= core'.opened /\ core'.opened = core.opened
    BY <1>3, MemberFails DEF CoreDeadline
  <2> QED
    BY <1>3, <2>1 DEF CoreDeadline
<1>4. CASE CoreEnds
  BY <1>4 DEF CoreEnds, CoreType, CoreStages
<1>5. CASE CoreFinishes
  BY <1>5 DEF CoreFinishes, CoreType, CoreStages
<1>6. CASE MCPExits
  BY <1>6 DEF MCPExits, CtxType
<1>7. CASE StartCore
  <2>1. CASE Leave /\ UNCHANGED <<core, pending>>
    BY <1>7, <2>1 DEF StartCore, Leave, MainType, MainStages, CtxType, RetType
  <2>2. CASE core' = [core EXCEPT !.at = "starting"] /\ pending' = [pending EXCEPT !.case = TRUE]
       /\ Goto("api")
    BY <1>7, <2>2 DEF StartCore, Goto, MainType, MainStages, PendingType, CoreType, CoreStages
  <2> QED
    BY <1>7, <2>1, <2>2 DEF StartCore
<1>8. CASE TakeEarlyEnd
  BY <1>8 DEF TakeEarlyEnd, PendingType, Leave, MainType, MainStages, CtxType, RetType
<1>9. CASE SetUpFails
  BY <1>9 DEF SetUpFails, Leave, MainType, MainStages, CtxType, RetType
<1>10. CASE SetUp
  <2>1. \E at \in MainStages : Goto(at)
    BY <1>10 DEF SetUp, MainStages
  <2>2. main' \in MainType /\ UNCHANGED <<ctx, ret>>
    BY <2>1 DEF Goto, MainType
  <2>3. mcp' \in {"none", "up", "exited"} /\ pending' \in PendingType
    BY <1>10 DEF SetUp, PendingType
  <2>4. lawyers' \in [Roles -> {"none", "up", "down", "settled"}]
    BY <1>10 DEF SetUp
  <2> QED
    BY <1>10, <2>2, <2>3, <2>4 DEF SetUp
<1>11. CASE TakeCaseDone
  BY <1>11 DEF TakeCaseDone, MainType, MainStages, PendingType, CtxType, RetType
<1>12. CASE TakeMCPAfterCase
  BY <1>12 DEF TakeMCPAfterCase, MainType, MainStages, PendingType, RetType
<1>13. CASE TakeMCPDone
  BY <1>13 DEF TakeMCPDone, PendingType, Leave, MainType, MainStages, CtxType, RetType
<1>14. CASE SeeCancelled
  BY <1>14 DEF SeeCancelled, world, Leave, MainType, MainStages, CtxType, RetType
<1>15. CASE TakeAgentError
  BY <1>15 DEF TakeAgentError, Goto, MainType, MainStages
<1>16. CASE GraceExpires
  BY <1>16 DEF GraceExpires, world, Leave, MainType, MainStages, CtxType, RetType
<1>17. CASE Tick
  BY <1>17 DEF Tick, world, MainType, MainStages
<1>18. CASE PollEnds
  BY <1>18 DEF PollEnds, world, MainType, MainStages
<1>19. CASE StartAgent
  <2>1. agents' \in [Opps -> AgentType]
    BY <1>19, StartedType
  <2>2. CASE Leave
    BY <1>19, <2>1, <2>2 DEF StartAgent, Leave, MainType, MainStages, CtxType, RetType
  <2>3. CASE Goto("poll")
    BY <1>19, <2>1, <2>3 DEF StartAgent, Goto, MainType, MainStages
  <2> QED
    BY <1>19, <2>2, <2>3 DEF StartAgent
<1>20. CASE ShutCore
  BY <1>20 DEF ShutCore, MainType, MainStages, PendingType, RetType
<1>21. CASE ShutMCP
  BY <1>21 DEF ShutMCP, MainType, MainStages, PendingType, RetType
<1>22. CASE ShutLawyers
  <2>1. main' \in MainType /\ UNCHANGED <<core, caseDone, mcp, mcpDone, lawyers, agents, starts,
       pending, ctx>>
    BY <1>22 DEF ShutLawyers, MainType, MainStages
  <2>2. \E b \in BOOLEAN : ret' = [ret EXCEPT !.err = b]
    BY <1>22, Zenon DEF ShutLawyers
  <2> QED
    BY <2>1, <2>2 DEF RetType
<1>23. CASE ShutAgents
  <2>1. main' \in MainType /\ UNCHANGED <<core, caseDone, mcp, mcpDone, lawyers, agents, starts,
       pending, ctx>>
    BY <1>23 DEF ShutAgents, MainType, MainStages
  <2>2. \E b \in BOOLEAN : ret' = [ret EXCEPT !.err = b]
    BY <1>23, Zenon DEF ShutAgents
  <2> QED
    BY <2>1, <2>2 DEF RetType
<1>24. CASE Cancel
  BY <1>24 DEF Cancel, world, CtxType
<1>25. ASSUME NEW m \in Members, CoreOpens(m) PROVE RunTypeOK'
  <2>1. core.opened \in Nat /\ MaxOpps \in Nat /\ core.opened < MaxOpps
    BY <1>25, LauncherAssumption DEF CoreOpens, CoreType, LauncherAssumption
  <2> DEFINE o == core.opened + 1
  <2>2. o \in Nat /\ o <= MaxOpps /\ o \in Opps /\ o <= o
    BY <2>1 DEF Opps
  <2>3. core' = [core EXCEPT !.opp = o, !.opened = o, !.owner[o] = m]
    BY <1>25 DEF CoreOpens
  <2> HIDE DEF o
  <2>4. core' \in CoreType /\ core'.opp = o /\ core'.opened = o
    BY <2>2, <2>3 DEF CoreType
  <2> QED
    BY <1>25, <2>2, <2>4 DEF CoreOpens
<1>26. ASSUME NEW r \in Roles, LawyerExits(r) PROVE RunTypeOK'
  BY <1>26 DEF LawyerExits
<1>27. ASSUME NEW r \in Roles, LawyerChecked(r) PROVE RunTypeOK'
  BY <1>27 DEF LawyerChecked
<1>28. ASSUME NEW k \in Opps, AgentExits(k) PROVE RunTypeOK'
  BY <1>28, Exiting DEF AgentExits
<1>29. ASSUME NEW k \in Opps, MonitorKills(k) PROVE RunTypeOK'
  <2>1. PICK b, c \in BOOLEAN : agents' =
          [agents EXCEPT ![k] = [@ EXCEPT !.at = "down", !.forced = TRUE, !.box = b, !.bad = c]]
    BY <1>29, Zenon DEF MonitorKills
  <2>2. agents[k] \in AgentType
    OBVIOUS
  <2>3. [agents[k] EXCEPT !.at = "down", !.forced = TRUE, !.box = b, !.bad = c] \in AgentType
    BY <2>2 DEF AgentType, AgentStages
  <2>4. agents' \in [Opps -> AgentType]
    BY <2>1, <2>3
  <2> QED
    BY <1>29, <2>4 DEF MonitorKills
<1>30. ASSUME NEW k \in Opps, AgentWaited(k) PROVE RunTypeOK'
  <2>1. Blamed(k) \in BOOLEAN
    BY DEF Blamed, AgentType, CtxType
  <2>2. agents' \in [Opps -> AgentType]
    BY <1>30, <2>1 DEF AgentWaited, AgentType, AgentStages
  <2> QED
    BY <1>30, <2>2 DEF AgentWaited
<1>31. ASSUME NEW k \in Opps, AgentAsks(k) PROVE RunTypeOK'
  BY <1>31 DEF AgentAsks, AgentType, AgentStages
<1>32. ASSUME NEW k \in Opps, AgentReports(k) PROVE RunTypeOK'
  <2>1. core' \in CoreType /\ core'.opp <= core'.opened /\ core'.opened = core.opened
    BY <1>32, MemberFails DEF AgentReports
  <2> QED
    BY <1>32, <2>1 DEF AgentReports, AgentType, AgentStages
<1>33. ASSUME NEW m \in Members, Poll(m) PROVE RunTypeOK'
  <2>1. CASE ~Serving \/ ctx.run
    <3>1. Leave /\ UNCHANGED starts /\ UNCHANGED <<world, pending>>
      BY <1>33, <2>1 DEF Poll
    <3> QED
      BY <3>1 DEF world, Leave, MainType, MainStages, CtxType, RetType
  <2>2. CASE ~(~Serving \/ ctx.run)
    <3> DEFINE k == core.opp
               new == k # 0 /\ ReadyFor(k) /\ Holder(k) = m /\ k \notin starts
    <3>1. /\ main' = [at |-> IF new THEN "stop_prior" ELSE "poll", todo |-> main.todo \ {m},
                      opp |-> IF new THEN k ELSE main.opp]
          /\ starts' = IF new THEN starts \cup {k} ELSE starts
          /\ UNCHANGED <<ctx, ret>>
      BY <1>33, <2>2 DEF Poll
    <3>2. k \in Nat /\ (new => k \in Opps)
      BY LauncherAssumption DEF CoreType, Opps, LauncherAssumption
    <3> HIDE DEF k, new
    <3>3. main' \in MainType /\ starts' \subseteq Opps
      BY <3>1, <3>2 DEF MainType, MainStages
    <3> QED
      BY <1>33, <3>1, <3>3 DEF Poll, world
  <2> QED
    BY <2>1, <2>2
<1>34. ASSUME NEW k \in Opps, BeginStop(k) PROVE RunTypeOK'
  BY <1>34 DEF BeginStop, NextToStop, AgentType, AgentStages, StopStages
<1>35. ASSUME NEW k \in Opps, GiveUp(k) PROVE RunTypeOK'
  BY <1>35 DEF GiveUp, AgentType, StopStages
<1>36. CASE UNCHANGED vars
  BY <1>36 DEF vars
<1> QED
  BY <1>1, <1>2, <1>3, <1>4, <1>5, <1>6, <1>7, <1>8, <1>9, <1>10, <1>11, <1>12, <1>13, <1>14,
       <1>15, <1>16, <1>17, <1>18, <1>19, <1>20, <1>21, <1>22, <1>23, <1>24, <1>25, <1>26, <1>27,
            <1>28, <1>29, <1>30, <1>31, <1>32, <1>33, <1>34, <1>35, <1>36 DEF Next, Run, Environment, Quiet

\* Every step keeps the core's outcome in its channel until it is taken.
LEMMA CoreStep == RunTypeOK /\ OutcomeOfCore /\ [Next]_vars => OutcomeOfCore'
<1> SUFFICES ASSUME RunTypeOK, OutcomeOfCore, [Next]_vars PROVE OutcomeOfCore'
  OBVIOUS
<1> USE DEF RunTypeOK, OutcomeOfCore, CoreEnded, CoreType, PendingType, MainType
<1>1. CASE CoreServes
  BY <1>1 DEF CoreServes
<1>2. CASE CoreVote
  BY <1>2 DEF CoreVote
<1>3. CASE CoreDeadline
  BY <1>3 DEF CoreDeadline
<1>4. CASE CoreEnds
  BY <1>4 DEF CoreEnds
<1>5. CASE CoreFinishes
  BY <1>5 DEF CoreFinishes
<1>6. CASE MCPExits
  BY <1>6 DEF MCPExits
<1>7. CASE StartCore
  BY <1>7 DEF StartCore, Leave, Goto
<1>8. CASE TakeEarlyEnd
  BY <1>8 DEF TakeEarlyEnd, Leave
<1>9. CASE SetUpFails
  BY <1>9 DEF SetUpFails, Leave
<1>10. CASE SetUp
  BY <1>10 DEF SetUp, Goto
<1>11. CASE TakeCaseDone
  BY <1>11 DEF TakeCaseDone
<1>12. CASE TakeMCPAfterCase
  BY <1>12 DEF TakeMCPAfterCase
<1>13. CASE TakeMCPDone
  BY <1>13 DEF TakeMCPDone, Leave
<1>14. CASE SeeCancelled
  BY <1>14 DEF SeeCancelled, Leave, world
<1>15. CASE TakeAgentError
  BY <1>15 DEF TakeAgentError, Goto
<1>16. CASE GraceExpires
  BY <1>16 DEF GraceExpires, Leave, world
<1>17. CASE Tick
  BY <1>17 DEF Tick, world
<1>18. CASE PollEnds
  BY <1>18 DEF PollEnds, world
<1>19. CASE StartAgent
  BY <1>19 DEF StartAgent, Leave, Goto
<1>20. CASE ShutCore
  BY <1>20 DEF ShutCore
<1>21. CASE ShutMCP
  BY <1>21 DEF ShutMCP
<1>22. CASE ShutLawyers
  BY <1>22 DEF ShutLawyers
<1>23. CASE ShutAgents
  BY <1>23 DEF ShutAgents
<1>24. CASE Cancel
  BY <1>24 DEF Cancel, world
<1>25. ASSUME NEW m \in Members, CoreOpens(m) PROVE OutcomeOfCore'
  BY <1>25 DEF CoreOpens
<1>26. ASSUME NEW r \in Roles, LawyerExits(r) PROVE OutcomeOfCore'
  BY <1>26 DEF LawyerExits
<1>27. ASSUME NEW r \in Roles, LawyerChecked(r) PROVE OutcomeOfCore'
  BY <1>27 DEF LawyerChecked
<1>28. ASSUME NEW k \in Opps, AgentExits(k) PROVE OutcomeOfCore'
  BY <1>28 DEF AgentExits
<1>29. ASSUME NEW k \in Opps, MonitorKills(k) PROVE OutcomeOfCore'
  BY <1>29 DEF MonitorKills
<1>30. ASSUME NEW k \in Opps, AgentWaited(k) PROVE OutcomeOfCore'
  BY <1>30 DEF AgentWaited
<1>31. ASSUME NEW k \in Opps, AgentAsks(k) PROVE OutcomeOfCore'
  BY <1>31 DEF AgentAsks
<1>32. ASSUME NEW k \in Opps, AgentReports(k) PROVE OutcomeOfCore'
  BY <1>32 DEF AgentReports
<1>33. ASSUME NEW m \in Members, Poll(m) PROVE OutcomeOfCore'
  BY <1>33 DEF Poll, Leave, world
<1>34. ASSUME NEW k \in Opps, BeginStop(k) PROVE OutcomeOfCore'
  BY <1>34 DEF BeginStop, NextToStop
<1>35. ASSUME NEW k \in Opps, GiveUp(k) PROVE OutcomeOfCore'
  BY <1>35 DEF GiveUp
<1>36. CASE UNCHANGED vars
  BY <1>36 DEF vars
<1> QED
  BY <1>1, <1>2, <1>3, <1>4, <1>5, <1>6, <1>7, <1>8, <1>9, <1>10, <1>11, <1>12, <1>13, <1>14,
       <1>15, <1>16, <1>17, <1>18, <1>19, <1>20, <1>21, <1>22, <1>23, <1>24, <1>25, <1>26, <1>27,
            <1>28, <1>29, <1>30, <1>31, <1>32, <1>33, <1>34, <1>35, <1>36 DEF Next, Run, Environment, Quiet

\* Every step keeps the adapter's end in its channel until it is taken.
LEMMA MCPStep == RunTypeOK /\ OutcomeOfMCP /\ [Next]_vars => OutcomeOfMCP'
<1> SUFFICES ASSUME RunTypeOK, OutcomeOfMCP, [Next]_vars PROVE OutcomeOfMCP'
  OBVIOUS
<1> USE DEF RunTypeOK, OutcomeOfMCP, PendingType, MainType
<1>1. CASE CoreServes
  BY <1>1 DEF CoreServes
<1>2. CASE CoreVote
  BY <1>2 DEF CoreVote
<1>3. CASE CoreDeadline
  BY <1>3 DEF CoreDeadline
<1>4. CASE CoreEnds
  BY <1>4 DEF CoreEnds
<1>5. CASE CoreFinishes
  BY <1>5 DEF CoreFinishes
<1>6. CASE MCPExits
  BY <1>6 DEF MCPExits
<1>7. CASE StartCore
  BY <1>7 DEF StartCore, Leave, Goto
<1>8. CASE TakeEarlyEnd
  BY <1>8 DEF TakeEarlyEnd, Leave
<1>9. CASE SetUpFails
  BY <1>9 DEF SetUpFails, Leave
<1>10. CASE SetUp
  BY <1>10 DEF SetUp, Goto
<1>11. CASE TakeCaseDone
  BY <1>11 DEF TakeCaseDone
<1>12. CASE TakeMCPAfterCase
  BY <1>12 DEF TakeMCPAfterCase
<1>13. CASE TakeMCPDone
  BY <1>13 DEF TakeMCPDone, Leave
<1>14. CASE SeeCancelled
  BY <1>14 DEF SeeCancelled, Leave, world
<1>15. CASE TakeAgentError
  BY <1>15 DEF TakeAgentError, Goto
<1>16. CASE GraceExpires
  BY <1>16 DEF GraceExpires, Leave, world
<1>17. CASE Tick
  BY <1>17 DEF Tick, world
<1>18. CASE PollEnds
  BY <1>18 DEF PollEnds, world
<1>19. CASE StartAgent
  BY <1>19 DEF StartAgent, Leave, Goto
<1>20. CASE ShutCore
  BY <1>20 DEF ShutCore
<1>21. CASE ShutMCP
  BY <1>21 DEF ShutMCP
<1>22. CASE ShutLawyers
  BY <1>22 DEF ShutLawyers
<1>23. CASE ShutAgents
  BY <1>23 DEF ShutAgents
<1>24. CASE Cancel
  BY <1>24 DEF Cancel, world
<1>25. ASSUME NEW m \in Members, CoreOpens(m) PROVE OutcomeOfMCP'
  BY <1>25 DEF CoreOpens
<1>26. ASSUME NEW r \in Roles, LawyerExits(r) PROVE OutcomeOfMCP'
  BY <1>26 DEF LawyerExits
<1>27. ASSUME NEW r \in Roles, LawyerChecked(r) PROVE OutcomeOfMCP'
  BY <1>27 DEF LawyerChecked
<1>28. ASSUME NEW k \in Opps, AgentExits(k) PROVE OutcomeOfMCP'
  BY <1>28 DEF AgentExits
<1>29. ASSUME NEW k \in Opps, MonitorKills(k) PROVE OutcomeOfMCP'
  BY <1>29 DEF MonitorKills
<1>30. ASSUME NEW k \in Opps, AgentWaited(k) PROVE OutcomeOfMCP'
  BY <1>30 DEF AgentWaited
<1>31. ASSUME NEW k \in Opps, AgentAsks(k) PROVE OutcomeOfMCP'
  BY <1>31 DEF AgentAsks
<1>32. ASSUME NEW k \in Opps, AgentReports(k) PROVE OutcomeOfMCP'
  BY <1>32 DEF AgentReports
<1>33. ASSUME NEW m \in Members, Poll(m) PROVE OutcomeOfMCP'
  BY <1>33 DEF Poll, Leave, world
<1>34. ASSUME NEW k \in Opps, BeginStop(k) PROVE OutcomeOfMCP'
  BY <1>34 DEF BeginStop, NextToStop
<1>35. ASSUME NEW k \in Opps, GiveUp(k) PROVE OutcomeOfMCP'
  BY <1>35 DEF GiveUp
<1>36. CASE UNCHANGED vars
  BY <1>36 DEF vars
<1> QED
  BY <1>1, <1>2, <1>3, <1>4, <1>5, <1>6, <1>7, <1>8, <1>9, <1>10, <1>11, <1>12, <1>13, <1>14,
       <1>15, <1>16, <1>17, <1>18, <1>19, <1>20, <1>21, <1>22, <1>23, <1>24, <1>25, <1>26, <1>27,
            <1>28, <1>29, <1>30, <1>31, <1>32, <1>33, <1>34, <1>35, <1>36 DEF Next, Run, Environment, Quiet

\* What has been waited for has ended and is not started again.
LEMMA WaitStep == RunTypeOK /\ OutcomeOfCore /\ OutcomeOfMCP /\ WaitedInOrder /\ [Next]_vars => WaitedInOrder'
<1> SUFFICES ASSUME RunTypeOK, OutcomeOfCore, OutcomeOfMCP, WaitedInOrder,
     [Next]_vars PROVE WaitedInOrder'
  OBVIOUS
<1> USE DEF RunTypeOK, OutcomeOfCore, OutcomeOfMCP, WaitedInOrder, CoreEnded,
     CoreWaited, MCPWaited, CoreType, PendingType, MainType
<1>1. CASE CoreServes
  BY <1>1 DEF CoreServes
<1>2. CASE CoreVote
  BY <1>2 DEF CoreVote
<1>3. CASE CoreDeadline
  BY <1>3 DEF CoreDeadline
<1>4. CASE CoreEnds
  BY <1>4 DEF CoreEnds
<1>5. CASE CoreFinishes
  BY <1>5 DEF CoreFinishes
<1>6. CASE MCPExits
  BY <1>6 DEF MCPExits
<1>7. CASE StartCore
  BY <1>7 DEF StartCore, Leave, Goto
<1>8. CASE TakeEarlyEnd
  BY <1>8 DEF TakeEarlyEnd, Leave
<1>9. CASE SetUpFails
  BY <1>9 DEF SetUpFails, Leave
<1>10. CASE SetUp
  BY <1>10 DEF SetUp, Goto
<1>11. CASE TakeCaseDone
  BY <1>11 DEF TakeCaseDone
<1>12. CASE TakeMCPAfterCase
  BY <1>12 DEF TakeMCPAfterCase
<1>13. CASE TakeMCPDone
  BY <1>13 DEF TakeMCPDone, Leave
<1>14. CASE SeeCancelled
  BY <1>14 DEF SeeCancelled, Leave, world
<1>15. CASE TakeAgentError
  BY <1>15 DEF TakeAgentError, Goto
<1>16. CASE GraceExpires
  BY <1>16 DEF GraceExpires, Leave, world
<1>17. CASE Tick
  BY <1>17 DEF Tick, world
<1>18. CASE PollEnds
  BY <1>18 DEF PollEnds, world
<1>19. CASE StartAgent
  BY <1>19 DEF StartAgent, Leave, Goto
<1>20. CASE ShutCore
  BY <1>20 DEF ShutCore
<1>21. CASE ShutMCP
  BY <1>21 DEF ShutMCP
<1>22. CASE ShutLawyers
  BY <1>22 DEF ShutLawyers
<1>23. CASE ShutAgents
  BY <1>23 DEF ShutAgents
<1>24. CASE Cancel
  BY <1>24 DEF Cancel, world
<1>25. ASSUME NEW m \in Members, CoreOpens(m) PROVE WaitedInOrder'
  BY <1>25 DEF CoreOpens
<1>26. ASSUME NEW r \in Roles, LawyerExits(r) PROVE WaitedInOrder'
  BY <1>26 DEF LawyerExits
<1>27. ASSUME NEW r \in Roles, LawyerChecked(r) PROVE WaitedInOrder'
  BY <1>27 DEF LawyerChecked
<1>28. ASSUME NEW k \in Opps, AgentExits(k) PROVE WaitedInOrder'
  BY <1>28 DEF AgentExits
<1>29. ASSUME NEW k \in Opps, MonitorKills(k) PROVE WaitedInOrder'
  BY <1>29 DEF MonitorKills
<1>30. ASSUME NEW k \in Opps, AgentWaited(k) PROVE WaitedInOrder'
  BY <1>30 DEF AgentWaited
<1>31. ASSUME NEW k \in Opps, AgentAsks(k) PROVE WaitedInOrder'
  BY <1>31 DEF AgentAsks
<1>32. ASSUME NEW k \in Opps, AgentReports(k) PROVE WaitedInOrder'
  BY <1>32 DEF AgentReports
<1>33. ASSUME NEW m \in Members, Poll(m) PROVE WaitedInOrder'
  BY <1>33 DEF Poll, Leave, world
<1>34. ASSUME NEW k \in Opps, BeginStop(k) PROVE WaitedInOrder'
  BY <1>34 DEF BeginStop
<1>35. ASSUME NEW k \in Opps, GiveUp(k) PROVE WaitedInOrder'
  BY <1>35 DEF GiveUp
<1>36. CASE UNCHANGED vars
  BY <1>36 DEF vars
<1> QED
  BY <1>1, <1>2, <1>3, <1>4, <1>5, <1>6, <1>7, <1>8, <1>9, <1>10, <1>11, <1>12, <1>13, <1>14,
       <1>15, <1>16, <1>17, <1>18, <1>19, <1>20, <1>21, <1>22, <1>23, <1>24, <1>25, <1>26, <1>27,
            <1>28, <1>29, <1>30, <1>31, <1>32, <1>33, <1>34, <1>35, <1>36 DEF Next, Run, Environment, Quiet

\* No way into the shutdown without an error but by a completed case.
LEMMA SuccessStep == RunTypeOK /\ OutcomeOfCore /\ SuccessEarned /\ [Next]_vars => SuccessEarned'
<1> SUFFICES ASSUME RunTypeOK, OutcomeOfCore, SuccessEarned, [Next]_vars PROVE SuccessEarned'
  OBVIOUS
<1> USE DEF RunTypeOK, OutcomeOfCore, SuccessEarned, CoreEnded, CoreWaited, Shutdown, CoreType,
     MainType, RetType
<1>1. CASE CoreServes
  BY <1>1 DEF CoreServes
<1>2. CASE CoreVote
  BY <1>2 DEF CoreVote
<1>3. CASE CoreDeadline
  BY <1>3 DEF CoreDeadline
<1>4. CASE CoreEnds
  BY <1>4 DEF CoreEnds
<1>5. CASE CoreFinishes
  BY <1>5 DEF CoreFinishes
<1>6. CASE MCPExits
  BY <1>6 DEF MCPExits
<1>7. CASE StartCore
  BY <1>7 DEF StartCore, Leave, Goto
<1>8. CASE TakeEarlyEnd
  BY <1>8 DEF TakeEarlyEnd, Leave
<1>9. CASE SetUpFails
  BY <1>9 DEF SetUpFails, Leave
<1>10. CASE SetUp
  BY <1>10 DEF SetUp, Goto
<1>11. CASE TakeCaseDone
  BY <1>11 DEF TakeCaseDone
<1>12. CASE TakeMCPAfterCase
  BY <1>12 DEF TakeMCPAfterCase
<1>13. CASE TakeMCPDone
  BY <1>13 DEF TakeMCPDone, Leave
<1>14. CASE SeeCancelled
  BY <1>14 DEF SeeCancelled, Leave, world
<1>15. CASE TakeAgentError
  BY <1>15 DEF TakeAgentError, Goto
<1>16. CASE GraceExpires
  BY <1>16 DEF GraceExpires, Leave, world
<1>17. CASE Tick
  BY <1>17 DEF Tick, world
<1>18. CASE PollEnds
  BY <1>18 DEF PollEnds, world
<1>19. CASE StartAgent
  BY <1>19 DEF StartAgent, Leave, Goto
<1>20. CASE ShutCore
  BY <1>20 DEF ShutCore
<1>21. CASE ShutMCP
  BY <1>21 DEF ShutMCP
<1>22. CASE ShutLawyers
  BY <1>22 DEF ShutLawyers
<1>23. CASE ShutAgents
  BY <1>23 DEF ShutAgents
<1>24. CASE Cancel
  BY <1>24 DEF Cancel, world
<1>25. ASSUME NEW m \in Members, CoreOpens(m) PROVE SuccessEarned'
  BY <1>25 DEF CoreOpens
<1>26. ASSUME NEW r \in Roles, LawyerExits(r) PROVE SuccessEarned'
  BY <1>26 DEF LawyerExits
<1>27. ASSUME NEW r \in Roles, LawyerChecked(r) PROVE SuccessEarned'
  BY <1>27 DEF LawyerChecked
<1>28. ASSUME NEW k \in Opps, AgentExits(k) PROVE SuccessEarned'
  BY <1>28 DEF AgentExits
<1>29. ASSUME NEW k \in Opps, MonitorKills(k) PROVE SuccessEarned'
  BY <1>29 DEF MonitorKills
<1>30. ASSUME NEW k \in Opps, AgentWaited(k) PROVE SuccessEarned'
  BY <1>30 DEF AgentWaited
<1>31. ASSUME NEW k \in Opps, AgentAsks(k) PROVE SuccessEarned'
  BY <1>31 DEF AgentAsks
<1>32. ASSUME NEW k \in Opps, AgentReports(k) PROVE SuccessEarned'
  BY <1>32 DEF AgentReports
<1>33. ASSUME NEW m \in Members, Poll(m) PROVE SuccessEarned'
  BY <1>33 DEF Poll, Leave, world
<1>34. ASSUME NEW k \in Opps, BeginStop(k) PROVE SuccessEarned'
  BY <1>34 DEF BeginStop, NextToStop
<1>35. ASSUME NEW k \in Opps, GiveUp(k) PROVE SuccessEarned'
  BY <1>35 DEF GiveUp
<1>36. CASE UNCHANGED vars
  BY <1>36 DEF vars
<1> QED
  BY <1>1, <1>2, <1>3, <1>4, <1>5, <1>6, <1>7, <1>8, <1>9, <1>10, <1>11, <1>12, <1>13, <1>14,
       <1>15, <1>16, <1>17, <1>18, <1>19, <1>20, <1>21, <1>22, <1>23, <1>24, <1>25, <1>26, <1>27,
            <1>28, <1>29, <1>30, <1>31, <1>32, <1>33, <1>34, <1>35, <1>36 DEF Next, Run, Environment, Quiet

\* The list and the starts keep up with the agents.
LEMMA AgentsStep == RunTypeOK /\ AgentsListed /\ [Next]_vars => AgentsListed'
<1> SUFFICES ASSUME RunTypeOK, AgentsListed, [Next]_vars PROVE AgentsListed'
  OBVIOUS
<1> USE DEF RunTypeOK, AgentsListed, AgentListed, Shutdown, CoreWaited, CoreType, MainType,
     AgentType, Client
<1>1. CASE CoreServes
  BY <1>1 DEF CoreServes
<1>2. CASE CoreVote
  BY <1>2 DEF CoreVote
<1>3. CASE CoreDeadline
  BY <1>3 DEF CoreDeadline
<1>4. CASE CoreEnds
  BY <1>4 DEF CoreEnds
<1>5. CASE CoreFinishes
  BY <1>5 DEF CoreFinishes
<1>6. CASE MCPExits
  BY <1>6 DEF MCPExits
<1>7. CASE StartCore
  BY <1>7 DEF StartCore, Leave, Goto
<1>8. CASE TakeEarlyEnd
  BY <1>8 DEF TakeEarlyEnd, Leave
<1>9. CASE SetUpFails
  BY <1>9 DEF SetUpFails, Leave
<1>10. CASE SetUp
  BY <1>10 DEF SetUp, Goto
<1>11. CASE TakeCaseDone
  BY <1>11 DEF TakeCaseDone
<1>12. CASE TakeMCPAfterCase
  BY <1>12 DEF TakeMCPAfterCase
<1>13. CASE TakeMCPDone
  BY <1>13 DEF TakeMCPDone, Leave
<1>14. CASE SeeCancelled
  BY <1>14 DEF SeeCancelled, Leave, world
<1>15. CASE TakeAgentError
  BY <1>15 DEF TakeAgentError, Goto
<1>16. CASE GraceExpires
  BY <1>16 DEF GraceExpires, Leave, world
<1>17. CASE Tick
  BY <1>17 DEF Tick, world
<1>18. CASE PollEnds
  BY <1>18 DEF PollEnds, world
<1>19. CASE StartAgent
  <2>1. UNCHANGED <<core, starts>> /\ main.at = "stop_prior" /\ \A j \in Prior : Stopped(j)
    BY <1>19 DEF StartAgent
  <2>2. main.opp \in Opps /\ agents[main.opp].at = "none" /\ main.opp \in starts
    BY <2>1
  <2>3. main'.at \in {"poll", "shut_core"}
    BY <1>19 DEF StartAgent, Leave, Goto
  <2>4. ASSUME NEW j \in Opps, agents'[j] = Unlisted(Prior)[j],
               main'.at = "poll" => \A k \in Prior : ~Failing(k)
        PROVE  AgentListed(j)'
    <3> DEFINE a == Unlisted(Prior)[j]
    <3>1. /\ a.at = agents[j].at /\ a.box = agents[j].box /\ a.token = agents[j].token
          /\ j \notin Prior => a = agents[j]
          /\ j \in Prior /\ Client(j) => a.listed = agents[j].listed /\ a.stop = "again"
          /\ j \in Prior /\ ~Client(j) => ~a.listed /\ a.stop = agents[j].stop
      BY Unlisting
    <3> HIDE DEF a
    <3>2. agents'[j] = a
      BY <2>4 DEF a
    <3>3. CASE j \notin Prior
      BY <2>1, <3>1, <3>2, <3>3
    <3>4. CASE j \in Prior /\ Client(j)
      BY <2>1, <3>1, <3>2, <3>4
    <3>5. CASE j \in Prior /\ ~Client(j)
      <4>1. Stopped(j)
        BY <2>1, <3>5
      <4>2. agents[j].box => agents[j].stop \in {"failed", "late"} /\ main'.at = "shut_core"
        BY <2>3, <2>4, <3>5, <4>1 DEF Stopped, Failing
      <4> QED
        BY <2>1, <3>1, <3>2, <3>5, <4>2
    <3> QED
      BY <3>3, <3>4, <3>5
  <2>5. /\ \A j \in Opps \ {main.opp} : agents'[j] = Unlisted(Prior)[j]
        /\ main'.at = "poll" => \A k \in Prior : ~Failing(k)
    BY <1>19, <2>2, Starting DEF StartRefused, StartDone, StartUnrecorded, Leave
  <2>6. PICK o \in Opps : o = main.opp
    BY <2>2
  <2>7. AgentListed(o)'
    <3>1. CASE agents'[o] = Unlisted(Prior)[o]
      BY <2>4, <2>5, <3>1
    <3>2. CASE agents'[o].at = "up" /\ agents'[o].listed /\ agents'[o].stop = "no"
      BY <2>1, <2>2, <2>6, <3>2
    <3>3. CASE /\ Leave /\ agents'[o].at = "settled" /\ ~agents'[o].token
               /\ agents'[o].stop = "failed"
      BY <2>1, <2>2, <2>6, <3>3 DEF Leave
    <3> QED
      BY <1>19, <2>2, <2>6, <3>1, <3>2, <3>3, Starting DEF StartUnrecorded
  <2>8. \A j \in Opps : AgentListed(j)'
    BY <2>4, <2>5, <2>6, <2>7
  <2> QED
    BY <2>1, <2>3, <2>8
<1>20. CASE ShutCore
  BY <1>20 DEF ShutCore
<1>21. CASE ShutMCP
  BY <1>21 DEF ShutMCP
<1>22. CASE ShutLawyers
  BY <1>22 DEF ShutLawyers
<1>23. CASE ShutAgents
  BY <1>23 DEF ShutAgents
<1>24. CASE Cancel
  BY <1>24 DEF Cancel, world
<1>25. ASSUME NEW m \in Members, CoreOpens(m) PROVE AgentsListed'
  <2>1. core.opened \in Nat /\ core'.opened = core.opened + 1 /\ UNCHANGED <<agents, starts, main>>
    BY <1>25 DEF CoreOpens
  <2>2. \A k \in starts : k \in Nat
    BY DEF Opps
  <2> QED
    BY <2>1, <2>2
<1>26. ASSUME NEW r \in Roles, LawyerExits(r) PROVE AgentsListed'
  BY <1>26 DEF LawyerExits
<1>27. ASSUME NEW r \in Roles, LawyerChecked(r) PROVE AgentsListed'
  BY <1>27 DEF LawyerChecked
<1>28. ASSUME NEW k \in Opps, AgentExits(k) PROVE AgentsListed'
  <2>1. UNCHANGED <<core, starts, main>>
    BY <1>28 DEF AgentExits
  <2>2. /\ \A j \in Opps \ {k} : agents'[j] = agents[j]
        /\ agents'[k].listed = agents[k].listed /\ agents'[k].token = agents[k].token
        /\ agents'[k].stop = agents[k].stop /\ (agents'[k].box => agents[k].box)
        /\ \/ agents'[k].at = agents[k].at
           \/ agents[k].at = "up" /\ agents'[k].at = "down"
    BY <1>28, Exiting
  <2>3. ASSUME NEW j \in Opps PROVE AgentListed(j)'
    <3>1. AgentListed(j)
      OBVIOUS
    <3>2. CASE j = k
      BY <2>1, <2>2, <3>1, <3>2
    <3>3. CASE j # k
      BY <2>1, <2>2, <3>1, <3>3
    <3> QED
      BY <3>2, <3>3
  <2>4. main.at = "stop_prior" => main.opp # k \/ agents[k].at = "none"
    OBVIOUS
  <2>5. main'.at = "stop_prior" => main'.opp \in starts' /\ agents'[main'.opp].at = "none"
    BY <2>1, <2>2, <2>4
  <2> QED
    BY <2>1, <2>3, <2>5
<1>29. ASSUME NEW k \in Opps, MonitorKills(k) PROVE AgentsListed'
  BY <1>29 DEF MonitorKills
<1>30. ASSUME NEW k \in Opps, AgentWaited(k) PROVE AgentsListed'
  BY <1>30 DEF AgentWaited
<1>31. ASSUME NEW k \in Opps, AgentAsks(k) PROVE AgentsListed'
  <2>1. UNCHANGED <<starts, main>> /\ core'.opened = core.opened /\ agents[k].at \in {"exited",
       "ready"}
    BY <1>31 DEF AgentAsks
  <2>2. \E s \in {"ready", "settled"} : agents' = [agents EXCEPT ![k].at = s]
    BY <1>31 DEF AgentAsks
  <2>3. \A j \in Opps : /\ agents'[j].listed = agents[j].listed
                        /\ agents'[j].token = agents[j].token
                        /\ agents'[j].box = agents[j].box /\ agents'[j].stop = agents[j].stop
                        /\ j # k => agents'[j].at = agents[j].at
    BY <2>2
  <2>4. agents'[k].at \in {"ready", "settled"}
    BY <2>2
  <2> QED
    BY <2>1, <2>3, <2>4
<1>32. ASSUME NEW k \in Opps, AgentReports(k) PROVE AgentsListed'
  <2>1. UNCHANGED <<starts, main>> /\ core'.opened = core.opened /\ agents[k].at \in {"exited",
       "ready"}
    BY <1>32 DEF AgentReports
  <2>2. \E s \in {"ready", "settled"} : agents' = [agents EXCEPT ![k].at = s]
    BY <1>32 DEF AgentReports
  <2>3. \A j \in Opps : /\ agents'[j].listed = agents[j].listed
                        /\ agents'[j].token = agents[j].token
                        /\ agents'[j].box = agents[j].box /\ agents'[j].stop = agents[j].stop
                        /\ j # k => agents'[j].at = agents[j].at
    BY <2>2
  <2>4. agents'[k].at \in {"ready", "settled"}
    BY <2>2
  <2> QED
    BY <2>1, <2>3, <2>4
<1>33. ASSUME NEW m \in Members, Poll(m) PROVE AgentsListed'
  <2>1. CASE ~Serving \/ ctx.run
    <3>1. Leave /\ UNCHANGED starts /\ UNCHANGED <<world, pending>>
      BY <1>33, <2>1 DEF Poll
    <3> QED
      BY <3>1 DEF world, Leave
  <2>2. CASE ~(~Serving \/ ctx.run)
    <3> DEFINE k == core.opp
               new == k # 0 /\ ReadyFor(k) /\ Holder(k) = m /\ k \notin starts
    <3>1. /\ main' = [at |-> IF new THEN "stop_prior" ELSE "poll", todo |-> main.todo \ {m},
                      opp |-> IF new THEN k ELSE main.opp]
          /\ starts' = IF new THEN starts \cup {k} ELSE starts
          /\ UNCHANGED <<core, agents>>
      BY <1>33, <2>2 DEF Poll, world
    <3>2. k \in Nat /\ k <= core.opened
      OBVIOUS
    <3>3. new => k \in Opps /\ k \notin starts
      BY LauncherAssumption DEF Opps, LauncherAssumption
    <3>4. new => agents[k].at = "none"
      BY <3>3
    <3> HIDE DEF k, new
    <3>5. main.at = "poll" /\ main'.at \in {"poll", "stop_prior"}
      BY <1>33, <3>1 DEF Poll
    <3>6. \A j \in Opps : AgentListed(j)'
      BY <3>1, <3>5
    <3>7. main'.at = "stop_prior" => main'.opp \in starts' /\ agents'[main'.opp].at = "none"
      BY <3>1, <3>3, <3>4
    <3>8. \A j \in starts' : j <= core'.opened
      BY <3>1, <3>2
    <3> QED
      BY <3>6, <3>7, <3>8
  <2> QED
    BY <2>1, <2>2
<1>34. ASSUME NEW k \in Opps, BeginStop(k) PROVE AgentsListed'
  <2>1. CASE agents' = [agents EXCEPT ![k].stop = "asked", ![k].box = FALSE]
    BY <1>34, <2>1 DEF BeginStop
  <2>2. CASE agents' = [agents EXCEPT ![k].stop = "failed", ![k].at = IF @ = "up" THEN "down" ELSE @]
    <3>1. agents[k].listed
      BY <1>34 DEF BeginStop, NextToStop, Stopping, Prior, Listed
    <3> QED
      BY <1>34, <2>2, <3>1 DEF BeginStop
  <2> QED
    BY <1>34, <2>1, <2>2 DEF BeginStop
<1>35. ASSUME NEW k \in Opps, GiveUp(k) PROVE AgentsListed'
  BY <1>35 DEF GiveUp
<1>36. CASE UNCHANGED vars
  BY <1>36 DEF vars
<1> QED
  BY <1>1, <1>2, <1>3, <1>4, <1>5, <1>6, <1>7, <1>8, <1>9, <1>10, <1>11, <1>12, <1>13, <1>14,
       <1>15, <1>16, <1>17, <1>18, <1>19, <1>20, <1>21, <1>22, <1>23, <1>24, <1>25, <1>26, <1>27,
            <1>28, <1>29, <1>30, <1>31, <1>32, <1>33, <1>34, <1>35, <1>36 DEF Next, Run, Environment, Quiet

\* A stop that fails is the launcher's to report, and it reports it on its way out.
LEMMA ReportStep == RunTypeOK /\ AgentsListed /\ StopsReported /\ [Next]_vars => StopsReported'
<1> SUFFICES ASSUME RunTypeOK, AgentsListed, StopsReported, [Next]_vars PROVE StopsReported'
  OBVIOUS
<1> USE DEF RunTypeOK, StopsReported, Unfinished, Shutdown, CoreWaited, LawyersWaited, MainType,
     RetType, AgentType, Client, Stopped, Prior, Listed, Holder
<1>1. CASE CoreServes
  BY <1>1 DEF CoreServes
<1>2. CASE CoreVote
  BY <1>2 DEF CoreVote
<1>3. CASE CoreDeadline
  BY <1>3 DEF CoreDeadline
<1>4. CASE CoreEnds
  BY <1>4 DEF CoreEnds, CoreType
<1>5. CASE CoreFinishes
  BY <1>5 DEF CoreFinishes, CoreType
<1>6. CASE MCPExits
  BY <1>6 DEF MCPExits
<1>7. CASE StartCore
  BY <1>7 DEF StartCore, Leave, Goto
<1>8. CASE TakeEarlyEnd
  BY <1>8 DEF TakeEarlyEnd, Leave
<1>9. CASE SetUpFails
  BY <1>9 DEF SetUpFails, Leave
<1>10. CASE SetUp
  BY <1>10 DEF SetUp, Goto
<1>11. CASE TakeCaseDone
  BY <1>11 DEF TakeCaseDone
<1>12. CASE TakeMCPAfterCase
  BY <1>12 DEF TakeMCPAfterCase
<1>13. CASE TakeMCPDone
  BY <1>13 DEF TakeMCPDone, Leave
<1>14. CASE SeeCancelled
  BY <1>14 DEF SeeCancelled, Leave, world
<1>15. CASE TakeAgentError
  BY <1>15 DEF TakeAgentError, Goto
<1>16. CASE GraceExpires
  BY <1>16 DEF GraceExpires, Leave, world
<1>17. CASE Tick
  BY <1>17 DEF Tick, world
<1>18. CASE PollEnds
  BY <1>18 DEF PollEnds, world
<1>19. CASE StartAgent
  <2>1. /\ UNCHANGED <<core, lawyers, starts>> /\ main.at = "stop_prior" /\ main.opp \in Opps
        /\ \A j \in Prior : Stopped(j)
    BY <1>19 DEF StartAgent, AgentsListed
  <2>2. CASE Leave
    BY <1>19, <2>2, StartedType DEF Leave
  <2>3. CASE ~Leave
    <3>1. /\ StartDone /\ \A j \in Opps \ {main.opp} : agents'[j] = Unlisted(Prior)[j]
          /\ agents'[main.opp].stop = "no"
      BY <1>19, <2>1, <2>3, Starting DEF StartRefused, StartUnrecorded
    <3>2. \A j \in Prior : ~Failing(j) /\ main'.at = "poll"
      BY <3>1 DEF StartDone, Goto
    <3>3. \A j \in Prior : agents[j].stop = "asked" /\ ~Client(j)
      BY <2>1, <3>2 DEF Failing
    <3>4. \A j \in Opps : agents'[j].stop \notin Unfinished
      <4>1. \A j \in Opps : /\ j \notin Prior => Unlisted(Prior)[j] = agents[j]
                            /\ j \in Prior /\ ~Client(j) => Unlisted(Prior)[j].stop = agents[j].stop
        BY Unlisting
      <4>2. \A j \in Opps \ {main.opp} : agents'[j].stop \notin Unfinished
        <5>1. \A j \in Opps : j \notin Prior => agents[j].stop \notin Unfinished
          BY <2>1
        <5>2. ASSUME NEW j \in Opps \ {main.opp} PROVE agents'[j].stop \notin Unfinished
          <6>1. agents'[j] = Unlisted(Prior)[j]
            BY <3>1
          <6>2. CASE j \notin Prior
            BY <4>1, <5>1, <6>1, <6>2
          <6>3. CASE j \in Prior
            <7>1. Unlisted(Prior)[j].stop = "asked"
              BY <3>3, <4>1, <6>3
            <7> QED
              BY <6>1, <7>1
          <6> QED
            BY <6>2, <6>3
        <5> QED
          BY <5>2
      <4> QED
        BY <2>1, <3>1, <4>2
    <3> QED
      BY <3>1, <3>4 DEF StartDone, Goto
  <2> QED
    BY <2>2, <2>3
<1>20. CASE ShutCore
  BY <1>20 DEF ShutCore
<1>21. CASE ShutMCP
  BY <1>21 DEF ShutMCP
<1>22. CASE ShutLawyers
  BY <1>22 DEF ShutLawyers
<1>23. CASE ShutAgents
  BY <1>23 DEF ShutAgents, Failing
<1>24. CASE Cancel
  BY <1>24 DEF Cancel, world
<1>25. ASSUME NEW m \in Members, CoreOpens(m) PROVE StopsReported'
  <2> DEFINE o == core.opened + 1
  <2>1. core.opened \in Nat /\ core'.owner = [core.owner EXCEPT ![o] = m]
        /\ UNCHANGED <<agents, main, ret, lawyers>>
    BY <1>25 DEF CoreOpens, CoreType
  <2>2. \A k \in starts : k # o
    BY <2>1 DEF Opps, AgentsListed
  <2> HIDE DEF o
  <2>3. \A k \in starts : core'.owner[k] = core.owner[k]
    BY <2>1, <2>2 DEF CoreType
  <2>4. \A k \in Opps : agents[k].listed => k \in starts
    BY DEF AgentsListed, AgentListed
  <2>5. main.at = "stop_prior" => main.opp \in starts
    BY DEF AgentsListed
  <2>6. main.at = "stop_prior" => \A k \in Opps : k \in Prior => (k \in Prior)'
    BY <2>1, <2>3, <2>4, <2>5
  <2> QED
    BY <2>1, <2>6
<1>26. ASSUME NEW r \in Roles, LawyerExits(r) PROVE StopsReported'
  BY <1>26 DEF LawyerExits
<1>27. ASSUME NEW r \in Roles, LawyerChecked(r) PROVE StopsReported'
  BY <1>27 DEF LawyerChecked
<1>28. ASSUME NEW k \in Opps, AgentExits(k) PROVE StopsReported'
  <2>1. UNCHANGED <<core, lawyers, main, ret>>
    BY <1>28 DEF AgentExits
  <2>2. /\ \A j \in Opps \ {k} : agents'[j] = agents[j]
        /\ agents'[k].listed = agents[k].listed /\ agents'[k].token = agents[k].token
        /\ agents'[k].stop = agents[k].stop /\ (agents'[k].box => agents[k].box)
        /\ \/ agents'[k].at = agents[k].at
           \/ agents[k].at = "up" /\ agents'[k].at = "down"
    BY <1>28, Exiting
  <2>3. \A j \in Opps : /\ agents'[j].listed = agents[j].listed /\ agents'[j].stop = agents[j].stop
                        /\ Stopped(j) => Stopped(j)'
    BY <2>2
  <2> QED
    BY <2>1, <2>3
<1>29. ASSUME NEW k \in Opps, MonitorKills(k) PROVE StopsReported'
  BY <1>29 DEF MonitorKills
<1>30. ASSUME NEW k \in Opps, AgentWaited(k) PROVE StopsReported'
  BY <1>30 DEF AgentWaited
<1>31. ASSUME NEW k \in Opps, AgentAsks(k) PROVE StopsReported'
  BY <1>31 DEF AgentAsks
<1>32. ASSUME NEW k \in Opps, AgentReports(k) PROVE StopsReported'
  <2>1. core'.owner = core.owner /\ UNCHANGED <<lawyers, main, ret>>
    BY <1>32 DEF AgentReports, CoreType
  <2>2. \A j \in Opps : /\ agents'[j].stop = agents[j].stop /\ agents'[j].listed = agents[j].listed
                        /\ agents'[j].at \in {agents[j].at, "settled"}
    BY <1>32 DEF AgentReports
  <2> QED
    BY <2>1, <2>2
<1>33. ASSUME NEW m \in Members, Poll(m) PROVE StopsReported'
  BY <1>33 DEF Poll, Leave, world
<1>34. ASSUME NEW k \in Opps, BeginStop(k) PROVE StopsReported'
  BY <1>34 DEF BeginStop, NextToStop, Stopping
<1>35. ASSUME NEW k \in Opps, GiveUp(k) PROVE StopsReported'
  BY <1>35 DEF GiveUp, Stopping
<1>36. CASE UNCHANGED vars
  BY <1>36 DEF vars
<1> QED
  BY <1>1, <1>2, <1>3, <1>4, <1>5, <1>6, <1>7, <1>8, <1>9, <1>10, <1>11, <1>12, <1>13, <1>14,
       <1>15, <1>16, <1>17, <1>18, <1>19, <1>20, <1>21, <1>22, <1>23, <1>24, <1>25, <1>26, <1>27,
            <1>28, <1>29, <1>30, <1>31, <1>32, <1>33, <1>34, <1>35, <1>36 DEF Next, Run, Environment, Quiet

\* A member's new agent is started only when its earlier ones have ended.
LEMMA HolderStep == RunTypeOK /\ AgentsListed /\ OneAgentPerMember /\
        [Next]_vars => OneAgentPerMember'
<1> SUFFICES ASSUME RunTypeOK, AgentsListed, OneAgentPerMember, [Next]_vars PROVE OneAgentPerMember'
  OBVIOUS
<1> USE DEF RunTypeOK, AgentsListed, AgentListed, OneAgentPerMember, CoreType,
     AgentType, Client, Running, Holder
<1>1. CASE CoreServes
  BY <1>1 DEF CoreServes
<1>2. CASE CoreVote
  BY <1>2 DEF CoreVote
<1>3. CASE CoreDeadline
  BY <1>3 DEF CoreDeadline
<1>4. CASE CoreEnds
  BY <1>4 DEF CoreEnds
<1>5. CASE CoreFinishes
  BY <1>5 DEF CoreFinishes
<1>6. CASE MCPExits
  BY <1>6 DEF MCPExits
<1>7. CASE StartCore
  BY <1>7 DEF StartCore
<1>8. CASE TakeEarlyEnd
  BY <1>8 DEF TakeEarlyEnd
<1>9. CASE SetUpFails
  BY <1>9 DEF SetUpFails
<1>10. CASE SetUp
  BY <1>10 DEF SetUp
<1>11. CASE TakeCaseDone
  BY <1>11 DEF TakeCaseDone
<1>12. CASE TakeMCPAfterCase
  BY <1>12 DEF TakeMCPAfterCase
<1>13. CASE TakeMCPDone
  BY <1>13 DEF TakeMCPDone
<1>14. CASE SeeCancelled
  BY <1>14 DEF SeeCancelled, world
<1>15. CASE TakeAgentError
  BY <1>15 DEF TakeAgentError
<1>16. CASE GraceExpires
  BY <1>16 DEF GraceExpires, world
<1>17. CASE Tick
  BY <1>17 DEF Tick, world
<1>18. CASE PollEnds
  BY <1>18 DEF PollEnds, world
<1>19. CASE StartAgent
  <2>1. main.opp \in Opps /\ main.at = "stop_prior" /\ UNCHANGED core /\ \A j \in Prior : Stopped(j)
    BY <1>19 DEF StartAgent
  <2>2. \A j \in Opps : /\ Unlisted(Prior)[j].at = agents[j].at
                        /\ Unlisted(Prior)[j].box = agents[j].box
    BY Unlisting
  <2>3. \A j \in Opps \ {main.opp} : agents'[j].at = agents[j].at /\ agents'[j].box = agents[j].box
    BY <1>19, <2>1, <2>2, Starting
  <2>4. CASE agents'[main.opp] = Unlisted(Prior)[main.opp]
    BY <2>1, <2>2, <2>3, <2>4
  <2>5. CASE \A k \in Prior : ~Failing(k)
    <3>1. \A j \in Prior : ~Running(j)
      BY <2>1, <2>5 DEF Prior, Listed, Stopped, Failing
    <3>2. \A j \in Opps : Running(j) => agents[j].listed
      BY <2>1 DEF Shutdown, CoreWaited
    <3>3. \A j \in Opps : Holder(j) = Holder(main.opp) => ~Running(j)
      BY <3>1, <3>2 DEF Prior, Listed
    <3> QED
      BY <2>1, <2>3, <3>3
  <2> QED
    BY <1>19, <2>1, <2>4, <2>5, Starting DEF StartDone, StartUnrecorded
<1>20. CASE ShutCore
  BY <1>20 DEF ShutCore
<1>21. CASE ShutMCP
  BY <1>21 DEF ShutMCP
<1>22. CASE ShutLawyers
  BY <1>22 DEF ShutLawyers
<1>23. CASE ShutAgents
  BY <1>23 DEF ShutAgents
<1>24. CASE Cancel
  BY <1>24 DEF Cancel, world
<1>25. ASSUME NEW m \in Members, CoreOpens(m) PROVE OneAgentPerMember'
  <2> DEFINE o == core.opened + 1
  <2>1. core.opened \in Nat /\ core'.owner = [core.owner EXCEPT ![o] = m] /\ UNCHANGED agents
    BY <1>25 DEF CoreOpens
  <2>2. \A k \in starts : k # o
    BY <2>1 DEF Opps
  <2> HIDE DEF o
  <2>3. \A k \in starts : core'.owner[k] = core.owner[k]
    BY <2>1, <2>2
  <2> QED
    BY <2>1, <2>3
<1>26. ASSUME NEW r \in Roles, LawyerExits(r) PROVE OneAgentPerMember'
  BY <1>26 DEF LawyerExits
<1>27. ASSUME NEW r \in Roles, LawyerChecked(r) PROVE OneAgentPerMember'
  BY <1>27 DEF LawyerChecked
<1>28. ASSUME NEW k \in Opps, AgentExits(k) PROVE OneAgentPerMember'
  <2>1. core' = core /\ \A j \in Opps : Running(j)' => Running(j)
    BY <1>28, Exiting DEF AgentExits
  <2> QED
    BY <2>1
<1>29. ASSUME NEW k \in Opps, MonitorKills(k) PROVE OneAgentPerMember'
  BY <1>29 DEF MonitorKills
<1>30. ASSUME NEW k \in Opps, AgentWaited(k) PROVE OneAgentPerMember'
  BY <1>30 DEF AgentWaited
<1>31. ASSUME NEW k \in Opps, AgentAsks(k) PROVE OneAgentPerMember'
  BY <1>31 DEF AgentAsks
<1>32. ASSUME NEW k \in Opps, AgentReports(k) PROVE OneAgentPerMember'
  <2>1. core'.owner = core.owner
    BY <1>32 DEF AgentReports
  <2>2. \A j \in Opps : /\ agents'[j].at \in {agents[j].at, "settled"}
                        /\ agents'[j].box = agents[j].box
    BY <1>32 DEF AgentReports
  <2> QED
    BY <2>1, <2>2
<1>33. ASSUME NEW m \in Members, Poll(m) PROVE OneAgentPerMember'
  BY <1>33 DEF Poll, world
<1>34. ASSUME NEW k \in Opps, BeginStop(k) PROVE OneAgentPerMember'
  BY <1>34 DEF BeginStop, NextToStop, Stopping
<1>35. ASSUME NEW k \in Opps, GiveUp(k) PROVE OneAgentPerMember'
  BY <1>35 DEF GiveUp
<1>36. CASE UNCHANGED vars
  BY <1>36 DEF vars
<1> QED
  BY <1>1, <1>2, <1>3, <1>4, <1>5, <1>6, <1>7, <1>8, <1>9, <1>10, <1>11, <1>12, <1>13, <1>14,
       <1>15, <1>16, <1>17, <1>18, <1>19, <1>20, <1>21, <1>22, <1>23, <1>24, <1>25, <1>26, <1>27,
            <1>28, <1>29, <1>30, <1>31, <1>32, <1>33, <1>34, <1>35, <1>36 DEF Next, Run, Environment, Quiet

-----------------------------------------------------------------------------
(* The theorems.                                                           *)

\* The launcher's start.
LEMMA LauncherInit == Init => LauncherInv
<1> SUFFICES ASSUME Init PROVE LauncherInv
  OBVIOUS
<1> USE DEF Init
<1>1. [k \in Opps |-> CHOOSE m \in Members : TRUE] \in [Opps -> Members]
  BY LauncherAssumption DEF LauncherAssumption
<1>2. core \in CoreType /\ core.at = "none" /\ core.opp = 0 /\ core.opened = 0
  BY <1>1 DEF CoreType, CoreStages
<1>3. \A k \in Opps : /\ agents[k] \in AgentType /\ agents[k].at = "none"
                      /\ ~agents[k].listed /\ ~agents[k].token /\ ~agents[k].box
                      /\ agents[k].stop = "no"
  BY DEF NoAgent, AgentType, AgentStages, StopStages
<1>4. main \in MainType /\ pending \in PendingType /\ ctx \in CtxType /\ ret \in RetType
  BY DEF MainType, MainStages, PendingType, CtxType, RetType
<1>5. RunTypeOK
  BY <1>2, <1>3, <1>4, LauncherAssumption DEF RunTypeOK, LauncherAssumption
<1>6. OutcomeOfCore /\ OutcomeOfMCP
  BY <1>2 DEF OutcomeOfCore, OutcomeOfMCP, CoreEnded
<1>7. WaitedInOrder /\ SuccessEarned
  BY DEF WaitedInOrder, SuccessEarned, Shutdown, CoreWaited, MCPWaited
<1>8. AgentsListed /\ StopsReported /\ OneAgentPerMember
  BY <1>3 DEF AgentsListed, AgentListed, StopsReported, OneAgentPerMember, Running, Client,
              Unfinished, LawyersWaited
<1> QED
  BY <1>5, <1>6, <1>7, <1>8 DEF LauncherInv

\* However the processes of a run end, whichever stops fail, whoever cancels it and
\* whenever, the launcher's channels, lists and stages stay consistent with what is
\* running, and what it fails to stop with the error it returns.
THEOREM LauncherConsistent == Spec => []LauncherInv
<1>1. LauncherInv /\ [Next]_vars => LauncherInv'
  BY TypeStep, CoreStep, MCPStep, WaitStep, SuccessStep, AgentsStep, ReportStep,
     HolderStep DEF LauncherInv
<1> QED
  BY LauncherInit, <1>1, PTL DEF Spec

\* Whatever order a case's opportunities, deadlines, exits and stops take, for any
\* council and any number of opportunities, no two agents of one member run at once,
\* a container that has outlived its client or a failed start included.
THEOREM MembersRunAlone == Spec => []OneAgentPerMember
<1>1. LauncherInv => OneAgentPerMember
  BY DEF LauncherInv
<1> QED
  BY LauncherConsistent, <1>1, PTL

\* Run reports no error only for a completed case whose summary was written.
THEOREM SuccessMeansCompleted == Spec => []SuccessIsReal
<1>1. LauncherInv => SuccessIsReal
  BY DEF LauncherInv, SuccessEarned, SuccessIsReal, Shutdown, CoreWaited
<1> QED
  BY LauncherConsistent, <1>1, PTL

\* Once Run has returned, for any number of lawyers and agents and on every way out,
\* the core and the adapter have ended, an agent is left only by a stop that failed
\* or timed out, and if anything is left Run returns an error.
THEOREM RunReportsWhatItLeaves == Spec => []NothingLeftUnreported
<1>1. LauncherInv => NothingLeftUnreported
  <2> SUFFICES ASSUME LauncherInv, main.at = "returned"
               PROVE  /\ core.at \in {"none", "completed", "died"} /\ mcp # "up"
                      /\ \A k \in Opps : Running(k) => agents[k].stop \in {"failed", "late"}
                      /\ ~ret.err => /\ \A r \in Roles : lawyers[r] \notin {"up", "down"}
                                     /\ \A k \in Opps : ~Running(k) /\ ~agents[k].token
    BY DEF NothingLeftUnreported
  <2>1. core.at \in {"none", "completed", "died"} /\ mcp # "up"
    BY DEF LauncherInv, WaitedInOrder, CoreWaited, MCPWaited, CoreEnded
  <2>2. ASSUME NEW k \in Opps, Running(k) PROVE agents[k].stop \in {"failed", "late"}
    <3>1. CASE agents[k].listed
      <4>1. Stopped(k)
        BY <3>1 DEF LauncherInv, StopsReported
      <4> QED
        BY <2>2, <4>1 DEF LauncherInv, AgentsListed, AgentListed, Running, Stopped
    <3>2. CASE ~agents[k].listed
      BY <2>2, <3>2 DEF LauncherInv, AgentsListed, AgentListed, Running
    <3> QED
      BY <3>1, <3>2
  <2>3. ASSUME NEW k \in Opps, Running(k) PROVE ret.err
    BY <2>2, <2>3 DEF LauncherInv, StopsReported, Unfinished
  <2>4. \A k \in Opps : agents[k].token => Running(k)
    BY DEF LauncherInv, AgentsListed, AgentListed, Running
  <2>5. ret.err \/ \A r \in Roles : lawyers[r] \notin {"up", "down"}
    BY DEF LauncherInv, StopsReported, LawyersWaited
  <2> QED
    BY <2>1, <2>2, <2>3, <2>4, <2>5
<1> QED
  BY LauncherConsistent, <1>1, PTL
=============================================================================
