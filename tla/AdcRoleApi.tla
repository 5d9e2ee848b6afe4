------------------------------ MODULE AdcRoleApi ------------------------------
(***************************************************************************)
(* One ADC case whose parties and jurors act through the role API: the     *)
(* run loop of adc/runtime/runner (autopilot.go, runner.go) and the API's  *)
(* handlers (roleapi.go, timeouts.go).  Every handler holds api.mu from    *)
(* its first check to its answer and so is one action; requests are sent,  *)
(* delayed and repeated at will.                                           *)
(***************************************************************************)
EXTENDS Naturals, Sequences, FiniteSets, SequencesExt, FiniteSetsExt

CONSTANTS
  Agenda,        \* the opportunities of the case, in order: [kind, seat]
  MaxAttempts,   \* invalid_attempt_limit
  MaxTurns,      \* loop_policy.max_turns
  MaxSent,       \* bound: requests composed by the clients
  FaultSets      \* the combinations of faults considered

Kinds == {"party", "candidate", "vote", "internal"}
ASSUME AgendaAssumption == Agenda \in Seq([kind : Kinds, seat : Nat])
ASSUME BoundsAssumption ==
  MaxAttempts \in Nat \ {0} /\ MaxTurns \in Nat /\ MaxSent \in Nat
ASSUME FaultAssumption == FaultSets \subseteq SUBSET {"persist", "server", "cancel"}

Tasks  == DOMAIN Agenda
Seats  == {Agenda[i].seat : i \in Tasks}
VARIABLES
  court,    \* r.state: what the engine has accepted so far
  cert,     \* r.certificateTransitions
  pc,       \* where Run is
  taken,    \* opportunities runAutopilot has gone through
  turn,     \* the external opportunity the run waits for
  active,   \* api.active = turn
  done,     \* the turn's channel of one place
  cause,    \* why the run ended with an error
  terminal, \* api.terminal and api.terminalError
  cancelled, served,
  sent,     \* requests composed, each arriving any number of times from now on
  faults    \* what may go wrong in this run

apiVars == <<active, done, terminal>>
world   == <<cancelled, served, sent, faults>>
runVars == <<pc, taken, cause>>
vars    == <<court, cert, turn, runVars, apiVars, world>>

PersistFails == "persist" \in faults \* an event may fail to be stored
ServerFails  == "server" \in faults  \* the case API's Serve may return an error
Cancels      == "cancel" \in faults  \* the run's context may be cancelled

-----------------------------------------------------------------------------
(* The engine, as far as turns depend on it.                               *)

NewCourt == [version |-> 0, answered |-> {}, replaced |-> [s \in Seats |-> 0],
             voted |-> {}, removed |-> {}]

\* A transition is on a task; it is applied to the version it was given for.
Step(c, t) ==
  LET d == [c EXCEPT !.version = @ + 1] IN
  CASE t.kind = "decision" ->
         [d EXCEPT !.answered = @ \cup {t.task},
                   !.voted = IF Agenda[t.task].kind = "vote" THEN @ \cup {t.task} ELSE @]
    [] t.kind = "timeout" /\ Agenda[t.task].kind = "vote" ->
         [d EXCEPT !.answered = @ \cup {t.task}, !.removed = @ \cup {t.task}]
    [] t.kind = "add" ->
         [d EXCEPT !.replaced[Agenda[t.task].seat] = @ + 1, !.answered = @ \ {t.task}]
    [] OTHER -> d

Replay(transitions) == FoldLeft(Step, NewCourt, transitions)

Offered == {i \in Tasks : i \notin court.answered}
Task    == Min(Offered)
ActorOf(i) == <<Agenda[i].seat, court.replaced[Agenda[i].seat]>>

-----------------------------------------------------------------------------
(* The API's state.                                                        *)

NoTurnYet == [number |-> 0, task |-> 0, actor |-> <<0, 0>>, version |-> 0, due |-> FALSE,
           attempts |-> 0, completed |-> FALSE]

Live == active /\ ~turn.completed
Due  == Live /\ turn.due

\* A channel without a place: the run that expires its own turn is not receiving.
FinishUnbuffered(outcome) ==
  /\ turn' = [turn EXCEPT !.completed = TRUE]
  /\ done' = IF turn.due THEN done ELSE outcome
  /\ UNCHANGED <<active, terminal>>

\* finishTurnLocked: the first result is kept, the channel has one place.
Finish(outcome) ==
  /\ turn' = [turn EXCEPT !.completed = TRUE]
  /\ done' = IF done = "empty" THEN outcome ELSE done
  /\ UNCHANGED <<active, terminal>>

\* setTerminal: an earlier error stays.
SetTerminal(outcome) ==
  /\ terminal' = IF outcome = "failed" \/ terminal = "failed" THEN "failed" ELSE "done"
  /\ active' = FALSE
  /\ UNCHANGED done

Entry(kind, task, req) ==
  [kind |-> kind, task |-> task, turn |-> turn.number, authority |-> "none",
   of |-> req.of, named |-> req.named, version |-> turn.version]
NoRequest == [of |-> 0, named |-> FALSE]

\* Mutant: only the last of several transitions is kept.
AcceptLast(entries) ==
  /\ court' = FoldLeft(Step, court, entries)
  /\ cert' = Append(cert, Last(entries))

Accept(entries) ==
  /\ court' = FoldLeft(Step, court, entries)
  /\ cert' = cert \o entries

-----------------------------------------------------------------------------
(* Failures: handleOpportunityResponseError and what its caller makes of it *)

Timeout(req) == Entry("timeout", turn.task, req)
Add(req)     == Entry("add", turn.task, req)

\* The candidate leaves and a new one comes; storing either event may fail.
CandidateTimeout(req) ==
  /\ Agenda[turn.task].kind = "candidate"
  /\ \/ Accept(<<Timeout(req), Add(req)>>) /\ Finish("ok")
     \/ /\ PersistFails
        /\ \/ Accept(<<Timeout(req)>>)
           \/ Accept(<<Timeout(req), Add(req)>>)
        /\ Finish("fault")

JurorTimeout(req) ==
  /\ Agenda[turn.task].kind = "vote"
  /\ Accept(<<Timeout(req)>>)
  /\ Finish("ok") \/ (PersistFails /\ Finish("fault"))

FailParty ==
  /\ Agenda[turn.task].kind = "party"
  /\ Finish("party")
  /\ UNCHANGED <<court, cert>>

FailTurn(req) == CandidateTimeout(req) \/ JurorTimeout(req) \/ FailParty

\* expireTurnIfDue by the run's ticker, expireActiveTurnLocked by any request.
Expire ==
  /\ Due
  /\ FailTurn(NoRequest)
  /\ UNCHANGED <<runVars, world>>

-----------------------------------------------------------------------------
(* Requests on the active turn.                                            *)

\* rejectDecisionLocked
Reject(req) ==
  IF turn.attempts > 1
    THEN /\ turn' = [turn EXCEPT !.attempts = @ - 1]
         /\ UNCHANGED <<court, cert, apiVars>>
    ELSE FailTurn(req)

\* submitDecisionLocked, given that the engine would take the decision: a
\* legal tool is stepped and its transition turned into an authorised one;
\* when its event cannot be stored the client is told and the turn stays open.
Decide(req) ==
  \/ /\ Accept(<<[Entry("decision", turn.task, req) EXCEPT !.authority = "decision"]>>)
     /\ Finish("ok")
  \/ /\ PersistFails
     /\ \/ Accept(<<Entry("decision", turn.task, req)>>)        \* a tool
        \/ Accept(<<[Entry("decision", turn.task, req) EXCEPT   \* a pass
                       !.authority = "decision"]>>)
     /\ UNCHANGED <<turn, apiVars>>

\* The engine is given the turn's version and knows its own.
EngineTakes == turn.version = court.version

Matches(req) == req.actor = turn.actor /\ (req.named => req.of = turn.version)

\* The turn's completion is not looked at.
DeliverCompleted(req) ==
  /\ pc # "closed" /\ active /\ ~turn.due
  /\ Matches(req)
  /\ IF req.what = "fail" THEN FailTurn(req)
     ELSE IF req.what = "decide" /\ EngineTakes THEN Decide(req) ELSE Reject(req)
  /\ UNCHANGED <<runVars, world>>

\* The deadline is left to the ticker.
DeliverLate(req) ==
  /\ pc # "closed" /\ Live
  /\ Matches(req)
  /\ IF req.what = "fail" THEN FailTurn(req)
     ELSE IF req.what = "decide" /\ EngineTakes THEN Decide(req) ELSE Reject(req)
  /\ UNCHANGED <<runVars, world>>

\* doLocked and failLocked
Deliver(req) ==
  /\ pc # "closed" /\ Live /\ ~turn.due
  /\ Matches(req)
  /\ IF req.what = "fail" THEN FailTurn(req)
     ELSE IF req.what = "decide" /\ EngineTakes THEN Decide(req) ELSE Reject(req)
  /\ UNCHANGED <<runVars, world>>

\* A client answers the opportunity it was shown, with or without its version.
Compose(what, named) ==
  /\ Live /\ ~turn.due /\ terminal = "no"
  /\ Cardinality(sent) < MaxSent
  /\ sent' = sent \cup {[actor |-> turn.actor, of |-> turn.version,
                         named |-> named, what |-> what]}
  /\ UNCHANGED <<court, cert, turn, runVars, apiVars, cancelled, served, faults>>

-----------------------------------------------------------------------------
(* The run: runAutopilot, executeExternalOpportunityTurn and Run's defers. *)

End(why) == pc' = "ending" /\ cause' = why

\* The next opportunity, while the loop has turns left.
MayTake  == pc = "next" /\ Offered # {} /\ taken < MaxTurns
NoTurnsLeft ==
  /\ pc = "next" /\ taken = MaxTurns
  /\ End("turns")
  /\ UNCHANGED <<court, cert, turn, taken, apiVars, world>>

\* Nothing left to do: the result, evidence and run record are written.
Conclude ==
  /\ pc = "next" /\ Offered = {} /\ taken < MaxTurns
  /\ End("none") \/ (PersistFails /\ End("fault"))
  /\ UNCHANGED <<court, cert, turn, taken, apiVars, world>>

\* A role the process plays itself.
Internal ==
  /\ MayTake /\ Agenda[Task].kind = "internal"
  /\ taken' = taken + 1
  /\ Accept(<<[kind |-> "decision", task |-> Task, turn |-> 0, authority |-> "decision",
               of |-> court.version, named |-> TRUE, version |-> court.version]>>)
  /\ UNCHANGED <<pc, cause>> \/ (PersistFails /\ End("fault"))
  /\ UNCHANGED <<turn, apiVars, world>>

\* startTurn, which refuses while another turn is open.
StartTurn ==
  /\ MayTake /\ Agenda[Task].kind # "internal"
  /\ taken' = taken + 1
  /\ IF Live
     THEN End("refused") /\ UNCHANGED <<turn, apiVars>>
     ELSE /\ pc' = "waiting"
          /\ turn' = [number |-> turn.number + 1, task |-> Task, actor |-> ActorOf(Task),
                      version |-> court.version, due |-> FALSE, attempts |-> MaxAttempts,
                      completed |-> FALSE]
          /\ active' = TRUE /\ done' = "empty"
          /\ UNCHANGED <<cause, terminal>>
  /\ UNCHANGED <<court, cert, world>>

\* The cancellation may be seen before the next engine call, or while waiting.
SeeCancel ==
  /\ cancelled
  /\ \/ (pc = "next" /\ End("cancelled"))
     \/ (pc = "waiting" /\ pc' = "leaving" /\ cause' = "cancelled")
  /\ UNCHANGED <<court, cert, turn, taken, apiVars, world>>

TakeResult ==
  /\ pc = "waiting" /\ done # "empty"
  /\ done' = "empty" /\ pc' = "leaving"
  /\ cause' = IF done = "ok" THEN "none" ELSE done
  /\ UNCHANGED <<court, cert, turn, taken, active, terminal, world>>

\* The deferred clearTurn, then the next opportunity or Run's end.
ClearTurn ==
  /\ pc = "leaving"
  /\ pc' = IF cause = "none" THEN "next" ELSE "ending"
  /\ IF active THEN active' = FALSE ELSE UNCHANGED active
  /\ UNCHANGED <<court, cert, turn, taken, cause, done, terminal, world>>

\* Run's defers: setTerminal, then the server is closed.
EndRun ==
  /\ pc = "ending" /\ pc' = "ended"
  /\ SetTerminal(IF cause = "none" THEN "done" ELSE "failed")
  /\ UNCHANGED <<court, cert, turn, taken, cause, world>>
CloseAPI ==
  /\ pc = "ended" /\ pc' = "closed"
  /\ UNCHANGED <<court, cert, turn, taken, cause, active, done, terminal, world>>

-----------------------------------------------------------------------------
(* What happens to the run.                                                *)

DeadlinePasses ==
  /\ pc = "waiting" /\ ~turn.due
  /\ turn' = [turn EXCEPT !.due = TRUE]
  /\ UNCHANGED <<court, cert, runVars, apiVars, world>>

Cancel ==
  /\ Cancels /\ ~cancelled /\ pc \notin {"ended", "closed"}
  /\ cancelled' = TRUE
  /\ UNCHANGED <<court, cert, turn, runVars, apiVars, served, sent, faults>>

\* The goroutine around serveCaseAPI: the listener failed.  Connections
\* already open are still served.
ServeFails ==
  /\ ServerFails /\ served /\ pc \notin {"ended", "closed"}
  /\ served' = FALSE
  /\ SetTerminal("failed")
  /\ UNCHANGED <<court, cert, turn, runVars, cancelled, sent, faults>>

-----------------------------------------------------------------------------
RoleInit ==
  /\ court = NewCourt /\ cert = <<>> /\ pc = "next" /\ taken = 0 /\ turn = NoTurnYet
  /\ active = FALSE /\ done = "empty" /\ cause = "none" /\ terminal = "no"
  /\ cancelled = FALSE /\ served = TRUE /\ sent = {} /\ faults \in FaultSets

Run == NoTurnsLeft \/ Conclude \/ Internal \/ StartTurn \/ SeeCancel \/ TakeResult \/ ClearTurn
       \/ EndRun \/ CloseAPI
Client ==
  \/ \E what \in {"decide", "invalid", "fail"}, named \in BOOLEAN : Compose(what, named)
  \/ \E req \in sent : Deliver(req)

RoleNext == Run \/ Expire \/ Client \/ DeadlinePasses \/ Cancel \/ ServeFails

RoleSpec == RoleInit /\ [][RoleNext]_vars

\* The run's goroutine is scheduled, its ticker fires and time passes; clients
\* owe nothing.
RoleFairSpec == RoleSpec /\ WF_vars(Run) /\ WF_vars(Expire) /\ WF_vars(DeadlinePasses)

-----------------------------------------------------------------------------
(* Properties.                                                             *)

\* Whatever fails to be stored and whoever gives up, the certificate replays
\* to the court's state, each authorised decision at the version it was made for.
CertificateVerifies ==
  /\ Replay(cert) = court
  /\ \A i \in DOMAIN cert : cert[i].authority = "decision" => cert[i].version = i - 1

\* The places in the certificate of what a turn did.
Of(n) == {i \in DOMAIN cert : cert[i].turn = n}

\* Nothing yet, a decision or a failure, and a new candidate after a failure only.
Settled(n) ==
  \/ Of(n) = {}
  \/ \E i \in Of(n) : Of(n) = {i} /\ cert[i].kind \in {"decision", "timeout"}
  \/ \E i \in Of(n) :
       Of(n) = {i, i + 1} /\ cert[i].kind = "timeout" /\ cert[i + 1].kind = "add"

\* A turn moves the court once, by its decision or by its juror's failure and
\* not both, though its deadline, repeated answers and reports of failure race
\* for it, and a request that names its version decides no other opportunity
\* however late it arrives.  When a decision cannot be stored its turn stays open
\* and may still fail, but it cannot decide again: the engine refuses the version
\* the turn has left behind.
OneOutcomePerTurn ==
  /\ \A n \in 1 .. turn.number :
       /\ PersistFails \/ Settled(n)
       /\ \A i, j \in Of(n) : cert[i].kind = cert[j].kind => i = j
  /\ \A i \in DOMAIN cert : cert[i].named => cert[i].of = cert[i].version

\* Once its deadline has passed a turn can only fail, and once the run has left
\* its last turn nothing moves the court: the result and the certificate are
\* written from a state that no late handler changes.
NothingLate ==
  [][ cert' # cert =>
      /\ pc \notin {"ending", "ended", "closed"}
      /\ turn.due => \A i \in DOMAIN cert' \ DOMAIN cert :
           cert'[i].turn = turn.number => cert'[i].kind # "decision" ]_vars

\* Silent clients: deadlines and the limit of turns bring the run to its end,
\* unless the API server fails, which drops the open turn with its deadline.
RunEnds == <>(pc = "closed" \/ ~served)
=============================================================================
