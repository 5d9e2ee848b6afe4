------------------------------ MODULE ArbRuntime ------------------------------
(***************************************************************************)
(* The process that runs one ARB proceeding (arb/runtime/proceeding).  The *)
(* run loop asks the engine for the open opportunity, opens a turn for it  *)
(* on the role API that serves its owner, and waits for the turn to be     *)
(* answered or for its timer.  HTTP handlers of lawyers and council        *)
(* members, the timer and the run loop race for rc.mu; whoever holds it    *)
(* may ask the engine to apply an action on the turn's authority.          *)
(*                                                                         *)
(* Time is abstracted to two facts that only become true: the deadline of  *)
(* the current turn has passed, and the case context is cancelled.  They   *)
(* may become true at any moment, also while a handler holds the lock and  *)
(* the engine runs, which is why an engine call is a step of its own.      *)
(***************************************************************************)
EXTENDS ArbEngine, SequencesExt

CONSTANTS
  ExhibitLists,         \* the exhibit lists a filing may come with
  Backends,             \* cfg.CouncilBackend: "council" (councilapi), "direct"
  InvalidAttemptLimit,  \* runtime.invalid_attempt_limit
  Waiters               \* the clients that long-poll the role APIs

ASSUME RuntimeAssumption ==
  /\ ExhibitLists \subseteq Seq(EvidenceIds)
  /\ Backends # {} /\ Backends \subseteq {"council", "direct"}
  /\ InvalidAttemptLimit \in Nat \ {0}
  /\ {"deadline_expired", "attempts_exhausted", "agent_exited", "request_failed"}
       \subseteq FailureReasons

VARIABLES
  state,     \* rc.state
  submitted, \* rc.submittedEvidence: the runtime's own registry
  cert,      \* rc.certificateActions, each with its authority
  active,    \* the turn each server has open, or NoTurn
  lock,      \* rc.mu: Free, or the engine call its holder is about to make
  main,      \* the run loop: where it is, its opportunity, rc.turn, its backend
  clock,     \* has the turn's deadline passed, is the case cancelled
  fault,     \* history: the engine, the disk or a provider has failed
  asleep     \* clients blocked in /wait, with the opportunity they have seen

vars == <<state, submitted, cert, active, lock, main, clock, fault, asleep>>
record == <<state, submitted, cert>>

APIs    == {"lawyer", "council"}
Servers == APIs \cup {"direct"}

\* The role API that serves an opportunity; with the direct backend the run
\* loop itself asks the member's model.
ServerOf(role) == IF role = "council" THEN main.backend ELSE "lawyer"

Client == [role : Parties, member : {0}] \cup [role : {"council"}, member : Members]
Owner(opp) == [role |-> opp.role, member |-> opp.member]

\* A turn holds the opportunity and state version its answers are sent with.
Turn == [number : Nat, opp : Opportunity, version : Nat,
         attempts : 0 .. InvalidAttemptLimit,
         completed : BOOLEAN, done : {"empty", "ok", "err"}]
NoTurn == [number |-> 0]

Free == [server |-> "none"]
DeadlineFailure == [type |-> "fail", reason |-> "deadline_expired"]

Ended     == main.at \in {"done", "failed"}
Open(sv)  == active[sv] # NoTurn /\ ~active[sv].completed
MyServer  == ServerOf(main.authority.opp.role)
MyTurnActive == active[MyServer].number = main.turn

\* Mutant: a signal reaches only the client whose turn it is.
RingOwner(svs) == asleep' = {w \in asleep : w.client # Owner(main.authority.opp)}

\* signalChangedLocked: every request asleep on these servers returns, for the
\* server's version is no longer the one it went to sleep with.
Ring(svs) == asleep' = {w \in asleep : ServerOf(w.client.role) \notin svs}

\* completeTurnLocked: the first verdict fills the done channel.
Completed(t, verdict) ==
  IF t.completed THEN t ELSE [t EXCEPT !.completed = TRUE, !.done = verdict]

\* The lock's holder is about to send an action for the turn; spoiled says the
\* turn ends in an error even when the engine accepts it.
Call(sv, req, a) == [server |-> sv, req |-> req, act |-> a, spoiled |-> FALSE]

Init ==
  /\ state = InitialState /\ submitted = <<>> /\ cert = <<>>
  /\ active = [sv \in Servers |-> NoTurn]
  /\ lock = Free
  /\ \E backend \in Backends :
       main = [at |-> "next", turn |-> 0, backend |-> backend,
               authority |-> [opp |-> NoOpportunity, version |-> 0]]
  /\ clock = [expired |-> FALSE, cancelled |-> FALSE]
  /\ fault = FALSE
  /\ asleep = {}

-----------------------------------------------------------------------------
(* The run loop (runConfigured, executeAttorneyOpportunity,                *)
(* executeCouncilOpportunity).                                             *)

\* An engine error or a cancelled case ends the run; a terminal answer clears
\* the role APIs and wakes everybody.
AskNext ==
  /\ main.at = "next" /\ lock = Free
  /\ \/ /\ ~clock.cancelled
        /\ IF NextOpportunity(state) = NoOpportunity
           THEN /\ main' = [main EXCEPT !.at = "done"]
                /\ active' = [active EXCEPT !["lawyer"] = NoTurn, !["council"] = NoTurn]
                /\ Ring(APIs)
           ELSE /\ main' = [main EXCEPT !.at = "start", !.turn = @ + 1,
                                         !.authority = CurrentAuthority(state)]
                /\ UNCHANGED <<active, asleep>>
        /\ UNCHANGED fault
     \/ /\ main' = [main EXCEPT !.at = "failed"]
        /\ fault' = (fault \/ ~clock.cancelled)
        /\ UNCHANGED <<active, asleep>>
  /\ UNCHANGED <<record, lock, clock>>

\* The turn starts with a full set of attempts, an empty done channel and a new
\* deadline.  Building its prompt or writing its snapshot may fail.
StartTurn ==
  /\ main.at = "start" /\ lock = Free
  /\ \/ /\ ~Open(MyServer)
        /\ active' = [active EXCEPT ![MyServer] =
             [number |-> main.turn, opp |-> main.authority.opp,
              version |-> main.authority.version, attempts |-> InvalidAttemptLimit,
              completed |-> FALSE, done |-> "empty"]]
        /\ main' = [main EXCEPT !.at = "wait"]
        /\ clock' = [clock EXCEPT !.expired = FALSE]
        /\ Ring({MyServer})
        /\ UNCHANGED fault
     \/ /\ main' = [main EXCEPT !.at = "failed"]
        /\ fault' = (fault \/ ~Open(MyServer))
        /\ UNCHANGED <<active, clock, asleep>>
  /\ UNCHANGED <<record, lock>>

\* case err := <-turn.done
TakeVerdict ==
  /\ main.at = "wait" /\ active[MyServer].done # "empty"
  /\ main' = [main EXCEPT !.at = IF active[MyServer].done = "ok" THEN "clear" ELSE "clear_err"]
  /\ UNCHANGED <<record, active, lock, clock, fault, asleep>>

\* case <-ctx.Done(): the turn is left as it is.
SeeCancelled ==
  /\ main.at = "wait" /\ clock.cancelled
  /\ main' = [main EXCEPT !.at = "clear_err"]
  /\ UNCHANGED <<record, active, lock, clock, fault, asleep>>

\* Mutant: council turns have no timer.
LawyerTimerFires ==
  /\ main.at = "wait" /\ clock.expired /\ MyServer = "lawyer"
  /\ main' = [main EXCEPT !.at = "timeout"]
  /\ UNCHANGED <<record, active, lock, clock, fault, asleep>>

\* case <-timer.C: the timer has fired; rc.mu is not yet taken.
TimerFires ==
  /\ main.at = "wait" /\ clock.expired /\ MyServer \in APIs
  /\ main' = [main EXCEPT !.at = "timeout"]
  /\ UNCHANGED <<record, active, lock, clock, fault, asleep>>

\* Mutant: a completed turn is not asked how it ended.
TimeoutTurnUnchecked ==
  /\ main.at = "timeout" /\ lock = Free
  /\ IF ~MyTurnActive
     THEN main' = [main EXCEPT !.at = "clear_err"] /\ UNCHANGED lock
     ELSE IF active[MyServer].completed
     THEN main' = [main EXCEPT !.at = "clear"] /\ UNCHANGED lock
     ELSE lock' = Call(MyServer, NoOpportunity, DeadlineFailure) /\ UNCHANGED main
  /\ UNCHANGED <<record, active, clock, fault, asleep>>

\* timeoutTurn: fails the opportunity unless a handler has already completed
\* the turn, whose verdict the run loop then takes from the done channel.
TimeoutTurn ==
  /\ main.at = "timeout" /\ lock = Free
  /\ IF ~MyTurnActive
     THEN main' = [main EXCEPT !.at = "clear_err"] /\ UNCHANGED lock
     ELSE IF active[MyServer].completed
     THEN /\ active[MyServer].done # "empty"
          /\ main' = [main EXCEPT !.at =
                        IF active[MyServer].done = "ok" THEN "clear" ELSE "clear_err"]
          /\ UNCHANGED lock
     ELSE /\ lock' = Call(MyServer, NoOpportunity, DeadlineFailure)
          /\ UNCHANGED main
  /\ UNCHANGED <<record, active, clock, fault, asleep>>

\* clearTurn, and back to the loop or out of it.
ClearTurn ==
  /\ main.at \in {"clear", "clear_err"} /\ lock = Free
  /\ main' = [main EXCEPT !.at = IF main.at = "clear" THEN "next" ELSE "failed"]
  /\ IF MyTurnActive
     THEN active' = [active EXCEPT ![MyServer] = NoTurn] /\ Ring({MyServer})
     ELSE UNCHANGED <<active, asleep>>
  /\ UNCHANGED <<record, lock, clock, fault>>

RunLoop ==
  AskNext \/ StartTurn \/ TakeVerdict \/ SeeCancelled \/ TimerFires \/ TimeoutTurn \/ ClearTurn

-----------------------------------------------------------------------------
(* Requests on the role APIs.  A request names the opportunity it answers; *)
(* it may have been sent, or sent again, long after that one ended.        *)

Issued == {cert[i].authority.opp : i \in DOMAIN cert} \cup {main.authority.opp}

\* Mutant: the opportunity a request names is not compared with the turn's.
AdmittedUnmatched(sv, req) ==
  lock = Free /\ Open(sv) /\ ~clock.cancelled /\ ~clock.expired

\* lawyerRequestTurnLocked and councilRequestTurnLocked: the turn is open, the
\* case runs, the deadline has not passed, and the request names this turn.
Admitted(sv, req) ==
  /\ lock = Free /\ Open(sv)
  /\ ~clock.cancelled /\ ~clock.expired
  /\ req = active[sv].opp

\* The first request to find the case cancelled ends the turn with the error.
RequestFindsCancelled(sv) ==
  /\ lock = Free /\ Open(sv) /\ clock.cancelled
  /\ active' = [active EXCEPT ![sv] = Completed(@, "err")]
  /\ Ring({sv})
  /\ UNCHANGED <<record, lock, main, clock, fault>>

\* The first request after the deadline, whoever sends it, fails the opportunity.
RequestFindsExpired(sv) ==
  /\ lock = Free /\ Open(sv) /\ ~clock.cancelled /\ clock.expired
  /\ lock' = Call(sv, NoOpportunity, DeadlineFailure)
  /\ UNCHANGED <<record, active, main, clock, fault, asleep>>

\* consumeAttemptLocked: the last attempt fails the opportunity.
ConsumeAttempt(sv) ==
  /\ active' = [active EXCEPT ![sv].attempts = @ - 1]
  /\ IF active[sv].attempts = 1
     THEN /\ lock' = Call(sv, NoOpportunity, [type |-> "fail", reason |-> "attempts_exhausted"])
          /\ UNCHANGED asleep
     ELSE Ring(APIs) /\ UNCHANGED lock
  /\ UNCHANGED <<record, main, clock, fault>>

\* A malformed call: an unknown tool, missing or bad arguments.
InvalidCall(sv, req) == Admitted(sv, req) /\ ConsumeAttempt(sv)

\* Mutant: submitted evidence is not entered in the registry.
RegisteredAtStart == Catalog

\* The registry's ids: evidenceByID.
Registered == Catalog \cup {submitted[i].id : i \in DOMAIN submitted}

\* attorneyDecision and validateAttorneyPayloadAgainstState, prepareSubmittedEvidence
\* and prepareEvidenceUploadCommit, validateCouncilVotePayload: what the runtime
\* itself checks, so that a client's mistake costs an attempt and not the run.
Prevalidated(opp, a) ==
  CASE a.type = "file" ->
         /\ opp.phase \notin EvidencePhases => a.exhibits = <<>>
         /\ Len(a.exhibits) <= MaxExhibitsPerFiling
         /\ CountForRole(state.offered, opp.role) + Len(a.exhibits) <= MaxExhibitsPerSide
         /\ \A i \in DOMAIN a.exhibits : a.exhibits[i] \in Registered
    [] a.type = "pass" -> opp.phase \in {"rebuttals", "surrebuttals"}
    [] a.type = "evidence" ->
         /\ opp.phase \in EvidencePhases
         /\ CountForRole(submitted, opp.role) < MaxEvidencePerSide
         /\ a.parent \subseteq Registered
         /\ a.id \notin Registered
    [] a.type = "vote" -> TRUE

\* What the owner of an opportunity may send: the runtime writes its role, or
\* its member id, into the action.
Answers(opp) ==
  IF opp.role = "council"
  THEN [type : {"vote"}, member : {opp.member}, vote : Votes]
  ELSE      [type : {"file"}, role : {opp.role}, exhibits : ExhibitLists]
       \cup [type : {"pass"}, role : {opp.role}]
       \cup [type : {"evidence"}, role : {opp.role}, id : NewEvidence,
             parent : {{}} \cup {{e} : e \in EvidenceIds}]

\* submit_decision, submit_evidence, commit_evidence_upload, submit_council_vote.
Answer(sv, req, a) ==
  /\ Admitted(sv, req)
  /\ IF Prevalidated(active[sv].opp, a)
     THEN /\ lock' = Call(sv, req, a)
          /\ UNCHANGED <<record, active, main, clock, fault, asleep>>
     ELSE ConsumeAttempt(sv)

\* Council /fail: the launcher reports that the member's agent has gone.
MemberFails(req) ==
  /\ lock = Free /\ Open("council") /\ ~clock.expired
  /\ req = active["council"].opp
  /\ lock' = Call("council", req, [type |-> "fail", reason |-> "agent_exited"])
  /\ UNCHANGED <<record, active, main, clock, fault, asleep>>

Requests ==
  \/ \E sv \in APIs :
       \/ RequestFindsCancelled(sv)
       \/ RequestFindsExpired(sv)
       \/ \E req \in Issued : InvalidCall(sv, req)
       \/ \E req \in Issued : \E a \in Answers(req) : Answer(sv, req, a)
  \/ \E req \in Issued : MemberFails(req)

-----------------------------------------------------------------------------
(* The direct council backend: the run loop asks the member's model until  *)
(* it votes, fails, runs out of attempts or out of time.                   *)

Asking == main.at = "wait" /\ Open("direct") /\ MyServer = "direct" /\ lock = Free

ProviderVotes(v) ==
  /\ Asking /\ ~clock.cancelled
  /\ lock' = Call("direct", main.authority.opp,
                  [type |-> "vote", member |-> main.authority.opp.member, vote |-> v])
  /\ UNCHANGED <<record, active, main, clock, fault, asleep>>

\* An oversized response, not exactly one call, the wrong tool, a bad payload.
ProviderInvalid ==
  /\ Asking /\ ~clock.cancelled
  /\ active' = [active EXCEPT !["direct"].attempts = @ - 1]
  /\ lock' = IF active["direct"].attempts = 1
             THEN Call("direct", NoOpportunity, [type |-> "fail", reason |-> "attempts_exhausted"])
             ELSE lock
  /\ UNCHANGED <<record, main, clock, fault, asleep>>

\* A provider timeout, which may come before the turn's own deadline, or a
\* provider request error.
ProviderFails(reason) ==
  /\ Asking /\ ~clock.cancelled
  /\ lock' = Call("direct", NoOpportunity, [type |-> "fail", reason |-> reason])
  /\ UNCHANGED <<record, active, main, clock, fault, asleep>>

Provider ==
  \/ \E v \in Votes : ProviderVotes(v)
  \/ ProviderInvalid
  \/ \E reason \in {"deadline_expired", "request_failed"} : ProviderFails(reason)

-----------------------------------------------------------------------------
(* The engine call the lock's holder makes (evaluateTurnStepLocked and the *)
(* commit after it).                                                       *)

TurnAuthority(t) == [opp |-> t.opp, version |-> t.version]

\* Mutant: the authority is read after the turn has moved on.
CertEntryAfter(t, a) ==
  [authority |-> [opp |-> t.opp, version |-> t.version + 1], action |-> a]

\* Mutant: the certificate leaves out the lineage of submitted evidence.
CertEntryUnparented(t, a) ==
  [authority |-> TurnAuthority(t),
   action |-> IF a.type = "evidence" THEN [a EXCEPT !.parent = {}] ELSE a]

\* authorityForOpportunity and evaluateStep: the action goes into the
\* certificate under the authority it was sent with.
CertEntry(t, a) == [authority |-> TurnAuthority(t), action |-> a]

\* Evidence leaves the turn open at the new state version.
AtNewVersion(t) == [t EXCEPT !.version = @ + 1]

\* Mutant: the deadline is not checked again before the commit.
TimelyAtStart == ~clock.cancelled

\* Only the failure of an expired opportunity is sent without a deadline.
Timely == ~clock.cancelled /\ (clock.expired => lock.act = DeadlineFailure)

\* The engine accepts in time: state, certificate and registry move together
\* and every client is woken.  Evidence leaves the turn open, at the new state
\* version; anything else completes it.  Writing the event may fail afterwards.
Commit(logged) ==
  LET sv      == lock.server
      t       == active[sv]
      a       == lock.act
      verdict == IF logged /\ ~lock.spoiled THEN "ok" ELSE "err" IN
  /\ lock # Free /\ Timely
  /\ Accepts(state, TurnAuthority(t), a)
  /\ state' = Apply(state, a)
  /\ cert' = Append(cert, CertEntry(t, a))
  /\ submitted' = IF a.type = "evidence"
                  THEN Append(submitted, [id |-> a.id, role |-> a.role]) ELSE submitted
  /\ active' = [active EXCEPT ![sv] =
                  IF a.type = "evidence" /\ logged THEN AtNewVersion(t)
                  ELSE Completed(AtNewVersion(t), verdict)]
  /\ lock' = Free
  /\ fault' = (fault \/ ~logged)
  /\ Ring(APIs)
  /\ UNCHANGED <<main, clock>>

\* The deadline passed while the engine ran or before the commit: the answer is
\* dropped and the opportunity fails.  A submission has by then rewritten the
\* evidence manifest; if that cannot be undone the turn ends in an error.
Late(spoiled) ==
  /\ lock # Free /\ ~clock.cancelled /\ ~Timely
  /\ spoiled => lock.act.type = "evidence"
  /\ lock' = [lock EXCEPT !.act = DeadlineFailure, !.spoiled = spoiled]
  /\ fault' = (fault \/ spoiled)
  /\ UNCHANGED <<record, active, main, clock, asleep>>

\* The case was cancelled, the engine call failed or was rejected, or evidence
\* could not be published: the turn, and with it the run, ends in the error.
CallFails ==
  LET t == active[lock.server] IN
  /\ lock # Free
  /\ active' = [active EXCEPT ![lock.server] = Completed(t, "err")]
  /\ lock' = Free
  /\ fault' = (fault \/ (~clock.cancelled /\ Accepts(state, TurnAuthority(t), lock.act)))
  /\ Ring({lock.server})
  /\ UNCHANGED <<record, main, clock>>

EngineCall ==
  \/ \E logged \in BOOLEAN : Commit(logged)
  \/ \E spoiled \in BOOLEAN : Late(spoiled)
  \/ CallFails

-----------------------------------------------------------------------------
(* Long polling (handleWait) and the clock.                                *)

\* waitResponseLocked, but for "changed": the case is over, the client's seat
\* has failed, or the client's turn is open and is not the one it has seen.
CaseOver == main.at = "done" \/ Terminal(state)

ReadyFor(c, seen) ==
  \/ CaseOver
  \/ c.role = "council" /\ state.council[c.member] = "failed"
  \/ LET sv == ServerOf(c.role) IN
     Open(sv) /\ Owner(active[sv].opp) = c /\ active[sv].opp # seen

Wait(c, seen) ==
  /\ lock = Free /\ ~Ended
  /\ ServerOf(c.role) \in APIs
  /\ ~ReadyFor(c, seen)
  /\ \A w \in asleep : w.client # c
  /\ asleep' = asleep \cup {[client |-> c, seen |-> seen]}
  /\ UNCHANGED <<record, active, lock, main, clock, fault>>

\* The request's own timeout, or its client, ends it.
StopWaiting ==
  /\ lock = Free
  /\ \E w \in asleep : asleep' = asleep \ {w}
  /\ UNCHANGED <<record, active, lock, main, clock, fault>>

DeadlinePasses ==
  /\ main.at \in {"wait", "timeout", "clear", "clear_err"} /\ ~clock.expired
  /\ clock' = [clock EXCEPT !.expired = TRUE]
  /\ UNCHANGED <<record, active, lock, main, fault, asleep>>

CaseCancelled ==
  /\ ~Ended /\ ~clock.cancelled
  /\ clock' = [clock EXCEPT !.cancelled = TRUE]
  /\ UNCHANGED <<record, active, lock, main, fault, asleep>>

Finished == Ended /\ lock = Free /\ UNCHANGED vars

Next ==
  \/ RunLoop \/ Requests \/ Provider \/ EngineCall
  \/ \E c \in Waiters, seen \in {NoOpportunity, main.authority.opp} : Wait(c, seen)
  \/ StopWaiting \/ DeadlinePasses \/ CaseCancelled \/ Finished

Spec == Init /\ [][Next]_vars

\* The process schedules its own goroutines, engine calls and provider calls
\* return within their timeouts, and time passes.  Nothing is assumed of clients.
FairSpec ==
  /\ Spec
  /\ WF_vars(RunLoop) /\ WF_vars(EngineCall) /\ WF_vars(Provider) /\ WF_vars(DeadlinePasses)

-----------------------------------------------------------------------------
\* Replaying the certificate from the initial state, as VerifyReplayCertificate
\* does, is accepted at every action and ends in the state it claims.
ReplayStep(r, e) ==
  [ok    |-> r.ok /\ Accepts(r.state, e.authority, e.action),
   state |-> IF r.ok /\ Accepts(r.state, e.authority, e.action)
             THEN Apply(r.state, e.action) ELSE r.state]
Replay == FoldLeft(ReplayStep, [ok |-> TRUE, state |-> InitialState], cert)

CertificateVerifies == Replay = [ok |-> TRUE, state |-> state]

\* Each turn is resolved once: a late answer, an exhausted attempt, a reported
\* exit and the timer never both count, and the loop goes on only when one did.
OneResolutionPerTurn ==
  LET resolved == Cardinality({i \in DOMAIN cert : cert[i].action.type # "evidence"}) IN
  /\ resolved <= main.turn
  /\ main.at \in {"next", "clear", "done"} => resolved = main.turn

\* A run that no fault hits and nobody cancels never fails: no order of client
\* requests, timers and run-loop steps leads it into an error.
OnlyFaultsEndRuns == main.at = "failed" => fault \/ clock.cancelled

\* No client sleeps in /wait past the moment its turn opens, its seat fails or
\* the case ends, also when a step of the other role API brought that about.
NoLostWakeup == main.at # "failed" => \A w \in asleep : ~ReadyFor(w.client, w.seen)

Added == cert'[Len(cert')]

\* After the deadline nothing but the deadline failure is committed, with the
\* council API it is committed only after the deadline, and once the case is
\* cancelled nothing is.
NothingCommittedLate ==
  [][ cert' # cert =>
      /\ ~clock.cancelled
      /\ clock.expired => Added.action = DeadlineFailure
      /\ Added.action = DeadlineFailure /\ main.backend = "council" => clock.expired ]_vars

\* An answer is recorded under the opportunity its request named, so a request
\* that is delayed or sent twice never answers a later opportunity.
AnswersOwnOpportunity ==
  [][ cert' # cert /\ lock.act.type # "fail" => lock.req = Added.authority.opp ]_vars

\* The runtime's state and certificate are a run of the engine's state machine:
\* every property of ArbCase holds of them.
Case == INSTANCE ArbCase WITH st <- state, log <- cert
ImplementsCase == Case!Spec

\* The run ends: with a result or with an error.
RunEnds == <>Ended
=============================================================================
