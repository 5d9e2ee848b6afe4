----------------------------- MODULE QuickCase -----------------------------
(***************************************************************************)
(* The quick procedure (quick/run.go, quick/lawyerapi.go, quick/council.go):*)
(* one argument by each lawyer through the case API, then one vote by each *)
(* council member, asked one after the other or all at once.               *)
(*                                                                         *)
(* The run goroutine, the HTTP handlers, the callbacks of the turn timer   *)
(* and of the cancelled context, and the council's requests interleave.    *)
(* A handler holds runner.mu from its first read to its last write, so it  *)
(* is one step.  Texts, prompts, documents and read-only tools are left    *)
(* out; a local error (a prompt, a document, a record) may come anywhere   *)
(* the code can return one.                                                *)
(***************************************************************************)
EXTENDS Naturals, Sequences, FiniteSets

CONSTANT Configs  \* the runs considered: cfg's fields, and who polls /wait

Lawyers == {"plaintiff", "defendant"}
Votes   == {"demonstrated", "not_demonstrated"}

Config == [CouncilSize : Nat \ {0}, RequiredVotes : Nat, InvalidAttemptLimit : Nat \ {0},
           ParallelCouncil : BOOLEAN, waiters : SUBSET Lawyers]

\* What validateConfigured requires.
ASSUME QuickAssumption ==
  /\ Configs # {} /\ Configs \subseteq Config
  /\ \A c \in Configs : /\ c.RequiredVotes \in 1 .. c.CouncilSize
                        /\ 2 * c.RequiredVotes > c.CouncilSize

VARIABLES
  main,       \* where the run goroutine is, and whether an error is on its way
  active,     \* runner.active: the open lawyer turn
  verdicts,   \* what was sent on each turn's done channel
  callbacks,  \* timer and cancellation callbacks: started, and run
  clock,      \* deadlines that have passed, and the context's cancellation
  transcript, \* runner.transcript
  written,    \* transcript.json
  council,    \* the run's config, the council requests and what came of them
  version,    \* runner.version
  terminal,   \* what the case API says of the end: none, done or failed
  waits,      \* the /wait request of each waiter
  fault       \* history: something went wrong that may end a run

vars == <<main, active, verdicts, callbacks, clock, transcript, written, council,
          version, terminal, waits, fault>>
courtVars == <<transcript, written, council>>

cfg     == council.config
Members == 1 .. cfg.CouncilSize
Waiters == cfg.waiters

NoTurn == [role |-> "none", completed |-> FALSE, attempts |-> 0]

\* The run goroutine's places: about to start a turn, waiting for its verdict,
\* about to call the council, hearing it, and three steps of ending.
Places == Lawyers \cup {"await", "convene", "council", "ending", "closing", "over"}

\* Outcomes of a council request: requestVote's vote, a councilMemberFailure
\* error, or any other error.
Outcomes == Votes \cup {"none", "failed", "error"}

Init ==
  /\ main = [at |-> "plaintiff", err |-> FALSE]
  /\ active = NoTurn
  /\ verdicts = [r \in Lawyers |-> <<>>]
  /\ callbacks = [started |-> {}, ran |-> {}]
  /\ clock = [turns |-> {}, members |-> {}, cancelled |-> FALSE]
  /\ transcript = [arguments |-> <<>>, votes |-> <<>>, failures |-> <<>>]
  /\ written = transcript
  /\ \E c \in Configs :
       /\ council = [config |-> c, outcome |-> [m \in 1 .. c.CouncilSize |-> "none"],
                     left |-> [m \in 1 .. c.CouncilSize |-> c.InvalidAttemptLimit],
                     collected |-> {}, tallied |-> 0, stopped |-> FALSE]
       /\ waits = [w \in c.waiters |-> [at |-> "idle", base |-> 0, after |-> "none"]]
  /\ version = 0
  /\ terminal = "none"
  /\ fault = FALSE

\* Mutant: the version moves without a broadcast.
Unannounced == version' = version + 1 /\ UNCHANGED waits

\* version++ and cond.Broadcast: every sleeper will look again.
Announce ==
  /\ version' = version + 1
  /\ waits' = [w \in Waiters |->
                 IF waits[w].at = "asleep" THEN [waits[w] EXCEPT !.at = "awake"] ELSE waits[w]]

-----------------------------------------------------------------------------
(* Lawyer turns.                                                           *)

\* Mutant: any open turn is taken for the caller's.
CompletesAny(role) == active # NoTurn /\ ~active.completed

\* completeLawyerTurnLocked does something: the turn is the active one and has
\* not been completed.
Completes(role) == active.role = role /\ ~active.completed

\* The verdict goes to the active turn's done channel, whose buffer holds one.
CompleteLawyerTurn(role, verdict) ==
  IF Completes(role)
  THEN /\ active' = [active EXCEPT !.completed = TRUE]
       /\ verdicts' = [verdicts EXCEPT ![active.role] = Append(@, verdict)]
       /\ Announce
  ELSE UNCHANGED <<active, verdicts, version, waits>>

Fail == main' = [at |-> "ending", err |-> TRUE]

\* runLawyerTurn up to its wait; logged says the turn's event was written.
StartTurn(role) ==
  /\ main.at = role
  /\ \E logged \in BOOLEAN :
       IF ~clock.cancelled /\ logged
       THEN /\ active' = [role |-> role, completed |-> FALSE, attempts |-> cfg.InvalidAttemptLimit]
            /\ main' = [main EXCEPT !.at = "await"]
            /\ Announce
            /\ UNCHANGED fault
       ELSE /\ Fail
            /\ fault' = TRUE
            /\ UNCHANGED <<active, version, waits>>
  /\ UNCHANGED <<verdicts, callbacks, clock, courtVars, terminal>>

\* The rest of runLawyerTurn and of execute's step: the verdict is received,
\* the callbacks are stopped unless they have started, the turn is cleared.
FinishTurn ==
  /\ main.at = "await"
  /\ verdicts[active.role] # <<>>
  /\ IF Head(verdicts[active.role]) = "ok"
     THEN main' = [main EXCEPT !.at = IF active.role = "plaintiff" THEN "defendant" ELSE "convene"]
     ELSE Fail
  /\ active' = NoTurn
  /\ Announce
  /\ UNCHANGED <<verdicts, callbacks, clock, courtVars, terminal, fault>>

\* The callbacks of time.AfterFunc and context.AfterFunc: once started they
\* outlive the turn they were set for.
CallbackStarts(kind) ==
  /\ main.at = "await"
  /\ IF kind = "timeout" THEN active.role \in clock.turns ELSE clock.cancelled
  /\ [kind |-> kind, role |-> active.role] \notin callbacks.started
  /\ callbacks' = [callbacks EXCEPT !.started = @ \cup {[kind |-> kind, role |-> active.role]}]
  /\ UNCHANGED <<main, active, verdicts, clock, courtVars, version, terminal, waits, fault>>

CallbackRuns(c) ==
  /\ c \in callbacks.started \ callbacks.ran
  /\ CompleteLawyerTurn(c.role, c.kind)
  /\ callbacks' = [callbacks EXCEPT !.ran = @ \cup {c}]
  /\ UNCHANGED <<main, clock, courtVars, terminal, fault>>

-----------------------------------------------------------------------------
(* The case API.  A request comes from a lawyer and names an opportunity,  *)
(* that is, the turn of a lawyer.                                          *)

Admitted(role, opp) ==
  /\ active # NoTurn /\ ~active.completed
  /\ role = active.role
  /\ opp = active.role

Late == active.role \in clock.turns

\* submitArgument with a valid payload: the transcript is written first and
\* rolled back when that fails; a failed event leaves it written.
Argue(role, io) ==
  LET heard == [transcript EXCEPT !.arguments = Append(@, role)] IN
  /\ IF io = "unwritten" THEN UNCHANGED <<transcript, written>>
                         ELSE transcript' = heard /\ written' = heard
  /\ CompleteLawyerTurn(role, IF io = "ok" THEN "ok" ELSE "record")
  /\ fault' = (fault \/ io # "ok")

\* A valid argument, an invalid one, or /fail.
LawyerRequest(role, opp, kind) ==
  /\ main.at # "over"
  /\ Admitted(role, opp)
  /\ CASE Late ->
            /\ CompleteLawyerTurn(role, "timeout")
            /\ UNCHANGED <<transcript, written, fault>>
       [] ~Late /\ kind = "valid" ->
            \E io \in {"ok", "unwritten", "unlogged"} : Argue(role, io)
       [] ~Late /\ kind = "invalid" /\ active.attempts > 1 ->
            /\ active' = [active EXCEPT !.attempts = @ - 1]
            /\ UNCHANGED <<verdicts, version, waits, transcript, written, fault>>
       [] ~Late /\ kind = "invalid" /\ active.attempts = 1 ->
            /\ active' = [active EXCEPT !.attempts = 0, !.completed = TRUE]
            /\ verdicts' = [verdicts EXCEPT ![role] = Append(@, "exhausted")]
            /\ Announce
            /\ fault' = TRUE
            /\ UNCHANGED <<transcript, written>>
       [] ~Late /\ kind = "fail" ->
            /\ CompleteLawyerTurn(role, "gave_up")
            /\ fault' = TRUE
            /\ UNCHANGED <<transcript, written>>
  /\ UNCHANGED <<main, callbacks, clock, council, terminal>>

\* handleWait's conditions for an answer.
Ready(w, base, after) ==
  \/ terminal # "none"
  \/ active.role = w /\ ~active.completed /\ after # w
  \/ version # base

\* A call that is not answered at once sleeps on the condition variable.
Wait(w, after) ==
  /\ main.at # "over"
  /\ waits[w].at = "idle"
  /\ ~Ready(w, version, after)
  /\ waits' = [waits EXCEPT ![w] = [at |-> "asleep", base |-> version, after |-> after]]
  /\ UNCHANGED <<main, active, verdicts, callbacks, clock, courtVars, version, terminal, fault>>

\* A woken call answers; the request's own timer or its client's leaving ends
\* one that sleeps.  Their broadcast wakes the other sleepers too, which find
\* nothing new and sleep again: a step that changes nothing.
WaitReturns(w) ==
  /\ \/ waits[w].at = "asleep"
     \/ waits[w].at = "awake" /\ Ready(w, waits[w].base, waits[w].after)
  /\ waits' = [waits EXCEPT ![w].at = "idle"]
  /\ UNCHANGED <<main, active, verdicts, callbacks, clock, courtVars, version, terminal, fault>>

-----------------------------------------------------------------------------
(* The council.                                                            *)

\* execute after the second argument.
Convene ==
  /\ main.at = "convene"
  /\ Announce
  /\ \E logged \in BOOLEAN :
       /\ IF logged THEN main' = [main EXCEPT !.at = "council"] ELSE Fail
       /\ fault' = (fault \/ ~logged)
  /\ UNCHANGED <<active, verdicts, callbacks, clock, courtVars, terminal>>

\* The member's request is in flight.
Asked(m) ==
  /\ main.at = "council"
  /\ council.outcome[m] = "none"
  /\ cfg.ParallelCouncil \/ m = council.tallied + 1

Stopped == clock.cancelled \/ council.stopped

\* requestVote at a response: the contexts come first, then the provider's
\* error, then the response itself.
Outcome(m, answer) ==
  CASE Stopped                           -> "error"
    [] ~Stopped /\ m \in clock.members   -> "failed"
    [] OTHER -> CASE answer = "refused"  -> "failed"
                  [] answer = "invalid"  -> IF council.left[m] > 1 THEN "none" ELSE "failed"
                  [] OTHER               -> answer

\* One response: a vote, one that parseVote rejects, a provider's error, or an
\* error of the procedure itself.
Answer(m, answer) ==
  /\ Asked(m)
  /\ council' = [council EXCEPT !.outcome[m] = Outcome(m, answer), !.left[m] = @ - 1]
  /\ fault' = (fault \/ (answer = "error" /\ m \notin clock.members))
  /\ UNCHANGED <<main, active, verdicts, callbacks, clock, transcript, written,
                 version, terminal, waits>>

\* Mutant: the loop stops collecting at the first procedure error.
CollectUntilError(m) ==
  /\ cfg.ParallelCouncil
  /\ main.at = "council"
  /\ council.outcome[m] # "none"
  /\ m \notin council.collected
  /\ ~council.stopped
  /\ council' = [council EXCEPT !.collected = @ \cup {m},
                                !.stopped = @ \/ council.outcome[m] = "error"]
  /\ UNCHANGED <<main, active, verdicts, callbacks, clock, transcript, written,
                 version, terminal, waits, fault>>

\* runCouncilParallel's collecting loop: the first procedure error cancels the
\* requests still in flight.
Collect(m) ==
  /\ cfg.ParallelCouncil
  /\ main.at = "council"
  /\ council.outcome[m] # "none"
  /\ m \notin council.collected
  /\ council' = [council EXCEPT !.collected = @ \cup {m},
                                !.stopped = @ \/ council.outcome[m] = "error"]
  /\ UNCHANGED <<main, active, verdicts, callbacks, clock, transcript, written,
                 version, terminal, waits, fault>>

\* The seat whose outcome is to be recorded next, in roster order.
Seat == council.tallied + 1

SeatReady ==
  /\ main.at = "council"
  /\ Seat \in Members
  /\ council.outcome[Seat] # "none"
  /\ cfg.ParallelCouncil => council.collected = Members

\* Mutant: an outcome is filed under the next seat.
EntryShifted(m) ==
  IF council.outcome[m] \in Votes
  THEN [transcript EXCEPT !.votes =
          Append(@, [member |-> (m % cfg.CouncilSize) + 1, vote |-> council.outcome[m]])]
  ELSE [transcript EXCEPT !.failures = Append(@, m)]

Entry(m) ==
  IF council.outcome[m] \in Votes
  THEN [transcript EXCEPT !.votes = Append(@, [member |-> m, vote |-> council.outcome[m]])]
  ELSE [transcript EXCEPT !.failures = Append(@, m)]

\* recordCouncilVote and recordCouncilFailure, under recordCouncilOutcome's
\* check of the context.
Record ==
  /\ SeatReady
  /\ council.outcome[Seat] # "error"
  /\ ~clock.cancelled
  /\ \E io \in {"ok", "unwritten", "unlogged"} :
       /\ IF io = "unwritten" THEN UNCHANGED <<transcript, written>>
                              ELSE transcript' = Entry(Seat) /\ written' = Entry(Seat)
       /\ council' = [council EXCEPT !.tallied = IF io = "unwritten" THEN @ ELSE @ + 1]
       /\ IF io = "ok" THEN UNCHANGED main ELSE Fail
       /\ fault' = (fault \/ io # "ok")
  /\ UNCHANGED <<active, verdicts, callbacks, clock, version, terminal, waits>>

\* Mutant: the skipped member's error is forgotten.
SkipSilently ==
  /\ SeatReady
  /\ council.outcome[Seat] = "error"
  /\ IF cfg.ParallelCouncil
     THEN /\ council' = [council EXCEPT !.tallied = @ + 1]
          /\ UNCHANGED main
     ELSE Fail /\ UNCHANGED council
  /\ UNCHANGED <<active, verdicts, callbacks, clock, transcript, written,
                 version, terminal, waits, fault>>

\* An error of the procedure ends a sequential council; a parallel one skips
\* the member and records the others.
Skip ==
  /\ SeatReady
  /\ council.outcome[Seat] = "error"
  /\ IF cfg.ParallelCouncil
     THEN /\ main' = [main EXCEPT !.err = TRUE]
          /\ council' = [council EXCEPT !.tallied = @ + 1]
     ELSE Fail /\ UNCHANGED council
  /\ UNCHANGED <<active, verdicts, callbacks, clock, transcript, written,
                 version, terminal, waits, fault>>

\* A cancelled context is seen before an outcome is recorded, and at the end.
Abandon ==
  /\ SeatReady \/ (main.at = "council" /\ council.tallied = cfg.CouncilSize)
  /\ clock.cancelled
  /\ Fail
  /\ UNCHANGED <<active, verdicts, callbacks, clock, courtVars, version, terminal, waits, fault>>

Adjourn ==
  /\ main.at = "council"
  /\ council.tallied = cfg.CouncilSize
  /\ ~clock.cancelled
  /\ main' = [main EXCEPT !.at = "ending"]
  /\ UNCHANGED <<active, verdicts, callbacks, clock, courtVars, version, terminal, waits, fault>>

-----------------------------------------------------------------------------
(* The end of the run.                                                     *)

Told(err) == IF err THEN "failed" ELSE "done"

\* The first setTerminal, before the API is closed.
End ==
  /\ main.at = "ending"
  /\ terminal' = Told(main.err)
  /\ main' = [main EXCEPT !.at = "closing"]
  /\ Announce
  /\ UNCHANGED <<active, verdicts, callbacks, clock, courtVars, fault>>

\* Close, recordTerminalEvent and the second setTerminal: an error of the API
\* or of the terminal event fails a run that had been told done.
Close ==
  /\ main.at = "closing"
  /\ \E clean \in BOOLEAN :
       LET err == main.err \/ ~clean IN
       /\ main' = [at |-> "over", err |-> err]
       /\ terminal' = Told(err)
       /\ fault' = (fault \/ ~clean)
  /\ Announce
  /\ UNCHANGED <<active, verdicts, callbacks, clock, courtVars>>

-----------------------------------------------------------------------------
(* Time and the caller's context.                                          *)

TurnDeadlinePasses ==
  /\ main.at = "await"
  /\ active.role \notin clock.turns
  /\ clock' = [clock EXCEPT !.turns = @ \cup {active.role}]
  /\ fault' = TRUE
  /\ UNCHANGED <<main, active, verdicts, callbacks, courtVars, version, terminal, waits>>

MemberDeadlinePasses(m) ==
  /\ Asked(m)
  /\ m \notin clock.members
  /\ clock' = [clock EXCEPT !.members = @ \cup {m}]
  /\ UNCHANGED <<main, active, verdicts, callbacks, courtVars, version, terminal, waits, fault>>

Cancel ==
  /\ main.at # "over"
  /\ ~clock.cancelled
  /\ clock' = [clock EXCEPT !.cancelled = TRUE]
  /\ fault' = TRUE
  /\ UNCHANGED <<main, active, verdicts, callbacks, courtVars, version, terminal, waits>>

Over == main.at = "over" /\ UNCHANGED vars

RunStep ==
  \/ \E r \in Lawyers : StartTurn(r)
  \/ FinishTurn \/ Convene \/ Record \/ Skip \/ Abandon \/ Adjourn \/ End \/ Close
  \/ \E m \in Members : Collect(m)

Callback ==
  \/ \E kind \in {"timeout", "cancelled"} : CallbackStarts(kind)
  \/ \E c \in callbacks.started : CallbackRuns(c)

Response ==
  \E m \in Members, answer \in Votes \cup {"invalid", "refused", "error"} : Answer(m, answer)

Client ==
  \/ \E role, opp \in Lawyers, kind \in {"valid", "invalid", "fail"} :
       LawyerRequest(role, opp, kind)
  \/ \E w \in Waiters : WaitReturns(w) \/ \E a \in Lawyers \cup {"none"} : Wait(w, a)

Next ==
  \/ RunStep \/ Callback \/ Response \/ Client
  \/ TurnDeadlinePasses \/ Cancel \/ Over
  \/ \E m \in Members : MemberDeadlinePasses(m)

Spec == Init /\ [][Next]_vars

\* The run goroutine and the callbacks are scheduled, deadlines pass, and a
\* request returns once its context's deadline has.  Nothing is assumed of the
\* lawyers or of the providers.
Fairness ==
  /\ WF_vars(RunStep)
  /\ WF_vars(Callback)
  /\ WF_vars(TurnDeadlinePasses)
  /\ \A m \in UNION {1 .. c.CouncilSize : c \in Configs} :
       /\ WF_vars(m \in Members /\ MemberDeadlinePasses(m))
       /\ WF_vars(m \in clock.members /\ Answer(m, "refused"))

FairSpec == Spec /\ Fairness

-----------------------------------------------------------------------------
Verdicts == {"ok", "timeout", "cancelled", "exhausted", "gave_up", "record"}

\* A turn gets one verdict, and one it has earned: whichever of a handler, the
\* timer and the cancelled context comes first settles it, the callbacks of the
\* plaintiff's turn never settle the defendant's, and an argument stands exactly
\* when it settled its own turn.  A second verdict would block on the full
\* channel with runner.mu held.
TurnsSettledOnce ==
  /\ main.at \in {"convene", "council"} => transcript.arguments = <<"plaintiff", "defendant">>
  /\ \A r \in Lawyers :
       LET heard == \E i \in DOMAIN transcript.arguments : transcript.arguments[i] = r IN
       /\ Len(verdicts[r]) <= 1
       /\ verdicts[r] = <<"timeout">> => r \in clock.turns
       /\ verdicts[r] = <<"cancelled">> => clock.cancelled
       /\ verdicts[r] = <<"ok">> => heard
       /\ heard => verdicts[r] \in {<<"ok">>, <<"record">>}

Increasing(s) == \A i, j \in DOMAIN s : i < j => s[i] < s[j]

\* The record, in transcript.json as in memory whatever write failed, holds
\* exactly the outcomes of the seats tallied so far, each once and in roster
\* order, however the answers arrived.
TalliedInOrder ==
  /\ written = transcript
  /\ Increasing([i \in DOMAIN transcript.votes |-> transcript.votes[i].member])
  /\ Increasing(transcript.failures)
  /\ {transcript.votes[i] : i \in DOMAIN transcript.votes} =
       {[member |-> m, vote |-> council.outcome[m]] :
          m \in {n \in 1 .. council.tallied : council.outcome[n] \in Votes}}
  /\ {transcript.failures[i] : i \in DOMAIN transcript.failures} =
       {m \in 1 .. council.tallied : council.outcome[m] = "failed"}

CountVotes(v) == Cardinality({i \in DOMAIN transcript.votes : transcript.votes[i].vote = v})

\* resolutionFor with councilComplete.
Resolution ==
  CASE Len(transcript.votes) + Len(transcript.failures) # cfg.CouncilSize -> ""
    [] OTHER -> CASE CountVotes("demonstrated") >= cfg.RequiredVotes     -> "demonstrated"
                  [] CountVotes("not_demonstrated") >= cfg.RequiredVotes -> "not_demonstrated"
                  [] OTHER                                               -> "no_majority"

\* What the lawyers are told of the end is so.  "done" is said only of a case in
\* which every seat has voted or failed after both arguments; and a member that
\* refuses, answers nonsense or runs out of time costs its vote and never the
\* run, which fails only by a fault of its own, of a lawyer, of the disk or of
\* its caller.
OutcomeIsSound ==
  /\ terminal = "done" => Resolution # "" /\ Len(transcript.arguments) = 2
  /\ terminal = "failed" => fault

\* A sleeping /wait has nothing to answer: no change was signalled past it.
NoLostWakeup ==
  \A w \in Waiters : waits[w].at = "asleep" => ~Ready(w, waits[w].base, waits[w].after)

\* Whatever the lawyers and the providers do or fail to do, the run ends.
RunEnds == <>(main.at = "over")
=============================================================================
