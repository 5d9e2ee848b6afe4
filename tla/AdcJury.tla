-------------------------------- MODULE AdcJury --------------------------------
(***************************************************************************)
(* The jury of an ADC trial: the part of adc/engine/ADC/Core.lean that     *)
(* calls, questions, challenges, swears and polls jurors.  One step takes  *)
(* the engine's current opportunity and either decides it, passes it or,   *)
(* for a juror's, has the runtime replace or remove the juror that failed  *)
(* (adc/runtime/runner/timeouts.go).  The phases between openings and      *)
(* charge touch no juror and are the one phase "trial".                    *)
(***************************************************************************)
EXTENDS Naturals, Sequences, FiniteSets, SequencesExt

CONSTANTS
  Policies,   \* the jury policies of the cases considered
  Damages     \* amounts a juror may award

Policy == [jurors : Nat, minimum : Nat, candidates : Nat, questions : Nat,
           disallowed : Nat, causes : Nat, strikes : Nat, rounds : Nat,
           skip : BOOLEAN,
           spares : Nat,  \* bound: candidates that fail and are replaced
           idle : Nat]    \* bound: accepted acts that leave their turn open

\* set_jury_configuration's checks; its lower limit, six, is no part of the
\* argument and small juries stand for large ones.
ASSUME PolicyAssumption ==
  /\ Policies \subseteq Policy
  /\ \A p \in Policies : 1 <= p.minimum /\ p.minimum <= p.jurors
ASSUME DamagesAssumption == Damages \subseteq Nat

Parties == {"plaintiff", "defendant"}
Phases  == {"none", "voir_dire", "trial", "deliberation", "post_verdict", "over"}
Status  == {"candidate", "sworn", "timed_out", "excused_for_cause",
            "struck_peremptory", "excused_after_voir_dire"}
NoVerdict == [for |-> "none", votes |-> 0, required |-> 0]

\* A juror's id is its place in the list: nextJurorNumber hands them out in order.
VARIABLE s
State ==
  [policy : Policies, phase : Phases, configured : BOOLEAN, issued : BOOLEAN,
   jurors : Seq(Status), responded : SUBSET Nat,
   exchanges : Seq([juror : Nat, by : Parties, answered : BOOLEAN,
                    ruling : {"pending", "allowed", "disallowed"}]),
   passes : SUBSET (Parties \X Nat),
   challenges : Seq([juror : Nat, by : Parties,
                     ruling : {"pending", "granted", "denied"}]),
   causePasses : SUBSET Parties,
   struck : SUBSET (Parties \X Nat),
   strikePasses : SUBSET Parties,
   round : Nat \ {0},
   votes : Seq([juror : Nat, round : Nat \ {0}, vote : Parties,
                damages : Damages \cup {0}]),
   verdict : [for : Parties \cup {"none"}, votes : Nat, required : Nat],
   hung : BOOLEAN,
   idle : Nat]   \* accepted acts so far that left their turn open

InitialState(p) ==
  [policy |-> p, phase |-> "none", configured |-> FALSE, issued |-> FALSE,
   jurors |-> <<>>, responded |-> {}, exchanges |-> <<>>, passes |-> {},
   challenges |-> <<>>, causePasses |-> {}, struck |-> {}, strikePasses |-> {},
   round |-> 1, votes |-> <<>>, verdict |-> NoVerdict, hung |-> FALSE,
   idle |-> 0]

-----------------------------------------------------------------------------
(* The panel.                                                              *)

With(status) == {j \in DOMAIN s.jurors : s.jurors[j] = status}
Candidates   == With("candidate")
Sworn        == With("sworn")
First(S)     == CHOOSE j \in S : \A i \in S : j <= i

MaxQuestions == IF s.policy.questions = 0 THEN 1 ELSE s.policy.questions

\* Enough candidates to survive every challenge and strike.
CandidateTarget ==
  LET needed == s.policy.jurors + 2 * s.policy.causes + 2 * s.policy.strikes
  IN IF ~s.configured \/ s.policy.candidates >= needed
       THEN s.policy.candidates ELSE needed
PanelReady   == Cardinality(Candidates) >= CandidateTarget
JuryEmpaneled == s.configured /\ Cardinality(Sworn) >= s.policy.jurors

Unanswered == {j \in Candidates : j \notin s.responded}

RulingsPending == {i \in DOMAIN s.exchanges :
  s.exchanges[i].ruling = "pending" /\ s.exchanges[i].juror \in Candidates}
AnswersPending == {i \in DOMAIN s.exchanges :
  /\ s.exchanges[i].ruling = "allowed" /\ ~s.exchanges[i].answered
  /\ s.exchanges[i].juror \in Candidates}
\* A challenge of a juror who has since left the panel is no longer pending.
ChallengesPending == {i \in DOMAIN s.challenges :
  s.challenges[i].ruling = "pending" /\ s.challenges[i].juror \in Candidates}

AnsweredFrom(party, j) == Cardinality({i \in DOMAIN s.exchanges :
  s.exchanges[i].juror = j /\ s.exchanges[i].by = party /\ s.exchanges[i].answered})
Disallowed(party) == Cardinality({i \in DOMAIN s.exchanges :
  s.exchanges[i].by = party /\ s.exchanges[i].ruling = "disallowed"})
Refused(party) == Disallowed(party) >= s.policy.disallowed

\* nextAvailableJurorNeedingQuestionFrom?
ToQuestion(party) == {j \in Candidates \cap s.responded :
  <<party, j>> \notin s.passes /\ AnsweredFrom(party, j) < MaxQuestions}

Finished(party, j) ==
  <<party, j>> \in s.passes \/ AnsweredFrom(party, j) >= MaxQuestions \/ Refused(party)
Ready(j) == j \in s.responded /\ \A p \in Parties : Finished(p, j)

ChallengedBy(party) == {s.challenges[i].juror : i \in
  {k \in DOMAIN s.challenges : s.challenges[k].by = party}}
CausesUsed(party) == Cardinality({i \in DOMAIN s.challenges : s.challenges[i].by = party})
StruckBy(party)    == {j \in DOMAIN s.jurors : <<party, j>> \in s.struck}

MayChallenge(party) ==
  /\ CausesUsed(party) < s.policy.causes /\ party \notin s.causePasses
  /\ Candidates \ ChallengedBy(party) # {}
MayStrike(party) ==
  /\ Cardinality(StruckBy(party)) < s.policy.strikes /\ party \notin s.strikePasses
  /\ Candidates \ StruckBy(party) # {}

-----------------------------------------------------------------------------
(* The verdict.                                                            *)

VotesIn(r) == {i \in DOMAIN s.votes : s.votes[i].round = r}
VotedIn(r) == {s.votes[i].juror : i \in VotesIn(r)}
ToVote     == Sworn \ VotedIn(s.round)

Required(sworn, minimum) == IF sworn < minimum THEN sworn ELSE minimum

\* Nobody changed vote or damages since the round before.
Stable(votes, r) ==
  LET In(k) == {i \in DOMAIN votes : votes[i].round = k} IN
  /\ r > 1
  /\ Cardinality(In(r)) = Cardinality(In(r - 1))
  /\ \A i \in In(r) : \E k \in In(r - 1) :
       /\ votes[k].juror = votes[i].juror
       /\ votes[k].vote = votes[i].vote /\ votes[k].damages = votes[i].damages

\* Everybody voted and no side has its verdict.
Split(t) ==
  IF t.round >= t.policy.rounds \/ Stable(t.votes, t.round)
    THEN [t EXCEPT !.hung = TRUE] ELSE [t EXCEPT !.round = @ + 1]

\* A verdict as soon as a side has its votes, the others still to vote.
DerivedEarly(t) ==
  LET sworn    == {j \in DOMAIN t.jurors : t.jurors[j] = "sworn"}
      cast     == {i \in DOMAIN t.votes : t.votes[i].round = t.round}
      Count(p) == Cardinality({i \in cast : t.votes[i].vote = p})
      required == Required(Cardinality(sworn), t.policy.minimum)
      carried  == {p \in Parties : Count(p) >= required}
  IN IF sworn = {} THEN [t EXCEPT !.hung = TRUE]
     ELSE IF carried # {}
       THEN [t EXCEPT !.verdict = LET p == CHOOSE p \in carried : TRUE
               IN [for |-> p, votes |-> Count(p), required |-> required]]
     ELSE IF \E j \in sworn : \A i \in cast : t.votes[i].juror # j THEN t
     ELSE Split(t)

\* deriveVerdictFromJurorVotes? and applyDerivedDeliberationOutcome on a state
\* that has just received a vote or lost a juror.
Derived(t) ==
  LET sworn     == {j \in DOMAIN t.jurors : t.jurors[j] = "sworn"}
      cast      == {i \in DOMAIN t.votes : t.votes[i].round = t.round}
      waiting   == {j \in sworn : \A i \in cast : t.votes[i].juror # j}
      Count(p)  == Cardinality({i \in cast : t.votes[i].vote = p})
      required  == Required(Cardinality(sworn), t.policy.minimum)
      Carried(p) == Count(p) >= required /\ \A q \in Parties \ {p} : Count(q) < required
  IN IF sworn = {} THEN [t EXCEPT !.hung = TRUE]
     ELSE IF waiting # {} THEN t
     ELSE IF \E p \in Parties : Carried(p)
       THEN [t EXCEPT !.verdict = LET p == CHOOSE p \in Parties : Carried(p)
               IN [for |-> p, votes |-> Count(p), required |-> required]]
     ELSE Split(t)

-----------------------------------------------------------------------------
(* Opportunities, in the order trialCandidates lists them: all have the    *)
(* same priority, so the first is the current one.                         *)

Turn(kind, role) == [kind |-> kind, role |-> role, on |-> 0]
About(kind, role, on) == [kind |-> kind, role |-> role, on |-> on]
NoTurn == Turn("none", "none")

Side(party) == IF party = "plaintiff" THEN 0 ELSE 1
When(condition, turn) == IF condition THEN {turn} ELSE {}

\* Everything open once the questionnaire is out, with its place in the order.
Listed ==
       {<<1, About("answer_questionnaire", "juror", j)>> : j \in Unanswered}
  \cup {<<2, About("rule_question", "judge", i)>> : i \in RulingsPending}
  \cup {<<3, About("decide_challenge", "judge", i)>> : i \in ChallengesPending}
  \cup {<<4, About("answer_question", "juror", i)>> : i \in AnswersPending}
  \cup (UNION {{<<5 + Side(p), About("question", p, j)>> : j \in ToQuestion(p)} :
                p \in {q \in Parties : ~Refused(q)}})
  \cup {<<7 + Side(p), Turn("challenge", p)>> : p \in {q \in Parties : MayChallenge(q)}}
  \cup {<<9 + Side(p), Turn("strike", p)>> : p \in {q \in Parties : MayStrike(q)}}
  \cup When(/\ \A j \in Candidates : Ready(j)
            /\ Cardinality(Candidates) >= s.policy.jurors,
            <<11, Turn("empanel", "judge")>>)

Before(a, b) == a[1] < b[1] \/ (a[1] = b[1] /\ a[2].on <= b[2].on)
SelectionTurn ==
  IF Listed = {} THEN NoTurn
  ELSE (CHOOSE a \in Listed : \A b \in Listed : Before(a, b))[2]

VoirDireTurn ==
  IF JuryEmpaneled THEN Turn("open_trial", "judge")
  ELSE IF s.policy.skip
    THEN IF PanelReady /\ Cardinality(Candidates) >= s.policy.jurors
           THEN Turn("empanel", "judge") ELSE NoTurn
  ELSE IF ~s.issued THEN Turn("issue_questionnaire", "judge")
  ELSE SelectionTurn

DeliberationTurn ==
  IF ToVote # {} THEN About("vote", "juror", First(ToVote))
  ELSE IF s.verdict # NoVerdict \/ s.hung THEN Turn("return", "judge") ELSE NoTurn

CurrentTurn ==
  CASE s.phase # "over" /\ ~s.configured -> Turn("configure", "clerk")
    [] s.configured /\ s.phase = "none" ->
         IF PanelReady THEN Turn("begin", "judge") ELSE Turn("fill_panel", "clerk")
    [] s.phase = "voir_dire"    -> VoirDireTurn
    [] s.phase = "trial"        -> Turn("deliberate", "judge")
    [] s.phase = "deliberation" -> DeliberationTurn
    [] s.phase = "post_verdict" -> Turn("close", "judge")
    [] OTHER -> NoTurn

-----------------------------------------------------------------------------
(* Steps, each on the current opportunity.                                 *)

Init == \E p \in Policies : s = InitialState(p)

\* An act that is accepted and leaves the same turn to be offered again.  The
\* engine sets no limit to these; autopilot.go ends the run after MaxTurns turns.
Idle == s.idle < s.policy.idle /\ s' = [s EXCEPT !.idle = @ + 1]

Configure(turn) == turn.kind = "configure" /\ s' = [s EXCEPT !.configured = TRUE]

\* clerk_panel_setup: one add_juror for each place left.
FillPanel(turn) ==
  /\ turn.kind = "fill_panel"
  /\ s' = [s EXCEPT !.jurors = @ \o
       [k \in 1 .. CandidateTarget - Cardinality(Candidates) |-> "candidate"]]

\* advance_trial_phase, whose own checks are those of the opportunity.
Advance(turn, kind, phase) == turn.kind = kind /\ s' = [s EXCEPT !.phase = phase]
AdvancePhase(turn) ==
  \/ Advance(turn, "begin", "voir_dire")
  \/ Advance(turn, "open_trial", "trial")
  \/ Advance(turn, "deliberate", "deliberation")
  \/ Advance(turn, "return", "post_verdict")
  \/ Advance(turn, "close", "over")

IssueQuestionnaire(turn) == turn.kind = "issue_questionnaire" /\ s' = [s EXCEPT !.issued = TRUE]

AnswerQuestionnaire(turn) ==
  /\ turn.kind = "answer_questionnaire"
  /\ s' = [s EXCEPT !.responded = @ \cup {turn.on}]

AskQuestion(turn) ==
  /\ turn.kind = "question"
  /\ s' = [s EXCEPT !.exchanges = Append(@,
       [juror |-> turn.on, by |-> turn.role, answered |-> FALSE, ruling |-> "pending"])]

PassQuestion(turn) ==
  /\ turn.kind = "question"
  /\ s' = [s EXCEPT !.passes = @ \cup {<<turn.role, turn.on>>}]

RuleOnQuestion(turn, allowed) ==
  /\ turn.kind = "rule_question"
  /\ s' = [s EXCEPT !.exchanges[turn.on].ruling = IF allowed THEN "allowed" ELSE "disallowed"]

\* A blank answer is recorded and the question stays unanswered.
AnswerQuestion(turn, blank) ==
  /\ turn.kind = "answer_question"
  /\ \/ blank /\ Idle
     \/ ~blank /\ s' = [s EXCEPT !.exchanges[turn.on].answered = TRUE]

\* import_case_file, which every turn of a party's also allows.
ImportFile(turn) == turn.kind \in {"question", "challenge", "strike"} /\ Idle

ChallengeForCause(turn, j) ==
  /\ turn.kind = "challenge"
  /\ Ready(j) /\ j \notin ChallengedBy(turn.role)
  /\ s' = [s EXCEPT !.challenges = Append(@,
       [juror |-> j, by |-> turn.role, ruling |-> "pending"])]

PassCause(turn) == turn.kind = "challenge" /\ s' = [s EXCEPT !.causePasses = @ \cup {turn.role}]

\* The ruling is recorded and the juror stays on the panel.
DecideChallengeKeepsJuror(turn, granted) ==
  /\ turn.kind = "decide_challenge"
  /\ s' = [s EXCEPT !.challenges[turn.on].ruling = IF granted THEN "granted" ELSE "denied"]

DecideChallenge(turn, granted) ==
  /\ turn.kind = "decide_challenge"
  /\ LET t == [s EXCEPT !.challenges[turn.on].ruling =
                 IF granted THEN "granted" ELSE "denied"]
     IN s' = IF granted
               THEN [t EXCEPT !.jurors[s.challenges[turn.on].juror] = "excused_for_cause"]
               ELSE t
Strike(turn, j) ==
  /\ turn.kind = "strike"
  /\ Ready(j)
  /\ s' = [s EXCEPT !.jurors[j] = "struck_peremptory",
                    !.struck = @ \cup {<<turn.role, j>>}]

PassStrike(turn) == turn.kind = "strike" /\ s' = [s EXCEPT !.strikePasses = @ \cup {turn.role}]

\* empanelSelectedJurors: the judge's choice, or with voir dire skipped a random one.
Empanel(turn, chosen) ==
  /\ turn.kind = "empanel"
  /\ Cardinality(chosen) = s.policy.jurors
  /\ s' = [s EXCEPT !.jurors = [j \in DOMAIN @ |->
       IF j \in chosen THEN "sworn"
       ELSE IF @[j] = "candidate" THEN "excused_after_voir_dire" ELSE @[j]]]

CastVote(turn, vote, damages) ==
  /\ turn.kind = "vote"
  /\ vote = "defendant" => damages = 0
  /\ s' = Derived([s EXCEPT !.votes = Append(@,
       [juror |-> turn.on, round |-> s.round, vote |-> vote, damages |-> damages])])

JurorOf(turn) == IF turn.kind = "answer_question" THEN s.exchanges[turn.on].juror ELSE turn.on

\* handleCandidateJurorTimeout: process_juror_timeout, then add_juror.
ReplaceCandidate(turn) ==
  /\ turn.kind = "answer_questionnaire" \/ turn.kind = "answer_question"
  /\ Cardinality(With("timed_out")) < s.policy.spares
  /\ s' = [s EXCEPT !.jurors = Append([@ EXCEPT ![JurorOf(turn)] = "timed_out"], "candidate")]

\* The round is left waiting for its last vote.
RemoveJurorOnly(turn) ==
  /\ turn.kind = "vote"
  /\ s' = [s EXCEPT !.jurors[turn.on] = "timed_out"]

\* handleDeliberatingJurorTimeout: process_juror_timeout settles the round anew.
RemoveJuror(turn) ==
  /\ turn.kind = "vote"
  /\ s' = Derived([s EXCEPT !.jurors[turn.on] = "timed_out"])

Resolve(turn) ==
  \/ Configure(turn) \/ FillPanel(turn) \/ AdvancePhase(turn)
  \/ IssueQuestionnaire(turn) \/ AnswerQuestionnaire(turn)
  \/ AskQuestion(turn) \/ PassQuestion(turn) \/ ImportFile(turn)
  \/ \E blank \in BOOLEAN : AnswerQuestion(turn, blank)
  \/ \E yes \in BOOLEAN : RuleOnQuestion(turn, yes) \/ DecideChallenge(turn, yes)
  \/ \E j \in Candidates : ChallengeForCause(turn, j) \/ Strike(turn, j)
  \/ PassCause(turn) \/ PassStrike(turn)
  \/ \E chosen \in SUBSET Candidates : Empanel(turn, chosen)
  \/ \E vote \in Parties, damages \in Damages \cup {0} : CastVote(turn, vote, damages)
  \/ ReplaceCandidate(turn) \/ RemoveJuror(turn)

Next == \E turn \in {CurrentTurn} : Resolve(turn)

\* The runtime takes the current opportunity to an end, turn after turn.
Spec == Init /\ [][Next]_s /\ WF_s(Next)

-----------------------------------------------------------------------------
(* Properties.                                                             *)

\* Whoever sits on the jury answered the questionnaire, was open to questions
\* by both parties, has no question or challenge left undecided, and was
\* neither excused for cause nor struck; and each party had used up or waived
\* its challenges before anyone was sworn.
JurySelectedFairly ==
  (JuryEmpaneled /\ s.phase = "voir_dire" /\ ~s.policy.skip) =>
    /\ Cardinality(Sworn) = s.policy.jurors /\ Candidates = {}
    /\ \A j \in Sworn :
         /\ j \in s.responded
         /\ \A p \in Parties : Finished(p, j) /\ <<p, j>> \notin s.struck
         /\ \A i \in DOMAIN s.exchanges : s.exchanges[i].juror = j =>
              /\ s.exchanges[i].ruling # "pending"
              /\ s.exchanges[i].ruling = "allowed" => s.exchanges[i].answered
         /\ \A i \in DOMAIN s.challenges :
              s.challenges[i].juror = j => s.challenges[i].ruling = "denied"
    /\ \A p \in Parties :
         /\ \/ p \in s.causePasses \/ CausesUsed(p) >= s.policy.causes
            \/ Sworn \subseteq ChallengedBy(p)
         /\ p \in s.strikePasses \/ Cardinality(StruckBy(p)) >= s.policy.strikes

VotersFor(r, p) == {s.votes[i].juror : i \in {k \in VotesIn(r) : s.votes[k].vote = p}}

Unchanged(r) == \A j \in Sworn : \E i \in VotesIn(r), k \in VotesIn(r - 1) :
  /\ s.votes[i].juror = j /\ s.votes[k].juror = j
  /\ s.votes[i].vote = s.votes[k].vote /\ s.votes[i].damages = s.votes[k].damages

\* The sides that have the votes required of the jurors who remain.
Carrying == {p \in Parties :
  Cardinality(VotersFor(s.round, p)) >= Required(Cardinality(Sworn), s.policy.minimum)}

\* A verdict rests on the last round alone: every juror still sworn voted in it,
\* it counts only their votes, one each, and its side alone has the votes
\* required.  A jury is hung only when nobody is left to deliberate, the rounds
\* are used up or no juror moved since the round before, and never while exactly
\* one side has the votes.
VerdictSound ==
  /\ s.verdict # NoVerdict =>
       /\ ~s.hung /\ VotedIn(s.round) = Sworn
       /\ Carrying = {s.verdict.for}
       /\ s.verdict.votes = Cardinality(VotersFor(s.round, s.verdict.for))
       /\ s.verdict.required = Required(Cardinality(Sworn), s.policy.minimum)
  /\ s.hung => Sworn = {} \/
       /\ VotedIn(s.round) = Sworn /\ Cardinality(Carrying) # 1
       /\ s.round >= s.policy.rounds \/ (s.round > 1 /\ Unchanged(s.round))

\* Jury selection and deliberation come to an end as long as blank answers and file
\* imports do (the bound idle; the engine has none, and the run is then broken off
\* after MaxTurns turns): the policy bounds everything else the parties, the judge
\* and the jurors do in them, and no juror's failure leaves either without an
\* opportunity (trialCandidates).  The stages between the two are taken to end
\* here; AdcCase shows where they may not.
TrialEnds == <>(s.phase = "over")
=============================================================================
