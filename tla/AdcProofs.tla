------------------------------- MODULE AdcProofs -------------------------------
(***************************************************************************)
(* Theorems about the Agent District Court.                                *)
(*                                                                         *)
(* AdcJury, for every jury policy set_jury_configuration accepts, every    *)
(* choice of the parties, the judge and the jurors, and any number of      *)
(* jurors that fail: a jury is one both sides could examine and challenge, *)
(* and a verdict rests on the last round's votes of those who remain.      *)
(*                                                                         *)
(* AdcRoleApi, the role API through which the external turns of a court    *)
(* are answered: for every agenda, limit of attempts and limit of turns.   *)
(*                                                                         *)
(* AdcCase, the case from the complaint to the judgment: for every case,   *)
(* every file, every limit on exhibits and motions, and every act or pass  *)
(* of whoever has the turn.                                                *)
(*                                                                         *)
(* The three modules share no name.                                        *)
(***************************************************************************)
EXTENDS AdcJury, AdcRoleApi, AdcCase, FiniteSetTheorems, SequenceTheorems,
        WellFoundedInduction, TLAPS

-----------------------------------------------------------------------------
(* The invariant.                                                          *)

\* The panel: nobody is sworn before the whole jury is, and a juror who was
\* struck or excused for cause is neither a candidate nor sworn again.
SelectionInv ==
  /\ s.phase # "none" => s.configured
  /\ s.phase = "none" => Sworn = {}
  /\ s.phase = "voir_dire" => Sworn = {} \/ JuryEmpaneled
  /\ \A p \in Parties, j \in Nat : <<p, j>> \in s.struck =>
       j \in DOMAIN s.jurors /\ s.jurors[j] \notin {"candidate", "sworn"}
  /\ \A i \in DOMAIN s.challenges :
       /\ s.challenges[i].juror \in DOMAIN s.jurors
       /\ s.challenges[i].ruling = "granted" =>
            s.jurors[s.challenges[i].juror] \notin {"candidate", "sworn"}

\* The poll: nobody votes before deliberation or ahead of the round, and the
\* voters of the round are different and still sworn.
PollInv ==
  /\ s.phase \in {"none", "voir_dire", "trial"} =>
       s.votes = <<>> /\ s.round = 1 /\ s.verdict = NoVerdict /\ ~s.hung
  /\ \A i \in DOMAIN s.votes : s.votes[i].round <= s.round
  /\ VotedIn(s.round) \subseteq Sworn
  /\ \A i, k \in VotesIn(s.round) : s.votes[i].juror = s.votes[k].juror => i = k

JuryInv == s \in State /\ SelectionInv /\ PollInv /\ JurySelectedFairly /\ VerdictSound

-----------------------------------------------------------------------------
(* What the state holds.                                                   *)

Exchange  == [juror : Nat, by : Parties, answered : BOOLEAN,
              ruling : {"pending", "allowed", "disallowed"}]
Challenge == [juror : Nat, by : Parties, ruling : {"pending", "granted", "denied"}]
Ballot    == [juror : Nat, round : Nat \ {0}, vote : Parties, damages : Damages \cup {0}]
Verdict   == [for : Parties \cup {"none"}, votes : Nat, required : Nat]

LEMMA Fields ==
  ASSUME NEW t \in State
  PROVE  /\ t.policy \in Policies /\ t.phase \in Phases
         /\ t.configured \in BOOLEAN /\ t.issued \in BOOLEAN
         /\ t.jurors \in Seq(Status) /\ t.responded \in SUBSET Nat
         /\ t.exchanges \in Seq(Exchange) /\ t.passes \in SUBSET (Parties \X Nat)
         /\ t.challenges \in Seq(Challenge) /\ t.causePasses \in SUBSET Parties
         /\ t.struck \in SUBSET (Parties \X Nat) /\ t.strikePasses \in SUBSET Parties
         /\ t.round \in Nat \ {0} /\ t.votes \in Seq(Ballot)
         /\ t.verdict \in Verdict /\ t.hung \in BOOLEAN
         /\ t.idle \in Nat
BY DEF State, Exchange, Challenge, Ballot, Verdict

LEMMA PolicyFacts ==
  ASSUME NEW t \in State
  PROVE  /\ t.policy.jurors \in Nat /\ t.policy.minimum \in Nat
         /\ 1 <= t.policy.minimum /\ t.policy.minimum <= t.policy.jurors
         /\ t.policy.causes \in Nat /\ t.policy.strikes \in Nat
         /\ t.policy.candidates \in Nat /\ t.policy.rounds \in Nat
<1>1. t.policy \in Policies /\ t.policy \in Policy
  BY Fields, PolicyAssumption
<1>2. 1 <= t.policy.minimum /\ t.policy.minimum <= t.policy.jurors
  BY <1>1, PolicyAssumption
<1> QED
  BY <1>1, <1>2 DEF Policy

\* Panels are finite and their members are numbers.
LEMMA PanelFacts ==
  ASSUME s \in State
  PROVE  /\ \A status : /\ With(status) \subseteq DOMAIN s.jurors
                        /\ With(status) \subseteq Nat
                        /\ IsFiniteSet(With(status))
                        /\ Cardinality(With(status)) \in Nat
         /\ DOMAIN s.jurors = 1 .. Len(s.jurors) /\ Len(s.jurors) \in Nat
<1>1. DOMAIN s.jurors = 1 .. Len(s.jurors) /\ Len(s.jurors) \in Nat
  BY Fields
<1>2. IsFiniteSet(1 .. Len(s.jurors))
  BY <1>1, FS_Interval
<1>3. ASSUME NEW status
      PROVE  /\ With(status) \subseteq DOMAIN s.jurors
             /\ With(status) \subseteq Nat
             /\ IsFiniteSet(With(status))
             /\ Cardinality(With(status)) \in Nat
  <2>1. With(status) \in SUBSET (1 .. Len(s.jurors))
    BY <1>1 DEF With
  <2>2. IsFiniteSet(With(status))
    BY <1>2, <2>1, FS_Subset
  <2> QED
    BY <1>1, <2>1, <2>2, FS_CardinalityType
<1> QED
  BY <1>1, <1>3

LEMMA LeastNumber ==
  ASSUME NEW S \in SUBSET Nat, S # {}
  PROVE  \E x \in S : \A y \in S : x <= y
<1>1. PICK x \in S : \A y \in S : ~ (<<y, x>> \in OpToRel(<, Nat))
  BY NatLessThanWellFounded, WFMin
<1>2. \A y \in S : ~ (y < x)
  BY <1>1 DEF OpToRel
<1> QED
  BY <1>2

LEMMA FirstIsOne ==
  ASSUME NEW S \in SUBSET Nat, S # {}
  PROVE  First(S) \in S
BY LeastNumber DEF First

-----------------------------------------------------------------------------
(* The current opportunity.                                                *)

LEMMA TurnFields ==
  ASSUME NEW kind, NEW role, NEW on
  PROVE  /\ About(kind, role, on).kind = kind /\ About(kind, role, on).role = role
         /\ About(kind, role, on).on = on
         /\ Turn(kind, role).kind = kind /\ Turn(kind, role).role = role
         /\ Turn(kind, role).on = 0
BY DEF About, Turn

LEMMA Places ==
  ASSUME s \in State, NEW a \in Listed
  PROVE  /\ a[1] \in Nat /\ a[2].on \in Nat /\ a[1] <= 11
         /\ a[2].kind = "answer_questionnaire" => a[2].on \in Unanswered
         /\ a[2].kind = "rule_question" => a[2].on \in RulingsPending
         /\ a[2].kind = "decide_challenge" => a[2].on \in ChallengesPending
         /\ a[2].kind = "answer_question" => a[2].on \in AnswersPending
         /\ a[2].kind \in {"question", "challenge", "strike"} => a[2].role \in Parties
         /\ a[2].kind = "question" => a[2].on \in Candidates
         /\ a[2].kind = "empanel" <=> a[1] = 11
         /\ a[2].kind = "empanel" =>
              /\ \A j \in Candidates : Ready(j)
              /\ Cardinality(Candidates) >= s.policy.jurors
         /\ a[2].kind \notin {"vote", "fill_panel", "begin", "open_trial", "deliberate",
                              "return", "close", "configure", "issue_questionnaire", "none"}
<1>1. /\ Candidates \subseteq Nat /\ DOMAIN s.exchanges \subseteq Nat
      /\ DOMAIN s.challenges \subseteq Nat
  BY Fields, PanelFacts DEF Candidates
<1>2. CASE \E j \in Unanswered : a = <<1, About("answer_questionnaire", "juror", j)>>
  <2>1. PICK j \in Unanswered : a = <<1, About("answer_questionnaire", "juror", j)>>
    BY <1>2
  <2>2. a[1] = 1 /\ a[2].kind = "answer_questionnaire" /\ a[2].on = j
    BY <2>1, TurnFields
  <2>3. j \in Nat
    BY <1>1 DEF Unanswered
  <2> QED
    BY <2>2, <2>3
<1>3. CASE \E i \in RulingsPending : a = <<2, About("rule_question", "judge", i)>>
  <2>1. PICK i \in RulingsPending : a = <<2, About("rule_question", "judge", i)>>
    BY <1>3
  <2>2. a[1] = 2 /\ a[2].kind = "rule_question" /\ a[2].on = i
    BY <2>1, TurnFields
  <2>3. i \in Nat
    BY <1>1 DEF RulingsPending
  <2> QED
    BY <2>2, <2>3
<1>4. CASE \E i \in ChallengesPending : a = <<3, About("decide_challenge", "judge", i)>>
  <2>1. PICK i \in ChallengesPending : a = <<3, About("decide_challenge", "judge", i)>>
    BY <1>4
  <2>2. a[1] = 3 /\ a[2].kind = "decide_challenge" /\ a[2].on = i
    BY <2>1, TurnFields
  <2>3. i \in Nat
    BY <1>1 DEF ChallengesPending
  <2> QED
    BY <2>2, <2>3
<1>5. CASE \E i \in AnswersPending : a = <<4, About("answer_question", "juror", i)>>
  <2>1. PICK i \in AnswersPending : a = <<4, About("answer_question", "juror", i)>>
    BY <1>5
  <2>2. a[1] = 4 /\ a[2].kind = "answer_question" /\ a[2].on = i
    BY <2>1, TurnFields
  <2>3. i \in Nat
    BY <1>1 DEF AnswersPending
  <2> QED
    BY <2>2, <2>3
<1>6. CASE \E p \in Parties : \E j \in ToQuestion(p) : a = <<5 + Side(p), About("question", p, j)>>
  <2>1. PICK p \in Parties : \E j \in ToQuestion(p) : a = <<5 + Side(p), About("question", p, j)>>
    BY <1>6
  <2>2. PICK j \in ToQuestion(p) : a = <<5 + Side(p), About("question", p, j)>>
    BY <2>1
  <2>3. a[1] \in {5, 6} /\ a[2].kind = "question" /\ a[2].role = p /\ a[2].on = j
    BY <2>2, TurnFields DEF Side
  <2>4. j \in Candidates /\ j \in Nat
    BY <1>1 DEF ToQuestion
  <2> QED
    BY <2>3, <2>4
<1>7. CASE \E p \in Parties : a = <<7 + Side(p), Turn("challenge", p)>>
  <2>1. PICK p \in Parties : a = <<7 + Side(p), Turn("challenge", p)>>
    BY <1>7
  <2>2. a[1] \in {7, 8} /\ a[2].kind = "challenge" /\ a[2].role = p /\ a[2].on = 0
    BY <2>1, TurnFields DEF Side
  <2> QED
    BY <2>2
<1>8. CASE \E p \in Parties : a = <<9 + Side(p), Turn("strike", p)>>
  <2>1. PICK p \in Parties : a = <<9 + Side(p), Turn("strike", p)>>
    BY <1>8
  <2>2. a[1] \in {9, 10} /\ a[2].kind = "strike" /\ a[2].role = p /\ a[2].on = 0
    BY <2>1, TurnFields DEF Side
  <2> QED
    BY <2>2
<1>9. CASE /\ a = <<11, Turn("empanel", "judge")>>
           /\ \A j \in Candidates : Ready(j)
           /\ Cardinality(Candidates) >= s.policy.jurors
  BY <1>9, TurnFields
<1> DEFINE A1 == {<<1, About("answer_questionnaire", "juror", j)>> : j \in Unanswered}
           A2 == {<<2, About("rule_question", "judge", i)>> : i \in RulingsPending}
           A3 == {<<3, About("decide_challenge", "judge", i)>> : i \in ChallengesPending}
           A4 == {<<4, About("answer_question", "juror", i)>> : i \in AnswersPending}
           A5 == UNION {{<<5 + Side(p), About("question", p, j)>> : j \in ToQuestion(p)} :
                         p \in {q \in Parties : ~Refused(q)}}
           A6 == {<<7 + Side(p), Turn("challenge", p)>> : p \in {q \in Parties : MayChallenge(q)}}
           A7 == {<<9 + Side(p), Turn("strike", p)>> : p \in {q \in Parties : MayStrike(q)}}
           last == /\ \A j \in Candidates : Ready(j)
                   /\ Cardinality(Candidates) >= s.policy.jurors
           A8 == When(last, <<11, Turn("empanel", "judge")>>)
<1>10. Listed = A1 \cup A2 \cup A3 \cup A4 \cup A5 \cup A6 \cup A7 \cup A8
  BY DEF Listed
<1>11. a \in A8 => a = <<11, Turn("empanel", "judge")>> /\ last
  <2> HIDE DEF last
  <2> QED
    BY DEF When
<1>12. a \in A5 => \E p \in Parties : \E j \in ToQuestion(p) :
         a = <<5 + Side(p), About("question", p, j)>>
  OBVIOUS
<1> HIDE DEF A5, A8
<1>13. a \in A1 \/ a \in A2 \/ a \in A3 \/ a \in A4 \/ a \in A5 \/ a \in A6 \/ a \in A7 \/ a \in A8
  <2> HIDE DEF A1, A2, A3, A4, A6, A7
  <2> QED
    BY <1>10
<1> QED
  BY <1>2, <1>3, <1>4, <1>5, <1>6, <1>7, <1>8, <1>9, <1>11, <1>12, <1>13

\* There is a first among what is listed, and it is what is offered.
LEMMA SelectionOffered ==
  ASSUME s \in State, Listed # {}
  PROVE  \E a \in Listed : SelectionTurn = a[2] /\ \A b \in Listed : a[1] <= b[1]
<1> DEFINE N == {a[1] : a \in Listed}
<1>1. N \in SUBSET Nat /\ N # {}
  BY Places
<1>2. PICK n \in N : \A m \in N : n <= m
  BY <1>1, LeastNumber
<1> DEFINE On == {a[2].on : a \in {b \in Listed : b[1] = n}}
<1>3. On \in SUBSET Nat /\ On # {}
  BY <1>2, Places
<1>4. PICK o \in On : \A x \in On : o <= x
  BY <1>3, LeastNumber
<1>5. PICK a \in Listed : a[1] = n /\ a[2].on = o
  BY <1>4
<1>6. \A b \in Listed : a[1] <= b[1] /\ (b[1] = a[1] => a[2].on <= b[2].on)
  BY <1>2, <1>4, <1>5
<1>7. \A b \in Listed : a[1] \in Nat /\ b[1] \in Nat
  BY Places
<1>8. \A b \in Listed : Before(a, b)
  BY <1>6, <1>7 DEF Before
<1> DEFINE c == CHOOSE x \in Listed : \A b \in Listed : Before(x, b)
<1>9. c \in Listed /\ \A b \in Listed : Before(c, b)
  BY <1>8
<1>10. \A b \in Listed : c[1] \in Nat /\ b[1] \in Nat
  BY <1>9, Places
<1>11. \A b \in Listed : c[1] <= b[1]
  BY <1>9, <1>10 DEF Before
<1>12. SelectionTurn = c[2]
  BY DEF SelectionTurn
<1> QED
  BY <1>9, <1>11, <1>12

\* What the kind of the current opportunity says of where the case is.
Listings == {"answer_questionnaire", "rule_question", "decide_challenge", "answer_question",
             "question", "challenge", "strike"}

LEMMA TurnOfPhase ==
  ASSUME s \in State, s.phase # "none" => s.configured
  PROVE
  \/ s.phase # "over" /\ ~s.configured /\ CurrentTurn = Turn("configure", "clerk")
  \/ /\ s.configured \/ s.phase = "over"
     /\ \/ /\ s.configured /\ s.phase = "none"
           /\ CurrentTurn = IF PanelReady THEN Turn("begin", "judge")
                            ELSE Turn("fill_panel", "clerk")
        \/ s.phase = "voir_dire" /\ CurrentTurn = VoirDireTurn
        \/ s.phase = "trial" /\ CurrentTurn = Turn("deliberate", "judge")
        \/ s.phase = "deliberation" /\ CurrentTurn = DeliberationTurn
        \/ s.phase = "post_verdict" /\ CurrentTurn = Turn("close", "judge")
        \/ CurrentTurn = NoTurn
<1>1. s.configured \in BOOLEAN /\ s.phase \in Phases
  BY Fields
<1>2. CASE s.phase # "over" /\ ~s.configured
  <2>1. s.phase = "none"
    BY <1>2
  <2>2. CurrentTurn = Turn("configure", "clerk")
    BY <1>2, <2>1 DEF CurrentTurn
  <2> QED
    BY <1>2, <2>2
<1>3. CASE s.configured /\ s.phase = "none"
  BY <1>3 DEF CurrentTurn
<1>4. CASE s.phase = "over"
  BY <1>4 DEF CurrentTurn
<1>5. CASE s.configured /\ s.phase \in {"voir_dire", "trial", "deliberation", "post_verdict"}
  BY <1>5 DEF CurrentTurn
<1> QED
  BY <1>1, <1>2, <1>3, <1>4, <1>5 DEF Phases

LEMMA VoirDireKinds ==
  ASSUME s \in State
  PROVE  \/ JuryEmpaneled /\ VoirDireTurn.kind = "open_trial"
         \/ /\ ~JuryEmpaneled /\ s.policy.skip /\ Cardinality(Candidates) >= s.policy.jurors
            /\ VoirDireTurn.kind = "empanel"
         \/ ~JuryEmpaneled /\ ~s.policy.skip /\ VoirDireTurn.kind = "issue_questionnaire"
         \/ VoirDireTurn.kind = "none"
         \/ /\ ~JuryEmpaneled /\ ~s.policy.skip
            /\ \E a \in Listed : VoirDireTurn = a[2] /\ \A b \in Listed : a[1] <= b[1]
<1>1. Turn("open_trial", "judge").kind = "open_trial" /\ Turn("empanel", "judge").kind = "empanel"
      /\ Turn("issue_questionnaire", "judge").kind = "issue_questionnaire" /\ NoTurn.kind = "none"
  BY DEF Turn, NoTurn
<1>2. Listed = {} => SelectionTurn = NoTurn
  BY DEF SelectionTurn
<1>3. CASE JuryEmpaneled
  BY <1>1, <1>3 DEF VoirDireTurn
<1>4. CASE ~JuryEmpaneled /\ s.policy.skip
  BY <1>1, <1>4 DEF VoirDireTurn
<1>5. CASE ~JuryEmpaneled /\ ~s.policy.skip
  <2>1. VoirDireTurn = Turn("issue_questionnaire", "judge") \/ VoirDireTurn = SelectionTurn
    BY <1>5 DEF VoirDireTurn
  <2> QED
    BY <1>1, <1>2, <1>5, <2>1, SelectionOffered
<1> QED
  BY <1>3, <1>4, <1>5

LEMMA DeliberationKinds ==
  ASSUME s \in State
  PROVE  \/ /\ DeliberationTurn.kind = "vote" /\ DeliberationTurn.on \in ToVote
         \/ DeliberationTurn.kind \in {"return", "none"}
<1>1. ToVote \in SUBSET Nat
  BY PanelFacts DEF ToVote, Sworn
<1>2. CASE ToVote # {}
  <2>1. First(ToVote) \in ToVote
    BY <1>1, <1>2, FirstIsOne
  <2> QED
    BY <1>2, <2>1 DEF DeliberationTurn, About
<1>3. CASE ToVote = {}
  BY <1>3 DEF DeliberationTurn, Turn, NoTurn
<1> QED
  BY <1>2, <1>3

LEMMA TurnKinds ==
  ASSUME s \in State, s.phase # "none" => s.configured, NEW opp, opp = CurrentTurn
  PROVE  /\ opp.kind = "configure" => s.phase # "over" /\ ~s.configured
         /\ opp.kind = "fill_panel" => s.configured /\ s.phase = "none" /\ ~PanelReady
         /\ opp.kind = "begin" => s.configured /\ s.phase = "none"
         /\ opp.kind = "open_trial" => s.phase = "voir_dire" /\ JuryEmpaneled
         /\ opp.kind = "deliberate" => s.phase = "trial"
         /\ opp.kind = "return" => s.phase = "deliberation"
         /\ opp.kind = "close" => s.phase = "post_verdict"
         /\ opp.kind = "vote" => s.phase = "deliberation" /\ opp.on \in ToVote
         /\ opp.kind = "issue_questionnaire" =>
              s.phase = "voir_dire" /\ ~JuryEmpaneled /\ ~s.policy.skip
         /\ opp.kind \in Listings =>
              /\ s.phase = "voir_dire" /\ ~JuryEmpaneled /\ ~s.policy.skip
              /\ \E a \in Listed : opp = a[2]
         /\ opp.kind = "empanel" =>
              /\ s.phase = "voir_dire" /\ ~JuryEmpaneled
              /\ Cardinality(Candidates) >= s.policy.jurors
              /\ \/ s.policy.skip
                 \/ /\ \A j \in Candidates : Ready(j)
                    /\ \A b \in Listed : b[2].kind = "empanel"
<1>1. /\ \A kind, role : Turn(kind, role).kind = kind
      /\ NoTurn.kind = "none"
  BY TurnFields DEF NoTurn
<1>2. CASE opp = NoTurn
  BY <1>1, <1>2 DEF Listings
<1>5. CASE s.phase = "none" /\ ~s.configured /\ opp = Turn("configure", "clerk")
  BY <1>1, <1>5 DEF Listings
<1>6. CASE /\ s.configured /\ s.phase = "none"
           /\ opp = IF PanelReady THEN Turn("begin", "judge") ELSE Turn("fill_panel", "clerk")
  BY <1>1, <1>6 DEF Listings
<1>7. CASE s.phase = "trial" /\ opp = Turn("deliberate", "judge")
  BY <1>1, <1>7 DEF Listings
<1>8. CASE s.phase = "post_verdict" /\ opp = Turn("close", "judge")
  BY <1>1, <1>8 DEF Listings
<1>3. CASE s.phase = "voir_dire" /\ opp = VoirDireTurn
  <2>1. CASE opp.kind \in {"open_trial", "issue_questionnaire", "none"}
    BY <1>3, <2>1, VoirDireKinds, Places DEF Listings
  <2>2. CASE /\ ~JuryEmpaneled /\ s.policy.skip /\ opp.kind = "empanel"
             /\ Cardinality(Candidates) >= s.policy.jurors
    BY <1>3, <2>2 DEF Listings
  <2>3. ASSUME ~JuryEmpaneled, ~s.policy.skip,
               NEW a \in Listed, opp = a[2], \A b \in Listed : a[1] <= b[1]
        PROVE  /\ opp.kind \in Listings => \E b \in Listed : opp = b[2]
               /\ opp.kind = "empanel" =>
                    /\ Cardinality(Candidates) >= s.policy.jurors
                    /\ \A j \in Candidates : Ready(j)
                    /\ \A b \in Listed : b[2].kind = "empanel"
               /\ opp.kind \notin {"vote", "fill_panel", "begin", "open_trial", "deliberate",
                              "return", "close", "configure", "issue_questionnaire", "none"}
    <3>1. \A b \in Listed : a[1] = 11 => b[1] = 11
      BY <2>3, Places
    <3> QED
      BY <2>3, <3>1, Places
  <2>4. CASE /\ ~JuryEmpaneled /\ ~s.policy.skip
             /\ \E a \in Listed : opp = a[2] /\ \A b \in Listed : a[1] <= b[1]
    BY <1>3, <2>3, <2>4
  <2> QED
    BY <1>3, <2>1, <2>2, <2>4, VoirDireKinds
<1>4. CASE s.phase = "deliberation" /\ opp = DeliberationTurn
  BY <1>4, DeliberationKinds DEF Listings
<1> QED
  BY <1>2, <1>3, <1>4, <1>5, <1>6, <1>7, <1>8, TurnOfPhase

-----------------------------------------------------------------------------
(* What leaves the invariant's parts alone.                                *)

LEMMA NobodySworn ==
  ASSUME JuryInv, s.phase = "voir_dire", ~JuryEmpaneled
  PROVE  Sworn = {}
BY DEF JuryInv, SelectionInv

\* Nothing is asked of a jury that is not there.
LEMMA NoJuryYet ==
  ASSUME s' \in State, s'.phase # "voir_dire" \/ Sworn' = {}
  PROVE  JurySelectedFairly'
<1>1. s'.policy.jurors \in Nat /\ 1 <= s'.policy.jurors
  <2>1. s'.policy \in Policies
    BY DEF State
  <2>2. s'.policy \in Policy
    BY <2>1, PolicyAssumption
  <2>3. s'.policy.jurors \in Nat /\ s'.policy.minimum \in Nat
    BY <2>2 DEF Policy
  <2>4. 1 <= s'.policy.minimum /\ s'.policy.minimum <= s'.policy.jurors
    BY <2>1, PolicyAssumption
  <2> QED
    BY <2>3, <2>4
<1>2. Sworn' = {} => ~JuryEmpaneled'
  <2>1. Cardinality({}) = 0
    BY FS_EmptySet
  <2>2. JuryEmpaneled' => Cardinality(Sworn') >= s'.policy.jurors
    BY DEF JuryEmpaneled
  <2> QED
    BY <1>1, <2>1, <2>2
<1> QED
  BY <1>2 DEF JurySelectedFairly

LEMMA NoPollYet ==
  ASSUME s'.votes = <<>>, s'.round = 1, s'.verdict = NoVerdict, ~s'.hung
  PROVE  PollInv' /\ VerdictSound'
<1>1. VotesIn(s.round)' = {} /\ VotedIn(s.round)' = {}
  BY DEF VotesIn, VotedIn
<1>2. PollInv'
  BY <1>1 DEF PollInv, VotesIn, VotedIn
<1> QED
  BY <1>2 DEF VerdictSound

LEMMA PollStays ==
  ASSUME JuryInv, s'.policy = s.policy, s'.jurors = s.jurors, s'.votes = s.votes,
         s'.round = s.round, s'.verdict = s.verdict, s'.hung = s.hung,
         s'.phase \in {"none", "voir_dire", "trial"} =>
           s.phase \in {"none", "voir_dire", "trial"}
  PROVE  PollInv' /\ VerdictSound'
<1>1. Sworn' = Sworn
  BY DEF Sworn, With
<1>2. \A r : VotesIn(r)' = VotesIn(r) /\ VotedIn(r)' = VotedIn(r)
  BY DEF VotesIn, VotedIn
<1>3. \A r, p : VotersFor(r, p)' = VotersFor(r, p)
  BY DEF VotersFor, VotesIn
<1>4. Carrying' = Carrying
  BY <1>1, <1>3 DEF Carrying, Required
<1>5. \A r : Unchanged(r)' <=> Unchanged(r)
  BY <1>1, <1>2 DEF Unchanged
<1>6. PollInv'
  BY <1>1, <1>2 DEF JuryInv, PollInv
<1>7. VerdictSound'
  BY <1>1, <1>2, <1>3, <1>4, <1>5 DEF JuryInv, VerdictSound, Required
<1> QED
  BY <1>6, <1>7

\* Steps that touch neither the panel nor the challenges made of it.
LEMMA PanelStays ==
  ASSUME JuryInv, s' \in State,
         s'.policy = s.policy, s'.jurors = s.jurors, s'.struck = s.struck,
         s'.challenges = s.challenges, s'.votes = s.votes, s'.round = s.round,
         s'.verdict = s.verdict, s'.hung = s.hung,
         s'.configured = s.configured \/ s'.configured,
         \/ s'.phase = s.phase /\ (s.phase = "voir_dire" => ~JuryEmpaneled)
         \/ /\ s'.phase = "voir_dire" /\ s.phase = "none" /\ s.configured
         \/ s'.phase = "trial" /\ s.phase = "voir_dire"
         \/ /\ s'.phase \in {"deliberation", "post_verdict", "over"}
            /\ s.phase \in {"trial", "deliberation", "post_verdict"}
  PROVE  JuryInv'
<1>1. PollInv' /\ VerdictSound'
  BY PollStays
<1>2. Sworn' = Sworn
  BY DEF Sworn, With
<1>3. s'.phase = "voir_dire" => Sworn' = {}
  <2>1. s.phase = "none" => Sworn = {}
    BY DEF JuryInv, SelectionInv
  <2> QED
    BY <1>2, <2>1, NobodySworn
<1>4. JurySelectedFairly'
  BY <1>3, NoJuryYet
<1>5. SelectionInv'
  <2>1. s'.phase # "none" => s'.configured
    BY DEF JuryInv, SelectionInv
  <2>2. s'.phase = "none" => Sworn' = {}
    BY <1>2 DEF JuryInv, SelectionInv
  <2>3. /\ \A p \in Parties, j \in Nat : <<p, j>> \in s'.struck =>
             j \in DOMAIN s'.jurors /\ s'.jurors[j] \notin {"candidate", "sworn"}
        /\ \A i \in DOMAIN s'.challenges :
             /\ s'.challenges[i].juror \in DOMAIN s'.jurors
             /\ s'.challenges[i].ruling = "granted" =>
                  s'.jurors[s'.challenges[i].juror] \notin {"candidate", "sworn"}
    BY DEF JuryInv, SelectionInv
  <2> QED
    BY <1>3, <2>1, <2>2, <2>3 DEF SelectionInv
<1> QED
  BY <1>1, <1>4, <1>5 DEF JuryInv

-----------------------------------------------------------------------------
(* Steps of the case that leave the panel alone.                           *)

LEMMA ConfigureKeeps ==
  ASSUME JuryInv, NEW opp, opp = CurrentTurn, Configure(opp)
  PROVE  JuryInv'
<1>1. s \in State /\ (s.phase # "none" => s.configured)
  BY DEF JuryInv, SelectionInv
<1>2. s' = [s EXCEPT !.configured = TRUE] /\ opp.kind = "configure"
  BY DEF Configure
<1>3. ~s.configured
  BY <1>1, <1>2, TurnKinds
<1>4. s.phase = "none"
  BY <1>1, <1>3
<1>5. s' \in State
  BY <1>1, <1>2 DEF State
<1>6. /\ s'.policy = s.policy /\ s'.jurors = s.jurors /\ s'.struck = s.struck
      /\ s'.challenges = s.challenges /\ s'.votes = s.votes /\ s'.round = s.round
      /\ s'.verdict = s.verdict /\ s'.hung = s.hung /\ s'.configured /\ s'.phase = s.phase
  BY <1>1, <1>2 DEF State
<1> QED
  BY <1>4, <1>5, <1>6, PanelStays

LEMMA AdvanceKeeps ==
  ASSUME JuryInv, NEW opp, opp = CurrentTurn, AdvancePhase(opp)
  PROVE  JuryInv'
<1>1. s \in State /\ (s.phase # "none" => s.configured)
  BY DEF JuryInv, SelectionInv
<1>2. PICK phase \in {"voir_dire", "trial", "deliberation", "post_verdict", "over"} :
        s' = [s EXCEPT !.phase = phase]
        /\ \/ phase = "voir_dire" /\ opp.kind = "begin"
           \/ phase = "trial" /\ opp.kind = "open_trial"
           \/ phase = "deliberation" /\ opp.kind = "deliberate"
           \/ phase = "post_verdict" /\ opp.kind = "return"
           \/ phase = "over" /\ opp.kind = "close"
  BY DEF AdvancePhase, Advance
<1>3. s' \in State
  BY <1>1, <1>2 DEF State, Phases
<1>4. /\ s'.policy = s.policy /\ s'.jurors = s.jurors /\ s'.struck = s.struck
      /\ s'.challenges = s.challenges /\ s'.votes = s.votes /\ s'.round = s.round
      /\ s'.verdict = s.verdict /\ s'.hung = s.hung /\ s'.configured = s.configured
      /\ s'.phase = phase
  BY <1>1, <1>2 DEF State
<1>5. \/ phase = "voir_dire" /\ s.phase = "none" /\ s.configured
      \/ phase = "trial" /\ s.phase = "voir_dire"
      \/ phase = "deliberation" /\ s.phase = "trial"
      \/ phase = "post_verdict" /\ s.phase = "deliberation"
      \/ phase = "over" /\ s.phase = "post_verdict"
  BY <1>1, <1>2, TurnKinds
<1> QED
  BY <1>3, <1>4, <1>5, PanelStays

LEMMA QuestioningKeeps ==
  ASSUME JuryInv, NEW opp, opp = CurrentTurn,
         \/ IssueQuestionnaire(opp) \/ AnswerQuestionnaire(opp)
         \/ AskQuestion(opp) \/ PassQuestion(opp) \/ ImportFile(opp)
         \/ \E blank \in BOOLEAN : AnswerQuestion(opp, blank)
         \/ \E yes \in BOOLEAN : RuleOnQuestion(opp, yes)
         \/ PassCause(opp) \/ PassStrike(opp)
  PROVE  JuryInv'
<1>1. s \in State /\ (s.phase # "none" => s.configured)
  BY DEF JuryInv, SelectionInv
<1>2. s.phase = "voir_dire" /\ ~JuryEmpaneled
  BY <1>1, TurnKinds DEF Listings, IssueQuestionnaire, AnswerQuestionnaire, AskQuestion,
     PassQuestion, ImportFile, AnswerQuestion, RuleOnQuestion, PassCause, PassStrike
<1>3. opp.kind \in Listings => \E a \in Listed : opp = a[2]
  BY <1>1, TurnKinds
<1> DEFINE Same ==
      /\ s'.policy = s.policy /\ s'.jurors = s.jurors /\ s'.struck = s.struck
      /\ s'.challenges = s.challenges /\ s'.votes = s.votes /\ s'.round = s.round
      /\ s'.verdict = s.verdict /\ s'.hung = s.hung /\ s'.configured = s.configured
      /\ s'.phase = s.phase
<1>4. CASE IssueQuestionnaire(opp)
  <2>1. s' = [s EXCEPT !.issued = TRUE]
    BY <1>4 DEF IssueQuestionnaire
  <2> QED
    BY <1>1, <1>2, <2>1, PanelStays DEF State
<1>5. CASE AnswerQuestionnaire(opp)
  <2>1. s' = [s EXCEPT !.responded = @ \cup {opp.on}] /\ opp.kind = "answer_questionnaire"
    BY <1>5 DEF AnswerQuestionnaire
  <2>2. opp.on \in Nat
    BY <1>1, <1>3, <2>1, Places DEF Listings
  <2>3. s' \in State /\ Same
    BY <1>1, <2>1, <2>2 DEF State
  <2> QED
    BY <1>2, <2>3, PanelStays
<1>6. CASE AskQuestion(opp)
  <2> DEFINE x == [juror |-> opp.on, by |-> opp.role, answered |-> FALSE, ruling |-> "pending"]
  <2>1. s' = [s EXCEPT !.exchanges = Append(@, x)] /\ opp.kind = "question"
    BY <1>6 DEF AskQuestion
  <2>2. opp.on \in Nat /\ opp.role \in Parties
    BY <1>1, <1>3, <2>1, Places DEF Listings
  <2>3. Append(s.exchanges, x) \in Seq(Exchange)
    <3>1. x \in Exchange
      BY <2>2 DEF Exchange
    <3> QED
      BY <1>1, <3>1, Fields
  <2> HIDE DEF x
  <2>4. s' \in State /\ Same
    BY <1>1, <2>1, <2>3 DEF State, Exchange
  <2> QED
    BY <1>2, <2>4, PanelStays
<1>7. CASE PassQuestion(opp)
  <2>1. s' = [s EXCEPT !.passes = @ \cup {<<opp.role, opp.on>>}] /\ opp.kind = "question"
    BY <1>7 DEF PassQuestion
  <2>2. opp.on \in Nat /\ opp.role \in Parties
    BY <1>1, <1>3, <2>1, Places DEF Listings
  <2>3. s.passes \cup {<<opp.role, opp.on>>} \in SUBSET (Parties \X Nat)
    BY <1>1, <2>2, Fields
  <2>4. s' \in State /\ Same
    BY <1>1, <2>1, <2>3 DEF State
  <2> QED
    BY <1>2, <2>4, PanelStays
<1>8. CASE Idle
  <2>1. s.idle \in Nat /\ s' = [s EXCEPT !.idle = @ + 1]
    BY <1>1, <1>8 DEF Idle, State
  <2>2. s.idle + 1 \in Nat
    BY <2>1
  <2>3. s' \in State /\ Same
    BY <1>1, <2>1, <2>2 DEF State
  <2> QED
    BY <1>2, <2>3, PanelStays
<1>9. CASE ImportFile(opp)
  BY <1>8, <1>9 DEF ImportFile
<1>10. ASSUME NEW blank \in BOOLEAN, AnswerQuestion(opp, blank) PROVE JuryInv'
  <2> SUFFICES ASSUME ~Idle PROVE JuryInv'
    BY <1>8
  <2>1. s' = [s EXCEPT !.exchanges[opp.on].answered = TRUE] /\ opp.kind = "answer_question"
    BY <1>10 DEF AnswerQuestion
  <2>2. opp.on \in DOMAIN s.exchanges
    BY <1>1, <1>3, <2>1, Places DEF Listings, AnswersPending
  <2>3. [s.exchanges EXCEPT ![opp.on].answered = TRUE] \in Seq(Exchange)
    <3> DEFINE x == [s.exchanges[opp.on] EXCEPT !.answered = TRUE]
    <3>1. s.exchanges \in Seq(Exchange) /\ opp.on \in 1 .. Len(s.exchanges)
      BY <1>1, <2>2, Fields
    <3>2. s.exchanges[opp.on] \in Exchange
      BY <3>1, ElementOfSeq
    <3>3. x \in Exchange
      BY <3>2 DEF Exchange
    <3>4. [s.exchanges EXCEPT ![opp.on] = x] \in Seq(Exchange)
      BY <3>1, <3>3, ExceptSeq
    <3> QED
      BY <3>4
  <2>4. s' \in State /\ Same
    BY <1>1, <2>1, <2>3 DEF State, Exchange
  <2> QED
    BY <1>2, <2>4, PanelStays
<1>11. ASSUME NEW yes \in BOOLEAN, RuleOnQuestion(opp, yes) PROVE JuryInv'
  <2> DEFINE ruling == IF yes THEN "allowed" ELSE "disallowed"
  <2>1. s' = [s EXCEPT !.exchanges[opp.on].ruling = ruling] /\ opp.kind = "rule_question"
    BY <1>11 DEF RuleOnQuestion
  <2>2. opp.on \in DOMAIN s.exchanges
    BY <1>1, <1>3, <2>1, Places DEF Listings, RulingsPending
  <2>3. ruling \in {"pending", "allowed", "disallowed"}
    OBVIOUS
  <2> HIDE DEF ruling
  <2>4. [s.exchanges EXCEPT ![opp.on].ruling = ruling] \in Seq(Exchange)
    <3> DEFINE x == [s.exchanges[opp.on] EXCEPT !.ruling = ruling]
    <3>1. s.exchanges \in Seq(Exchange) /\ opp.on \in 1 .. Len(s.exchanges)
      BY <1>1, <2>2, Fields
    <3>2. s.exchanges[opp.on] \in Exchange
      BY <3>1, ElementOfSeq
    <3>3. x \in Exchange
      BY <2>3, <3>2 DEF Exchange
    <3>4. [s.exchanges EXCEPT ![opp.on] = x] \in Seq(Exchange)
      BY <3>1, <3>3, ExceptSeq
    <3> QED
      BY <3>4
  <2>5. s' \in State /\ Same
    BY <1>1, <2>1, <2>4 DEF State, Exchange
  <2> QED
    BY <1>2, <2>5, PanelStays
<1>12. CASE PassCause(opp)
  <2>1. s' = [s EXCEPT !.causePasses = @ \cup {opp.role}] /\ opp.kind = "challenge"
    BY <1>12 DEF PassCause
  <2>2. opp.role \in Parties
    BY <1>1, <1>3, <2>1, Places DEF Listings
  <2>3. s' \in State /\ Same
    BY <1>1, <2>1, <2>2 DEF State
  <2> QED
    BY <1>2, <2>3, PanelStays
<1>13. CASE PassStrike(opp)
  <2>1. s' = [s EXCEPT !.strikePasses = @ \cup {opp.role}] /\ opp.kind = "strike"
    BY <1>13 DEF PassStrike
  <2>2. opp.role \in Parties
    BY <1>1, <1>3, <2>1, Places DEF Listings
  <2>3. s' \in State /\ Same
    BY <1>1, <2>1, <2>2 DEF State
  <2> QED
    BY <1>2, <2>3, PanelStays
<1> QED
  BY <1>4, <1>5, <1>6, <1>7, <1>9, <1>10, <1>11, <1>12, <1>13

-----------------------------------------------------------------------------
(* Steps that change the panel before anyone is sworn.                     *)

LEMMA PanelMoves ==
  ASSUME JuryInv, s' \in State, s.phase = "none" \/ (s.phase = "voir_dire" /\ ~JuryEmpaneled),
         s'.phase = s.phase, s'.configured = s.configured, s'.votes = s.votes,
         s'.round = s.round, s'.verdict = s.verdict, s'.hung = s.hung,
         \A j \in DOMAIN s'.jurors : s'.jurors[j] = "sworn" => j \in Sworn,
         \A p \in Parties, j \in Nat : <<p, j>> \in s'.struck =>
           j \in DOMAIN s'.jurors /\ s'.jurors[j] \notin {"candidate", "sworn"},
         \A i \in DOMAIN s'.challenges :
           /\ s'.challenges[i].juror \in DOMAIN s'.jurors
           /\ s'.challenges[i].ruling = "granted" =>
                s'.jurors[s'.challenges[i].juror] \notin {"candidate", "sworn"}
  PROVE  JuryInv'
<1>1. Sworn = {}
  BY NobodySworn DEF JuryInv, SelectionInv
<1>2. Sworn' = {}
  BY <1>1 DEF Sworn, With
<1>3. PollInv' /\ VerdictSound'
  BY NoPollYet DEF JuryInv, PollInv
<1>4. JurySelectedFairly'
  BY <1>2, NoJuryYet
<1>5. SelectionInv'
  BY <1>2 DEF JuryInv, SelectionInv
<1> QED
  BY <1>3, <1>4, <1>5 DEF JuryInv

LEMMA FillPanelKeeps ==
  ASSUME JuryInv, NEW opp, opp = CurrentTurn, FillPanel(opp)
  PROVE  JuryInv'
<1> DEFINE n == CandidateTarget - Cardinality(Candidates)
           more == [k \in 1 .. n |-> "candidate"]
<1>1. s \in State /\ (s.phase # "none" => s.configured)
  BY DEF JuryInv, SelectionInv
<1>2. s' = [s EXCEPT !.jurors = @ \o more] /\ opp.kind = "fill_panel"
  BY DEF FillPanel
<1>3. s.phase = "none" /\ ~PanelReady
  BY <1>1, <1>2, TurnKinds
<1>4. n \in Nat
  <2>1. CandidateTarget \in Nat
    BY <1>1, PolicyFacts DEF CandidateTarget
  <2>2. Cardinality(Candidates) \in Nat
    BY <1>1, PanelFacts DEF Candidates
  <2> QED
    BY <1>3, <2>1, <2>2 DEF PanelReady
<1>5. /\ more \in Seq(Status) /\ Len(more) = n
      /\ \A k \in 1 .. n : more[k] = "candidate"
  <2> HIDE DEF n
  <2> QED
    BY <1>4 DEF Status
<1> HIDE DEF n, more
<1>6. s.jurors \in Seq(Status) /\ DOMAIN s.jurors = 1 .. Len(s.jurors) /\ Len(s.jurors) \in Nat
  BY <1>1, Fields
<1>7. /\ s.jurors \o more \in Seq(Status)
      /\ Len(s.jurors \o more) = Len(s.jurors) + n
      /\ \A i \in 1 .. Len(s.jurors) + n :
           (s.jurors \o more)[i] = IF i <= Len(s.jurors) THEN s.jurors[i]
                                   ELSE more[i - Len(s.jurors)]
  BY <1>5, <1>6, ConcatProperties
<1>8. /\ DOMAIN (s.jurors \o more) = 1 .. Len(s.jurors) + n
      /\ \A j \in DOMAIN s.jurors : j \in DOMAIN (s.jurors \o more)
                                    /\ (s.jurors \o more)[j] = s.jurors[j]
      /\ \A j \in DOMAIN (s.jurors \o more) :
           (s.jurors \o more)[j] = "sworn" => j \in DOMAIN s.jurors
  <2>1. DOMAIN (s.jurors \o more) = 1 .. Len(s.jurors) + n
    BY <1>7
  <2>2. \A j \in DOMAIN s.jurors : j \in 1 .. Len(s.jurors) + n /\ j <= Len(s.jurors)
    BY <1>4, <1>6
  <2>3. ASSUME NEW j \in 1 .. Len(s.jurors) + n, j \notin DOMAIN s.jurors
        PROVE  (s.jurors \o more)[j] = "candidate"
    <3>1. ~(j <= Len(s.jurors)) /\ j - Len(s.jurors) \in 1 .. n
      BY <1>4, <1>6, <2>3
    <3> QED
      BY <1>5, <1>7, <3>1
  <2> QED
    BY <1>7, <2>1, <2>2, <2>3
<1>9. /\ s'.jurors = s.jurors \o more /\ s'.struck = s.struck /\ s'.challenges = s.challenges
      /\ s'.phase = s.phase /\ s'.configured = s.configured /\ s'.votes = s.votes
      /\ s'.round = s.round /\ s'.verdict = s.verdict /\ s'.hung = s.hung
  BY <1>1, <1>2 DEF State
<1>10. s' \in State
  BY <1>1, <1>2, <1>7 DEF State
<1>11. \A j \in DOMAIN s'.jurors : s'.jurors[j] = "sworn" => j \in Sworn
  BY <1>8, <1>9 DEF Sworn, With
<1>12. \A p \in Parties, j \in Nat : <<p, j>> \in s'.struck =>
         j \in DOMAIN s'.jurors /\ s'.jurors[j] \notin {"candidate", "sworn"}
  BY <1>8, <1>9 DEF JuryInv, SelectionInv
<1>13. \A i \in DOMAIN s'.challenges :
         /\ s'.challenges[i].juror \in DOMAIN s'.jurors
         /\ s'.challenges[i].ruling = "granted" =>
              s'.jurors[s'.challenges[i].juror] \notin {"candidate", "sworn"}
  BY <1>8, <1>9 DEF JuryInv, SelectionInv
<1> QED
  BY <1>3, <1>9, <1>10, <1>11, <1>12, <1>13, PanelMoves

\* One juror's status moves to one that is neither candidate nor sworn.
LEMMA Dismissed ==
  ASSUME s \in State, NEW j \in DOMAIN s.jurors, NEW status \in Status \ {"candidate", "sworn"}
  PROVE  LET jurors == [s.jurors EXCEPT ![j] = status] IN
         /\ jurors \in Seq(Status) /\ DOMAIN jurors = DOMAIN s.jurors /\ Len(jurors) = Len(s.jurors)
         /\ jurors[j] \notin {"candidate", "sworn"}
         /\ \A k \in DOMAIN s.jurors : k # j => jurors[k] = s.jurors[k]
         /\ \A k \in DOMAIN s.jurors : jurors[k] \in {"candidate", "sworn"} => jurors[k] = s.jurors[k]
<1>1. s.jurors \in Seq(Status) /\ DOMAIN s.jurors = 1 .. Len(s.jurors)
  BY Fields
<1> DEFINE jurors == [s.jurors EXCEPT ![j] = status]
<1>2. jurors \in Seq(Status) /\ Len(jurors) = Len(s.jurors)
      /\ \A k \in 1 .. Len(s.jurors) : jurors[k] = IF k = j THEN status ELSE s.jurors[k]
  BY <1>1, ExceptSeq
<1>3. DOMAIN jurors = DOMAIN s.jurors
  OBVIOUS
<1> QED
  BY <1>1, <1>2, <1>3

LEMMA ChallengeKeeps ==
  ASSUME JuryInv, NEW opp, opp = CurrentTurn, NEW j \in Candidates, ChallengeForCause(opp, j)
  PROVE  JuryInv'
<1> DEFINE x == [juror |-> j, by |-> opp.role, ruling |-> "pending"]
<1>1. s \in State /\ (s.phase # "none" => s.configured)
  BY DEF JuryInv, SelectionInv
<1>2. s' = [s EXCEPT !.challenges = Append(@, x)] /\ opp.kind = "challenge"
  BY DEF ChallengeForCause
<1>3. /\ s.phase = "voir_dire" /\ ~JuryEmpaneled
      /\ \E a \in Listed : opp = a[2]
  BY <1>1, <1>2, TurnKinds DEF Listings
<1>4. opp.role \in Parties /\ j \in DOMAIN s.jurors /\ j \in Nat
  BY <1>1, <1>2, <1>3, Places, PanelFacts DEF Candidates
<1>5. x \in Challenge
  BY <1>4 DEF Challenge
<1>6. s.challenges \in Seq(Challenge)
  BY <1>1, Fields
<1>7. x.juror = j /\ x.ruling = "pending"
  OBVIOUS
<1> HIDE DEF x
<1>8. /\ Append(s.challenges, x) \in Seq(Challenge)
      /\ \A i \in DOMAIN Append(s.challenges, x) :
           \/ i \in DOMAIN s.challenges /\ Append(s.challenges, x)[i] = s.challenges[i]
           \/ Append(s.challenges, x)[i] = x
  BY <1>5, <1>6
<1>9. /\ s'.jurors = s.jurors /\ s'.struck = s.struck /\ s'.challenges = Append(s.challenges, x)
      /\ s'.phase = s.phase /\ s'.configured = s.configured /\ s'.votes = s.votes
      /\ s'.round = s.round /\ s'.verdict = s.verdict /\ s'.hung = s.hung
  BY <1>1, <1>2 DEF State
<1>10. s' \in State
  BY <1>1, <1>2, <1>8 DEF State, Challenge
<1>11. \A i \in DOMAIN s'.challenges :
         /\ s'.challenges[i].juror \in DOMAIN s'.jurors
         /\ s'.challenges[i].ruling = "granted" =>
              s'.jurors[s'.challenges[i].juror] \notin {"candidate", "sworn"}
  BY <1>4, <1>7, <1>8, <1>9 DEF JuryInv, SelectionInv
<1>12. \A k \in DOMAIN s'.jurors : s'.jurors[k] = "sworn" => k \in Sworn
  BY <1>9 DEF Sworn, With
<1>13. \A p \in Parties, k \in Nat : <<p, k>> \in s'.struck =>
         k \in DOMAIN s'.jurors /\ s'.jurors[k] \notin {"candidate", "sworn"}
  BY <1>9 DEF JuryInv, SelectionInv
<1> QED
  BY <1>3, <1>9, <1>10, <1>11, <1>12, <1>13, PanelMoves

LEMMA DecideKeeps ==
  ASSUME JuryInv, NEW opp, opp = CurrentTurn, NEW granted \in BOOLEAN,
         DecideChallenge(opp, granted)
  PROVE  JuryInv'
<1> DEFINE ruling == IF granted THEN "granted" ELSE "denied"
           c == s.challenges[opp.on].juror
           x == [s.challenges[opp.on] EXCEPT !.ruling = ruling]
           challenges == [s.challenges EXCEPT ![opp.on] = x]
           jurors == IF granted THEN [s.jurors EXCEPT ![c] = "excused_for_cause"] ELSE s.jurors
<1>1. s \in State /\ (s.phase # "none" => s.configured)
  BY DEF JuryInv, SelectionInv
<1>2. opp.kind = "decide_challenge"
  BY DEF DecideChallenge
<1>3. /\ s.phase = "voir_dire" /\ ~JuryEmpaneled
      /\ \E a \in Listed : opp = a[2]
  BY <1>1, <1>2, TurnKinds DEF Listings
<1>4. opp.on \in ChallengesPending
  BY <1>1, <1>2, <1>3, Places
<1>5. opp.on \in DOMAIN s.challenges /\ c \in Candidates /\ c \in DOMAIN s.jurors
  BY <1>1, <1>4, PanelFacts DEF ChallengesPending, Candidates
<1>6. s.challenges \in Seq(Challenge) /\ DOMAIN s.challenges = 1 .. Len(s.challenges)
  BY <1>1, Fields
<1>7. x \in Challenge /\ x.juror = c /\ x.ruling = ruling
  <2>1. s.challenges[opp.on] \in Challenge
    BY <1>5, <1>6, ElementOfSeq
  <2> QED
    BY <2>1 DEF Challenge
<1>8. ruling = "granted" => granted
  OBVIOUS
<1>9. s' = [s EXCEPT !.challenges = challenges, !.jurors = jurors]
  BY <1>1 DEF DecideChallenge, State
<1> HIDE DEF ruling, x, c
<1>10. /\ challenges \in Seq(Challenge) /\ DOMAIN challenges = DOMAIN s.challenges
       /\ challenges[opp.on] = x
       /\ \A i \in DOMAIN s.challenges : i # opp.on => challenges[i] = s.challenges[i]
  BY <1>5, <1>6, <1>7, ExceptSeq
<1>11. /\ jurors \in Seq(Status) /\ DOMAIN jurors = DOMAIN s.jurors
       /\ granted => jurors[c] \notin {"candidate", "sworn"}
       /\ \A k \in DOMAIN s.jurors : jurors[k] \in {"candidate", "sworn"} => jurors[k] = s.jurors[k]
  <2>1. s.jurors \in Seq(Status)
    BY <1>1, Fields
  <2>2. "excused_for_cause" \in Status \ {"candidate", "sworn"}
    BY DEF Status
  <2> QED
    BY <1>1, <1>5, <2>1, <2>2, Dismissed
<1> HIDE DEF challenges, jurors
<1>12. /\ s'.jurors = jurors /\ s'.struck = s.struck /\ s'.challenges = challenges
      /\ s'.phase = s.phase /\ s'.configured = s.configured /\ s'.votes = s.votes
      /\ s'.round = s.round /\ s'.verdict = s.verdict /\ s'.hung = s.hung
  BY <1>1, <1>9 DEF State
<1>13. s' \in State
  BY <1>1, <1>9, <1>10, <1>11 DEF State, Challenge
<1>14. \A i \in DOMAIN s'.challenges :
         /\ s'.challenges[i].juror \in DOMAIN s'.jurors
         /\ s'.challenges[i].ruling = "granted" =>
              s'.jurors[s'.challenges[i].juror] \notin {"candidate", "sworn"}
  <2> SUFFICES ASSUME NEW i \in DOMAIN s.challenges
               PROVE  /\ challenges[i].juror \in DOMAIN jurors
                      /\ challenges[i].ruling = "granted" =>
                           jurors[challenges[i].juror] \notin {"candidate", "sworn"}
    BY <1>10, <1>12
  <2>1. CASE i = opp.on
    BY <1>5, <1>7, <1>8, <1>10, <1>11, <2>1
  <2>2. CASE i # opp.on
    BY <1>10, <1>11, <2>2 DEF JuryInv, SelectionInv
  <2> QED
    BY <2>1, <2>2
<1>15. \A k \in DOMAIN s'.jurors : s'.jurors[k] = "sworn" => k \in Sworn
  BY <1>11, <1>12 DEF Sworn, With
<1>16. \A p \in Parties, k \in Nat : <<p, k>> \in s'.struck =>
         k \in DOMAIN s'.jurors /\ s'.jurors[k] \notin {"candidate", "sworn"}
  BY <1>11, <1>12 DEF JuryInv, SelectionInv
<1> QED
  BY <1>3, <1>12, <1>13, <1>14, <1>15, <1>16, PanelMoves

LEMMA StrikeKeeps ==
  ASSUME JuryInv, NEW opp, opp = CurrentTurn, NEW j \in Candidates, Strike(opp, j)
  PROVE  JuryInv'
<1> DEFINE jurors == [s.jurors EXCEPT ![j] = "struck_peremptory"]
           struck == s.struck \cup {<<opp.role, j>>}
<1>1. s \in State /\ (s.phase # "none" => s.configured)
  BY DEF JuryInv, SelectionInv
<1>2. s' = [s EXCEPT !.jurors = jurors, !.struck = struck] /\ opp.kind = "strike"
  BY DEF Strike
<1>3. /\ s.phase = "voir_dire" /\ ~JuryEmpaneled
      /\ \E a \in Listed : opp = a[2]
  BY <1>1, <1>2, TurnKinds DEF Listings
<1>4. opp.role \in Parties /\ j \in DOMAIN s.jurors /\ j \in Nat
  BY <1>1, <1>2, <1>3, Places, PanelFacts DEF Candidates
<1>5. /\ jurors \in Seq(Status) /\ DOMAIN jurors = DOMAIN s.jurors
      /\ jurors[j] \notin {"candidate", "sworn"}
      /\ \A k \in DOMAIN s.jurors : jurors[k] \in {"candidate", "sworn"} => jurors[k] = s.jurors[k]
  <2>1. "struck_peremptory" \in Status \ {"candidate", "sworn"}
    BY DEF Status
  <2> QED
    BY <1>1, <1>4, <2>1, Dismissed
<1>6. struck \in SUBSET (Parties \X Nat)
  BY <1>1, <1>4, Fields
<1>7. \A p, k : <<p, k>> \in struck => k = j \/ <<p, k>> \in s.struck
  OBVIOUS
<1> HIDE DEF jurors, struck
<1>8. /\ s'.jurors = jurors /\ s'.struck = struck /\ s'.challenges = s.challenges
      /\ s'.phase = s.phase /\ s'.configured = s.configured /\ s'.votes = s.votes
      /\ s'.round = s.round /\ s'.verdict = s.verdict /\ s'.hung = s.hung
  BY <1>1, <1>2 DEF State
<1>9. s' \in State
  BY <1>1, <1>2, <1>5, <1>6 DEF State
<1>10. \A i \in DOMAIN s'.challenges :
         /\ s'.challenges[i].juror \in DOMAIN s'.jurors
         /\ s'.challenges[i].ruling = "granted" =>
              s'.jurors[s'.challenges[i].juror] \notin {"candidate", "sworn"}
  BY <1>5, <1>8 DEF JuryInv, SelectionInv
<1>11. \A k \in DOMAIN s'.jurors : s'.jurors[k] = "sworn" => k \in Sworn
  BY <1>5, <1>8 DEF Sworn, With
<1>12. \A p \in Parties, k \in Nat : <<p, k>> \in s'.struck =>
         k \in DOMAIN s'.jurors /\ s'.jurors[k] \notin {"candidate", "sworn"}
  BY <1>4, <1>5, <1>7, <1>8 DEF JuryInv, SelectionInv
<1> QED
  BY <1>3, <1>8, <1>9, <1>10, <1>11, <1>12, PanelMoves

LEMMA ReplaceKeeps ==
  ASSUME JuryInv, NEW opp, opp = CurrentTurn, ReplaceCandidate(opp)
  PROVE  JuryInv'
<1> DEFINE j == JurorOf(opp)
           left == [s.jurors EXCEPT ![j] = "timed_out"]
           jurors == Append(left, "candidate")
<1>1. s \in State /\ (s.phase # "none" => s.configured)
  BY DEF JuryInv, SelectionInv
<1>2. /\ s' = [s EXCEPT !.jurors = jurors]
      /\ opp.kind = "answer_questionnaire" \/ opp.kind = "answer_question"
  BY DEF ReplaceCandidate
<1>3. /\ s.phase = "voir_dire" /\ ~JuryEmpaneled
      /\ \E a \in Listed : opp = a[2]
  BY <1>1, <1>2, TurnKinds DEF Listings
<1>4. j \in DOMAIN s.jurors
  BY <1>1, <1>2, <1>3, Places, PanelFacts
     DEF JurorOf, Unanswered, AnswersPending, Candidates
<1> HIDE DEF j
<1>5. /\ left \in Seq(Status) /\ DOMAIN left = DOMAIN s.jurors /\ Len(left) = Len(s.jurors)
      /\ left[j] \notin {"candidate", "sworn"}
      /\ \A k \in DOMAIN s.jurors : left[k] \in {"candidate", "sworn"} => left[k] = s.jurors[k]
  <2>1. "timed_out" \in Status \ {"candidate", "sworn"}
    BY DEF Status
  <2> QED
    BY <1>1, <1>4, <2>1, Dismissed
<1> HIDE DEF left
<1>6. /\ jurors \in Seq(Status)
      /\ \A k \in DOMAIN s.jurors : k \in DOMAIN jurors /\ jurors[k] = left[k]
      /\ \A k \in DOMAIN jurors : k \in DOMAIN s.jurors \/ jurors[k] = "candidate"
  BY <1>5 DEF Status
<1> HIDE DEF jurors
<1>7. /\ s'.jurors = jurors /\ s'.struck = s.struck /\ s'.challenges = s.challenges
      /\ s'.phase = s.phase /\ s'.configured = s.configured /\ s'.votes = s.votes
      /\ s'.round = s.round /\ s'.verdict = s.verdict /\ s'.hung = s.hung
  BY <1>1, <1>2 DEF State
<1>8. s' \in State
  BY <1>1, <1>2, <1>6 DEF State
<1>9. \A i \in DOMAIN s'.challenges :
         /\ s'.challenges[i].juror \in DOMAIN s'.jurors
         /\ s'.challenges[i].ruling = "granted" =>
              s'.jurors[s'.challenges[i].juror] \notin {"candidate", "sworn"}
  BY <1>5, <1>6, <1>7 DEF JuryInv, SelectionInv
<1>10. \A k \in DOMAIN s'.jurors : s'.jurors[k] = "sworn" => k \in Sworn
  BY <1>5, <1>6, <1>7 DEF Sworn, With
<1>11. \A p \in Parties, k \in Nat : <<p, k>> \in s'.struck =>
         k \in DOMAIN s'.jurors /\ s'.jurors[k] \notin {"candidate", "sworn"}
  BY <1>5, <1>6, <1>7 DEF JuryInv, SelectionInv
<1> QED
  BY <1>3, <1>7, <1>8, <1>9, <1>10, <1>11, PanelMoves

-----------------------------------------------------------------------------
(* Swearing the jury.                                                      *)

\* Whatever is open is listed.
LEMMA OpenIsListed ==
         /\ \A j \in Unanswered : <<1, About("answer_questionnaire", "juror", j)>> \in Listed
         /\ \A i \in RulingsPending : <<2, About("rule_question", "judge", i)>> \in Listed
         /\ \A i \in ChallengesPending : <<3, About("decide_challenge", "judge", i)>> \in Listed
         /\ \A i \in AnswersPending : <<4, About("answer_question", "juror", i)>> \in Listed
         /\ \A p \in Parties : MayChallenge(p) => <<7 + Side(p), Turn("challenge", p)>> \in Listed
         /\ \A p \in Parties : MayStrike(p) => <<9 + Side(p), Turn("strike", p)>> \in Listed
BY DEF Listed

\* When only the swearing is left, nothing is.
LEMMA NothingOpen ==
  ASSUME \A b \in Listed : b[2].kind = "empanel"
  PROVE  /\ Unanswered = {} /\ RulingsPending = {} /\ ChallengesPending = {}
         /\ AnswersPending = {} /\ \A p \in Parties : ~MayChallenge(p) /\ ~MayStrike(p)
<1>1. Unanswered = {}
  <2> SUFFICES ASSUME NEW x \in Unanswered PROVE FALSE
    OBVIOUS
  <2>1. <<1, About("answer_questionnaire", "juror", x)>> \in Listed
    BY OpenIsListed
  <2>2. About("answer_questionnaire", "juror", x).kind = "empanel"
    BY <2>1
  <2> QED
    BY <2>2, TurnFields
<1>2. RulingsPending = {}
  <2> SUFFICES ASSUME NEW x \in RulingsPending PROVE FALSE
    OBVIOUS
  <2>1. <<2, About("rule_question", "judge", x)>> \in Listed
    BY OpenIsListed
  <2>2. About("rule_question", "judge", x).kind = "empanel"
    BY <2>1
  <2> QED
    BY <2>2, TurnFields
<1>3. ChallengesPending = {}
  <2> SUFFICES ASSUME NEW x \in ChallengesPending PROVE FALSE
    OBVIOUS
  <2>1. <<3, About("decide_challenge", "judge", x)>> \in Listed
    BY OpenIsListed
  <2>2. About("decide_challenge", "judge", x).kind = "empanel"
    BY <2>1
  <2> QED
    BY <2>2, TurnFields
<1>4. AnswersPending = {}
  <2> SUFFICES ASSUME NEW x \in AnswersPending PROVE FALSE
    OBVIOUS
  <2>1. <<4, About("answer_question", "juror", x)>> \in Listed
    BY OpenIsListed
  <2>2. About("answer_question", "juror", x).kind = "empanel"
    BY <2>1
  <2> QED
    BY <2>2, TurnFields
<1>5. ASSUME NEW p \in Parties PROVE ~MayChallenge(p) /\ ~MayStrike(p)
  <2>1. <<7 + Side(p), Turn("challenge", p)>> \notin Listed
    BY TurnFields
  <2>2. <<9 + Side(p), Turn("strike", p)>> \notin Listed
    BY TurnFields
  <2> QED
    BY <2>1, <2>2, OpenIsListed
<1> QED
  BY <1>1, <1>2, <1>3, <1>4, <1>5

LEMMA EmpanelKeeps ==
  ASSUME JuryInv, NEW opp, opp = CurrentTurn,
         NEW chosen \in SUBSET Candidates, Empanel(opp, chosen)
  PROVE  JuryInv'
<1> DEFINE jurors == [j \in DOMAIN s.jurors |->
             IF j \in chosen THEN "sworn"
             ELSE IF s.jurors[j] = "candidate" THEN "excused_after_voir_dire" ELSE s.jurors[j]]
<1>1. s \in State /\ (s.phase # "none" => s.configured)
  BY DEF JuryInv, SelectionInv
<1>2. s' = [s EXCEPT !.jurors = jurors] /\ opp.kind = "empanel"
      /\ Cardinality(chosen) = s.policy.jurors
  BY DEF Empanel
<1>3. /\ s.phase = "voir_dire" /\ ~JuryEmpaneled
      /\ Cardinality(Candidates) >= s.policy.jurors
      /\ \/ s.policy.skip
         \/ /\ \A j \in Candidates : Ready(j)
            /\ \A b \in Listed : b[2].kind = "empanel"
  BY <1>1, <1>2, TurnKinds
<1>4. Sworn = {}
  BY <1>3, NobodySworn
<1>5. s.jurors \in Seq(Status) /\ DOMAIN s.jurors = 1 .. Len(s.jurors) /\ Len(s.jurors) \in Nat
  BY <1>1, Fields
<1>6. /\ DOMAIN jurors = DOMAIN s.jurors
      /\ \A j \in DOMAIN s.jurors :
           /\ jurors[j] \in Status
           /\ jurors[j] = "sworn" => j \in chosen
           /\ j \in chosen => jurors[j] = "sworn"
           /\ jurors[j] # "candidate"
           /\ s.jurors[j] # "candidate" => jurors[j] = s.jurors[j]
  <2>1. \A j \in DOMAIN s.jurors : s.jurors[j] \in Status /\ s.jurors[j] # "sworn"
    BY <1>4, <1>5, ElementOfSeq DEF Sworn, With
  <2>2. \A j \in chosen : j \in DOMAIN s.jurors /\ s.jurors[j] = "candidate"
    BY DEF Candidates, With
  <2> QED
    BY <2>1, <2>2 DEF Status
<1>7. jurors \in Seq(Status)
  <2>1. jurors = [j \in 1 .. Len(s.jurors) |-> jurors[j]]
    BY <1>5
  <2> HIDE DEF jurors
  <2>2. \A j \in 1 .. Len(s.jurors) : jurors[j] \in Status
    BY <1>5, <1>6
  <2> QED
    BY <1>5, <2>1, <2>2
<1> HIDE DEF jurors
<1>8. /\ s'.jurors = jurors /\ s'.struck = s.struck /\ s'.challenges = s.challenges
      /\ s'.phase = s.phase /\ s'.configured = s.configured /\ s'.votes = s.votes
      /\ s'.round = s.round /\ s'.verdict = s.verdict /\ s'.hung = s.hung
      /\ s'.policy = s.policy /\ s'.responded = s.responded /\ s'.exchanges = s.exchanges
      /\ s'.passes = s.passes /\ s'.causePasses = s.causePasses
      /\ s'.strikePasses = s.strikePasses
  BY <1>1, <1>2 DEF State
<1>9. s' \in State
  BY <1>1, <1>2, <1>7 DEF State
<1>10. Sworn' = chosen /\ Candidates' = {}
  <2>1. \A j \in chosen : j \in DOMAIN s.jurors
    BY DEF Candidates, With
  <2> QED
    BY <1>6, <1>8, <2>1 DEF Sworn, Candidates, With
<1>11. PollInv' /\ VerdictSound'
  BY <1>3, <1>8, NoPollYet DEF JuryInv, PollInv
<1>12. \A p \in Parties, j \in Nat : <<p, j>> \in s.struck =>
         j \in DOMAIN s.jurors /\ s.jurors[j] \notin {"candidate", "sworn"}
  BY DEF JuryInv, SelectionInv
<1>13. \A i \in DOMAIN s.challenges :
         /\ s.challenges[i].juror \in DOMAIN s.jurors
         /\ s.challenges[i].ruling = "granted" =>
              s.jurors[s.challenges[i].juror] \notin {"candidate", "sworn"}
  BY DEF JuryInv, SelectionInv
<1>14. SelectionInv'
  <2>1. s'.configured /\ s'.phase = "voir_dire"
    BY <1>1, <1>3, <1>8
  <2>2. JuryEmpaneled'
    <3>1. Cardinality(Sworn') = s'.policy.jurors /\ s'.policy.jurors \in Nat
      BY <1>1, <1>2, <1>8, <1>10, PolicyFacts
    <3> QED
      BY <2>1, <3>1 DEF JuryEmpaneled
  <2>3. \A p \in Parties, j \in Nat : <<p, j>> \in s'.struck =>
          j \in DOMAIN s'.jurors /\ s'.jurors[j] \notin {"candidate", "sworn"}
    BY <1>6, <1>8, <1>12
  <2>4. \A i \in DOMAIN s'.challenges :
         /\ s'.challenges[i].juror \in DOMAIN s'.jurors
         /\ s'.challenges[i].ruling = "granted" =>
              s'.jurors[s'.challenges[i].juror] \notin {"candidate", "sworn"}
    BY <1>6, <1>8, <1>13
  <2> QED
    BY <2>1, <2>2, <2>3, <2>4 DEF SelectionInv
<1>15. JurySelectedFairly'
  <2>1. CASE s.policy.skip
    BY <1>8, <2>1 DEF JurySelectedFairly
  <2>2. CASE ~s.policy.skip
    <3>1. /\ Unanswered = {} /\ RulingsPending = {} /\ ChallengesPending = {}
          /\ AnswersPending = {} /\ \A p \in Parties : ~MayChallenge(p) /\ ~MayStrike(p)
      BY <1>3, <2>2, NothingOpen
    <3>2. Cardinality(Sworn') = s'.policy.jurors /\ Candidates' = {}
      BY <1>2, <1>8, <1>10
    <3>3. \A p, j : Finished(p, j)' <=> Finished(p, j)
      BY <1>8 DEF Finished, AnsweredFrom, MaxQuestions, Refused, Disallowed
    <3>4. ASSUME NEW j \in Sworn'
          PROVE  /\ j \in s'.responded
                 /\ \A p \in Parties : Finished(p, j)' /\ <<p, j>> \notin s'.struck
                 /\ \A i \in DOMAIN s'.exchanges : s'.exchanges[i].juror = j =>
                      /\ s'.exchanges[i].ruling # "pending"
                      /\ s'.exchanges[i].ruling = "allowed" => s'.exchanges[i].answered
                 /\ \A i \in DOMAIN s'.challenges :
                      s'.challenges[i].juror = j => s'.challenges[i].ruling = "denied"
      <4>1. j \in Candidates /\ j \in DOMAIN s.jurors /\ s.jurors[j] = "candidate" /\ j \in Nat
        BY <1>5, <1>10, <3>4 DEF Candidates, With
      <4>2. j \in s'.responded /\ \A p \in Parties : Finished(p, j)'
        BY <1>3, <1>8, <2>2, <3>3, <4>1 DEF Ready
      <4>3. \A p \in Parties : <<p, j>> \notin s'.struck
        BY <1>8, <1>12, <4>1
      <4>4. \A i \in DOMAIN s'.exchanges : s'.exchanges[i].juror = j =>
                /\ s'.exchanges[i].ruling # "pending"
                /\ s'.exchanges[i].ruling = "allowed" => s'.exchanges[i].answered
        BY <1>8, <3>1, <4>1 DEF RulingsPending, AnswersPending
      <4>5. \A i \in DOMAIN s'.challenges :
              s'.challenges[i].juror = j => s'.challenges[i].ruling = "denied"
        <5>1. \A i \in DOMAIN s.challenges :
                s.challenges[i].ruling \in {"pending", "granted", "denied"}
          <6>1. s.challenges \in Seq(Challenge)
            BY <1>1, Fields
          <6>2. \A i \in DOMAIN s.challenges : s.challenges[i] \in Challenge
            BY <6>1
          <6> QED
            BY <6>2 DEF Challenge
        <5> QED
          BY <1>8, <1>13, <3>1, <4>1, <5>1 DEF ChallengesPending
      <4> QED
        BY <4>2, <4>3, <4>4, <4>5
    <3>5. ASSUME NEW p \in Parties
          PROVE  /\ \/ p \in s'.causePasses \/ CausesUsed(p)' >= s'.policy.causes
                    \/ Sworn' \subseteq ChallengedBy(p)'
                 /\ p \in s'.strikePasses \/ Cardinality(StruckBy(p)') >= s'.policy.strikes
      <4>1. /\ CausesUsed(p)' = CausesUsed(p) /\ ChallengedBy(p)' = ChallengedBy(p)
            /\ StruckBy(p)' = StruckBy(p)
        BY <1>6, <1>8 DEF CausesUsed, ChallengedBy, StruckBy
      <4>2. CausesUsed(p) \in Nat /\ s.policy.causes \in Nat /\ s.policy.strikes \in Nat
            /\ Cardinality(StruckBy(p)) \in Nat
        <5>1. s.challenges \in Seq(Challenge)
          BY <1>1, Fields
        <5>2. IsFiniteSet(1 .. Len(s.challenges)) /\ IsFiniteSet(1 .. Len(s.jurors))
          BY <1>5, <5>1, FS_Interval
        <5>3. {i \in DOMAIN s.challenges : s.challenges[i].by = p} \in SUBSET (1 .. Len(s.challenges))
          BY <5>1
        <5>4. StruckBy(p) \in SUBSET (1 .. Len(s.jurors))
          BY <1>5 DEF StruckBy
        <5> QED
          BY <1>1, <5>2, <5>3, <5>4, FS_Subset, FS_CardinalityType, PolicyFacts DEF CausesUsed
      <4>3. Candidates \ StruckBy(p) # {}
        <5>1. Candidates # {}
          <6> SUFFICES ASSUME Candidates = {} PROVE FALSE
            OBVIOUS
          <6>1. Cardinality(Candidates) = 0
            BY FS_EmptySet
          <6>2. s.policy.jurors \in Nat /\ 1 <= s.policy.jurors
            <7>1. s.policy.minimum \in Nat /\ s.policy.jurors \in Nat
                  /\ 1 <= s.policy.minimum /\ s.policy.minimum <= s.policy.jurors
              BY <1>1, PolicyFacts
            <7> QED
              BY <7>1
          <6> QED
            BY <1>3, <6>1, <6>2
        <5>2. \A j \in Candidates : <<p, j>> \notin s.struck
          BY <1>5, <1>12 DEF Candidates, With
        <5> QED
          BY <5>1, <5>2 DEF StruckBy
      <4>4. p \in s.strikePasses \/ Cardinality(StruckBy(p)) >= s.policy.strikes
        BY <3>1, <4>2, <4>3 DEF MayStrike
      <4>5. \/ p \in s.causePasses \/ CausesUsed(p) >= s.policy.causes
            \/ Candidates \subseteq ChallengedBy(p)
        BY <3>1, <4>2 DEF MayChallenge
      <4> QED
        BY <1>8, <1>10, <4>1, <4>4, <4>5
    <3> QED
      BY <3>2, <3>4, <3>5 DEF JurySelectedFairly
  <2> QED
    BY <2>1, <2>2
<1> QED
  BY <1>9, <1>11, <1>14, <1>15 DEF JuryInv

-----------------------------------------------------------------------------
(* Counting the votes of a state that has just received one or lost a juror. *)

SwornOf(t)     == {j \in DOMAIN t.jurors : t.jurors[j] = "sworn"}
CastOf(t)      == {i \in DOMAIN t.votes : t.votes[i].round = t.round}
VotedOf(t)     == {t.votes[i].juror : i \in CastOf(t)}
BallotsOf(t, p) == {i \in CastOf(t) : t.votes[i].vote = p}
VotersOf(t, p) == {t.votes[i].juror : i \in BallotsOf(t, p)}
RequiredOf(t)  == Required(Cardinality(SwornOf(t)), t.policy.minimum)
CarriedBy(t, p) ==
  /\ Cardinality(BallotsOf(t, p)) >= RequiredOf(t)
  /\ \A q \in Parties \ {p} : Cardinality(BallotsOf(t, q)) < RequiredOf(t)
VerdictFor(t, p) ==
  [for |-> p, votes |-> Cardinality(BallotsOf(t, p)), required |-> RequiredOf(t)]

\* A poll still to be settled: no vote is ahead of the round, and the voters of
\* the round are different and sworn.
Polled(t) ==
  /\ t \in State /\ t.verdict = NoVerdict /\ ~t.hung
  /\ \A i \in DOMAIN t.votes : t.votes[i].round <= t.round
  /\ VotedOf(t) \subseteq SwornOf(t)
  /\ \A i, k \in CastOf(t) : t.votes[i].juror = t.votes[k].juror => i = k

LEMMA CountFacts ==
  ASSUME NEW t, Polled(t)
  PROVE  /\ IsFiniteSet(SwornOf(t)) /\ Cardinality(SwornOf(t)) \in Nat
         /\ RequiredOf(t) \in Nat
         /\ \A p : /\ Cardinality(BallotsOf(t, p)) = Cardinality(VotersOf(t, p))
                   /\ Cardinality(BallotsOf(t, p)) \in Nat
<1>1. t \in State
  BY DEF Polled
<1>2. t.jurors \in Seq(Status)
  BY <1>1, Fields
<1>3. IsFiniteSet(SwornOf(t)) /\ Cardinality(SwornOf(t)) \in Nat
  <2>1. IsFiniteSet(1 .. Len(t.jurors))
    BY <1>2, FS_Interval
  <2>2. SwornOf(t) \in SUBSET (1 .. Len(t.jurors))
    BY <1>2 DEF SwornOf
  <2> QED
    BY <2>1, <2>2, FS_Subset, FS_CardinalityType
<1>4. RequiredOf(t) \in Nat
  BY <1>1, <1>3, PolicyFacts DEF RequiredOf, Required
<1>5. ASSUME NEW p
      PROVE  /\ Cardinality(BallotsOf(t, p)) = Cardinality(VotersOf(t, p))
             /\ Cardinality(BallotsOf(t, p)) \in Nat
  <2> DEFINE I == BallotsOf(t, p)
             V == VotersOf(t, p)
  <2>1. I \subseteq CastOf(t)
    BY DEF BallotsOf
  <2>2. V = {t.votes[i].juror : i \in I}
    BY DEF VotersOf
  <2>3. V \in SUBSET SwornOf(t)
    BY <2>1, <2>2 DEF Polled, VotedOf
  <2>4. IsFiniteSet(V)
    BY <1>3, <2>3, FS_Subset
  <2>5. \A i, k \in I : t.votes[i].juror = t.votes[k].juror => i = k
    BY <2>1 DEF Polled
  <2> HIDE DEF I, V
  <2>6. /\ \A i \in I : t.votes[i].juror \in V
        /\ \A j \in V : \E i \in I : t.votes[i].juror = j
    BY <2>2
  <2> DEFINE f == [i \in I |-> t.votes[i].juror]
  <2>7. f \in [I -> V] /\ \A i \in I : f[i] = t.votes[i].juror
    BY <2>6
  <2> HIDE DEF f
  <2>8. f \in Injection(I, V) /\ f \in Surjection(I, V)
    BY <2>5, <2>6, <2>7 DEF Injection, IsInjective, Surjection
  <2>9. Cardinality(I) = Cardinality(V)
    BY <2>4, <2>8, FS_Injection
  <2>10. Cardinality(V) \in Nat
    BY <2>4, FS_CardinalityType
  <2> QED
    BY <2>9, <2>10 DEF I, V
<1> QED
  BY <1>3, <1>4, <1>5

\* What deriveVerdictFromJurorVotes? and its caller make of it.
LEMMA DerivedCases ==
  ASSUME NEW t, Polled(t)
  PROVE
  \/ SwornOf(t) = {} /\ Derived(t) = [t EXCEPT !.hung = TRUE]
  \/ VotedOf(t) # SwornOf(t) /\ Derived(t) = t
  \/ /\ VotedOf(t) = SwornOf(t)
     /\ \E p \in Parties : CarriedBy(t, p) /\ Derived(t) = [t EXCEPT !.verdict = VerdictFor(t, p)]
  \/ /\ VotedOf(t) = SwornOf(t) /\ \A p \in Parties : ~CarriedBy(t, p)
     /\ t.round >= t.policy.rounds \/ Stable(t.votes, t.round)
     /\ Derived(t) = [t EXCEPT !.hung = TRUE]
  \/ /\ VotedOf(t) = SwornOf(t)
     /\ Derived(t) = [t EXCEPT !.round = @ + 1]
<1> DEFINE waiting == {j \in SwornOf(t) : \A i \in CastOf(t) : t.votes[i].juror # j}
           carried == \E p \in Parties : CarriedBy(t, p)
           side    == CHOOSE p \in Parties : CarriedBy(t, p)
<1>1. Derived(t) =
        IF SwornOf(t) = {} THEN [t EXCEPT !.hung = TRUE]
        ELSE IF waiting # {} THEN t
        ELSE IF carried THEN [t EXCEPT !.verdict = VerdictFor(t, side)]
        ELSE Split(t)
  BY Zenon DEF Derived, SwornOf, CastOf, BallotsOf, RequiredOf, CarriedBy, VerdictFor
<1>2. waiting = {} <=> VotedOf(t) = SwornOf(t)
  BY DEF Polled, VotedOf
<1>3. carried => side \in Parties /\ CarriedBy(t, side)
  OBVIOUS
<1>4. \/ /\ t.round >= t.policy.rounds \/ Stable(t.votes, t.round)
         /\ Split(t) = [t EXCEPT !.hung = TRUE]
      \/ Split(t) = [t EXCEPT !.round = @ + 1]
  BY DEF Split
<1>5. ~carried => \A p \in Parties : ~CarriedBy(t, p)
  OBVIOUS
<1> HIDE DEF waiting, carried, side
<1>6. CASE SwornOf(t) = {}
  BY <1>1, <1>6
<1>7. CASE SwornOf(t) # {} /\ waiting # {}
  BY <1>1, <1>2, <1>7
<1>8. CASE SwornOf(t) # {} /\ waiting = {} /\ carried
  BY <1>1, <1>2, <1>3, <1>8
<1>9. CASE SwornOf(t) # {} /\ waiting = {} /\ ~carried
  BY <1>1, <1>2, <1>4, <1>5, <1>9
<1> QED
  BY <1>6, <1>7, <1>8, <1>9

\* The properties' words, for a next state that is t with its poll settled.
LEMMA SettledTerms ==
  ASSUME NEW t, s'.jurors = t.jurors, s'.votes = t.votes, s'.policy = t.policy,
         s'.round = t.round
  PROVE  /\ Sworn' = SwornOf(t) /\ VotesIn(s.round)' = CastOf(t)
         /\ VotedIn(s.round)' = VotedOf(t)
         /\ \A p : VotersFor(s.round, p)' = VotersOf(t, p)
         /\ Required(Cardinality(Sworn), s.policy.minimum)' = RequiredOf(t)
         /\ Carrying' = {p \in Parties : Cardinality(VotersOf(t, p)) >= RequiredOf(t)}
<1>1. Sworn' = SwornOf(t) /\ VotesIn(s.round)' = CastOf(t)
  BY DEF Sworn, With, SwornOf, VotesIn, CastOf
<1>2. VotedIn(s.round)' = VotedOf(t)
  BY DEF VotedIn, VotesIn, VotedOf, CastOf
<1>3. \A p : VotersFor(s.round, p)' = VotersOf(t, p)
  BY DEF VotersFor, VotesIn, VotersOf, BallotsOf, CastOf
<1>4. Required(Cardinality(Sworn), s.policy.minimum)' = RequiredOf(t)
  BY <1>1 DEF RequiredOf, Required
<1>5. Carrying' = {p \in Parties : Cardinality(VotersOf(t, p)) >= RequiredOf(t)}
  BY <1>1, <1>3 DEF Carrying, RequiredOf, Required
<1> QED
  BY <1>1, <1>2, <1>3, <1>4, <1>5

LEMMA DerivedSound ==
  ASSUME NEW t, Polled(t), t.phase = "deliberation", s' = Derived(t)
  PROVE  /\ s' \in State /\ PollInv' /\ VerdictSound'
         /\ s'.phase = t.phase /\ s'.configured = t.configured /\ s'.policy = t.policy
         /\ s'.jurors = t.jurors /\ s'.struck = t.struck /\ s'.challenges = t.challenges
<1> DEFINE Rest ==
             /\ s'.phase = t.phase /\ s'.configured = t.configured /\ s'.policy = t.policy
             /\ s'.jurors = t.jurors /\ s'.struck = t.struck /\ s'.challenges = t.challenges
             /\ s'.votes = t.votes
<1>1. t \in State /\ t.verdict = NoVerdict /\ ~t.hung
  BY DEF Polled
<1>2. t.round \in Nat \ {0} /\ t.votes \in Seq(Ballot)
      /\ \A i \in DOMAIN t.votes : t.votes[i].round \in Nat
  <2>1. t.round \in Nat \ {0} /\ t.votes \in Seq(Ballot)
    BY <1>1, Fields
  <2>2. \A i \in DOMAIN t.votes : t.votes[i] \in Ballot
    BY <2>1
  <2> QED
    BY <2>1, <2>2 DEF Ballot
<1>3. ASSUME Rest, s'.round = t.round PROVE PollInv'
  <2>1. Sworn' = SwornOf(t) /\ VotesIn(s.round)' = CastOf(t) /\ VotedIn(s.round)' = VotedOf(t)
    BY <1>3, SettledTerms
  <2>2. /\ \A i \in DOMAIN s'.votes : s'.votes[i].round <= s'.round
        /\ VotedIn(s.round)' \subseteq Sworn'
        /\ \A i, k \in VotesIn(s.round)' : s'.votes[i].juror = s'.votes[k].juror => i = k
    BY <1>3, <2>1 DEF Polled
  <2> QED
    BY <1>3, <2>2 DEF PollInv
<1>4. CASE SwornOf(t) = {} /\ s' = [t EXCEPT !.hung = TRUE]
  <2>1. s' \in State /\ Rest /\ s'.round = t.round /\ s'.verdict = NoVerdict /\ s'.hung
    BY <1>1, <1>4 DEF State
  <2>2. Sworn' = {}
    BY <1>4, <2>1, SettledTerms
  <2>3. VerdictSound'
    BY <2>1, <2>2 DEF VerdictSound
  <2> QED
    BY <1>3, <2>1, <2>3
<1>5. CASE s' = t
  <2>1. s' \in State /\ Rest /\ s'.round = t.round /\ s'.verdict = NoVerdict /\ ~s'.hung
    BY <1>1, <1>5
  <2>2. VerdictSound'
    BY <2>1 DEF VerdictSound
  <2> QED
    BY <1>3, <2>1, <2>2
<1>6. ASSUME VotedOf(t) = SwornOf(t), NEW p \in Parties, CarriedBy(t, p),
             s' = [t EXCEPT !.verdict = VerdictFor(t, p)]
      PROVE  s' \in State /\ Rest /\ PollInv' /\ VerdictSound'
  <2>1. VerdictFor(t, p) \in Verdict
    BY CountFacts DEF VerdictFor, Verdict
  <2>2. s' \in State /\ Rest /\ s'.round = t.round /\ s'.verdict = VerdictFor(t, p) /\ ~s'.hung
    BY <1>1, <1>6, <2>1 DEF State, Verdict
  <2>3. /\ s'.verdict.for = p /\ s'.verdict.votes = Cardinality(VotersOf(t, p))
        /\ s'.verdict.required = RequiredOf(t)
    BY <2>2, CountFacts DEF VerdictFor
  <2>4. {q \in Parties : Cardinality(VotersOf(t, q)) >= RequiredOf(t)} = {p}
    <3>1. Cardinality(VotersOf(t, p)) >= RequiredOf(t)
      BY <1>6, CountFacts DEF CarriedBy
    <3>2. ASSUME NEW q \in Parties \ {p} PROVE ~(Cardinality(VotersOf(t, q)) >= RequiredOf(t))
      <4>1. Cardinality(BallotsOf(t, q)) < RequiredOf(t)
        BY <1>6, <3>2 DEF CarriedBy
      <4>2. /\ Cardinality(BallotsOf(t, q)) = Cardinality(VotersOf(t, q))
            /\ Cardinality(BallotsOf(t, q)) \in Nat /\ RequiredOf(t) \in Nat
        BY CountFacts
      <4> QED
        BY <4>1, <4>2
    <3> QED
      BY <3>1, <3>2
  <2>5. VerdictSound'
    <3>1. /\ VotedIn(s.round)' = Sworn' /\ Carrying' = {p}
          /\ VotersFor(s.round, p)' = VotersOf(t, p)
          /\ Required(Cardinality(Sworn), s.policy.minimum)' = RequiredOf(t)
      BY <1>6, <2>2, <2>4, SettledTerms
    <3> QED
      BY <2>2, <2>3, <3>1 DEF VerdictSound
  <2> QED
    BY <1>3, <2>2, <2>5
<1>7. CASE /\ VotedOf(t) = SwornOf(t) /\ \A p \in Parties : ~CarriedBy(t, p)
           /\ t.round >= t.policy.rounds \/ Stable(t.votes, t.round)
           /\ s' = [t EXCEPT !.hung = TRUE]
  <2>1. s' \in State /\ Rest /\ s'.round = t.round /\ s'.verdict = NoVerdict /\ s'.hung
    BY <1>1, <1>7 DEF State
  <2>2. Cardinality(Carrying') # 1
    <3> SUFFICES ASSUME Cardinality(Carrying') = 1 PROVE FALSE
      OBVIOUS
    <3>1. Carrying' = {p \in Parties : Cardinality(VotersOf(t, p)) >= RequiredOf(t)}
      BY <2>1, SettledTerms
    <3>2. IsFiniteSet(Carrying')
      <4>1. IsFiniteSet({"plaintiff"} \cup {"defendant"})
        BY FS_Singleton, FS_AddElement
      <4>2. Carrying' \in SUBSET ({"plaintiff"} \cup {"defendant"})
        BY <3>1 DEF Parties
      <4> QED
        BY <4>1, <4>2, FS_Subset
    <3>3. PICK p : Carrying' = {p}
      BY <3>2, FS_Singleton
    <3>4. p \in Parties /\ Cardinality(VotersOf(t, p)) >= RequiredOf(t)
      BY <3>1, <3>3
    <3>5. ASSUME NEW q \in Parties \ {p} PROVE Cardinality(BallotsOf(t, q)) < RequiredOf(t)
      <4>1. ~(Cardinality(VotersOf(t, q)) >= RequiredOf(t))
        BY <3>1, <3>3, <3>5
      <4>2. /\ Cardinality(BallotsOf(t, q)) = Cardinality(VotersOf(t, q))
            /\ Cardinality(BallotsOf(t, q)) \in Nat /\ RequiredOf(t) \in Nat
        BY CountFacts
      <4> QED
        BY <4>1, <4>2
    <3>6. CarriedBy(t, p)
      BY <3>4, <3>5, CountFacts DEF CarriedBy
    <3> QED
      BY <1>7, <3>4, <3>6
  <2>3. Stable(t.votes, t.round) => t.round > 1 /\ Unchanged(s.round)'
    <3> SUFFICES ASSUME Stable(t.votes, t.round) PROVE t.round > 1 /\ Unchanged(s.round)'
      OBVIOUS
    <3>1. /\ t.round > 1
          /\ \A i \in {j \in DOMAIN t.votes : t.votes[j].round = t.round} :
               \E k \in {j \in DOMAIN t.votes : t.votes[j].round = t.round - 1} :
                 /\ t.votes[k].juror = t.votes[i].juror
                 /\ t.votes[k].vote = t.votes[i].vote /\ t.votes[k].damages = t.votes[i].damages
      BY DEF Stable
    <3>2. ASSUME NEW j \in Sworn'
          PROVE  \E i \in VotesIn(s.round)', k \in VotesIn(s.round - 1)' :
                   /\ s'.votes[i].juror = j /\ s'.votes[k].juror = j
                   /\ s'.votes[i].vote = s'.votes[k].vote
                   /\ s'.votes[i].damages = s'.votes[k].damages
      <4>1. j \in VotedOf(t)
        BY <1>7, <2>1, <3>2, SettledTerms
      <4>2. PICK i \in CastOf(t) : t.votes[i].juror = j
        BY <4>1 DEF VotedOf
      <4>3. PICK k \in DOMAIN t.votes :
              /\ t.votes[k].round = t.round - 1 /\ t.votes[k].juror = t.votes[i].juror
              /\ t.votes[k].vote = t.votes[i].vote /\ t.votes[k].damages = t.votes[i].damages
        BY <3>1, <4>2 DEF CastOf
      <4>4. i \in VotesIn(s.round)' /\ k \in VotesIn(s.round - 1)'
        BY <2>1, <4>2, <4>3 DEF VotesIn, CastOf
      <4> QED
        BY <2>1, <4>2, <4>3, <4>4
    <3> QED
      BY <3>1, <3>2 DEF Unchanged
  <2>4. VerdictSound'
    <3>1. VotedIn(s.round)' = Sworn'
      BY <1>7, <2>1, SettledTerms
    <3> QED
      BY <1>7, <2>1, <2>2, <2>3, <3>1 DEF VerdictSound
  <2> QED
    BY <1>3, <2>1, <2>4
<1>8. CASE s' = [t EXCEPT !.round = @ + 1]
  <2>1. t.round + 1 \in Nat \ {0}
    BY <1>2
  <2>2. s' \in State /\ Rest /\ s'.round = t.round + 1 /\ s'.verdict = NoVerdict /\ ~s'.hung
    BY <1>1, <1>8, <2>1 DEF State
  <2>3. \A i \in DOMAIN s'.votes : s'.votes[i].round <= s'.round /\ s'.votes[i].round # s'.round
    BY <1>2, <2>2 DEF Polled
  <2>4. VotesIn(s.round)' = {} /\ VotedIn(s.round)' = {}
    BY <2>3 DEF VotesIn, VotedIn
  <2>5. PollInv'
    BY <2>2, <2>3, <2>4 DEF PollInv
  <2>6. VerdictSound'
    BY <2>2 DEF VerdictSound
  <2> QED
    BY <2>2, <2>5, <2>6
<1> QED
  BY <1>3, <1>4, <1>5, <1>6, <1>7, <1>8, DerivedCases

LEMMA SettledKeeps ==
  ASSUME NEW t, Polled(t), t.phase = "deliberation", t.configured, s' = Derived(t),
         \A p \in Parties, j \in Nat : <<p, j>> \in t.struck =>
           j \in DOMAIN t.jurors /\ t.jurors[j] \notin {"candidate", "sworn"},
         \A i \in DOMAIN t.challenges :
           /\ t.challenges[i].juror \in DOMAIN t.jurors
           /\ t.challenges[i].ruling = "granted" =>
                t.jurors[t.challenges[i].juror] \notin {"candidate", "sworn"}
  PROVE  JuryInv'
<1>1. /\ s' \in State /\ PollInv' /\ VerdictSound'
      /\ s'.phase = t.phase /\ s'.configured = t.configured
      /\ s'.jurors = t.jurors /\ s'.struck = t.struck /\ s'.challenges = t.challenges
  BY DerivedSound
<1>2. JurySelectedFairly'
  BY <1>1, NoJuryYet
<1>3. SelectionInv'
  BY <1>1 DEF SelectionInv
<1> QED
  BY <1>1, <1>2, <1>3 DEF JuryInv

\* While somebody is to vote, the poll is open.
LEMMA PollIsOpen ==
  ASSUME JuryInv, NEW opp, opp = CurrentTurn, opp.kind = "vote"
  PROVE  /\ s \in State /\ s.phase = "deliberation" /\ s.configured
         /\ opp.on \in Sworn /\ opp.on \notin VotedIn(s.round)
         /\ opp.on \in DOMAIN s.jurors /\ opp.on \in Nat
         /\ s.verdict = NoVerdict /\ ~s.hung
<1>1. s \in State /\ (s.phase # "none" => s.configured)
  BY DEF JuryInv, SelectionInv
<1>2. s.phase = "deliberation" /\ opp.on \in ToVote
  BY <1>1, TurnKinds
<1>3. opp.on \in Sworn /\ opp.on \notin VotedIn(s.round)
  BY <1>2 DEF ToVote
<1>4. s.verdict = NoVerdict /\ ~s.hung
  BY <1>3 DEF JuryInv, VerdictSound
<1>5. opp.on \in DOMAIN s.jurors /\ opp.on \in Nat
  BY <1>1, <1>3, PanelFacts DEF Sworn
<1> QED
  BY <1>1, <1>2, <1>3, <1>4, <1>5

LEMMA CastVoteKeeps ==
  ASSUME JuryInv, NEW opp, opp = CurrentTurn,
         NEW vote \in Parties, NEW damages \in Damages \cup {0}, CastVote(opp, vote, damages)
  PROVE  JuryInv'
<1> DEFINE x == [juror |-> opp.on, round |-> s.round, vote |-> vote, damages |-> damages]
           t == [s EXCEPT !.votes = Append(@, x)]
<1>1. opp.kind = "vote" /\ s' = Derived(t)
  BY DEF CastVote
<1>2. /\ s \in State /\ s.phase = "deliberation" /\ s.configured
      /\ opp.on \in Sworn /\ opp.on \notin VotedIn(s.round)
      /\ opp.on \in DOMAIN s.jurors /\ opp.on \in Nat
      /\ s.verdict = NoVerdict /\ ~s.hung
  BY <1>1, PollIsOpen
<1>3. s.round \in Nat \ {0} /\ s.votes \in Seq(Ballot)
  BY <1>2, Fields
<1>4. x \in Ballot /\ x.juror = opp.on /\ x.round = s.round
  BY <1>2, <1>3 DEF Ballot
<1> HIDE DEF x
<1> DEFINE votes == Append(s.votes, x)
<1>5. /\ votes \in Seq(Ballot) /\ Len(votes) = Len(s.votes) + 1
      /\ DOMAIN votes = DOMAIN s.votes \cup {Len(s.votes) + 1}
      /\ \A i \in DOMAIN s.votes : votes[i] = s.votes[i] /\ i # Len(s.votes) + 1
      /\ votes[Len(s.votes) + 1] = x
  BY <1>3, <1>4
<1> HIDE DEF votes
<1>6. /\ t.votes = votes /\ t.round = s.round /\ t.jurors = s.jurors /\ t.struck = s.struck
      /\ t.challenges = s.challenges /\ t.phase = s.phase /\ t.configured = s.configured
      /\ t.verdict = s.verdict /\ t.hung = s.hung
  BY <1>2 DEF State, votes
<1>7. t \in State
  BY <1>2, <1>5 DEF State, Ballot, votes
<1> HIDE DEF t
<1>8. CastOf(t) = VotesIn(s.round) \cup {Len(s.votes) + 1}
  BY <1>4, <1>5, <1>6 DEF CastOf, VotesIn
<1>9. VotedOf(t) \subseteq SwornOf(t)
  <2>1. SwornOf(t) = Sworn
    BY <1>6 DEF SwornOf, Sworn, With
  <2>2. \A i \in VotesIn(s.round) : t.votes[i].juror \in Sworn
    BY <1>5, <1>6 DEF JuryInv, PollInv, VotedIn, VotesIn
  <2>3. t.votes[Len(s.votes) + 1].juror \in Sworn
    BY <1>2, <1>4, <1>5, <1>6
  <2> QED
    BY <1>8, <2>1, <2>2, <2>3 DEF VotedOf
<1>10. \A i, k \in CastOf(t) : t.votes[i].juror = t.votes[k].juror => i = k
  <2>1. \A i \in VotesIn(s.round) :
          t.votes[i].juror \in VotedIn(s.round) /\ t.votes[i] = s.votes[i]
    BY <1>5, <1>6 DEF VotedIn, VotesIn
  <2>2. t.votes[Len(s.votes) + 1].juror = opp.on
    BY <1>4, <1>5, <1>6
  <2>3. \A i, k \in VotesIn(s.round) : s.votes[i].juror = s.votes[k].juror => i = k
    BY DEF JuryInv, PollInv
  <2> QED
    BY <1>2, <1>8, <2>1, <2>2, <2>3
<1>11. \A i \in DOMAIN t.votes : t.votes[i].round <= t.round
  <2>1. \A i \in DOMAIN s.votes : s.votes[i].round <= s.round
    BY DEF JuryInv, PollInv
  <2> QED
    BY <1>3, <1>4, <1>5, <1>6, <2>1
<1>12. Polled(t)
  BY <1>2, <1>6, <1>7, <1>9, <1>10, <1>11 DEF Polled
<1>13. /\ \A p \in Parties, j \in Nat : <<p, j>> \in t.struck =>
            j \in DOMAIN t.jurors /\ t.jurors[j] \notin {"candidate", "sworn"}
       /\ \A i \in DOMAIN t.challenges :
            /\ t.challenges[i].juror \in DOMAIN t.jurors
            /\ t.challenges[i].ruling = "granted" =>
                 t.jurors[t.challenges[i].juror] \notin {"candidate", "sworn"}
  BY <1>6 DEF JuryInv, SelectionInv
<1>14. s' = Derived(t)
  BY <1>1 DEF t, x
<1> QED
  BY <1>2, <1>6, <1>12, <1>13, <1>14, SettledKeeps

LEMMA RemoveJurorKeeps ==
  ASSUME JuryInv, NEW opp, opp = CurrentTurn, RemoveJuror(opp)
  PROVE  JuryInv'
<1> DEFINE jurors == [s.jurors EXCEPT ![opp.on] = "timed_out"]
           t == [s EXCEPT !.jurors = jurors]
<1>1. opp.kind = "vote" /\ s' = Derived(t)
  BY DEF RemoveJuror
<1>2. /\ s \in State /\ s.phase = "deliberation" /\ s.configured
      /\ opp.on \in Sworn /\ opp.on \notin VotedIn(s.round)
      /\ opp.on \in DOMAIN s.jurors /\ opp.on \in Nat
      /\ s.verdict = NoVerdict /\ ~s.hung
  BY <1>1, PollIsOpen
<1>3. /\ jurors \in Seq(Status) /\ DOMAIN jurors = DOMAIN s.jurors
      /\ \A k \in DOMAIN s.jurors : k # opp.on => jurors[k] = s.jurors[k]
      /\ \A k \in DOMAIN s.jurors : jurors[k] \in {"candidate", "sworn"} => jurors[k] = s.jurors[k]
  <2>1. "timed_out" \in Status \ {"candidate", "sworn"}
    BY DEF Status
  <2> QED
    BY <1>2, <2>1, Dismissed
<1> HIDE DEF jurors
<1>4. /\ t.votes = s.votes /\ t.round = s.round /\ t.jurors = jurors /\ t.struck = s.struck
      /\ t.challenges = s.challenges /\ t.phase = s.phase /\ t.configured = s.configured
      /\ t.verdict = s.verdict /\ t.hung = s.hung
  BY <1>2 DEF State
<1>5. t \in State
  BY <1>2, <1>3 DEF State
<1> HIDE DEF t
<1>6. CastOf(t) = VotesIn(s.round) /\ VotedOf(t) = VotedIn(s.round)
  BY <1>4 DEF CastOf, VotedOf, VotesIn, VotedIn
<1>7. VotedOf(t) \subseteq SwornOf(t)
  <2>1. ASSUME NEW j \in VotedIn(s.round) PROVE j \in SwornOf(t)
    <3>1. j \in Sworn /\ j # opp.on
      BY <1>2, <2>1 DEF JuryInv, PollInv
    <3> QED
      BY <1>3, <1>4, <3>1 DEF Sworn, With, SwornOf
  <2> QED
    BY <1>6, <2>1
<1>8. Polled(t)
  BY <1>2, <1>4, <1>5, <1>6, <1>7 DEF Polled, JuryInv, PollInv
<1>9. /\ \A p \in Parties, j \in Nat : <<p, j>> \in t.struck =>
            j \in DOMAIN t.jurors /\ t.jurors[j] \notin {"candidate", "sworn"}
      /\ \A i \in DOMAIN t.challenges :
            /\ t.challenges[i].juror \in DOMAIN t.jurors
            /\ t.challenges[i].ruling = "granted" =>
                 t.jurors[t.challenges[i].juror] \notin {"candidate", "sworn"}
  BY <1>3, <1>4 DEF JuryInv, SelectionInv
<1>10. s' = Derived(t)
  BY <1>1 DEF t, jurors
<1> QED
  BY <1>2, <1>4, <1>8, <1>9, <1>10, SettledKeeps

-----------------------------------------------------------------------------
(* Every step.                                                             *)

LEMMA JuryInit ==
  ASSUME Init
  PROVE  JuryInv
<1>1. PICK p \in Policies : s = InitialState(p)
  BY DEF Init
<1>2. /\ s.policy = p /\ s.phase = "none" /\ s.configured = FALSE /\ s.jurors = <<>>
      /\ s.challenges = <<>> /\ s.struck = {} /\ s.round = 1 /\ s.votes = <<>>
      /\ s.verdict = NoVerdict /\ s.hung = FALSE
  BY <1>1 DEF InitialState
<1>3. s \in State
  BY <1>1 DEF InitialState, State, Phases, NoVerdict
<1>4. Sworn = {}
  BY <1>2 DEF Sworn, With
<1>5. SelectionInv
  BY <1>2, <1>4 DEF SelectionInv
<1>6. PollInv /\ VerdictSound
  BY <1>2 DEF PollInv, VotedIn, VotesIn, VerdictSound
<1>7. JurySelectedFairly
  BY <1>2 DEF JurySelectedFairly
<1> QED
  BY <1>3, <1>5, <1>6, <1>7 DEF JuryInv

LEMMA JuryNext ==
  ASSUME JuryInv, [Next]_s
  PROVE  JuryInv'
<1>1. CASE UNCHANGED s
  <2>1. PollInv' /\ VerdictSound'
    BY <1>1, PollStays
  <2>2. s' \in State /\ SelectionInv'
    BY <1>1 DEF JuryInv, SelectionInv, JuryEmpaneled, Sworn, With
  <2>3. JurySelectedFairly'
    <3>1. JuryEmpaneled' <=> JuryEmpaneled
      BY <1>1 DEF JuryEmpaneled, Sworn, With
    <3>2. Sworn' = Sworn /\ Candidates' = Candidates
      BY <1>1 DEF Sworn, Candidates, With
    <3>3. /\ \A p, j : Finished(p, j)' <=> Finished(p, j)
          /\ \A p : /\ CausesUsed(p)' = CausesUsed(p) /\ ChallengedBy(p)' = ChallengedBy(p)
                    /\ StruckBy(p)' = StruckBy(p)
      BY <1>1 DEF Finished, AnsweredFrom, MaxQuestions, Refused, Disallowed, CausesUsed,
         ChallengedBy, StruckBy
    <3> QED
      BY <1>1, <3>1, <3>2, <3>3 DEF JuryInv, JurySelectedFairly
  <2> QED
    BY <2>1, <2>2, <2>3 DEF JuryInv
<1>2. CASE Next
  <2> DEFINE opp == CurrentTurn
  <2>1. Resolve(opp)
    BY <1>2 DEF Next
  <2> HIDE DEF opp
  <2>2. opp = CurrentTurn
    BY DEF opp
  <2>3. CASE Configure(opp)
    BY <2>2, <2>3, ConfigureKeeps
  <2>4. CASE FillPanel(opp)
    BY <2>2, <2>4, FillPanelKeeps
  <2>5. CASE AdvancePhase(opp)
    BY <2>2, <2>5, AdvanceKeeps
  <2>6. CASE \/ IssueQuestionnaire(opp) \/ AnswerQuestionnaire(opp)
             \/ AskQuestion(opp) \/ PassQuestion(opp) \/ ImportFile(opp)
             \/ \E blank \in BOOLEAN : AnswerQuestion(opp, blank)
             \/ \E yes \in BOOLEAN : RuleOnQuestion(opp, yes)
             \/ PassCause(opp) \/ PassStrike(opp)
    BY <2>2, <2>6, QuestioningKeeps
  <2>7. ASSUME NEW yes \in BOOLEAN, DecideChallenge(opp, yes) PROVE JuryInv'
    BY <2>2, <2>7, DecideKeeps
  <2>8. ASSUME NEW j \in Candidates, ChallengeForCause(opp, j) \/ Strike(opp, j) PROVE JuryInv'
    BY <2>2, <2>8, ChallengeKeeps, StrikeKeeps
  <2>9. ASSUME NEW chosen \in SUBSET Candidates, Empanel(opp, chosen) PROVE JuryInv'
    BY <2>2, <2>9, EmpanelKeeps
  <2>10. ASSUME NEW vote \in Parties, NEW damages \in Damages \cup {0},
                CastVote(opp, vote, damages)
         PROVE  JuryInv'
    BY <2>2, <2>10, CastVoteKeeps
  <2>11. CASE ReplaceCandidate(opp)
    BY <2>2, <2>11, ReplaceKeeps
  <2>12. CASE RemoveJuror(opp)
    BY <2>2, <2>12, RemoveJurorKeeps
  <2> QED
    BY <2>1, <2>3, <2>4, <2>5, <2>6, <2>7, <2>8, <2>9, <2>10, <2>11, <2>12 DEF Resolve
<1> QED
  BY <1>1, <1>2

-----------------------------------------------------------------------------
(* The theorems.                                                           *)

\* The panel, the poll and the verdict of an ADC jury agree at every step, for
\* every jury policy the engine accepts.
THEOREM JuryConsistent == Spec => []JuryInv
<1>1. Init => JuryInv
  BY JuryInit
<1>2. JuryInv /\ [Next]_s => JuryInv'
  BY JuryNext
<1> QED
  BY <1>1, <1>2, PTL DEF Spec

\* deriveVerdictFromJurorVotes? and process_juror_timeout: a verdict counts one vote
\* of the last round for each juror still sworn, its side alone has the votes
\* required, and a jury is hung only when the code's rules say so.
THEOREM VerdictsAreSound == Spec => []VerdictSound
<1>1. JuryInv => VerdictSound
  BY DEF JuryInv
<1> QED
  BY <1>1, JuryConsistent, PTL

\* trialCandidates and empanelSelectedJurors: whoever is sworn answered, could be
\* questioned and challenged by both sides, and has nothing left undecided.
THEOREM JuriesSelectedFairly == Spec => []JurySelectedFairly
<1>1. JuryInv => JurySelectedFairly
  BY DEF JuryInv
<1> QED
  BY <1>1, JuryConsistent, PTL


-----------------------------------------------------------------------------
(* The role API.  First a fold over a sequence, one element at a time:     *)
(* FoldLeft is defined by a function on the sets of places; that such a    *)
(* function exists, and that it does not depend on what follows, is shown  *)
(* by a least counterexample.                                              *)

LEMMA LeastNatural ==
  ASSUME NEW S \in SUBSET Nat, S # {}
  PROVE  \E x \in S : \A y \in S : x <= y
<1>1. PICK x \in S : \A y \in S : ~ (<<y, x>> \in OpToRel(<, Nat))
  BY NatLessThanWellFounded, WFMin
<1>2. \A y \in S : ~ (y < x)
  BY <1>1 DEF OpToRel
<1> QED BY <1>2

LEMMA GreatestBelow ==
  ASSUME NEW n \in Nat, NEW S \in SUBSET (1 .. n), S # {}
  PROVE  Max(S) \in S /\ \A y \in S : y <= Max(S)
<1> DEFINE D == {n - x : x \in S}
<1>0. D # {}
  OBVIOUS
<1>1. D \in SUBSET Nat
  OBVIOUS
<1>2. PICK d \in D : \A y \in D : d <= y
  BY <1>0, <1>1, LeastNatural
<1>3. PICK x \in S : d = n - x
  OBVIOUS
<1>4. \A y \in S : x >= y
  <2> TAKE y \in S
  <2>1. n - x <= n - y
    BY <1>2, <1>3
  <2> QED BY <2>1
<1>5. Max(S) \in S /\ \A y \in S : Max(S) >= y
  BY <1>4 DEF Max
<1> QED BY <1>5

Folding(it, b, q, n) ==
  it = [S \in SUBSET (1 .. n) |->
          IF S = {} THEN b ELSE Step(it[S \ {Max(S)}], q[Max(S)])]

Folded(b, q, n) == CHOOSE it : Folding(it, b, q, n)

LEMMA FoldIs ==
  ASSUME NEW b, NEW q, NEW n, DOMAIN q = 1 .. n
  PROVE  FoldLeft(Step, b, q) = Folded(b, q, n)[1 .. n]
BY DEF FoldLeft, MapThenFoldSet, Folding, Folded

LEMMA FoldingExists ==
  ASSUME NEW b, NEW q
  PROVE  \A n \in Nat : Folding(Folded(b, q, n), b, q, n)
<1> DEFINE Bad == {n \in Nat : ~ \E it : Folding(it, b, q, n)}
<1>0. Bad = {} => \A n \in Nat : Folding(Folded(b, q, n), b, q, n)
  BY DEF Folded
<1> SUFFICES ASSUME Bad # {} PROVE FALSE
  BY <1>0
<1>1. PICK n \in Bad : \A k \in Bad : n <= k
  BY LeastNatural
<1>2. n # 0
  <2> DEFINE it == [S \in SUBSET (1 .. 0) |-> b]
  <2>1. Folding(it, b, q, 0)
    BY DEF Folding
  <2> QED BY <2>1
<1>3. n - 1 \in Nat /\ n - 1 \notin Bad
  BY <1>1, <1>2
<1>4. PICK f : Folding(f, b, q, n - 1)
  BY <1>3
<1> DEFINE it == [S \in SUBSET (1 .. n) |->
                    IF n \in S THEN Step(f[S \ {n}], q[n]) ELSE f[S]]
<1>5. ASSUME NEW S \in SUBSET (1 .. n)
      PROVE  it[S] = IF S = {} THEN b ELSE Step(it[S \ {Max(S)}], q[Max(S)])
  <2>0. n \in Nat
    OBVIOUS
  <2>1. CASE n \in S
    <3>0. S # {} /\ S \subseteq 1 .. n
      BY <2>1
    <3>1. Max(S) \in S /\ Max(S) >= n
      BY <2>0, <2>1, <3>0, GreatestBelow
    <3>1a. Max(S) \in 1 .. n
      BY <3>0, <3>1
    <3>2. Max(S) = n
      BY <2>0, <3>1, <3>1a
    <3>3. S \ {n} \in SUBSET (1 .. n) /\ n \notin S \ {n}
      OBVIOUS
    <3>4. it[S \ {n}] = f[S \ {n}]
      BY <3>3
    <3>5. it[S] = Step(f[S \ {n}], q[n])
      BY <2>1
    <3> QED BY <3>0, <3>2, <3>4, <3>5
  <2>2. CASE n \notin S
    <3>1. S \in SUBSET (1 .. (n - 1))
      BY <2>0, <2>2
    <3>2. it[S] = f[S]
      BY <2>2
    <3>3. f[S] = IF S = {} THEN b ELSE Step(f[S \ {Max(S)}], q[Max(S)])
      BY <3>1, <1>4 DEF Folding
    <3>4. S \ {Max(S)} \in SUBSET (1 .. n) /\ n \notin S \ {Max(S)}
      BY <2>2
    <3>5. it[S \ {Max(S)}] = f[S \ {Max(S)}]
      BY <3>4
    <3> QED BY <3>2, <3>3, <3>5
  <2> QED BY <2>1, <2>2
<1>6. Folding(it, b, q, n)
  <2> HIDE DEF it
  <2>1. it = [S \in SUBSET (1 .. n) |-> it[S]]
    BY DEF it
  <2>2. it = [S \in SUBSET (1 .. n) |->
                IF S = {} THEN b ELSE Step(it[S \ {Max(S)}], q[Max(S)])]
    BY <2>1, <1>5
  <2> QED BY <2>2 DEF Folding
<1> QED BY <1>6

LEMMA FoldsAgree ==
  ASSUME NEW b, NEW q, NEW r, NEW m \in Nat, NEW n \in Nat, m <= n, NEW f, NEW g,
         Folding(f, b, q, m), Folding(g, b, r, n), \A i \in 1 .. m : q[i] = r[i]
  PROVE  f[1 .. m] = g[1 .. m]
<1> DEFINE Bad == {k \in 0 .. m : \E S \in SUBSET (1 .. k) : f[S] # g[S]}
<1>0. Bad \in SUBSET Nat
  OBVIOUS
<1> SUFFICES ASSUME Bad # {} PROVE FALSE
  <2>1. m \in 0 .. m
    OBVIOUS
  <2>2. m \notin Bad => f[1 .. m] = g[1 .. m]
    BY <2>1
  <2> QED BY <2>2
<1>1. PICK k \in Bad : \A j \in Bad : k <= j
  BY <1>0, LeastNatural
<1>k. k \in 0 .. m
  OBVIOUS
<1>2. PICK S \in SUBSET (1 .. k) : f[S] # g[S]
  OBVIOUS
<1>3. S \in SUBSET (1 .. m)
  BY <1>k
<1>3b. S \in SUBSET (1 .. n)
  BY <1>k
<1>4. f[S] = IF S = {} THEN b ELSE Step(f[S \ {Max(S)}], q[Max(S)])
  BY <1>3 DEF Folding
<1>4b. g[S] = IF S = {} THEN b ELSE Step(g[S \ {Max(S)}], r[Max(S)])
  BY <1>3b DEF Folding
<1>5. S # {}
  BY <1>2, <1>4, <1>4b
<1>6. Max(S) \in S /\ (\A y \in S : Max(S) >= y)
  BY <1>5, <1>3, GreatestBelow
<1> DEFINE x == Max(S)
<1> HIDE DEF x
<1>6a. x \in S /\ (\A y \in S : x >= y) /\ x \in 1 .. k /\ x \in 1 .. m
  BY <1>6, <1>3 DEF x
<1>7. S \ {x} \in SUBSET (1 .. (x - 1))
  BY <1>6a, <1>k
<1>8. x - 1 \in 0 .. m /\ x - 1 < k
  BY <1>6a, <1>k
<1>9. x - 1 \notin Bad
  <2> SUFFICES ASSUME x - 1 \in Bad PROVE FALSE
    OBVIOUS
  <2>1. k <= x - 1
    BY <1>1
  <2> QED BY <2>1, <1>8, <1>6a, <1>k
<1>10. f[S \ {x}] = g[S \ {x}]
  BY <1>7, <1>8, <1>9
<1>11. q[x] = r[x]
  BY <1>6a
<1> QED BY <1>2, <1>4, <1>4b, <1>5, <1>10, <1>11 DEF x

LEMMA FoldLeftEmpty ==
  ASSUME NEW b
  PROVE  FoldLeft(Step, b, <<>>) = b
<1>1. Folding(Folded(b, <<>>, 0), b, <<>>, 0)
  BY FoldingExists
<1>2. {} \in SUBSET (1 .. 0) /\ 1 .. 0 = {}
  OBVIOUS
<1>3. Folded(b, <<>>, 0)[{}] = b
  BY <1>1, <1>2 DEF Folding
<1>4. DOMAIN <<>> = 1 .. 0
  OBVIOUS
<1> QED BY <1>2, <1>3, <1>4, FoldIs

LEMMA FoldLeftAppend ==
  ASSUME NEW b, NEW T, NEW q \in Seq(T), NEW e \in T
  PROVE  FoldLeft(Step, b, Append(q, e)) = Step(FoldLeft(Step, b, q), e)
<1> DEFINE n == Len(q)
           r == Append(q, e)
           f == Folded(b, q, n)
           g == Folded(b, r, n + 1)
<1> HIDE DEF n, r, f, g
<1>0. n \in Nat /\ DOMAIN q = 1 .. n /\ DOMAIN r = 1 .. (n + 1)
  BY DEF n, r
<1>0a. r[n + 1] = e /\ \A i \in 1 .. n : q[i] = r[i]
  BY DEF n, r
<1>n. n + 1 \in Nat /\ n <= n + 1
  BY <1>0
<1>1. Folding(f, b, q, n) /\ Folding(g, b, r, n + 1)
  BY <1>0, <1>n, FoldingExists DEF f, g
<1>2. f[1 .. n] = g[1 .. n]
  BY <1>0, <1>n, <1>0a, <1>1, FoldsAgree
<1>3. g[1 .. (n + 1)] = Step(g[1 .. n], e)
  <2> DEFINE W == 1 .. (n + 1)
  <2>0. W # {} /\ n + 1 \in W /\ W \in SUBSET (1 .. (n + 1))
    BY <1>0
  <2>1. Max(W) \in W /\ \A y \in W : Max(W) >= y
    BY <1>n, <2>0, GreatestBelow
  <2>2. Max(W) = n + 1
    BY <1>0, <2>1, <2>0
  <2>3. W \ {n + 1} = 1 .. n
    BY <1>0
  <2>4. g[W] = IF W = {} THEN b ELSE Step(g[W \ {Max(W)}], r[Max(W)])
    BY <1>1, <2>0 DEF Folding
  <2> QED BY <2>0, <2>2, <2>3, <2>4, <1>0a
<1>4. FoldLeft(Step, b, q) = f[1 .. n]
  BY <1>0, FoldIs DEF f
<1>5. FoldLeft(Step, b, r) = g[1 .. (n + 1)]
  BY <1>0, FoldIs DEF g
<1> QED BY <1>2, <1>3, <1>4, <1>5 DEF r
-----------------------------------------------------------------------------
(* Types, and what a step of the court keeps.                              *)

Court == [version : Nat, answered : SUBSET Tasks, replaced : [Seats -> Nat],
          voted : SUBSET Tasks, removed : SUBSET Tasks]
Transition == [kind : {"decision", "timeout", "add"}, task : Tasks, turn : Nat,
               authority : {"none", "decision"}, of : Nat, named : BOOLEAN, version : Nat]
ExternalTurn == [number : Nat, task : Nat, actor : Nat \X Nat, version : Nat, due : BOOLEAN,
                 attempts : Nat, completed : BOOLEAN]
Request == [actor : Nat \X Nat, of : Nat, named : BOOLEAN,
            what : {"decide", "invalid", "fail"}]

RoleTypeOK ==
  /\ court \in Court
  /\ cert \in Seq(Transition)
  /\ turn \in ExternalTurn /\ (turn.number > 0 => turn.task \in Tasks)
  /\ sent \subseteq Request
  /\ active \in BOOLEAN
  /\ pc \in {"next", "waiting", "leaving", "ending", "ended", "closed"}

LEMMA TasksAreNumbers ==
  /\ Tasks \subseteq Nat
  /\ \A i \in Tasks : Agenda[i].kind \in Kinds /\ Agenda[i].seat \in Seats /\ Agenda[i].seat \in Nat
<1>1. Agenda \in Seq([kind : Kinds, seat : Nat])
  BY AgendaAssumption
<1>2. Tasks = 1 .. Len(Agenda) /\ Len(Agenda) \in Nat
  BY <1>1 DEF Tasks
<1>3. \A i \in Tasks : Agenda[i] \in [kind : Kinds, seat : Nat]
  <2> TAKE i \in Tasks
  <2>1. i \in 1 .. Len(Agenda)
    BY <1>2
  <2> QED BY <1>1, <2>1, ElementOfSeq
<1>4. \A i \in Tasks : Agenda[i].seat \in Seats
  BY DEF Seats
<1>5. Tasks \subseteq Nat
  BY <1>2
<1> QED BY <1>3, <1>4, <1>5

LEMMA StepType ==
  ASSUME NEW k \in Court, NEW t \in Transition
  PROVE  Step(k, t) \in Court /\ Step(k, t).version = k.version + 1
<1> DEFINE d == [k EXCEPT !.version = @ + 1]
<1>1. d \in Court /\ d.version = k.version + 1
  BY DEF Court
<1>2. t.task \in Tasks /\ Agenda[t.task].seat \in Seats
  BY TasksAreNumbers DEF Transition
<1> HIDE DEF d
<1>3. ASSUME NEW A \in SUBSET Tasks, NEW V \in SUBSET Tasks
      PROVE  [d EXCEPT !.answered = A, !.voted = V] \in Court
             /\ [d EXCEPT !.answered = A, !.voted = V].version = d.version
  BY <1>1 DEF Court
<1>4. ASSUME NEW A \in SUBSET Tasks, NEW R \in SUBSET Tasks
      PROVE  [d EXCEPT !.answered = A, !.removed = R] \in Court
             /\ [d EXCEPT !.answered = A, !.removed = R].version = d.version
  BY <1>1 DEF Court
<1>5. ASSUME NEW A \in SUBSET Tasks, NEW seat \in Seats
      PROVE  [d EXCEPT !.replaced[seat] = @ + 1, !.answered = A] \in Court
             /\ [d EXCEPT !.replaced[seat] = @ + 1, !.answered = A].version = d.version
  <2> DEFINE R == [d.replaced EXCEPT ![seat] = @ + 1]
  <2>1. R \in [Seats -> Nat]
    BY <1>1 DEF Court
  <2>2. [d EXCEPT !.replaced[seat] = @ + 1, !.answered = A] = [d EXCEPT !.replaced = R, !.answered = A]
    BY <1>1 DEF Court
  <2> HIDE DEF R
  <2>3. /\ [d EXCEPT !.replaced = R, !.answered = A] \in Court
        /\ [d EXCEPT !.replaced = R, !.answered = A].version = d.version
    BY <1>1, <2>1 DEF Court
  <2> QED BY <2>2, <2>3
<1>6. /\ d.answered \in SUBSET Tasks /\ d.voted \in SUBSET Tasks /\ d.removed \in SUBSET Tasks
      /\ d.answered \cup {t.task} \in SUBSET Tasks /\ d.voted \cup {t.task} \in SUBSET Tasks
      /\ d.removed \cup {t.task} \in SUBSET Tasks /\ d.answered \ {t.task} \in SUBSET Tasks
  BY <1>1, <1>2 DEF Court
<1>7. CASE t.kind = "decision"
  <2> DEFINE V == IF Agenda[t.task].kind = "vote" THEN d.voted \cup {t.task} ELSE d.voted
  <2>1. V \in SUBSET Tasks
    BY <1>6
  <2>2. Step(k, t) = [d EXCEPT !.answered = d.answered \cup {t.task}, !.voted = V]
    BY <1>7, <1>1 DEF Step, d, Court
  <2> HIDE DEF V
  <2> QED BY <2>1, <2>2, <1>3, <1>6, <1>1
<1>8. CASE t.kind = "timeout" /\ Agenda[t.task].kind = "vote"
  <2>1. Step(k, t) = [d EXCEPT !.answered = d.answered \cup {t.task},
                               !.removed = d.removed \cup {t.task}]
    BY <1>8, <1>1 DEF Step, d, Court
  <2> QED BY <2>1, <1>4, <1>6, <1>1
<1>9. CASE t.kind = "timeout" /\ Agenda[t.task].kind # "vote"
  <2>1. Step(k, t) = d
    BY <1>9 DEF Step, d
  <2> QED BY <2>1, <1>1
<1>10. CASE t.kind = "add"
  <2>1. Step(k, t) = [d EXCEPT !.replaced[Agenda[t.task].seat] = @ + 1,
                               !.answered = d.answered \ {t.task}]
    BY <1>10, <1>1 DEF Step, d, Court
  <2> QED BY <2>1, <1>5, <1>6, <1>1, <1>2
<1> QED BY <1>7, <1>8, <1>9, <1>10 DEF Transition

LEMMA ConcatOneTwo ==
  ASSUME NEW T, NEW q \in Seq(T), NEW e \in T, NEW f \in T
  PROVE  /\ q \o <<e>> = Append(q, e)
         /\ q \o <<e, f>> = Append(Append(q, e), f)
OBVIOUS

LEMMA FoldOne ==
  ASSUME NEW b, NEW e
  PROVE  FoldLeft(Step, b, <<e>>) = Step(b, e)
<1> DEFINE T == {e}
<1>1. <<>> \in Seq(T) /\ <<e>> = Append(<<>>, e) /\ e \in T
  OBVIOUS
<1> HIDE DEF T
<1>2. FoldLeft(Step, b, Append(<<>>, e)) = Step(FoldLeft(Step, b, <<>>), e)
  BY <1>1, FoldLeftAppend
<1> QED BY <1>1, <1>2, FoldLeftEmpty

\* One transition accepted, and two.
LEMMA AcceptOne ==
  ASSUME RoleTypeOK, NEW e \in Transition, Accept(<<e>>)
  PROVE  /\ cert' = Append(cert, e) /\ court' = Step(court, e)
         /\ court' \in Court /\ court'.version = court.version + 1
         /\ (Replay(cert) = court => Replay(cert)' = court')
<1>1. cert' = Append(cert, e)
  BY ConcatOneTwo DEF Accept, RoleTypeOK
<1>2. court' = Step(court, e)
  BY FoldOne DEF Accept
<1>3. Replay(cert)' = Step(Replay(cert), e)
  BY <1>1, FoldLeftAppend DEF Replay, RoleTypeOK
<1> QED BY <1>1, <1>2, <1>3, StepType DEF RoleTypeOK

LEMMA AcceptTwo ==
  ASSUME RoleTypeOK, NEW e \in Transition, NEW f \in Transition, Accept(<<e, f>>)
  PROVE  /\ cert' = Append(Append(cert, e), f)
         /\ court' \in Court /\ court'.version = court.version + 2
         /\ (Replay(cert) = court => Replay(cert)' = court')
<1>1. cert' = Append(Append(cert, e), f)
  BY ConcatOneTwo DEF Accept, RoleTypeOK
<1>2. court' = Step(Step(court, e), f)
  <2>1. court' = FoldLeft(Step, court, <<e, f>>)
    BY DEF Accept
  <2>2. FoldLeft(Step, court, <<e, f>>) = Step(FoldLeft(Step, court, <<e>>), f)
    <3>1. <<e>> \in Seq(Transition) /\ <<e, f>> = Append(<<e>>, f)
      OBVIOUS
    <3>2. FoldLeft(Step, court, Append(<<e>>, f)) = Step(FoldLeft(Step, court, <<e>>), f)
      BY <3>1, FoldLeftAppend
    <3> QED BY <3>1, <3>2
  <2>3. FoldLeft(Step, court, <<e>>) = Step(court, e)
    BY FoldOne
  <2> QED BY <2>1, <2>2, <2>3
<1>3. Append(cert, e) \in Seq(Transition)
  BY DEF RoleTypeOK
<1>4. Replay(cert)' = Step(Replay(Append(cert, e)), f)
  BY <1>1, <1>3, FoldLeftAppend DEF Replay
<1>5. Replay(Append(cert, e)) = Step(Replay(cert), e)
  BY FoldLeftAppend DEF Replay, RoleTypeOK
<1>6. Step(court, e) \in Court /\ Step(court, e).version = court.version + 1
  BY StepType DEF RoleTypeOK
<1>7. Step(Step(court, e), f) \in Court
      /\ Step(Step(court, e), f).version = Step(court, e).version + 1
  BY <1>6, StepType
<1>8. court.version + 1 + 1 = court.version + 2
  BY DEF RoleTypeOK, Court
<1> QED BY <1>1, <1>2, <1>4, <1>5, <1>6, <1>7, <1>8
-----------------------------------------------------------------------------
(* The inductive invariant.                                                *)

\* A turn is open while the run waits in it or is about to leave it.
RunInv ==
  /\ active => pc \in {"waiting", "leaving"}
  /\ pc \in {"waiting", "leaving"} => turn.number > 0
  /\ turn.number = 0 => ~turn.due

\* The last turn's transitions follow the version it was given at: the engine,
\* which knows its own, takes no second one.
AfterItsVersion ==
  /\ turn.version <= court.version
  /\ \A i \in DOMAIN cert : cert[i].turn <= turn.number
  /\ turn.number > 0 => \A i \in Of(turn.number) : i > turn.version

\* A turn not completed has moved the court by an unstored decision at most.
OpenTurn ==
  turn.number > 0 /\ ~turn.completed =>
    /\ \A i \in Of(turn.number) : cert[i].kind = "decision"
    /\ PersistFails \/ Of(turn.number) = {}

RecordInv ==
  /\ court.version = Len(cert)
  /\ CertificateVerifies
  /\ AfterItsVersion /\ OpenTurn
  /\ OneOutcomePerTurn

RoleInv == RoleTypeOK /\ RunInv /\ RecordInv
-----------------------------------------------------------------------------
(* What a transition does to the record.                                   *)

LEMMA RecordKept ==
  ASSUME RecordInv, UNCHANGED <<cert, court, faults>>,
         turn'.number = turn.number, turn'.version = turn.version,
         turn.completed => turn'.completed
  PROVE  RecordInv'
<1>1. \A n : Of(n)' = Of(n)
  BY DEF Of
<1>2. CertificateVerifies'
  BY DEF RecordInv, CertificateVerifies
<1>3. AfterItsVersion' /\ OpenTurn' /\ OneOutcomePerTurn'
  BY <1>1 DEF RecordInv, AfterItsVersion, OpenTurn, OneOutcomePerTurn, Settled, PersistFails
<1> QED BY <1>2, <1>3 DEF RecordInv

LEMMA OfAppended ==
  ASSUME cert \in Seq(Transition), NEW e \in Transition, cert' = Append(cert, e)
  PROVE  /\ Len(cert) \in Nat /\ DOMAIN cert = 1 .. Len(cert)
         /\ Len(cert') = Len(cert) + 1 /\ DOMAIN cert' = 1 .. (Len(cert) + 1)
         /\ cert'[Len(cert) + 1] = e /\ \A i \in DOMAIN cert : cert'[i] = cert[i]
         /\ \A n : Of(n) \subseteq DOMAIN cert
         /\ \A n : Of(n)' = IF e.turn = n THEN Of(n) \cup {Len(cert) + 1} ELSE Of(n)
<1>1. /\ Len(cert) \in Nat /\ DOMAIN cert = 1 .. Len(cert)
      /\ Len(cert') = Len(cert) + 1 /\ DOMAIN cert' = 1 .. (Len(cert) + 1)
      /\ cert'[Len(cert) + 1] = e /\ \A i \in DOMAIN cert : cert'[i] = cert[i]
  OBVIOUS
<1>2. \A n : Of(n)' = IF e.turn = n THEN Of(n) \cup {Len(cert) + 1} ELSE Of(n)
  BY <1>1 DEF Of
<1>3. \A n : Of(n) \subseteq DOMAIN cert
  BY DEF Of
<1> QED BY <1>1, <1>2, <1>3

\* A transition outside any turn, by a role the process plays itself.
LEMMA RecordedOutside ==
  ASSUME RoleTypeOK, RecordInv, NEW e \in Transition, Accept(<<e>>), e.turn = 0,
         e.named => e.of = e.version, e.authority = "decision" => e.version = court.version,
         UNCHANGED <<turn, faults>>
  PROVE  RecordInv'
<1> USE DEF RecordInv
<1>1. /\ cert' = Append(cert, e) /\ court'.version = court.version + 1
      /\ Replay(cert)' = court'
  BY AcceptOne DEF CertificateVerifies
<1>2. cert \in Seq(Transition) /\ turn.number \in Nat
  BY DEF RoleTypeOK, ExternalTurn
<1>3. /\ Len(cert) \in Nat /\ DOMAIN cert = 1 .. Len(cert)
      /\ Len(cert') = Len(cert) + 1 /\ DOMAIN cert' = 1 .. (Len(cert) + 1)
      /\ cert'[Len(cert) + 1] = e /\ \A i \in DOMAIN cert : cert'[i] = cert[i]
      /\ \A n : Of(n) \subseteq DOMAIN cert
  BY <1>1, <1>2, OfAppended
<1>4. \A n \in 1 .. turn.number : Of(n)' = Of(n)
  BY <1>1, <1>2, OfAppended
<1>5. CertificateVerifies'
  BY <1>1, <1>3 DEF CertificateVerifies
<1>6. AfterItsVersion'
  <2>1. \A i \in DOMAIN cert' : cert'[i].turn <= turn.number
    <3> TAKE i \in DOMAIN cert'
    <3>1. i \in DOMAIN cert \/ cert'[i].turn = 0
      BY <1>3
    <3> QED BY <3>1, <1>2, <1>3 DEF AfterItsVersion
  <2>2. turn.version <= court.version + 1
    BY DEF AfterItsVersion, RoleTypeOK, ExternalTurn, Court
  <2>3. turn.number > 0 => Of(turn.number)' = Of(turn.number)
    BY <1>2, <1>4
  <2> QED BY <1>1, <2>1, <2>2, <2>3 DEF AfterItsVersion
<1>7. OpenTurn'
  BY <1>2, <1>3, <1>4 DEF OpenTurn, PersistFails
<1>8. OneOutcomePerTurn'
  <2>1. ASSUME NEW n \in 1 .. turn.number, PersistFails \/ Settled(n)
        PROVE  PersistFails' \/ Settled(n)'
    <3>1. Of(n)' = Of(n) /\ Of(n) \subseteq DOMAIN cert
      BY <1>3, <1>4
    <3>2. \A i : i + 1 \in Of(n) => cert'[i + 1] = cert[i + 1]
      BY <1>3
    <3> QED BY <2>1, <3>1, <3>2, <1>3 DEF Settled, PersistFails
  <2>2. ASSUME NEW n \in 1 .. turn.number
        PROVE  \A i, j \in Of(n)' : cert'[i].kind = cert'[j].kind => i = j
    BY <1>3, <1>4 DEF OneOutcomePerTurn
  <2>3. \A i \in DOMAIN cert' : cert'[i].named => cert'[i].of = cert'[i].version
    BY <1>3 DEF OneOutcomePerTurn
  <2> QED BY <2>1, <2>2, <2>3 DEF OneOutcomePerTurn
<1> QED BY <1>1, <1>3, <1>5, <1>6, <1>7, <1>8

\* A decision or a failure of the open turn.
LEMMA RecordedInTurn ==
  ASSUME RoleTypeOK, RecordInv, NEW e \in Transition, Accept(<<e>>),
         turn.number > 0, ~turn.completed, e.turn = turn.number,
         e.named => e.of = e.version, e.authority = "decision" => e.version = court.version,
         \/ e.kind = "decision" /\ turn.version = court.version
            /\ (turn'.completed \/ PersistFails)
         \/ e.kind = "timeout" /\ turn'.completed,
         turn'.number = turn.number, turn'.version = turn.version, UNCHANGED faults
  PROVE  RecordInv'
<1> USE DEF RecordInv
<1> DEFINE m == turn.number
           k == Len(cert) + 1
<1>1. /\ cert' = Append(cert, e) /\ court'.version = court.version + 1
      /\ Replay(cert)' = court'
  BY AcceptOne DEF CertificateVerifies
<1>2. cert \in Seq(Transition) /\ m \in Nat /\ turn.version \in Nat
  BY DEF RoleTypeOK, ExternalTurn
<1>3. /\ Len(cert) \in Nat /\ DOMAIN cert = 1 .. Len(cert)
      /\ Len(cert') = k /\ DOMAIN cert' = 1 .. k
      /\ cert'[k] = e /\ \A i \in DOMAIN cert : cert'[i] = cert[i]
      /\ \A n : Of(n) \subseteq DOMAIN cert
  BY <1>1, <1>2, OfAppended
<1>4. Of(m)' = Of(m) \cup {k} /\ \A n : n # m => Of(n)' = Of(n)
  BY <1>1, <1>2, OfAppended
<1>5. CertificateVerifies'
  BY <1>1, <1>3 DEF CertificateVerifies
<1>6. AfterItsVersion'
  BY <1>1, <1>2, <1>3, <1>4 DEF AfterItsVersion
<1>7. e.kind = "decision" => Of(m) = {}
  <2> SUFFICES ASSUME e.kind = "decision", NEW i \in Of(m) PROVE FALSE
    OBVIOUS
  <2>1. i > Len(cert) /\ i \in 1 .. Len(cert)
    BY <1>3 DEF AfterItsVersion
  <2> QED BY <2>1, <1>3
<1>8. OpenTurn'
  BY <1>3, <1>4, <1>7 DEF OpenTurn, PersistFails
<1>9. OneOutcomePerTurn'
  <2>1. ASSUME NEW n \in 1 .. m PROVE PersistFails' \/ Settled(n)'
    <3>1. CASE n # m
      <4>1. Of(n)' = Of(n) /\ Of(n) \subseteq DOMAIN cert
        BY <1>3, <1>4, <3>1
      <4>2. \A i : i + 1 \in Of(n) => cert'[i + 1] = cert[i + 1]
        BY <1>3
      <4>3. PersistFails \/ Settled(n)
        BY DEF OneOutcomePerTurn
      <4> QED BY <4>1, <4>2, <4>3, <1>3 DEF Settled, PersistFails
    <3>2. CASE n = m
      <4>1. PersistFails \/ Of(m)' = {k}
        BY <1>4 DEF OpenTurn
      <4> QED BY <3>2, <4>1, <1>3 DEF Settled, PersistFails
    <3> QED BY <3>1, <3>2
  <2>2. ASSUME NEW n \in 1 .. m
        PROVE  \A i, j \in Of(n)' : cert'[i].kind = cert'[j].kind => i = j
    <3>1. CASE n # m
      BY <3>1, <1>3, <1>4 DEF OneOutcomePerTurn
    <3>2. CASE n = m
      <4>1. \A i \in Of(m) : cert'[i].kind # e.kind
        BY <1>3, <1>7 DEF OpenTurn
      <4>2. \A i, j \in Of(m) : cert'[i].kind = cert'[j].kind => i = j
        BY <1>3, <3>2 DEF OneOutcomePerTurn
      <4> QED BY <3>2, <4>1, <4>2, <1>3, <1>4
    <3> QED BY <3>1, <3>2
  <2>3. \A i \in DOMAIN cert' : cert'[i].named => cert'[i].of = cert'[i].version
    BY <1>3 DEF OneOutcomePerTurn
  <2> QED BY <2>1, <2>2, <2>3 DEF OneOutcomePerTurn
<1> QED BY <1>1, <1>3, <1>5, <1>6, <1>8, <1>9

\* A candidate that failed and the one that takes its place.
LEMMA RecordedReplacement ==
  ASSUME RoleTypeOK, RecordInv, NEW e \in Transition, NEW f \in Transition, Accept(<<e, f>>),
         turn.number > 0, ~turn.completed, turn'.completed,
         e.turn = turn.number, f.turn = turn.number, e.kind = "timeout", f.kind = "add",
         e.named => e.of = e.version, f.named => f.of = f.version,
         e.authority = "none", f.authority = "none",
         turn'.number = turn.number, turn'.version = turn.version, UNCHANGED faults
  PROVE  RecordInv'
<1> USE DEF RecordInv
<1> DEFINE m == turn.number
           k == Len(cert) + 1
<1>1. /\ cert' = Append(Append(cert, e), f) /\ court'.version = court.version + 2
      /\ Replay(cert)' = court'
  BY AcceptTwo DEF CertificateVerifies
<1>2. cert \in Seq(Transition) /\ m \in Nat /\ turn.version \in Nat
  BY DEF RoleTypeOK, ExternalTurn
<1>3. /\ Len(cert) \in Nat /\ DOMAIN cert = 1 .. Len(cert)
      /\ Len(cert') = k + 1 /\ DOMAIN cert' = 1 .. (k + 1)
      /\ cert'[k] = e /\ cert'[k + 1] = f /\ \A i \in DOMAIN cert : cert'[i] = cert[i]
      /\ \A n : Of(n) \subseteq DOMAIN cert
  BY <1>1, <1>2 DEF Of
<1>4. Of(m)' = Of(m) \cup {k, k + 1} /\ \A n : n # m => Of(n)' = Of(n)
  <2>1. DOMAIN cert' = (DOMAIN cert) \cup {k, k + 1}
    BY <1>3
  <2>2. cert'[k].turn = m /\ cert'[k + 1].turn = m
    BY <1>3
  <2>3. \A i \in DOMAIN cert : cert'[i].turn = cert[i].turn
    BY <1>3
  <2> QED BY <2>1, <2>2, <2>3 DEF Of
<1>5. CertificateVerifies'
  <2>1. \A i \in DOMAIN cert' : i \in DOMAIN cert \/ cert'[i].authority = "none"
    BY <1>3
  <2> QED BY <1>1, <1>3, <2>1 DEF CertificateVerifies
<1>6. AfterItsVersion'
  BY <1>1, <1>2, <1>3, <1>4 DEF AfterItsVersion
<1>7. OpenTurn'
  BY DEF OpenTurn
<1>8. OneOutcomePerTurn'
  <2>1. ASSUME NEW n \in 1 .. m PROVE PersistFails' \/ Settled(n)'
    <3>1. CASE n # m
      <4>1. Of(n)' = Of(n) /\ Of(n) \subseteq DOMAIN cert
        BY <1>3, <1>4, <3>1
      <4>2. \A i : i + 1 \in Of(n) => cert'[i + 1] = cert[i + 1]
        BY <1>3
      <4>3. PersistFails \/ Settled(n)
        BY DEF OneOutcomePerTurn
      <4> QED BY <4>1, <4>2, <4>3, <1>3 DEF Settled, PersistFails
    <3>2. CASE n = m
      <4>1. PersistFails \/ Of(m)' = {k, k + 1}
        BY <1>4 DEF OpenTurn
      <4> QED BY <3>2, <4>1, <1>3 DEF Settled, PersistFails
    <3> QED BY <3>1, <3>2
  <2>2. ASSUME NEW n \in 1 .. m
        PROVE  \A i, j \in Of(n)' : cert'[i].kind = cert'[j].kind => i = j
    <3>1. CASE n # m
      BY <3>1, <1>3, <1>4 DEF OneOutcomePerTurn
    <3>2. CASE n = m
      <4>1. \A i \in Of(m) : cert'[i].kind = "decision"
        BY <1>3 DEF OpenTurn
      <4>2. \A i, j \in Of(m) : cert'[i].kind = cert'[j].kind => i = j
        BY <1>3, <3>2 DEF OneOutcomePerTurn
      <4> QED BY <3>2, <4>1, <4>2, <1>3, <1>4
    <3> QED BY <3>1, <3>2
  <2>3. \A i \in DOMAIN cert' : cert'[i].named => cert'[i].of = cert'[i].version
    BY <1>3 DEF OneOutcomePerTurn
  <2> QED BY <2>1, <2>2, <2>3 DEF OneOutcomePerTurn
<1> QED BY <1>1, <1>3, <1>5, <1>6, <1>7, <1>8

LEMMA TurnStarts ==
  ASSUME RoleTypeOK, RecordInv, StartTurn
  PROVE  RecordInv'
<1>1. UNCHANGED <<cert, court, faults>>
  BY DEF StartTurn, world
<1>2. CASE UNCHANGED turn
  BY <1>1, <1>2, RecordKept
<1>3. CASE /\ turn'.number = turn.number + 1 /\ turn'.version = court.version
           /\ turn'.completed = FALSE
  <2> DEFINE m == turn.number
  <2>1. m \in Nat /\ court.version = Len(cert) /\ Len(cert) \in Nat /\ DOMAIN cert = 1 .. Len(cert)
    BY DEF RoleTypeOK, RecordInv, ExternalTurn
  <2>2. \A n : Of(n)' = Of(n)
    BY <1>1 DEF Of
  <2>3. \A i \in DOMAIN cert : cert[i].turn \in Nat /\ cert[i].turn <= m
    <3> TAKE i \in DOMAIN cert
    <3>1. cert[i] \in Transition
      BY <2>1 DEF RoleTypeOK
    <3>2. cert[i].turn \in Nat
      BY <3>1 DEF Transition
    <3> QED BY <3>2 DEF RecordInv, AfterItsVersion
  <2>4. Of(m + 1) = {}
    BY <2>1, <2>3 DEF Of
  <2>5. CertificateVerifies'
    BY <1>1 DEF RecordInv, CertificateVerifies
  <2>6. AfterItsVersion' /\ OpenTurn'
    BY <1>1, <1>3, <2>1, <2>2, <2>3, <2>4 DEF AfterItsVersion, OpenTurn
  <2>7. OneOutcomePerTurn'
    <3>1. \A n \in 1 .. (m + 1) : n \in 1 .. m \/ Of(n) = {}
      BY <2>1, <2>4
    <3> QED BY <1>1, <1>3, <2>2, <3>1 DEF RecordInv, OneOutcomePerTurn, Settled, PersistFails
  <2> QED BY <1>1, <2>5, <2>6, <2>7 DEF RecordInv
<1>4. CASE Live
  BY <1>2, <1>4 DEF StartTurn
<1>5. CASE ~Live
  <2>1. turn' = [number |-> turn.number + 1, task |-> Task, actor |-> ActorOf(Task),
                 version |-> court.version, due |-> FALSE, attempts |-> MaxAttempts,
                 completed |-> FALSE]
    BY <1>5 DEF StartTurn
  <2>2. /\ turn'.number = turn.number + 1 /\ turn'.version = court.version
        /\ turn'.completed = FALSE
    BY <2>1
  <2> QED BY <2>2, <1>3
<1> QED BY <1>4, <1>5

-----------------------------------------------------------------------------
(* The actions.                                                            *)

\* Requests ask for nothing but what they are: on the turn's actor, and on its
\* version when they name one.
LEMMA EntriesAreTransitions ==
  ASSUME RoleTypeOK, turn.number > 0, NEW req,
         req = NoRequest \/ (req \in Request /\ Matches(req)), NEW kind \in {"decision", "timeout", "add"}
  PROVE  /\ Entry(kind, turn.task, req) \in Transition
         /\ [Entry(kind, turn.task, req) EXCEPT !.authority = "decision"] \in Transition
         /\ Entry(kind, turn.task, req).kind = kind
         /\ Entry(kind, turn.task, req).turn = turn.number
         /\ Entry(kind, turn.task, req).authority = "none"
         /\ Entry(kind, turn.task, req).version = turn.version
         /\ Entry(kind, turn.task, req).named => Entry(kind, turn.task, req).of = turn.version
<1>1. req.of \in Nat /\ req.named \in BOOLEAN
  <2>1. CASE req = NoRequest
    BY <2>1 DEF NoRequest
  <2>2. CASE req \in Request
    BY <2>2 DEF Request
  <2> QED BY <2>1, <2>2
<1>2. req.named => req.of = turn.version
  BY DEF NoRequest, Matches
<1>3. turn.number \in Nat /\ turn.version \in Nat /\ turn.task \in Tasks
  BY DEF RoleTypeOK, ExternalTurn
<1> QED BY <1>1, <1>2, <1>3 DEF Entry, Transition

\* Finish leaves the turn as it was, but completed.
LEMMA TurnResolved ==
  ASSUME RoleTypeOK, NEW outcome, Finish(outcome)
  PROVE  /\ turn' = [turn EXCEPT !.completed = TRUE] /\ turn' \in ExternalTurn
         /\ turn'.number = turn.number /\ turn'.version = turn.version /\ turn'.task = turn.task
         /\ turn'.due = turn.due /\ turn'.completed /\ UNCHANGED active
BY DEF Finish, RoleTypeOK, ExternalTurn

\* A turn that fails: by its deadline, a client's report or too many attempts.
LEMMA TurnFails ==
  ASSUME RoleTypeOK, RecordInv, turn.number > 0, ~turn.completed, UNCHANGED faults,
         NEW req, req = NoRequest \/ (req \in Request /\ Matches(req)), FailTurn(req)
  PROVE  /\ RecordInv' /\ court' \in Court /\ cert' \in Seq(Transition)
         /\ turn' \in ExternalTurn /\ turn'.number = turn.number /\ turn'.task = turn.task
         /\ turn'.due = turn.due /\ UNCHANGED active
         /\ \A i \in DOMAIN cert' \ DOMAIN cert : cert'[i].kind # "decision"
<1> DEFINE e == Timeout(req)
           f == Add(req)
<1>1. /\ e \in Transition /\ e.turn = turn.number /\ e.kind = "timeout" /\ e.authority = "none"
      /\ e.version = turn.version /\ (e.named => e.of = e.version)
      /\ f \in Transition /\ f.turn = turn.number /\ f.kind = "add" /\ f.authority = "none"
      /\ f.version = turn.version /\ (f.named => f.of = f.version)
  BY EntriesAreTransitions DEF Timeout, Add
<1>t. cert \in Seq(Transition)
  BY DEF RoleTypeOK
<1> HIDE DEF e, f
<1>2. ASSUME Accept(<<e>>), NEW outcome, Finish(outcome)
      PROVE  /\ RecordInv' /\ court' \in Court /\ cert' \in Seq(Transition)
             /\ \A i \in DOMAIN cert' \ DOMAIN cert : cert'[i].kind # "decision"
  <2>1. RecordInv'
    BY <1>1, <1>2, TurnResolved, RecordedInTurn
  <2>2. court' \in Court /\ cert' = Append(cert, e)
    BY <1>1, <1>2, AcceptOne
  <2> QED BY <1>1, <1>t, <2>1, <2>2
<1>3. ASSUME Accept(<<e, f>>), NEW outcome, Finish(outcome)
      PROVE  /\ RecordInv' /\ court' \in Court /\ cert' \in Seq(Transition)
             /\ \A i \in DOMAIN cert' \ DOMAIN cert : cert'[i].kind # "decision"
  <2>1. RecordInv'
    BY <1>1, <1>3, TurnResolved, RecordedReplacement
  <2>2. court' \in Court /\ cert' = Append(Append(cert, e), f)
    BY <1>1, <1>3, AcceptTwo
  <2> QED BY <1>1, <1>t, <2>1, <2>2
<1>4. PICK outcome : Finish(outcome)
  BY DEF FailTurn, CandidateTimeout, JurorTimeout, FailParty
<1>5. /\ turn' \in ExternalTurn /\ turn'.number = turn.number /\ turn'.task = turn.task
      /\ turn'.due = turn.due /\ UNCHANGED active
  BY <1>4, TurnResolved
<1>6. CASE Accept(<<e>>)
  BY <1>2, <1>4, <1>5, <1>6
<1>7. CASE Accept(<<e, f>>)
  BY <1>3, <1>4, <1>5, <1>7
<1>8. CASE FailParty
  <2>1. UNCHANGED <<cert, court>>
    BY <1>8 DEF FailParty
  <2>2. RecordInv'
    BY <1>4, <2>1, TurnResolved, RecordKept
  <2> QED BY <1>5, <2>1, <2>2 DEF RoleTypeOK
<1> QED
  BY <1>6, <1>7, <1>8 DEF FailTurn, CandidateTimeout, JurorTimeout, e, f

LEMMA DecisionKeeps ==
  ASSUME RoleTypeOK, RecordInv, turn.number > 0, ~turn.completed, UNCHANGED faults,
         NEW req \in Request, Matches(req), EngineTakes, Decide(req)
  PROVE  /\ RecordInv' /\ court' \in Court /\ cert' \in Seq(Transition)
         /\ turn' \in ExternalTurn /\ turn'.number = turn.number /\ turn'.task = turn.task
         /\ turn'.due = turn.due /\ UNCHANGED active
<1> DEFINE plain == Entry("decision", turn.task, req)
           signed == [plain EXCEPT !.authority = "decision"]
<1>1. /\ plain \in Transition /\ signed \in Transition
      /\ plain.kind = "decision" /\ plain.turn = turn.number /\ plain.authority = "none"
      /\ plain.version = turn.version /\ (plain.named => plain.of = turn.version)
  BY EntriesAreTransitions
<1>2. /\ signed.kind = "decision" /\ signed.turn = turn.number
      /\ signed.version = turn.version /\ (signed.named => signed.of = turn.version)
  BY <1>1 DEF Transition
<1>3. turn.version = court.version /\ cert \in Seq(Transition) /\ turn \in ExternalTurn
  BY DEF EngineTakes, RoleTypeOK
<1>4. \E e \in {plain, signed} :
        Accept(<<e>>) /\ (Finish("ok") \/ (PersistFails /\ UNCHANGED <<turn, active>>))
  BY DEF Decide, apiVars
<1> HIDE DEF plain, signed
<1>5. PICK e \in {plain, signed} :
        Accept(<<e>>) /\ (Finish("ok") \/ (PersistFails /\ UNCHANGED <<turn, active>>))
  BY <1>4
<1>6. /\ e \in Transition /\ e.kind = "decision" /\ e.turn = turn.number
      /\ e.version = turn.version /\ (e.named => e.of = turn.version)
  BY <1>1, <1>2
<1>7. /\ turn'.number = turn.number /\ turn'.version = turn.version /\ turn'.task = turn.task
      /\ turn'.due = turn.due /\ UNCHANGED active /\ turn' \in ExternalTurn
      /\ turn'.completed \/ PersistFails
  BY <1>3, <1>5, TurnResolved
<1>8. RecordInv'
  BY <1>3, <1>5, <1>6, <1>7, RecordedInTurn
<1>9. court' \in Court /\ cert' = Append(cert, e)
  BY <1>5, <1>6, AcceptOne
<1> QED BY <1>3, <1>6, <1>7, <1>8, <1>9

\* A request delivered: refused, counted as an attempt, failing the turn or deciding it.
LEMMA DeliverKeeps ==
  ASSUME RoleInv, NEW req \in sent, Deliver(req)
  PROVE  /\ RecordInv' /\ court' \in Court /\ cert' \in Seq(Transition)
         /\ turn' \in ExternalTurn /\ turn'.number = turn.number /\ turn'.task = turn.task
         /\ turn'.due = turn.due /\ UNCHANGED active
<1> USE DEF RoleInv
<1>1. /\ turn.number > 0 /\ ~turn.completed /\ Matches(req) /\ UNCHANGED faults
      /\ req \in Request /\ turn \in ExternalTurn
  BY DEF Deliver, Live, RunInv, RoleTypeOK, world
<1>2. CASE FailTurn(req)
  BY <1>1, <1>2, TurnFails
<1>3. CASE EngineTakes /\ Decide(req)
  BY <1>1, <1>3, DecisionKeeps
<1>4. CASE turn' = [turn EXCEPT !.attempts = @ - 1] /\ turn.attempts > 1
           /\ UNCHANGED <<court, cert, apiVars>>
  <2>1. /\ turn' \in ExternalTurn /\ turn'.number = turn.number /\ turn'.task = turn.task
        /\ turn'.due = turn.due /\ turn'.version = turn.version
        /\ turn'.completed = turn.completed
    BY <1>1, <1>4 DEF ExternalTurn
  <2>2. RecordInv'
    BY <1>1, <1>4, <2>1, RecordKept
  <2> QED BY <1>4, <2>1, <2>2 DEF apiVars, RoleTypeOK
<1> QED BY <1>2, <1>3, <1>4 DEF Deliver, Reject

LEMMA ExpireKeeps ==
  ASSUME RoleInv, Expire
  PROVE  /\ RecordInv' /\ court' \in Court /\ cert' \in Seq(Transition)
         /\ turn' \in ExternalTurn /\ turn'.number = turn.number /\ turn'.task = turn.task
         /\ turn'.due = turn.due /\ UNCHANGED active
         /\ \A i \in DOMAIN cert' \ DOMAIN cert : cert'[i].kind # "decision"
<1>1. turn.number > 0 /\ ~turn.completed /\ UNCHANGED faults /\ FailTurn(NoRequest)
  BY DEF RoleInv, Expire, Due, Live, RunInv, world
<1> QED BY <1>1, TurnFails DEF RoleInv

LEMMA TaskIsOffered ==
  ASSUME Offered # {}
  PROVE  Task \in Tasks
<1>1. Offered \in SUBSET Nat
  BY TasksAreNumbers DEF Offered
<1>2. PICK i \in Offered : \A j \in Offered : i <= j
  BY <1>1, LeastNatural
<1>3. Task \in Offered
  BY <1>2 DEF Task, Min
<1> QED BY <1>3 DEF Offered

LEMMA InternalKeeps ==
  ASSUME RoleInv, Internal
  PROVE  RecordInv' /\ court' \in Court /\ cert' \in Seq(Transition)
<1> DEFINE e == [kind |-> "decision", task |-> Task, turn |-> 0, authority |-> "decision",
                 of |-> court.version, named |-> TRUE, version |-> court.version]
<1>1. Task \in Tasks /\ court.version \in Nat
  BY TaskIsOffered DEF Internal, MayTake, RoleInv, RoleTypeOK, Court
<1>2. e \in Transition /\ e.turn = 0 /\ e.of = e.version /\ e.version = court.version
  BY <1>1 DEF Transition
<1>3. Accept(<<e>>) /\ UNCHANGED <<turn, faults>>
  BY DEF Internal, world
<1> HIDE DEF e
<1>4. RecordInv'
  BY <1>2, <1>3, RecordedOutside DEF RoleInv
<1>5. court' \in Court /\ cert' = Append(cert, e)
  BY <1>2, <1>3, AcceptOne DEF RoleInv
<1> QED BY <1>2, <1>4, <1>5 DEF RoleInv, RoleTypeOK

LEMMA StartKeeps ==
  ASSUME RoleInv, StartTurn
  PROVE  RoleInv'
<1>1. RecordInv'
  BY TurnStarts DEF RoleInv
<1>2. UNCHANGED <<court, cert, sent>>
  BY DEF StartTurn, world
<1>3. CASE Live
  BY <1>1, <1>2, <1>3 DEF StartTurn, RoleInv, RoleTypeOK, RunInv, End, apiVars, Live, MayTake
<1>4. CASE ~Live
  <2>1. /\ turn' = [number |-> turn.number + 1, task |-> Task, actor |-> ActorOf(Task),
                    version |-> court.version, due |-> FALSE, attempts |-> MaxAttempts,
                    completed |-> FALSE]
        /\ pc' = "waiting" /\ active' = TRUE
    BY <1>4 DEF StartTurn
  <2>2. /\ Task \in Tasks /\ Task \in Nat /\ ActorOf(Task) \in Nat \X Nat
    <3>1. Task \in Tasks
      BY TaskIsOffered DEF StartTurn, MayTake
    <3> QED BY <3>1, TasksAreNumbers DEF ActorOf, RoleInv, RoleTypeOK, Court
  <2>3. court.version \in Nat /\ turn.number \in Nat /\ MaxAttempts \in Nat
    BY BoundsAssumption DEF RoleInv, RoleTypeOK, Court, ExternalTurn
  <2>4. turn' \in ExternalTurn /\ turn'.task \in Tasks /\ turn'.number > 0 /\ ~turn'.due
    BY <2>1, <2>2, <2>3 DEF ExternalTurn
  <2>5. RoleTypeOK'
    BY <1>2, <2>1, <2>4 DEF RoleInv, RoleTypeOK
  <2>6. RunInv'
    BY <2>1, <2>4 DEF RunInv
  <2> QED BY <1>1, <2>5, <2>6 DEF RoleInv
<1> QED BY <1>3, <1>4

\* Everything else leaves the record and the last turn's place in it alone.
LEMMA OthersKeep ==
  ASSUME RoleInv,
         \/ NoTurnsLeft \/ Conclude \/ SeeCancel \/ TakeResult \/ ClearTurn \/ EndRun \/ CloseAPI
         \/ (\E what \in {"decide", "invalid", "fail"}, named \in BOOLEAN : Compose(what, named))
         \/ DeadlinePasses \/ Cancel \/ ServeFails \/ UNCHANGED vars
  PROVE  RoleInv'
<1> USE DEF RoleInv
<1>0. turn \in ExternalTurn
  BY DEF RoleTypeOK
<1>1. /\ UNCHANGED <<court, cert, faults>>
      /\ turn'.number = turn.number /\ turn'.version = turn.version
      /\ turn'.completed = turn.completed /\ turn'.task = turn.task /\ turn' \in ExternalTurn
      /\ turn' = turn \/ (pc = "waiting" /\ pc' = pc)
  <2>1. CASE DeadlinePasses
    BY <1>0, <2>1 DEF DeadlinePasses, world, runVars, ExternalTurn
  <2>2. CASE UNCHANGED <<court, cert, faults, turn>>
    BY <1>0, <2>2
  <2> QED
    BY <2>1, <2>2
    DEF NoTurnsLeft, Conclude, SeeCancel, TakeResult, ClearTurn, EndRun, CloseAPI, Compose,
        Cancel, ServeFails, vars, world
<1>2. RecordInv'
  BY <1>1, RecordKept
<1>3. sent' \subseteq Request
  <2>1. CASE \E what \in {"decide", "invalid", "fail"}, named \in BOOLEAN : Compose(what, named)
    BY <1>0, <2>1 DEF Compose, RoleTypeOK, Request, ExternalTurn
  <2>2. CASE UNCHANGED sent
    BY <2>2 DEF RoleTypeOK
  <2> QED
    BY <2>1, <2>2
    DEF NoTurnsLeft, Conclude, SeeCancel, TakeResult, ClearTurn, EndRun, CloseAPI, DeadlinePasses,
        Cancel, ServeFails, vars, world
<1>4. /\ active' \in BOOLEAN
      /\ pc' \in {"next", "waiting", "leaving", "ending", "ended", "closed"}
      /\ active' => pc' \in {"waiting", "leaving"}
      /\ pc' \in {"waiting", "leaving"} => turn.number > 0
  <2>1. CASE UNCHANGED <<pc, active>>
    BY <2>1 DEF RoleTypeOK, RunInv
  <2>2. CASE NoTurnsLeft \/ Conclude \/ SeeCancel \/ TakeResult \/ ClearTurn
    BY <2>2 DEF RoleTypeOK, RunInv, NoTurnsLeft, Conclude, SeeCancel, TakeResult, ClearTurn, End,
                apiVars
  <2>3. CASE EndRun \/ CloseAPI
    <3>1. CASE EndRun
      BY <3>1 DEF EndRun, SetTerminal
    <3>2. CASE CloseAPI
      BY <3>2 DEF CloseAPI, RunInv, RoleTypeOK
    <3> QED BY <2>3, <3>1, <3>2
  <2>4. CASE ServeFails
    BY <2>4 DEF RoleTypeOK, RunInv, ServeFails, SetTerminal, runVars
  <2> QED
    BY <2>1, <2>2, <2>3, <2>4 DEF Compose, DeadlinePasses, Cancel, vars, runVars, apiVars
<1>5. turn.number = 0 => ~turn'.due
  <2>1. turn'.due = turn.due \/ DeadlinePasses
    BY DEF NoTurnsLeft, Conclude, SeeCancel, TakeResult, ClearTurn, EndRun,
           CloseAPI, Compose, Cancel, ServeFails, vars
  <2> QED BY <2>1 DEF RunInv, DeadlinePasses
<1> QED BY <1>1, <1>2, <1>3, <1>4, <1>5 DEF RoleTypeOK, RunInv

LEMMA RoleInvKept ==
  ASSUME RoleInv, [RoleNext]_vars
  PROVE  RoleInv'
<1>1. ASSUME NEW req \in sent, Deliver(req) PROVE RoleInv'
  <2>1. UNCHANGED <<runVars, sent>>
    BY <1>1 DEF Deliver, world
  <2> QED BY <1>1, <2>1, DeliverKeeps DEF RoleInv, RoleTypeOK, RunInv, runVars
<1>2. CASE Expire
  <2>1. UNCHANGED <<runVars, sent>>
    BY <1>2 DEF Expire, world
  <2> QED BY <1>2, <2>1, ExpireKeeps DEF RoleInv, RoleTypeOK, RunInv, runVars
<1>3. CASE Internal
  <2>1. UNCHANGED <<turn, active, sent>> /\ pc' \in {"next", "ending"} /\ pc = "next"
    BY <1>3 DEF Internal, MayTake, End, apiVars, world
  <2> QED BY <1>3, <2>1, InternalKeeps DEF RoleInv, RoleTypeOK, RunInv
<1>4. CASE StartTurn
  BY <1>4, StartKeeps
<1> QED
  BY <1>1, <1>2, <1>3, <1>4, OthersKeep DEF RoleNext, Run, Client

LEMMA RoleInvInit ==
  ASSUME RoleInit
  PROVE  RoleInv
<1>1. cert = <<>> /\ turn = NoTurnYet /\ court = NewCourt
  BY DEF RoleInit
<1>2. cert \in Seq(Transition) /\ Len(cert) = 0 /\ DOMAIN cert = {}
  BY <1>1
<1>3. RoleTypeOK
  <2>1. court \in Court
    BY <1>1 DEF NewCourt, Court
  <2>2. turn \in ExternalTurn /\ turn.number = 0
    BY <1>1 DEF NoTurnYet, ExternalTurn
  <2>3. sent \subseteq Request /\ active = FALSE /\ pc = "next"
    BY DEF RoleInit
  <2>4. ~(turn.number > 0)
    BY <2>2
  <2>5. active \in BOOLEAN /\ pc \in {"next", "waiting", "leaving", "ending", "ended", "closed"}
    BY <2>3
  <2> QED BY <1>2, <2>1, <2>2, <2>3, <2>4, <2>5, Zenon DEF RoleTypeOK
<1>4. RunInv
  BY <1>1 DEF RoleInit, RunInv, NoTurnYet
<1>5. Replay(cert) = court
  BY <1>1, FoldLeftEmpty DEF Replay
<1>6. RecordInv
  BY <1>1, <1>2, <1>5
  DEF RecordInv, CertificateVerifies, AfterItsVersion, OpenTurn, OneOutcomePerTurn, Of, NoTurnYet,
      NewCourt
<1> QED BY <1>3, <1>4, <1>6 DEF RoleInv

-----------------------------------------------------------------------------
(* The role API's run is consistent whatever is sent, stored or cancelled: *)
(* its invariant, for every agenda, limit of attempts and limit of turns.  *)
THEOREM RoleApiConsistent == RoleSpec => []RoleInv
<1>1. RoleInit => RoleInv
  BY RoleInvInit
<1>2. RoleInv /\ [RoleNext]_vars => RoleInv'
  BY RoleInvKept
<1> QED BY <1>1, <1>2, PTL DEF RoleSpec

(* A replay of the certificate reaches the court's state, through every    *)
(* failed store and replaced candidate (runner.go, certificateTransitions).*)
THEOREM CertificateReplays == RoleSpec => []CertificateVerifies
<1>1. RoleInv => CertificateVerifies
  BY DEF RoleInv, RecordInv
<1> QED BY <1>1, RoleApiConsistent, PTL

(* However deadlines, repeated answers and reports of failure race, a turn *)
(* decides once at most and fails once at most, and does not do both unless*)
(* the decision could not be stored (roleapi.go, finishTurnLocked).        *)
THEOREM TurnsDecideOnce == RoleSpec => []OneOutcomePerTurn
<1>1. RoleInv => OneOutcomePerTurn
  BY DEF RoleInv, RecordInv
<1> QED BY <1>1, RoleApiConsistent, PTL

(* No decision is taken after a deadline and nothing at all after the run  *)
(* has left its last turn (roleapi.go, expireActiveTurnLocked).            *)
THEOREM NothingHappensLate == RoleSpec => NothingLate
<1> DEFINE Late == cert' # cert =>
      /\ pc \notin {"ending", "ended", "closed"}
      /\ turn.due => \A i \in DOMAIN cert' \ DOMAIN cert :
           cert'[i].turn = turn.number => cert'[i].kind # "decision"
<1>1. RoleInv /\ [RoleNext]_vars => Late
  <2> SUFFICES ASSUME RoleInv, [RoleNext]_vars, cert' # cert PROVE Late
    OBVIOUS
  <2>1. ASSUME NEW req \in sent, Deliver(req) PROVE Late
    BY <2>1 DEF Deliver, Live, RoleInv, RunInv
  <2>2. CASE Expire
    BY <2>2, ExpireKeeps DEF Expire, Due, Live, RoleInv, RunInv
  <2>3. CASE Internal
    <3>1. pc = "next" /\ UNCHANGED turn
      BY <2>3 DEF Internal, MayTake
    <3>2. PICK e \in Transition : cert' = Append(cert, e) /\ e.turn = 0
      <4> DEFINE e == [kind |-> "decision", task |-> Task, turn |-> 0, authority |-> "decision",
                       of |-> court.version, named |-> TRUE, version |-> court.version]
      <4>1. Task \in Tasks /\ court.version \in Nat
        BY <2>3, TaskIsOffered DEF Internal, MayTake, RoleInv, RoleTypeOK, Court
      <4>2. e \in Transition /\ e.turn = 0
        BY <4>1 DEF Transition
      <4>3. Accept(<<e>>)
        BY <2>3 DEF Internal
      <4> HIDE DEF e
      <4> QED BY <4>2, <4>3, AcceptOne DEF RoleInv
    <3>3. \A i \in DOMAIN cert' \ DOMAIN cert : cert'[i].turn = 0
      BY <3>2 DEF RoleInv, RoleTypeOK
    <3> QED BY <3>1, <3>3 DEF RoleInv, RunInv, RoleTypeOK, ExternalTurn
  <2> QED
    BY <2>1, <2>2, <2>3
    DEF RoleNext, Run, Client, NoTurnsLeft, Conclude, StartTurn, SeeCancel, TakeResult, ClearTurn,
        EndRun, CloseAPI, Compose, DeadlinePasses, Cancel, ServeFails, vars
<1>2. Late => (cert' # cert =>
      /\ pc \notin {"ending", "ended", "closed"}
      /\ turn.due => \A i \in DOMAIN cert' \ DOMAIN cert :
           cert'[i].turn = turn.number => cert'[i].kind # "decision")
  OBVIOUS
<1> QED BY <1>1, RoleApiConsistent, PTL DEF RoleSpec, NothingLate

-----------------------------------------------------------------------------
(* The case.                                                               *)
(*                                                                         *)
(* What the record of a case looks like at every stage of it.              *)

TrialPhases ==
  {"none", "voir_dire", "openings", "charge_conference", "closings", "jury_charge",
   "deliberation", "verdict_return", "post_verdict"} \cup TheoryPhases \cup EvidencePhases

Titles ==
  {"rule 12 motion", "rule 12 opposition", "rule 12 reply", "rule 12 order", "answer",
   "amended complaint", "disclosures", "technical report", "pretrial order", "opening",
   "presentation", "rested", "instruction", "objection", "instructions settled",
   "instructions delivered", "closing", "closing rebuttal", "bench opinion"}

Motion56s == [movant : Sides, opposed : BOOLEAN, replied : BOOLEAN]

CaseType ==
  [setup : Setups, status : {"filed", "pretrial", "trial", "judgment_entered", "closed"},
   mode : {"unset", "jury", "bench"}, phase : TrialPhases,
   docket : SUBSET (Titles \X (Sides \cup {"court"} \cup TrialPhases)),
   requested : SUBSET (Discovery \X Sides), answered : SUBSET (Discovery \X Sides),
   files : Seq(STRING), produced : SUBSET (Sides \X STRING),
   passes37 : SUBSET (Sides \X Nat),
   motions37 : Seq([movant : Sides, generation : Nat]), orders37 : Nat,
   closed56 : SUBSET Sides, motions56 : Seq(Motion56s), orders56 : Nat,
   exhibits : [Sides -> Nat], offered : SUBSET (Sides \X STRING),
   jury : {"none", "configured", "panel", "sworn", "verdict", "hung"}]

(* A pass that no field of the case records was of a turn that may be      *)
(* passed, and of neither rule whose passes the case does record.          *)
PassesOptional ==
  \A t \in passed :
    t.mayPass /\ "file_rule37_motion" \notin t.tools /\ "file_rule56_motion" \notin t.tools

(* The trial begins with the trial.                                        *)
NotYetTried ==
  case.status \in {"filed", "pretrial"} => case.phase = "none" /\ case.jury = "none"

Answered12 ==
  case.status \in {"pretrial", "trial", "judgment_entered"}
    => Has("answer") /\ case.mode # "unset"

(* The pretrial order closes Rule 56 for good.                             *)
OrderFinal ==
  /\ case.status = "filed" => ~Has("pretrial order")
  /\ Has("pretrial order") =>
       ~Pending56 /\ \A p \in Sides : Moved56(p) \/ p \in case.closed56

ReadyKept == case.status \in {"trial", "judgment_entered"} => ReadyForTrial

(* The phases a trial of each mode does not have.                          *)
ModeKept ==
  /\ case.mode = "bench" =>
       case.jury = "none" /\ case.phase \notin {"voir_dire", "jury_charge", "deliberation"}
  /\ case.mode = "jury" =>
       /\ case.phase # "verdict_return"
       /\ case.phase \in {"deliberation", "post_verdict"} => Has("instructions delivered")

AfterEvidence == {"charge_conference", "closings", "jury_charge", "deliberation",
                  "verdict_return", "post_verdict"}
AfterRebuttal == AfterEvidence \cup {"defense_surrebuttal", "defense_surrebuttal_evidence"}
AfterDefense  == AfterRebuttal \cup {"plaintiff_rebuttal", "plaintiff_rebuttal_evidence"}
AfterPlaintiff == AfterDefense \cup {"defense_case", "defense_evidence"}

StagesRested ==
  /\ case.phase \in AfterPlaintiff => HasBy("rested", "plaintiff_evidence")
  /\ case.phase \in AfterDefense   => HasBy("rested", "defense_evidence")
  /\ case.phase \in AfterRebuttal  => HasBy("rested", "plaintiff_rebuttal_evidence")
  /\ case.phase \in AfterEvidence  => HasBy("rested", "defense_surrebuttal_evidence")
  /\ case.phase \in AfterEvidence \ {"charge_conference", "closings"} => BothClosed

Founded == case.status = "judgment_entered" => JudgmentFounded

WithinLimits ==
  /\ \A p \in Sides : case.exhibits[p] <= MaxExhibits /\ Dispositive(p) <= MaxDispositive
  /\ \A x \in case.offered \cup case.produced : x[2] \in Range(case.files)

CaseInv ==
  /\ case \in CaseType /\ PassesOptional
  /\ NotYetTried /\ Answered12 /\ OrderFinal /\ ReadyKept
  /\ ModeKept /\ StagesRested /\ Founded /\ WithinLimits

-----------------------------------------------------------------------------
(* Lists of opportunities.                                                 *)

AllPassed(turns) == \A i \in DOMAIN turns : turns[i] \in passed

LEMMA MinIsLeast ==
  ASSUME NEW S \in SUBSET Nat, S # {}
  PROVE  Min(S) \in S /\ \A y \in S : Min(S) <= y
BY LeastNumber DEF Min

LEMMA PassedBoth ==
  ASSUME NEW T, NEW A \in Seq(T), NEW B \in Seq(T), AllPassed(A \o B)
  PROVE  AllPassed(A) /\ AllPassed(B)
<1>1. AllPassed(A)
  <2> SUFFICES ASSUME NEW i \in DOMAIN A PROVE A[i] \in passed
    BY DEF AllPassed
  <2>1. i \in DOMAIN (A \o B) /\ (A \o B)[i] = A[i]
    OBVIOUS
  <2> QED BY <2>1 DEF AllPassed
<1>2. AllPassed(B)
  <2> SUFFICES ASSUME NEW i \in DOMAIN B PROVE B[i] \in passed
    BY DEF AllPassed
  <2>1. Len(A) + i \in DOMAIN (A \o B) /\ (A \o B)[Len(A) + i] = B[i]
    OBVIOUS
  <2> QED BY <2>1 DEF AllPassed
<1> QED BY <1>1, <1>2

LEMMA ConcatIs ==
  ASSUME NEW T, NEW A \in Seq(T), NEW U, NEW B \in Seq(U)
  PROVE  /\ DOMAIN (A \o B) = 1 .. Len(A) + Len(B)
         /\ Len(A) \in Nat /\ Len(B) \in Nat
         /\ \A i \in DOMAIN A : i \in Nat /\ i <= Len(A) /\ (A \o B)[i] = A[i]
         /\ \A i \in DOMAIN (A \o B) :
              i \in Nat /\ IF i <= Len(A) THEN (A \o B)[i] \in T ELSE (A \o B)[i] \in U
<1>1. A \in Seq(T \cup U) /\ B \in Seq(T \cup U)
  OBVIOUS
<1>2. DOMAIN (A \o B) = 1 .. Len(A) + Len(B) /\ Len(A) \in Nat /\ Len(B) \in Nat
  BY <1>1
<1>3. \A i \in DOMAIN A : i \in Nat /\ i <= Len(A) /\ (A \o B)[i] = A[i]
  BY <1>1
<1>4. ASSUME NEW i \in DOMAIN (A \o B)
      PROVE  i \in Nat /\ IF i <= Len(A) THEN (A \o B)[i] \in T ELSE (A \o B)[i] \in U
  <2>1. i \in 1 .. Len(A) + Len(B) /\ i \in Nat
    BY <1>2, <1>4
  <2>2. CASE i <= Len(A)
    <3>1. i \in 1 .. Len(A)
      BY <1>2, <2>1, <2>2
    <3>2. (A \o B)[i] = A[i] /\ A[i] \in T
      BY <1>1, <3>1
    <3> QED BY <2>1, <2>2, <3>2
  <2>3. CASE ~ (i <= Len(A))
    <3>1. i - Len(A) \in 1 .. Len(B)
      BY <1>2, <2>1, <2>3
    <3>2. (A \o B)[i] = B[i - Len(A)]
      BY <1>1, <2>1, <2>3
    <3>3. B[i - Len(A)] \in U
      BY <3>1
    <3> QED BY <2>1, <2>3, <3>2, <3>3
  <2> QED BY <2>2, <2>3
<1> QED BY <1>2, <1>3, <1>4

(* The current opportunity of a list in two parts is one of the first, or  *)
(* the first has been passed as a whole.                                   *)
LEMMA FirstOpenOf ==
  ASSUME NEW T, NEW A \in Seq(T), NEW U, NEW B \in Seq(U)
  PROVE  \/ FirstOpen(A \o B) = NoOpportunity
         \/ FirstOpen(A \o B) \in T
         \/ AllPassed(A) /\ FirstOpen(A \o B) \in U
<1> DEFINE q == A \o B
<1>0. /\ DOMAIN q = 1 .. Len(A) + Len(B)
      /\ \A i \in DOMAIN A : i \in Nat /\ i <= Len(A) /\ q[i] = A[i]
      /\ \A i \in DOMAIN q : i \in Nat /\ IF i <= Len(A) THEN q[i] \in T ELSE q[i] \in U
      /\ Len(A) \in Nat /\ Len(B) \in Nat
  BY ConcatIs
<1> HIDE DEF q
<1> DEFINE open == {i \in DOMAIN q : q[i] \notin passed}
           m == Min(open)
<1>1. CASE open = {}
  BY <1>1 DEF FirstOpen, q
<1>2. CASE open # {}
  <2>1. open \in SUBSET Nat
    BY <1>0
  <2>2. FirstOpen(q) = q[m]
    BY <1>2 DEF FirstOpen
  <2>3. m \in open /\ \A y \in open : m <= y
    <3> HIDE DEF open
    <3> QED BY <1>2, <2>1, MinIsLeast
  <2> HIDE DEF m
  <2>4. m \in DOMAIN q /\ m \in Nat
    BY <1>0, <2>3
  <2>5. CASE m <= Len(A)
    BY <1>0, <2>2, <2>4, <2>5 DEF q
  <2>6. CASE ~ (m <= Len(A))
    <3>1. q[m] \in U
      BY <1>0, <2>4, <2>6
    <3>2. SUFFICES ASSUME NEW i \in DOMAIN A, A[i] \notin passed PROVE FALSE
      BY <2>2, <3>1 DEF AllPassed, q
    <3>3. DOMAIN A = 1 .. Len(A)
      OBVIOUS
    <3>4. i \in DOMAIN q /\ q[i] = A[i] /\ i <= Len(A) /\ i \in Nat
      BY <1>0, <3>3
    <3>5. m <= i
      BY <2>3, <3>2, <3>4
    <3> QED BY <1>0, <2>4, <2>6, <3>4, <3>5
  <2> QED BY <2>5, <2>6
<1> QED BY <1>1, <1>2

LEMMA FirstOpenIn ==
  ASSUME NEW T, NEW A \in Seq(T)
  PROVE  FirstOpen(A) = NoOpportunity \/ FirstOpen(A) \in T
<1>1. A \o <<>> = A /\ <<>> \in Seq(T)
  OBVIOUS
<1> QED BY <1>1, FirstOpenOf

(* A list of lists is flattened into a list of what they hold: otherwise   *)
(* there would be a shortest beginning of it that is not.                  *)
FlatTo(f, q, n) ==
  f = [i \in 1 .. n |-> IF i = 1 THEN q[i] ELSE f[i - 1] \o q[i]]

LEMMA FlatteningExists ==
  ASSUME NEW T, NEW q \in Seq(Seq(T)), NEW n \in 1 .. Len(q)
  PROVE  \E f : FlatTo(f, q, n)
<1> DEFINE Bad == {m \in Nat : m \in 1 .. Len(q) /\ ~ \E f : FlatTo(f, q, m)}
<1>1. SUFFICES ASSUME Bad # {} PROVE FALSE
  OBVIOUS
<1>2. Bad \in SUBSET Nat
  OBVIOUS
<1>3. PICK m \in Bad : \A y \in Bad : m <= y
  <2> HIDE DEF Bad
  <2> QED BY <1>1, <1>2, LeastNumber
<1>4. m \in Nat /\ m \in 1 .. Len(q) /\ ~ \E f : FlatTo(f, q, m)
  BY <1>3
<1>5. CASE m = 1
  <2>1. FlatTo([i \in 1 .. 1 |-> q[i]], q, 1)
    BY DEF FlatTo
  <2> QED BY <1>4, <1>5, <2>1
<1>6. CASE m # 1
  <2>1. m - 1 \in 1 .. Len(q) /\ m - 1 \in Nat /\ ~ (m <= m - 1)
    BY <1>4, <1>6
  <2>2. m - 1 \notin Bad
    BY <1>3, <2>1
  <2>3. PICK g : FlatTo(g, q, m - 1)
    BY <2>1, <2>2
  <2> DEFINE f == [i \in 1 .. m |-> IF i = m THEN g[m - 1] \o q[m] ELSE g[i]]
  <2>4. \A i \in 1 .. m : f[i] = IF i = 1 THEN q[i] ELSE f[i - 1] \o q[i]
    <3> SUFFICES ASSUME NEW i \in 1 .. m
                 PROVE  f[i] = IF i = 1 THEN q[i] ELSE f[i - 1] \o q[i]
      OBVIOUS
    <3>1. CASE i = m
      <4>1. m - 1 \in 1 .. m /\ m - 1 # m /\ m \in 1 .. m
        BY <1>4, <2>1
      <4>2. f[m - 1] = g[m - 1] /\ f[m] = g[m - 1] \o q[m]
        BY <4>1
      <4> HIDE DEF f
      <4> QED BY <1>6, <3>1, <4>2
    <3>2. CASE i # m
      <4>1. i \in 1 .. m - 1 /\ f[i] = g[i]
        BY <1>4, <3>2
      <4>2. g[i] = IF i = 1 THEN q[i] ELSE g[i - 1] \o q[i]
        BY <2>3, <4>1 DEF FlatTo
      <4>3. i # 1 => i - 1 \in 1 .. m /\ i - 1 # m
        BY <1>4, <4>1
      <4>4. i # 1 => f[i - 1] = g[i - 1]
        BY <4>3
      <4> QED BY <4>1, <4>2, <4>4
    <3> QED BY <3>1, <3>2
  <2>5. FlatTo(f, q, m)
    <3>1. f = [i \in 1 .. m |-> f[i]]
      OBVIOUS
    <3> HIDE DEF f
    <3> QED BY <2>4, <3>1 DEF FlatTo
  <2> QED BY <1>4, <2>5
<1> QED BY <1>5, <1>6

LEMMA FlattenedIs ==
  ASSUME NEW T, NEW q \in Seq(Seq(T))
  PROVE  FlattenSeq(q) \in Seq(T)
<1>1. CASE Len(q) = 0
  <2>1. q = <<>>
    BY <1>1
  <2>2. FlattenSeq(q) = q
    BY <1>1 DEF FlattenSeq
  <2>3. <<>> \in Seq(T)
    OBVIOUS
  <2> QED BY <2>1, <2>2, <2>3
<1>2. CASE Len(q) # 0
  <2> DEFINE n == Len(q)
             f == CHOOSE g : FlatTo(g, q, n)
  <2>0. n \in 1 .. Len(q)
    BY <1>2
  <2>1. FlatTo(f, q, n)
    BY <2>0, FlatteningExists
  <2>2. FlattenSeq(q) = f[n]
    BY <1>2 DEF FlattenSeq, FlatTo
  <2> HIDE DEF f
  <2> DEFINE Bad == {m \in Nat : m \in 1 .. n /\ f[m] \notin Seq(T)}
  <2>3. SUFFICES ASSUME Bad # {} PROVE FALSE
    BY <2>0, <2>2
  <2>4. Bad \in SUBSET Nat
    OBVIOUS
  <2>5. PICK m \in Bad : \A y \in Bad : m <= y
    <3> HIDE DEF Bad
    <3> QED BY <2>3, <2>4, LeastNumber
  <2>6. m \in 1 .. n /\ m \in Nat /\ f[m] \notin Seq(T) /\ q[m] \in Seq(T)
    BY <2>5
  <2>7. f[m] = IF m = 1 THEN q[m] ELSE f[m - 1] \o q[m]
    BY <2>1, <2>6 DEF FlatTo
  <2>8. CASE m = 1
    BY <2>6, <2>7, <2>8
  <2>9. CASE m # 1
    <3>1. m - 1 \in 1 .. n /\ m - 1 \in Nat /\ ~ (m <= m - 1)
      BY <2>6, <2>9
    <3>2. f[m - 1] \in Seq(T)
      BY <2>5, <3>1
    <3>3. f[m - 1] \o q[m] \in Seq(T)
      BY <2>6, <3>2
    <3> QED BY <2>6, <2>7, <2>9, <3>3
  <2> QED BY <2>8, <2>9
<1> QED BY <1>1, <1>2

-----------------------------------------------------------------------------
(* What is offered at each stage.                                          *)

LEMMA CaseFields ==
  ASSUME case \in CaseType
  PROVE  /\ case.setup \in Setups
         /\ case.status \in {"filed", "pretrial", "trial", "judgment_entered", "closed"}
         /\ case.mode \in {"unset", "jury", "bench"} /\ case.phase \in TrialPhases
         /\ case.docket \in SUBSET (Titles \X (Sides \cup {"court"} \cup TrialPhases))
         /\ case.requested \in SUBSET (Discovery \X Sides)
         /\ case.answered \in SUBSET (Discovery \X Sides)
         /\ case.files \in Seq(STRING) /\ case.produced \in SUBSET (Sides \X STRING)
         /\ case.passes37 \in SUBSET (Sides \X Nat)
         /\ case.motions37 \in Seq([movant : Sides, generation : Nat])
         /\ case.orders37 \in Nat /\ case.closed56 \in SUBSET Sides
         /\ case.motions56 \in Seq(Motion56s)
         /\ case.orders56 \in Nat /\ case.exhibits \in [Sides -> Nat]
         /\ case.offered \in SUBSET (Sides \X STRING)
         /\ case.jury \in {"none", "configured", "panel", "sworn", "verdict", "hung"}
BY DEF CaseType

\* Turns of some roles with some tools.
TurnsOf(roles, tools) ==
  [role : roles, tools : SUBSET tools, mayPass : BOOLEAN, about : STRING \cup {"case"}]

PleadingOffers ==
  TurnsOf(Sides, {"file_rule12_motion", "oppose_rule12_motion", "reply_rule12_motion",
                  "file_answer", "file_amended_complaint"})
  \cup TurnsOf({"judge"}, {"decide_rule12_motion", "resolve_trial_mode"})

PaperOffers ==
  {o \in TurnsOf(Sides, {
     "serve_initial_disclosures", "submit_technical_report", "produce_case_file",
     "serve_interrogatories", "serve_request_for_production", "serve_requests_for_admission",
     "respond_interrogatories", "respond_request_for_production",
     "respond_requests_for_admission", "file_rule37_motion", "file_rule56_motion",
     "oppose_rule56_motion", "reply_rule56_motion"}) :
   /\ "produce_case_file" \in o.tools => o.about \in Range(case.files)
   /\ "file_rule56_motion" \in o.tools => ~Has("pretrial order")
   /\ "oppose_rule56_motion" \in o.tools => Pending56
   /\ "reply_rule56_motion" \in o.tools => Pending56}
  \cup {o \in TurnsOf({"judge"}, {"decide_rule37_motion", "decide_rule56_motion"}) :
        "decide_rule56_motion" \in o.tools => Pending56}

TrialOffers ==
  TurnsOf(Sides, {"record_opening_statement", "submit_trial_theory", "rest_case",
                  "offer_exhibit", "propose_jury_instruction", "object_jury_instruction",
                  "deliver_closing_argument"})
  \cup {o \in TurnsOf({"judge", "clerk", "juror"}, {
          "set_jury_configuration", "add_juror", "empanel_jury", "advance_trial_phase",
          "settle_jury_instructions", "deliver_jury_instructions", "submit_juror_vote",
          "file_bench_opinion", "enter_judgment", "transition_case"}) :
        /\ "set_jury_configuration" \in o.tools => case.mode = "jury"
        /\ "add_juror" \in o.tools => case.mode = "jury"
        /\ "empanel_jury" \in o.tools => case.phase = "voir_dire"
        /\ "submit_juror_vote" \in o.tools => case.phase = "deliberation"
        /\ "enter_judgment" \in o.tools => case.phase = "post_verdict"
        /\ "advance_trial_phase" \in o.tools =>
             /\ case.phase # "post_verdict"
             /\ case.phase \in EvidencePhases => HasBy("rested", case.phase)
             /\ case.phase = "closings" => BothClosed}

LEMMA Joined ==
  ASSUME NEW T, NEW A \in Seq(T), NEW B \in Seq(T)
  PROVE  A \o B \in Seq(T)
OBVIOUS

LEMMA Alone ==
  ASSUME NEW T, NEW o \in T
  PROVE  <<o>> \in Seq(T) /\ <<>> \in Seq(T)
OBVIOUS

LEMMA TurnsIn ==
  ASSUME NEW roles, NEW role \in roles, NEW tool, NEW T,
         \A o \in TurnsOf(roles, {tool}) : o.tools = {tool} => o \in T
  PROVE  /\ May(role, tool) \in Seq(T)
         /\ Must(role, tool) \in Seq(T)
         /\ <<>> \in Seq(T)
<1>1. [role |-> role, tools |-> {tool}, mayPass |-> TRUE, about |-> "case"]
        \in TurnsOf(roles, {tool})
  BY DEF TurnsOf
<1>2. [role |-> role, tools |-> {tool}, mayPass |-> FALSE, about |-> "case"]
        \in TurnsOf(roles, {tool})
  BY DEF TurnsOf
<1>3. [role |-> role, tools |-> {tool}, mayPass |-> TRUE, about |-> "case"] \in T
  BY <1>1
<1>4. [role |-> role, tools |-> {tool}, mayPass |-> FALSE, about |-> "case"] \in T
  BY <1>2
<1> QED BY <1>3, <1>4, Alone DEF May, Must, Opportunity

LEMMA PleadingsListed ==
  /\ Pleadings \in Seq(PleadingOffers)
  /\ AllPassed(Pleadings) =>
       /\ AllPassed(Given(~Has("answer"), Must("defendant", "file_answer")))
       /\ AllPassed(Given(case.mode = "unset", Must("judge", "resolve_trial_mode")))
  /\ Must("judge", "transition_case") \in Seq(TurnsOf({"judge"}, {"transition_case"}))
<1> DEFINE q1 == Given(~Has("rule 12 motion") /\ ~Has("answer"),
                       May("defendant", "file_rule12_motion"))
           q2 == Given(Has("rule 12 motion") /\ ~Has("rule 12 opposition"),
                       May("plaintiff", "oppose_rule12_motion"))
           q3 == Given(Has("rule 12 opposition") /\ ~Has("rule 12 reply"),
                       May("defendant", "reply_rule12_motion"))
           q4 == Given(Has("rule 12 motion") /\ ~Has("rule 12 order"),
                       Must("judge", "decide_rule12_motion"))
           q5 == Given(~Has("answer"), Must("defendant", "file_answer"))
           q6 == Given(Has("rule 12 order") /\ ~Has("amended complaint"),
                       Must("plaintiff", "file_amended_complaint"))
           q7 == Given(case.mode = "unset", Must("judge", "resolve_trial_mode"))
<1>0. /\ \A tool \in {"file_rule12_motion", "oppose_rule12_motion", "reply_rule12_motion",
                     "file_answer", "file_amended_complaint"} :
           TurnsOf(Sides, {tool}) \subseteq PleadingOffers
      /\ \A tool \in {"decide_rule12_motion", "resolve_trial_mode"} :
           TurnsOf({"judge"}, {tool}) \subseteq PleadingOffers
  BY DEF TurnsOf, PleadingOffers
<1>1. q1 \in Seq(PleadingOffers)
  BY <1>0, TurnsIn DEF Given, Sides
<1>2. q2 \in Seq(PleadingOffers)
  BY <1>0, TurnsIn DEF Given, Sides
<1>3. q3 \in Seq(PleadingOffers)
  BY <1>0, TurnsIn DEF Given, Sides
<1>4. q4 \in Seq(PleadingOffers)
  BY <1>0, TurnsIn DEF Given
<1>5. q5 \in Seq(PleadingOffers)
  BY <1>0, TurnsIn DEF Given, Sides
<1>6. q6 \in Seq(PleadingOffers)
  BY <1>0, TurnsIn DEF Given, Sides
<1>7. q7 \in Seq(PleadingOffers)
  BY <1>0, TurnsIn DEF Given
<1>8. Pleadings = q1 \o q2 \o q3 \o q4 \o q5 \o q6 \o q7
  BY DEF Pleadings
<1>9. Must("judge", "transition_case") \in Seq(TurnsOf({"judge"}, {"transition_case"}))
  BY TurnsIn
<1>r. AllPassed(q5) /\ AllPassed(q7) =>
        /\ AllPassed(Given(~Has("answer"), Must("defendant", "file_answer")))
        /\ AllPassed(Given(case.mode = "unset", Must("judge", "resolve_trial_mode")))
  OBVIOUS
<1> HIDE DEF q1, q2, q3, q4, q5, q6, q7
<1> DEFINE r4 == q1 \o q2 \o q3 \o q4
           r5 == r4 \o q5
           r6 == r5 \o q6
<1>10. r4 \in Seq(PleadingOffers)
  BY <1>1, <1>2, <1>3, <1>4, Joined
<1>11. Pleadings = r6 \o q7
  BY <1>8
<1> HIDE DEF r4
<1>12. r5 \in Seq(PleadingOffers)
  BY <1>5, <1>10, Joined
<1>13. r6 \in Seq(PleadingOffers)
  BY <1>6, <1>12, Joined
<1>14. AllPassed(Pleadings) => AllPassed(r6) /\ AllPassed(q7)
  BY <1>7, <1>11, <1>13, PassedBoth
<1>15. AllPassed(r6) => AllPassed(r5)
  BY <1>6, <1>12, PassedBoth
<1>16. AllPassed(r5) => AllPassed(q5)
  BY <1>5, <1>10, PassedBoth
<1> QED BY <1>7, <1>9, <1>11, <1>13, <1>14, <1>15, <1>16, <1>r, Joined

LEMMA PaperTurns ==
  /\ \A tool \in {"serve_initial_disclosures", "submit_technical_report",
       "serve_interrogatories", "serve_request_for_production", "serve_requests_for_admission",
       "respond_interrogatories", "respond_request_for_production",
       "respond_requests_for_admission", "file_rule37_motion"} :
       \A o \in TurnsOf(Sides, {tool}) : o.tools = {tool} => o \in PaperOffers
  /\ ~Has("pretrial order") =>
       \A o \in TurnsOf(Sides, {"file_rule56_motion"}) :
         o.tools = {"file_rule56_motion"} => o \in PaperOffers
  /\ Pending56 =>
       /\ \A tool \in {"oppose_rule56_motion", "reply_rule56_motion"} :
            \A o \in TurnsOf(Sides, {tool}) : o.tools = {tool} => o \in PaperOffers
       /\ \A o \in TurnsOf({"judge"}, {"decide_rule56_motion"}) :
            o.tools = {"decide_rule56_motion"} => o \in PaperOffers
  /\ \A o \in TurnsOf({"judge"}, {"decide_rule37_motion"}) :
       o.tools = {"decide_rule37_motion"} => o \in PaperOffers
BY DEF TurnsOf, PaperOffers

LEMMA ToolsOfDiscovery ==
  ASSUME NEW kind \in Discovery
  PROVE  /\ ServeTool[kind] \in {"serve_interrogatories", "serve_request_for_production",
                                 "serve_requests_for_admission"}
         /\ RespondTool[kind] \in {"respond_interrogatories", "respond_request_for_production",
                                   "respond_requests_for_admission"}
BY DEF Discovery, ServeTool, RespondTool

LEMMA ProducingListed ==
  ASSUME case \in CaseType, NEW p \in Sides
  PROVE  FlattenSeq([i \in DOMAIN case.files |-> Producing(p, case.files[i])])
           \in Seq(PaperOffers)
<1> DEFINE q == [i \in DOMAIN case.files |-> Producing(p, case.files[i])]
<1>0. case.files \in Seq(STRING)
  BY CaseFields
<1>1. ASSUME NEW i \in DOMAIN case.files
      PROVE  Producing(p, case.files[i]) \in Seq(PaperOffers)
  <2>1. case.files[i] \in STRING /\ case.files[i] \in Range(case.files)
    BY <1>0, <1>1 DEF Range
  <2> DEFINE o == [role |-> p, tools |-> {"produce_case_file"}, mayPass |-> TRUE,
                   about |-> case.files[i]]
  <2>2. o \in TurnsOf(Sides, {"produce_case_file"}) /\ o.tools = {"produce_case_file"}
    BY <2>1 DEF TurnsOf
  <2>3. o.about \in Range(case.files)
    BY <2>1
  <2>4. o \in PaperOffers
    <3> HIDE DEF o
    <3> QED BY <2>2, <2>3 DEF TurnsOf, PaperOffers
  <2>5. <<o>> \in Seq(PaperOffers) /\ <<>> \in Seq(PaperOffers)
    <3> HIDE DEF o
    <3> QED BY <2>4, Alone
  <2> QED BY <2>5 DEF Producing, Given, Opportunity
<1>2. q \in Seq(Seq(PaperOffers))
  <2>1. q = [i \in 1 .. Len(case.files) |-> Producing(p, case.files[i])]
    BY <1>0
  <2>2. \A i \in 1 .. Len(case.files) : Producing(p, case.files[i]) \in Seq(PaperOffers)
    BY <1>0, <1>1
  <2>3. Len(case.files) \in Nat
    BY <1>0
  <2> QED BY <2>1, <2>2, <2>3
<1> QED BY <1>2, FlattenedIs

LEMMA DiscoveryListed ==
  ASSUME case \in CaseType, NEW kind \in Discovery
  PROVE  /\ \A p \in Sides : Asking(kind, p) \in Seq(PaperOffers)
         /\ \A p \in Sides : Answering(kind, p) \in Seq(PaperOffers)
         /\ DiscoveryTurns(kind) \in Seq(PaperOffers)
<1>1. ASSUME NEW p \in Sides PROVE Asking(kind, p) \in Seq(PaperOffers)
  BY ToolsOfDiscovery, PaperTurns, TurnsIn DEF Asking, Given
<1>2. ASSUME NEW p \in Sides PROVE Answering(kind, p) \in Seq(PaperOffers)
  <2>1. Must(p, RespondTool[kind]) \in Seq(PaperOffers) /\ <<>> \in Seq(PaperOffers)
    BY ToolsOfDiscovery, PaperTurns, TurnsIn
  <2>2. Given(~Answered(kind, p), Must(p, RespondTool[kind])) \in Seq(PaperOffers)
    BY <2>1 DEF Given
  <2>3. Given(kind = "rfp", FlattenSeq([i \in DOMAIN case.files |-> Producing(p, case.files[i])]))
          \in Seq(PaperOffers)
    BY <2>1, ProducingListed DEF Given
  <2>4. Given(kind = "rfp", FlattenSeq([i \in DOMAIN case.files |-> Producing(p, case.files[i])]))
          \o Given(~Answered(kind, p), Must(p, RespondTool[kind])) \in Seq(PaperOffers)
    BY <2>2, <2>3, Joined
  <2> QED BY <2>1, <2>4 DEF Answering, Given
<1>3. "plaintiff" \in Sides /\ "defendant" \in Sides
  BY DEF Sides
<1> QED BY <1>1, <1>2, <1>3, Joined DEF DiscoveryTurns

LEMMA MotionsListed ==
  ASSUME case \in CaseType
  PROVE  /\ \A p \in Sides : Moving37(p) \in Seq(PaperOffers)
         /\ \A p \in Sides : Moving56(p) \in Seq(PaperOffers)
         /\ Hearing56 \in Seq(PaperOffers)
         /\ Given(Pending37, Must("judge", "decide_rule37_motion")) \in Seq(PaperOffers)
<1>1. ASSUME NEW p \in Sides PROVE Moving37(p) \in Seq(PaperOffers)
  BY PaperTurns, TurnsIn DEF Moving37, Given
<1>2. ASSUME NEW p \in Sides PROVE Moving56(p) \in Seq(PaperOffers)
  <2>1. Window56(p) => ~Has("pretrial order")
    BY DEF Window56
  <2>2. <<>> \in Seq(PaperOffers)
    OBVIOUS
  <2> QED BY <2>1, <2>2, PaperTurns, TurnsIn DEF Moving56, Given
<1>3. Hearing56 \in Seq(PaperOffers)
  <2>1. CASE ~Pending56
    BY <2>1, Alone DEF Hearing56
  <2>2. CASE Pending56
    <3>1. case.orders56 + 1 \in DOMAIN case.motions56
      BY <2>2, CaseFields DEF Pending56
    <3>2. Motion56 \in Motion56s
      BY <3>1, CaseFields DEF Motion56
    <3>3. Motion56.movant \in Sides /\ Opponent(Motion56.movant) \in Sides
      BY <3>2 DEF Motion56s, Opponent, Sides
    <3>4. /\ Must(Opponent(Motion56.movant), "oppose_rule56_motion") \in Seq(PaperOffers)
          /\ Must(Motion56.movant, "reply_rule56_motion") \in Seq(PaperOffers)
          /\ Must("judge", "decide_rule56_motion") \in Seq(PaperOffers)
      BY <2>2, <3>3, PaperTurns, TurnsIn
    <3> QED BY <2>2, <3>4 DEF Hearing56
  <2> QED BY <2>1, <2>2
<1>4. Given(Pending37, Must("judge", "decide_rule37_motion")) \in Seq(PaperOffers)
  BY PaperTurns, TurnsIn DEF Given
<1> QED BY <1>1, <1>2, <1>3, <1>4

\* The pretrial papers, list by list: each is open to its own argument below.
LEMMA PapersListed ==
  ASSUME case \in CaseType
  PROVE  /\ PretrialPapers \in Seq(PaperOffers)
         /\ AllPassed(PretrialPapers) =>
              /\ \A p \in Sides : AllPassed(Disclosing(p)) /\ AllPassed(Moving37(p))
                                  /\ AllPassed(Moving56(p))
              /\ \A kind \in Discovery, p \in Sides :
                   AllPassed(Asking(kind, p)) /\ AllPassed(Answering(kind, p))
              /\ AllPassed(Given(Pending37, Must("judge", "decide_rule37_motion")))
              /\ AllPassed(Hearing56)
<1> DEFINE T == PaperOffers
           q1 == Each(Disclosing)
           q2 == q1 \o Each(Reporting)
           q3 == q2 \o DiscoveryTurns("interrogatories")
           q4 == q3 \o DiscoveryTurns("rfp")
           q5 == q4 \o DiscoveryTurns("rfa")
           q6 == q5 \o Each(Moving37)
           q7 == q6 \o Given(Pending37, Must("judge", "decide_rule37_motion"))
           q8 == q7 \o Each(Moving56)
<1>0. "plaintiff" \in Sides /\ "defendant" \in Sides /\ Sides = {"plaintiff", "defendant"}
      /\ Discovery = {"interrogatories", "rfp", "rfa"}
  BY DEF Sides, Discovery
<1>1. /\ \A p \in Sides : Disclosing(p) \in Seq(T)
      /\ \A p \in Sides : Reporting(p) \in Seq(T)
  BY PaperTurns, TurnsIn DEF Disclosing, Reporting, Given
<1>2. /\ Disclosing("plaintiff") \in Seq(T) /\ Disclosing("defendant") \in Seq(T)
      /\ Reporting("plaintiff") \in Seq(T) /\ Reporting("defendant") \in Seq(T)
      /\ Moving37("plaintiff") \in Seq(T) /\ Moving37("defendant") \in Seq(T)
      /\ Moving56("plaintiff") \in Seq(T) /\ Moving56("defendant") \in Seq(T)
  BY <1>0, <1>1, MotionsListed
<1>3. /\ q1 \in Seq(T) /\ Each(Reporting) \in Seq(T)
      /\ Each(Moving37) \in Seq(T) /\ Each(Moving56) \in Seq(T)
  BY <1>2, Joined DEF Each
<1>4. \A kind \in Discovery : DiscoveryTurns(kind) \in Seq(T)
  BY DiscoveryListed
<1>5. Given(Pending37, Must("judge", "decide_rule37_motion")) \in Seq(T) /\ Hearing56 \in Seq(T)
  BY MotionsListed
<1>6. PretrialPapers = q8 \o Hearing56
  BY DEF PretrialPapers
<1>7. /\ q2 \in Seq(T) /\ q3 \in Seq(T) /\ q4 \in Seq(T) /\ q5 \in Seq(T)
      /\ q6 \in Seq(T) /\ q7 \in Seq(T) /\ q8 \in Seq(T)
  <2>2. q2 \in Seq(T)
    BY <1>3, Joined
  <2>3. q3 \in Seq(T)
    BY <2>2, <1>0, <1>4, Joined
  <2>4. q4 \in Seq(T)
    BY <2>3, <1>0, <1>4, Joined
  <2>5. q5 \in Seq(T)
    BY <2>4, <1>0, <1>4, Joined
  <2>6. q6 \in Seq(T)
    BY <2>5, <1>3, Joined
  <2>7. q7 \in Seq(T)
    BY <2>6, <1>5, Joined
  <2>8. q8 \in Seq(T)
    BY <2>7, <1>3, Joined
  <2> QED BY <2>2, <2>3, <2>4, <2>5, <2>6, <2>7, <2>8
<1>8. PretrialPapers \in Seq(T)
  BY <1>5, <1>6, <1>7, Joined
<1>9. ASSUME AllPassed(PretrialPapers)
      PROVE  /\ AllPassed(Hearing56) /\ AllPassed(Each(Moving56)) /\ AllPassed(Each(Moving37))
             /\ AllPassed(Given(Pending37, Must("judge", "decide_rule37_motion")))
             /\ \A kind \in Discovery : AllPassed(DiscoveryTurns(kind))
             /\ AllPassed(q1)
  <2>8. AllPassed(q8) /\ AllPassed(Hearing56)
    BY <1>9, <1>5, <1>6, <1>7, PassedBoth
  <2>7. AllPassed(q7) /\ AllPassed(Each(Moving56))
    BY <2>8, <1>3, <1>7, PassedBoth
  <2>6. AllPassed(q6) /\ AllPassed(Given(Pending37, Must("judge", "decide_rule37_motion")))
    BY <2>7, <1>5, <1>7, PassedBoth
  <2>5. AllPassed(q5) /\ AllPassed(Each(Moving37))
    BY <2>6, <1>3, <1>7, PassedBoth
  <2>4. AllPassed(q4) /\ AllPassed(DiscoveryTurns("rfa"))
    BY <2>5, <1>0, <1>4, <1>7, PassedBoth
  <2>3. AllPassed(q3) /\ AllPassed(DiscoveryTurns("rfp"))
    BY <2>4, <1>0, <1>4, <1>7, PassedBoth
  <2>2. AllPassed(q2) /\ AllPassed(DiscoveryTurns("interrogatories"))
    BY <2>3, <1>0, <1>4, <1>7, PassedBoth
  <2>1. AllPassed(q1)
    BY <2>2, <1>3, <1>7, PassedBoth
  <2> HIDE DEF q1
  <2> QED BY <2>1, <2>2, <2>3, <2>4, <2>5, <2>6, <2>7, <2>8, <1>0
<1>10. ASSUME NEW kind \in Discovery, AllPassed(DiscoveryTurns(kind)), NEW p \in Sides
       PROVE  AllPassed(Asking(kind, p)) /\ AllPassed(Answering(kind, p))
  <2> DEFINE r1 == Asking(kind, "plaintiff")
             r2 == Asking(kind, "defendant")
             r3 == Answering(kind, "plaintiff")
             r4 == Answering(kind, "defendant")
  <2>1. r1 \in Seq(T) /\ r2 \in Seq(T) /\ r3 \in Seq(T) /\ r4 \in Seq(T)
    BY <1>0, DiscoveryListed
  <2>2. AllPassed(((r1 \o r2) \o r3) \o r4)
    BY <1>10 DEF DiscoveryTurns
  <2> HIDE DEF r1, r2, r3, r4
  <2>3. r1 \o r2 \in Seq(T) /\ (r1 \o r2) \o r3 \in Seq(T)
    BY <2>1, Joined
  <2>4. AllPassed((r1 \o r2) \o r3) /\ AllPassed(r4)
    BY <2>1, <2>2, <2>3, PassedBoth
  <2>5. AllPassed(r1 \o r2) /\ AllPassed(r3)
    BY <2>1, <2>3, <2>4, PassedBoth
  <2>6. AllPassed(r1) /\ AllPassed(r2)
    BY <2>1, <2>5, PassedBoth
  <2> QED BY <2>4, <2>5, <2>6, <1>0 DEF r1, r2, r3, r4
<1>11. ASSUME NEW p \in Sides, AllPassed(q1), AllPassed(Each(Moving37)), AllPassed(Each(Moving56))
       PROVE  AllPassed(Disclosing(p)) /\ AllPassed(Moving37(p)) /\ AllPassed(Moving56(p))
  <2>1. AllPassed(Disclosing("plaintiff")) /\ AllPassed(Disclosing("defendant"))
    BY <1>2, <1>11, PassedBoth DEF Each
  <2>2. AllPassed(Moving37("plaintiff")) /\ AllPassed(Moving37("defendant"))
    BY <1>2, <1>11, PassedBoth DEF Each
  <2>3. AllPassed(Moving56("plaintiff")) /\ AllPassed(Moving56("defendant"))
    BY <1>2, <1>11, PassedBoth DEF Each
  <2> QED BY <2>1, <2>2, <2>3, <1>0
<1> HIDE DEF T, q1
<1>12. PretrialPapers \in Seq(PaperOffers)
  BY <1>8 DEF T
<1> QED BY <1>9, <1>10, <1>11, <1>12

(* When the court may go on, the pretrial record is whole.                 *)
LEMMA NothingPending ==
  ASSUME case \in CaseType, PassesOptional, AllPassed(PretrialPapers)
  PROVE  /\ ~Pending37 /\ ~Pending56
         /\ \A p \in Sides :
              /\ HasBy("disclosures", p) /\ DiscoveryComplete(p)
              /\ Moved37(p) \/ <<p, Generation(p)>> \in case.passes37
              /\ Has("pretrial order") \/ Moved56(p) \/ p \in case.closed56
<1>1. ASSUME NEW role, NEW tool PROVE ~ AllPassed(Must(role, tool))
  <2>1. DOMAIN Must(role, tool) = {1} /\ Must(role, tool)[1].mayPass = FALSE
    BY DEF Must, Opportunity
  <2> QED BY <2>1 DEF AllPassed, PassesOptional
<1>2. ASSUME NEW role, NEW tool \in {"file_rule37_motion", "file_rule56_motion"}
      PROVE  ~ AllPassed(May(role, tool))
  <2>1. DOMAIN May(role, tool) = {1} /\ May(role, tool)[1].tools = {tool}
    BY DEF May, Opportunity
  <2> QED BY <2>1 DEF AllPassed, PassesOptional
<1>3. ~Pending37
  BY <1>1, PapersListed DEF Given
<1>4. ~Pending56
  BY <1>1, PapersListed DEF Hearing56
<1>5. ASSUME NEW p \in Sides PROVE HasBy("disclosures", p)
  BY <1>1, PapersListed DEF Disclosing, Given
<1>6. ASSUME NEW kind \in Discovery, NEW p \in Sides PROVE Requested(kind, p)
  BY <1>1, PapersListed DEF Asking, Given
<1>7. ASSUME NEW kind \in Discovery, NEW p \in Sides PROVE Answered(kind, p)
  <2>1. Opponent(p) \in Sides
    BY DEF Opponent, Sides
  <2>2. Requested(kind, Opponent(p))
    BY <1>6, <2>1
  <2> DEFINE A == Given(kind = "rfp", FlattenSeq([i \in DOMAIN case.files |-> Producing(p, case.files[i])]))
             B == Given(~Answered(kind, p), Must(p, RespondTool[kind]))
  <2>3. AllPassed(A \o B)
    <3>1. AllPassed(Answering(kind, p))
      BY PapersListed
    <3> QED BY <3>1, <2>2 DEF Answering, Given
  <2>4. A \in Seq(PaperOffers) /\ B \in Seq(PaperOffers)
    <3>1. Must(p, RespondTool[kind]) \in Seq(PaperOffers) /\ <<>> \in Seq(PaperOffers)
      BY ToolsOfDiscovery, PaperTurns, TurnsIn
    <3> QED BY <3>1, ProducingListed DEF Given
  <2>5. AllPassed(B)
    <3> HIDE DEF A, B
    <3> QED BY <2>3, <2>4, PassedBoth
  <2> QED BY <2>5, <1>1 DEF Given
<1>8. ASSUME NEW p \in Sides PROVE DiscoveryComplete(p)
  <2>1. Opponent(p) \in Sides
    BY DEF Opponent, Sides
  <2> QED BY <1>6, <1>7, <2>1 DEF DiscoveryComplete
<1>9. ASSUME NEW p \in Sides PROVE Moved37(p) \/ <<p, Generation(p)>> \in case.passes37
  <2>1. AllPassed(Moving37(p))
    BY PapersListed
  <2> QED BY <2>1, <1>2, <1>3, <1>8 DEF Moving37, Given, Passed37
<1>10. ASSUME NEW p \in Sides
       PROVE  Has("pretrial order") \/ Moved56(p) \/ p \in case.closed56
  <2>1. AllPassed(Moving56(p))
    BY PapersListed
  <2>2. ~Window56(p)
    BY <2>1, <1>2 DEF Moving56, Given
  <2> QED BY <2>2, <1>3, <1>4, <1>8 DEF Window56
<1> QED BY <1>3, <1>4, <1>5, <1>8, <1>9, <1>10

LEMMA TrialTurnsIn ==
  /\ \A tool \in {"record_opening_statement", "submit_trial_theory", "rest_case",
       "offer_exhibit", "propose_jury_instruction", "object_jury_instruction",
       "deliver_closing_argument"} :
       \A o \in TurnsOf(Sides, {tool}) : o.tools = {tool} => o \in TrialOffers
  /\ \A tool \in {"settle_jury_instructions", "deliver_jury_instructions",
       "file_bench_opinion", "transition_case"} :
       \A o \in TurnsOf({"judge"}, {tool}) : o.tools = {tool} => o \in TrialOffers
  /\ case.mode = "jury" =>
       \A tool \in {"set_jury_configuration", "add_juror"} :
         \A o \in TurnsOf({"clerk"}, {tool}) : o.tools = {tool} => o \in TrialOffers
  /\ case.phase = "voir_dire" =>
       \A o \in TurnsOf({"judge"}, {"empanel_jury"}) :
         o.tools = {"empanel_jury"} => o \in TrialOffers
  /\ case.phase = "deliberation" =>
       \A o \in TurnsOf({"juror"}, {"submit_juror_vote"}) :
         o.tools = {"submit_juror_vote"} => o \in TrialOffers
  /\ case.phase = "post_verdict" =>
       \A o \in TurnsOf({"judge"}, {"enter_judgment"}) :
         o.tools = {"enter_judgment"} => o \in TrialOffers
  /\ (/\ case.phase # "post_verdict"
      /\ case.phase \in EvidencePhases => HasBy("rested", case.phase)
      /\ case.phase = "closings" => BothClosed) =>
       \A o \in TurnsOf({"judge"}, {"advance_trial_phase"}) :
         o.tools = {"advance_trial_phase"} => o \in TrialOffers
BY DEF TurnsOf, TrialOffers

LEMMA AdvanceListed ==
  ASSUME case.phase # "post_verdict",
         case.phase \in EvidencePhases => HasBy("rested", case.phase),
         case.phase = "closings" => BothClosed
  PROVE  AdvanceTurn \in Seq(TrialOffers) /\ <<>> \in Seq(TrialOffers)
BY TrialTurnsIn, TurnsIn DEF AdvanceTurn

LEMMA TrialListed ==
  ASSUME case \in CaseType
  PROVE  TrialTurns \in Seq(TrialOffers)
<1> DEFINE T == TrialOffers
<1>0. <<>> \in Seq(T) /\ "plaintiff" \in Sides /\ "defendant" \in Sides
  BY DEF Sides
<1>1. ASSUME NEW role \in Sides,
             NEW tool \in {"record_opening_statement", "submit_trial_theory",
               "propose_jury_instruction", "object_jury_instruction", "deliver_closing_argument"}
      PROVE  May(role, tool) \in Seq(T)
  BY TrialTurnsIn, TurnsIn
<1>2. ASSUME NEW tool \in {"settle_jury_instructions", "deliver_jury_instructions",
               "file_bench_opinion", "transition_case"}
      PROVE  Must("judge", tool) \in Seq(T)
  BY TrialTurnsIn, TurnsIn
<1>3. Presenter(case.phase) \in Sides
  BY DEF Presenter, Sides
<1>c. Configuring \in Seq(T)
  BY <1>0, TrialTurnsIn, TurnsIn DEF Configuring, Given
<1> DEFINE rest == CASE case.phase = "none" ->
         Given(case.mode = "jury" /\ case.jury # "panel", Must("clerk", "add_juror"))
         \o AdvanceTurn
    [] case.phase = "voir_dire" ->
         IF case.jury = "sworn" THEN AdvanceTurn ELSE Must("judge", "empanel_jury")
    [] case.phase = "openings"          -> Each(Opening) \o AdvanceTurn
    [] case.phase \in TheoryPhases      -> Presenting
    [] case.phase \in EvidencePhases    -> Evidence
    [] case.phase = "charge_conference" -> ChargeConference
    [] case.phase = "closings"          -> Closings
    [] case.phase = "jury_charge"       -> JuryCharge
    [] case.phase = "deliberation"      ->
         Given(~JuryDone, Must("juror", "submit_juror_vote")) \o Given(JuryDone, AdvanceTurn)
    [] case.phase = "verdict_return"    ->
         Given(~Has("bench opinion"), Must("judge", "file_bench_opinion"))
         \o Given(Has("bench opinion"), AdvanceTurn)
    [] case.phase = "post_verdict"      -> PostVerdict
<1>t. TrialTurns = Configuring \o rest
  BY DEF TrialTurns
<1>p. case.phase \in TrialPhases
  BY CaseFields
<1>d. ASSUME case.phase \notin EvidencePhases \cup {"closings", "post_verdict"}
      PROVE  AdvanceTurn \in Seq(T)
  BY <1>d, AdvanceListed
<1>4. CASE case.phase = "none"
  <2>1. AdvanceTurn \in Seq(T)
    BY <1>4, <1>d DEF EvidencePhases
  <2>2. Given(case.mode = "jury" /\ case.jury # "panel", Must("clerk", "add_juror")) \in Seq(T)
    BY <1>0, TrialTurnsIn, TurnsIn DEF Given
  <2>3. rest = Given(case.mode = "jury" /\ case.jury # "panel", Must("clerk", "add_juror"))
               \o AdvanceTurn
    BY <1>4 DEF EvidencePhases, TheoryPhases
  <2>4. rest \in Seq(T)
    BY <2>1, <2>2, <2>3, Joined
  <2> HIDE DEF rest
  <2> QED BY <1>c, <1>t, <2>4, Joined
<1>5. CASE case.phase = "voir_dire"
  <2>1. AdvanceTurn \in Seq(T)
    BY <1>5, <1>d DEF EvidencePhases
  <2>2. Must("judge", "empanel_jury") \in Seq(T)
    BY <1>5, TrialTurnsIn, TurnsIn
  <2>3. rest = IF case.jury = "sworn" THEN AdvanceTurn ELSE Must("judge", "empanel_jury")
    BY <1>5 DEF EvidencePhases, TheoryPhases
  <2>4. rest \in Seq(T)
    BY <2>1, <2>2, <2>3
  <2> HIDE DEF rest
  <2> QED BY <1>c, <1>t, <2>4, Joined
<1>6. CASE case.phase = "openings"
  <2>1. AdvanceTurn \in Seq(T)
    BY <1>6, <1>d DEF EvidencePhases
  <2>2. Opening("plaintiff") \in Seq(T) /\ Opening("defendant") \in Seq(T)
    BY <1>0, <1>1 DEF Opening, Given
  <2>3. Each(Opening) \in Seq(T)
    BY <2>2, Joined DEF Each
  <2>4. rest = Each(Opening) \o AdvanceTurn
    BY <1>6 DEF EvidencePhases, TheoryPhases
  <2>5. rest \in Seq(T)
    BY <2>1, <2>3, <2>4, Joined
  <2> HIDE DEF rest
  <2> QED BY <1>c, <1>t, <2>5, Joined
<1>7. CASE case.phase \in TheoryPhases
  <2>1. AdvanceTurn \in Seq(T)
    BY <1>7, <1>d DEF EvidencePhases, TheoryPhases
  <2>2. Given(~HasBy("presentation", case.phase),
              May(Presenter(case.phase), "submit_trial_theory")) \in Seq(T)
    BY <1>0, <1>1, <1>3 DEF Given
  <2>3. Presenting \in Seq(T)
    BY <2>1, <2>2, Joined DEF Presenting
  <2>4. rest = Presenting
    BY <1>7 DEF TheoryPhases, EvidencePhases
  <2> HIDE DEF rest
  <2> QED BY <1>c, <1>t, <2>3, <2>4, Joined
<1>8. CASE case.phase \in EvidencePhases
  <2>1. ASSUME HasBy("rested", case.phase) PROVE Evidence \in Seq(T)
    <3>1. AdvanceTurn \in Seq(T)
      BY <1>8, <2>1, AdvanceListed DEF EvidencePhases
    <3> QED BY <2>1, <3>1 DEF Evidence
  <2>2. ASSUME ~HasBy("rested", case.phase) PROVE Evidence \in Seq(T)
    <3> DEFINE X == {"rest_case"} \cup
                    (IF CanOfferMore(Presenter(case.phase)) THEN {"offer_exhibit"} ELSE {})
               o == [role |-> Presenter(case.phase), tools |-> X, mayPass |-> FALSE,
                     about |-> "case"]
    <3>1. Evidence = <<o>>
      BY <2>2 DEF Evidence, Opportunity
    <3>2. X \in SUBSET {"rest_case", "offer_exhibit"}
      OBVIOUS
    <3> HIDE DEF X
    <3>3. o \in TurnsOf(Sides, {"rest_case", "offer_exhibit"})
      BY <1>3, <3>2 DEF TurnsOf
    <3> HIDE DEF o
    <3>4. o \in T
      BY <3>3 DEF TrialOffers, TurnsOf
    <3> QED BY <3>1, <3>4, Alone
  <2>3. Evidence \in Seq(T)
    BY <2>1, <2>2
  <2>4. rest = Evidence
    BY <1>8 DEF EvidencePhases, TheoryPhases
  <2> HIDE DEF rest
  <2> QED BY <1>c, <1>t, <2>3, <2>4, Joined
<1>9. CASE case.phase = "charge_conference"
  <2>1. AdvanceTurn \in Seq(T)
    BY <1>9, <1>d DEF EvidencePhases
  <2>2. /\ Proposing("plaintiff") \in Seq(T) /\ Proposing("defendant") \in Seq(T)
        /\ Objecting("plaintiff") \in Seq(T) /\ Objecting("defendant") \in Seq(T)
    BY <1>0, <1>1 DEF Proposing, Objecting, Given
  <2>3. Each(Proposing) \in Seq(T) /\ Each(Objecting) \in Seq(T)
    BY <2>2, Joined DEF Each
  <2>4. Given(\A p \in Sides : HasBy("instruction", p), AdvanceTurn) \in Seq(T)
    BY <1>0, <2>1 DEF Given
  <2>5. ChargeConference \in Seq(T)
    BY <2>3, <2>4, Joined DEF ChargeConference
  <2>6. rest = ChargeConference
    BY <1>9 DEF EvidencePhases, TheoryPhases
  <2> HIDE DEF rest
  <2> QED BY <1>c, <1>t, <2>5, <2>6, Joined
<1>10. CASE case.phase = "closings"
  <2> DEFINE p == HasBy("closing", "plaintiff")
             d == HasBy("closing", "defendant")
             r1 == Given(~p, May("plaintiff", "deliver_closing_argument"))
             r2 == Given(p /\ ~d, May("defendant", "deliver_closing_argument"))
             r3 == Given(BothClosed /\ ~Has("closing rebuttal"),
                         May("plaintiff", "deliver_closing_argument"))
             r4 == Given(BothClosed, AdvanceTurn)
  <2>1. r1 \in Seq(T) /\ r2 \in Seq(T) /\ r3 \in Seq(T)
    BY <1>0, <1>1 DEF Given
  <2>2. r4 \in Seq(T)
    <3>1. BothClosed => AdvanceTurn \in Seq(T)
      BY <1>10, AdvanceListed DEF EvidencePhases
    <3> QED BY <1>0, <3>1 DEF Given
  <2>3. Closings = ((r1 \o r2) \o r3) \o r4
    BY DEF Closings
  <2> HIDE DEF r1, r2, r3, r4
  <2>4. Closings \in Seq(T)
    BY <2>1, <2>2, <2>3, Joined
  <2>5. rest = Closings
    BY <1>10 DEF EvidencePhases, TheoryPhases
  <2> HIDE DEF rest
  <2> QED BY <1>c, <1>t, <2>4, <2>5, Joined
<1>11. CASE case.phase = "jury_charge"
  <2>1. AdvanceTurn \in Seq(T)
    BY <1>11, <1>d DEF EvidencePhases
  <2> DEFINE r1 == Given(~Has("instructions settled"), Must("judge", "settle_jury_instructions"))
             r2 == Given(Has("instructions settled") /\ ~Has("instructions delivered"),
                         Must("judge", "deliver_jury_instructions"))
             r3 == Given(Has("instructions delivered"), AdvanceTurn)
  <2>2. r1 \in Seq(T) /\ r2 \in Seq(T) /\ r3 \in Seq(T)
    BY <1>0, <1>2, <2>1 DEF Given
  <2>3. JuryCharge = (r1 \o r2) \o r3
    BY DEF JuryCharge
  <2> HIDE DEF r1, r2, r3
  <2>4. JuryCharge \in Seq(T)
    BY <2>2, <2>3, Joined
  <2>5. rest = JuryCharge
    BY <1>11 DEF EvidencePhases, TheoryPhases
  <2> HIDE DEF rest
  <2> QED BY <1>c, <1>t, <2>4, <2>5, Joined
<1>12. CASE case.phase = "deliberation"
  <2>1. AdvanceTurn \in Seq(T)
    BY <1>12, <1>d DEF EvidencePhases
  <2> DEFINE r1 == Given(~JuryDone, Must("juror", "submit_juror_vote"))
             r2 == Given(JuryDone, AdvanceTurn)
  <2>2. r1 \in Seq(T) /\ r2 \in Seq(T)
    BY <1>0, <1>12, <2>1, TrialTurnsIn, TurnsIn DEF Given
  <2>3. rest = r1 \o r2
    BY <1>12 DEF EvidencePhases, TheoryPhases
  <2> HIDE DEF r1, r2
  <2>4. rest \in Seq(T)
    BY <2>2, <2>3, Joined
  <2> HIDE DEF rest
  <2> QED BY <1>c, <1>t, <2>4, Joined
<1>13. CASE case.phase = "verdict_return"
  <2>1. AdvanceTurn \in Seq(T)
    BY <1>13, <1>d DEF EvidencePhases
  <2> DEFINE r1 == Given(~Has("bench opinion"), Must("judge", "file_bench_opinion"))
             r2 == Given(Has("bench opinion"), AdvanceTurn)
  <2>2. r1 \in Seq(T) /\ r2 \in Seq(T)
    BY <1>0, <1>2, <2>1 DEF Given
  <2>3. rest = r1 \o r2
    BY <1>13 DEF EvidencePhases, TheoryPhases
  <2> HIDE DEF r1, r2
  <2>4. rest \in Seq(T)
    BY <2>2, <2>3, Joined
  <2> HIDE DEF rest
  <2> QED BY <1>c, <1>t, <2>4, Joined
<1>14. CASE case.phase = "post_verdict"
  <2>1. Must("judge", "enter_judgment") \in Seq(T)
    BY <1>14, TrialTurnsIn, TurnsIn
  <2>2. PostVerdict \in Seq(T)
    BY <1>0, <1>2, <2>1 DEF PostVerdict
  <2>3. rest = PostVerdict
    BY <1>14 DEF EvidencePhases, TheoryPhases
  <2> HIDE DEF rest
  <2> QED BY <1>c, <1>t, <2>2, <2>3, Joined
<1> HIDE DEF rest
<1> QED
  BY <1>p, <1>4, <1>5, <1>6, <1>7, <1>8, <1>9, <1>10, <1>11, <1>12, <1>13, <1>14
  DEF TrialPhases

-----------------------------------------------------------------------------
(* Whose turn it is.                                                       *)

ScreenOffers ==
  TurnsOf({"judge"}, {"dismiss_for_lack_of_subject_matter_jurisdiction"})
TransitionOffers == TurnsOf({"judge"}, {"transition_case"})
OrderOffers == TurnsOf({"judge"}, {"enter_pretrial_order"})

Screens == Given(case.setup.defective /\ ~Over, <<Screening>>)
Orders  == Given(~Has("pretrial order"), Must("judge", "enter_pretrial_order"))

LEMMA CourtListed ==
  /\ Screens \in Seq(ScreenOffers)
  /\ Orders \in Seq(OrderOffers)
  /\ Must("judge", "transition_case") \in Seq(TransitionOffers)
<1>1. Screening \in ScreenOffers
  BY DEF Screening, ScreenOffers, TurnsOf, Opportunity
<1>2. Screens \in Seq(ScreenOffers)
  BY <1>1, Alone DEF Screens, Given
<1>3. Orders \in Seq(OrderOffers)
  BY TurnsIn DEF Orders, OrderOffers, Given
<1>4. Must("judge", "transition_case") \in Seq(TransitionOffers)
  BY TurnsIn DEF TransitionOffers
<1> QED BY <1>2, <1>3, <1>4

LEMMA Wider ==
  ASSUME NEW T, NEW U, T \subseteq U, NEW A \in Seq(T)
  PROVE  A \in Seq(U)
OBVIOUS

LEMMA FiledCurrent ==
  ASSUME case.status = "filed"
  PROVE  \/ Current = NoOpportunity
         \/ Current \in ScreenOffers \cup PleadingOffers
         \/ Current \in TransitionOffers /\ AllPassed(Pleadings)
<1> DEFINE W == ScreenOffers \cup PleadingOffers
           P == Pleadings
           M == Must("judge", "transition_case")
<1>1. Screens \in Seq(W) /\ P \in Seq(W) /\ M \in Seq(TransitionOffers)
  BY CourtListed, PleadingsListed, Wider
<1>2. Current = FirstOpen(Screens \o (P \o M))
  BY DEF Current, Turns, FiledTurns, Screens
<1> HIDE DEF P, M, W
<1>3. Screens \in Seq(W \cup TransitionOffers) /\ P \in Seq(W \cup TransitionOffers)
      /\ M \in Seq(W \cup TransitionOffers)
  BY <1>1, Wider
<1>4. (Screens \o P) \o M = Screens \o (P \o M)
  BY <1>3
<1>5. Screens \o P \in Seq(W)
  BY <1>1, Joined
<1>6. \/ Current = NoOpportunity \/ Current \in W
      \/ AllPassed(Screens \o P) /\ Current \in TransitionOffers
  BY <1>1, <1>2, <1>4, <1>5, FirstOpenOf
<1>7. AllPassed(Screens \o P) => AllPassed(P)
  BY <1>1, PassedBoth
<1> QED BY <1>6, <1>7 DEF W, P

LEMMA PretrialCurrent ==
  ASSUME case \in CaseType, case.status = "pretrial"
  PROVE  \/ Current = NoOpportunity
         \/ Current \in ScreenOffers \cup PaperOffers
         \/ Current \in OrderOffers /\ AllPassed(PretrialPapers)
         \/ Current \in TransitionOffers /\ AllPassed(PretrialPapers) /\ AllPassed(Orders)
<1> DEFINE W == ScreenOffers \cup PaperOffers
           V == W \cup OrderOffers \cup TransitionOffers
           P == PretrialPapers
           M == Must("judge", "transition_case")
<1>1. Screens \in Seq(W) /\ P \in Seq(W) /\ Orders \in Seq(OrderOffers)
      /\ M \in Seq(TransitionOffers)
  BY CourtListed, PapersListed, Wider
<1>2. Current = FirstOpen(Screens \o ((P \o Orders) \o M))
  BY DEF Current, Turns, PretrialTurns, Screens, Orders
<1> HIDE DEF P, M, W
<1>3. Screens \in Seq(V) /\ P \in Seq(V) /\ Orders \in Seq(V) /\ M \in Seq(V)
  BY <1>1, Wider
<1> HIDE DEF V
<1>4. P \o Orders \in Seq(V) /\ Screens \o P \in Seq(V) /\ Orders \o M \in Seq(V)
  BY <1>3, Joined
<1>5. /\ Screens \o ((P \o Orders) \o M) = (Screens \o P) \o (Orders \o M)
      /\ Screens \o ((P \o Orders) \o M) = ((Screens \o P) \o Orders) \o M
  <2>1. (P \o Orders) \o M = P \o (Orders \o M)
    BY <1>3
  <2> DEFINE E == Orders \o M
  <2>e. E \in Seq(V)
    BY <1>4
  <2> HIDE DEF E
  <2>2. Screens \o (P \o E) = (Screens \o P) \o E
    BY <1>3, <2>e
  <2>3. ((Screens \o P) \o Orders) \o M = (Screens \o P) \o (Orders \o M)
    BY <1>3, <1>4
  <2> QED BY <2>1, <2>2, <2>3 DEF E
<1>7. /\ Screens \o P \in Seq(W)
      /\ Orders \o M \in Seq(OrderOffers \cup TransitionOffers)
      /\ (Screens \o P) \o Orders \in Seq(W \cup OrderOffers)
  <2>1. Screens \o P \in Seq(W)
    BY <1>1, Joined
  <2>2. Orders \in Seq(OrderOffers \cup TransitionOffers)
        /\ M \in Seq(OrderOffers \cup TransitionOffers)
        /\ Orders \in Seq(W \cup OrderOffers) /\ Screens \o P \in Seq(W \cup OrderOffers)
    BY <1>1, <2>1, Wider
  <2> QED BY <2>1, <2>2, Joined
<1>8. \/ Current = NoOpportunity \/ Current \in W
      \/ AllPassed(Screens \o P) /\ Current \in OrderOffers \cup TransitionOffers
  BY <1>2, <1>5, <1>7, FirstOpenOf
<1>9. \/ Current = NoOpportunity \/ Current \in W \cup OrderOffers
      \/ AllPassed((Screens \o P) \o Orders) /\ Current \in TransitionOffers
  BY <1>1, <1>2, <1>5, <1>7, FirstOpenOf
<1>10. AllPassed(Screens \o P) => AllPassed(P)
  BY <1>1, PassedBoth
<1>11. AllPassed((Screens \o P) \o Orders) => AllPassed(Orders)
  BY <1>3, <1>4, PassedBoth
<1> QED BY <1>8, <1>9, <1>10, <1>11 DEF W, P

LEMMA TrialCurrent ==
  ASSUME case \in CaseType, case.status = "trial"
  PROVE  Current = NoOpportunity \/ Current \in ScreenOffers \cup TrialOffers
<1>1. Current = FirstOpen(Screens \o TrialTurns)
  BY DEF Current, Turns, Screens
<1> QED BY <1>1, CourtListed, TrialListed, FirstOpenOf

LEMMA NoTurnWhenOver ==
  ASSUME case.status \in {"judgment_entered", "closed"}
  PROVE  Current = NoOpportunity
<1>1. Screens = <<>> /\ Turns = <<>>
  BY DEF Screens, Given, Over, Turns
<1>2. Screens \o Turns = <<>>
  BY <1>1
<1>3. FirstOpen(<<>>) = NoOpportunity
  BY DEF FirstOpen
<1> QED BY <1>2, <1>3 DEF Current, Screens

LEMMA StageOfTool ==
  ASSUME case \in CaseType
  PROVE  /\ \A tool \in {"file_rule12_motion", "oppose_rule12_motion", "reply_rule12_motion",
              "file_answer", "file_amended_complaint", "decide_rule12_motion",
              "resolve_trial_mode"} :
              tool \in Current.tools =>
                case.status = "filed" /\ Current \in PleadingOffers
         /\ \A tool \in {"serve_initial_disclosures", "submit_technical_report",
              "produce_case_file", "serve_interrogatories", "serve_request_for_production",
              "serve_requests_for_admission", "respond_interrogatories",
              "respond_request_for_production", "respond_requests_for_admission",
              "file_rule37_motion", "file_rule56_motion", "oppose_rule56_motion",
              "reply_rule56_motion", "decide_rule37_motion", "decide_rule56_motion"} :
              tool \in Current.tools =>
                case.status = "pretrial" /\ Current \in PaperOffers
         /\ \A tool \in {"record_opening_statement", "submit_trial_theory", "rest_case",
              "offer_exhibit", "propose_jury_instruction", "object_jury_instruction",
              "deliver_closing_argument", "set_jury_configuration", "add_juror",
              "empanel_jury", "advance_trial_phase", "settle_jury_instructions",
              "deliver_jury_instructions", "submit_juror_vote", "file_bench_opinion",
              "enter_judgment"} :
              tool \in Current.tools =>
                case.status = "trial" /\ Current \in TrialOffers
         /\ "enter_pretrial_order" \in Current.tools =>
              case.status = "pretrial" /\ AllPassed(PretrialPapers)
         /\ "transition_case" \in Current.tools =>
              \/ case.status = "filed" /\ AllPassed(Pleadings)
              \/ case.status = "pretrial" /\ AllPassed(PretrialPapers) /\ AllPassed(Orders)
              \/ case.status = "trial"
         /\ Current.tools # {} => ~Over
<1>0. NoOpportunity.tools = {}
  BY DEF NoOpportunity, Opportunity
<1>1. case.status \in {"filed", "pretrial", "trial", "judgment_entered", "closed"}
  BY CaseFields
<1>2. CASE case.status = "filed"
  BY <1>0, <1>2, FiledCurrent
  DEF ScreenOffers, PleadingOffers, TransitionOffers, TurnsOf, Over
<1>3. CASE case.status = "pretrial"
  BY <1>0, <1>3, PretrialCurrent
  DEF ScreenOffers, PaperOffers, TransitionOffers, OrderOffers, TurnsOf, Over
<1>4. CASE case.status = "trial"
  BY <1>0, <1>4, TrialCurrent
  DEF ScreenOffers, TrialOffers, TurnsOf, Over
<1>5. CASE case.status \in {"judgment_entered", "closed"}
  BY <1>0, <1>5, NoTurnWhenOver
<1> QED BY <1>1, <1>2, <1>3, <1>4, <1>5

-----------------------------------------------------------------------------
(* What a step keeps.                                                      *)

LEMMA TitleIn ==
  ASSUME NEW D, NEW t
  PROVE  (\E about \in {e[2] : e \in D} : <<t, about>> \in D) <=> \E a : <<t, a>> \in D
<1>1. ASSUME NEW a, <<t, a>> \in D PROVE a \in {e[2] : e \in D}
  <2>1. <<t, a>>[2] = a
    OBVIOUS
  <2> QED BY <1>1, <2>1
<1> QED BY <1>1

LEMMA DocketGrows ==
  ASSUME case.docket \subseteq case'.docket
  PROVE  /\ \A t : Has(t) => Has(t)'
         /\ \A t, a : HasBy(t, a) => HasBy(t, a)'
         /\ BothClosed => BothClosed'
BY TitleIn DEF Has, HasBy, BothClosed

LEMMA DocketSame ==
  ASSUME case.docket = case'.docket
  PROVE  /\ \A t : Has(t) <=> Has(t)'
         /\ \A t, a : HasBy(t, a) <=> HasBy(t, a)'
BY DEF Has, HasBy

LEMMA DocketEntered ==
  ASSUME NEW t, NEW a, case'.docket = case.docket \cup {<<t, a>>}
  PROVE  /\ case.docket \subseteq case'.docket
         /\ Has(t)' /\ HasBy(t, a)'
         /\ \A u : u # t => (Has(u) <=> Has(u)')
         /\ \A u, b : u # t => (HasBy(u, b) <=> HasBy(u, b)')
BY TitleIn DEF Has, HasBy

LEMMA ReadyFrame ==
  ASSUME ReadyForTrial, case.docket \subseteq case'.docket,
         case'.mode = case.mode, case'.requested = case.requested,
         case'.answered = case.answered, case'.passes37 = case.passes37,
         case'.motions37 = case.motions37, case'.orders37 = case.orders37,
         case'.motions56 = case.motions56, case'.orders56 = case.orders56,
         case'.closed56 = case.closed56,
         \A p \in Sides : Generation(p)' = Generation(p)
  PROVE  ReadyForTrial'
<1>1. Has("answer")' /\ Has("pretrial order")' /\ case'.mode # "unset"
  BY DocketGrows DEF ReadyForTrial
<1>2. ~Pending37' /\ ~Pending56'
  BY DEF ReadyForTrial, Pending37, Pending56
<1>3. ASSUME NEW p \in Sides
      PROVE  /\ HasBy("disclosures", p)' /\ DiscoveryComplete(p)'
             /\ Moved56(p)' \/ p \in case'.closed56
             /\ Moved37(p)' \/ <<p, Generation(p)'>> \in case'.passes37
  <2>1. HasBy("disclosures", p)'
    BY DocketGrows DEF ReadyForTrial
  <2>2. DiscoveryComplete(p)'
    BY DEF ReadyForTrial, DiscoveryComplete, Requested, Answered
  <2>3. Moved56(p)' \/ p \in case'.closed56
    BY DEF ReadyForTrial, Moved56
  <2>4. Moved37(p)' \/ <<p, Generation(p)'>> \in case'.passes37
    <3>1. Generation(p)' = Generation(p)
      OBVIOUS
    <3>2. Moved37(p) \/ <<p, Generation(p)>> \in case.passes37
      BY DEF ReadyForTrial
    <3> QED BY <3>1, <3>2 DEF Moved37
  <2> QED BY <2>1, <2>2, <2>3, <2>4
<1> QED BY <1>1, <1>2, <1>3 DEF ReadyForTrial

LEMMA FoundedFrame ==
  ASSUME JudgmentFounded, case.docket \subseteq case'.docket, case'.mode = case.mode,
         case'.jury = case.jury
  PROVE  JudgmentFounded'
BY DocketGrows DEF JudgmentFounded

(* The invariant outlives a step that only adds to the record.             *)
LEMMA Kept ==
  ASSUME CaseInv, case' \in CaseType, PassesOptional',
         case'.status = case.status, case'.mode = case.mode,
         case'.phase = case.phase, case'.jury = case.jury,
         case.docket \subseteq case'.docket,
         Has("pretrial order")' => Has("pretrial order"),
         \A p \in Sides : HasBy("rule 12 motion", p)' <=> HasBy("rule 12 motion", p),
         case'.motions56 = case.motions56, case'.orders56 = case.orders56,
         case.status = "filed" \/ case.closed56 \subseteq case'.closed56,
         \A p \in Sides : case'.exhibits[p] <= MaxExhibits,
         \A x \in case'.offered \cup case'.produced : x[2] \in Range(case'.files),
         case.status \in {"trial", "judgment_entered"} => ReadyForTrial'
  PROVE  CaseInv'
<1>0. /\ case \in CaseType /\ NotYetTried /\ Answered12 /\ OrderFinal /\ ReadyKept
      /\ ModeKept /\ StagesRested /\ Founded /\ WithinLimits
  BY DEF CaseInv
<1>1. NotYetTried'
  BY <1>0 DEF NotYetTried
<1>2. Answered12'
  BY <1>0, DocketGrows DEF Answered12
<1>3. OrderFinal'
  BY <1>0 DEF OrderFinal, Pending56, Moved56
<1>4. ReadyKept'
  BY DEF ReadyKept
<1>5. ModeKept'
  BY <1>0, DocketGrows DEF ModeKept
<1>6. StagesRested'
  BY <1>0, DocketGrows DEF StagesRested
<1>7. Founded'
  BY <1>0, FoundedFrame DEF Founded
<1>8. WithinLimits'
  <2>1. ASSUME NEW p \in Sides PROVE Dispositive(p)' = Dispositive(p)
    BY <2>1 DEF Dispositive
  <2>2. ASSUME NEW p \in Sides PROVE Dispositive(p)' <= MaxDispositive
    BY <1>0, <2>1 DEF WithinLimits
  <2> QED BY <2>2 DEF WithinLimits
<1> QED BY <1>1, <1>2, <1>3, <1>4, <1>5, <1>6, <1>7, <1>8 DEF CaseInv

LEMMA EnterKept ==
  ASSUME CaseInv, NEW t \in Titles \ {"pretrial order", "rule 12 motion"},
         NEW a \in Sides \cup {"court"} \cup TrialPhases, Enter(t, a)
  PROVE  CaseInv'
<1>0. /\ case \in CaseType /\ ReadyKept /\ WithinLimits
      /\ case' = [case EXCEPT !.docket = Docketed(t, a)] /\ passed' = {}
  BY DEF CaseInv, Enter, Update
<1>1. Docketed(t, a) \in SUBSET (Titles \X (Sides \cup {"court"} \cup TrialPhases))
  <2>1. <<t, a>> \in Titles \X (Sides \cup {"court"} \cup TrialPhases)
    OBVIOUS
  <2>2. case.docket \in SUBSET (Titles \X (Sides \cup {"court"} \cup TrialPhases))
    BY <1>0, CaseFields
  <2> QED BY <2>1, <2>2 DEF Docketed
<1>2. case' \in CaseType
  BY <1>0, <1>1 DEF CaseType
<1>3. /\ case'.docket = case.docket \cup {<<t, a>>} /\ case'.status = case.status
      /\ case'.mode = case.mode /\ case'.phase = case.phase /\ case'.jury = case.jury
      /\ case'.motions56 = case.motions56 /\ case'.orders56 = case.orders56
      /\ case'.closed56 = case.closed56 /\ case'.exhibits = case.exhibits
      /\ case'.offered = case.offered /\ case'.produced = case.produced
      /\ case'.files = case.files /\ case'.requested = case.requested
      /\ case'.answered = case.answered /\ case'.passes37 = case.passes37
      /\ case'.motions37 = case.motions37 /\ case'.orders37 = case.orders37
  BY <1>0 DEF CaseType, Docketed
<1>4. PassesOptional'
  BY <1>0 DEF PassesOptional
<1>5. ASSUME NEW p \in Sides PROVE Generation(p)' = Generation(p)
  BY <1>3 DEF Generation, Requested, Answered
<1>6. ReadyForTrial => ReadyForTrial'
  BY <1>3, <1>5, ReadyFrame
<1>7. /\ Has("pretrial order")' => Has("pretrial order")
      /\ \A p \in Sides : HasBy("rule 12 motion", p)' <=> HasBy("rule 12 motion", p)
      /\ case.docket \subseteq case'.docket
  BY <1>3, DocketEntered
<1>8. /\ \A p \in Sides : case'.exhibits[p] <= MaxExhibits
      /\ \A x \in case'.offered \cup case'.produced : x[2] \in Range(case'.files)
  BY <1>0, <1>3 DEF WithinLimits
<1> QED BY <1>0, <1>2, <1>3, <1>4, <1>6, <1>7, <1>8, Kept DEF ReadyKept

-----------------------------------------------------------------------------
(* The steps of the pleadings.                                             *)

LEMMA ParamsFit ==
  ASSUME CaseInv
  PROVE  /\ case \in CaseType /\ PassesOptional /\ NotYetTried /\ Answered12 /\ OrderFinal
         /\ ReadyKept /\ ModeKept /\ StagesRested /\ Founded /\ WithinLimits
         /\ \A p \in Sides : case.exhibits[p] <= MaxExhibits
         /\ \A x \in case.offered \cup case.produced : x[2] \in Range(case.files)
BY DEF CaseInv, WithinLimits

LEMMA AtMostOneFiled ==
  ASSUME case \in CaseType, NEW p \in Sides
  PROVE  /\ IsFiniteSet({i \in DOMAIN case.motions56 : case.motions56[i].movant = p})
         /\ Cardinality({i \in DOMAIN case.motions56 : case.motions56[i].movant = p}) \in Nat
         /\ Cardinality({m \in {"rule 12 motion"} : HasBy(m, p)}) = IF HasBy("rule 12 motion", p) THEN 1 ELSE 0
<1> DEFINE S == {i \in DOMAIN case.motions56 : case.motions56[i].movant = p}
<1>1. DOMAIN case.motions56 = 1 .. Len(case.motions56) /\ Len(case.motions56) \in Nat
  BY CaseFields
<1>2. IsFiniteSet(1 .. Len(case.motions56))
  <2> DEFINE n == Len(case.motions56)
  <2>1. n \in Nat
    BY <1>1
  <2> HIDE DEF n
  <2>2. IsFiniteSet(1 .. n)
    BY <2>1, FS_Interval
  <2> QED BY <2>2 DEF n
<1>3. S \subseteq 1 .. Len(case.motions56)
  BY <1>1
<1>4. IsFiniteSet(S) /\ Cardinality(S) \in Nat
  <2> HIDE DEF S
  <2> QED BY <1>2, <1>3, FS_Subset, FS_CardinalityType
<1>5. CASE HasBy("rule 12 motion", p)
  <2>1. {m \in {"rule 12 motion"} : HasBy(m, p)} = {"rule 12 motion"}
    BY <1>5
  <2> QED BY <1>4, <1>5, <2>1, FS_Singleton
<1>6. CASE ~HasBy("rule 12 motion", p)
  <2>1. {m \in {"rule 12 motion"} : HasBy(m, p)} = {}
    BY <1>6
  <2> QED BY <1>4, <1>6, <2>1, FS_EmptySet
<1> QED BY <1>5, <1>6

LEMMA OneMore ==
  ASSUME NEW n \in Nat, NEW m \in Nat, NEW x, NEW y,
         x = 1 + n \/ x = 0 + n, y = 1 + n \/ y = 0 + n, x < m
  PROVE  y <= m
OBVIOUS

LEMMA FileRule12Kept ==
  ASSUME CaseInv, FileRule12(Current)
  PROVE  CaseInv'
<1> DEFINE a == Current.role
<1>1. /\ case.status = "filed" /\ a \in Sides /\ ~Has("answer") /\ Dispositive(a) < MaxDispositive
      /\ Enter("rule 12 motion", a)
  BY ParamsFit, StageOfTool DEF FileRule12, Takes, PleadingOffers, TurnsOf
<1> HIDE DEF a
<1>0. /\ case \in CaseType
      /\ case' = [case EXCEPT !.docket = Docketed("rule 12 motion", a)] /\ passed' = {}
  BY <1>1, ParamsFit DEF Enter, Update
<1>2. Docketed("rule 12 motion", a) \in SUBSET (Titles \X (Sides \cup {"court"} \cup TrialPhases))
  <2>1. <<"rule 12 motion", a>> \in Titles \X (Sides \cup {"court"} \cup TrialPhases)
    BY <1>1 DEF Titles
  <2>2. case.docket \in SUBSET (Titles \X (Sides \cup {"court"} \cup TrialPhases))
    BY <1>0, CaseFields
  <2> QED BY <2>1, <2>2 DEF Docketed
<1>3. case' \in CaseType
  BY <1>0, <1>2 DEF CaseType
<1>4. /\ case'.docket = case.docket \cup {<<"rule 12 motion", a>>} /\ case'.status = "filed"
      /\ case'.mode = case.mode /\ case'.phase = case.phase /\ case'.jury = case.jury
      /\ case'.motions56 = case.motions56 /\ case'.exhibits = case.exhibits
      /\ case'.offered = case.offered /\ case'.produced = case.produced
      /\ case'.files = case.files
  BY <1>0, <1>1 DEF CaseType, Docketed
<1>5. PassesOptional' /\ NotYetTried' /\ Answered12' /\ ReadyKept' /\ Founded'
  BY <1>0, <1>1, <1>4, ParamsFit DEF PassesOptional, NotYetTried, Answered12, ReadyKept, Founded
<1>6. OrderFinal'
  <2>1. ~Has("pretrial order")
    BY <1>1, ParamsFit DEF OrderFinal
  <2>2. ~Has("pretrial order")'
    <3>1. \A u : u # "rule 12 motion" => (Has(u) <=> Has(u)')
      BY <1>4, DocketEntered
    <3> QED BY <2>1, <3>1
  <2> QED BY <2>2 DEF OrderFinal
<1>7. ModeKept' /\ StagesRested'
  <2>1. case.phase = "none" /\ case.jury = "none"
    BY <1>1, ParamsFit DEF NotYetTried
  <2> QED BY <1>4, <2>1 DEF ModeKept, StagesRested, AfterEvidence, AfterRebuttal, AfterDefense, AfterPlaintiff
<1>8. ASSUME NEW p \in Sides PROVE Dispositive(p)' <= MaxDispositive
  <2> DEFINE S == {i \in DOMAIN case.motions56 : case.motions56[i].movant = p}
             n == Cardinality(S)
  <2>1. n \in Nat /\ Dispositive(p) = (IF HasBy("rule 12 motion", p) THEN 1 ELSE 0) + n
    BY <1>0, AtMostOneFiled DEF Dispositive
  <2>2. Dispositive(p)' = (IF HasBy("rule 12 motion", p)' THEN 1 ELSE 0) + n
    <3>1. Cardinality({m \in {"rule 12 motion"} : HasBy(m, p)'})
            = IF HasBy("rule 12 motion", p)' THEN 1 ELSE 0
      <4>1. CASE HasBy("rule 12 motion", p)'
        <5>1. {m \in {"rule 12 motion"} : HasBy(m, p)'} = {"rule 12 motion"}
          BY <4>1
        <5> QED BY <4>1, <5>1, FS_Singleton
      <4>2. CASE ~HasBy("rule 12 motion", p)'
        <5>1. {m \in {"rule 12 motion"} : HasBy(m, p)'} = {}
          BY <4>2
        <5> QED BY <4>2, <5>1, FS_EmptySet
      <4> QED BY <4>1, <4>2
    <3> QED BY <1>4, <3>1 DEF Dispositive
  <2> HIDE DEF n
  <2>3. MaxDispositive \in Nat
    BY LimitAssumption
  <2>4. Dispositive(p) <= MaxDispositive
    BY ParamsFit DEF WithinLimits
  <2>5. CASE p = a
    <3>1. Dispositive(p) < MaxDispositive
      BY <1>1, <2>5
    <3>2. Dispositive(p) = 1 + n \/ Dispositive(p) = 0 + n
      BY <2>1
    <3>3. Dispositive(p)' = 1 + n \/ Dispositive(p)' = 0 + n
      BY <2>2
    <3> QED BY <2>1, <2>3, <3>1, <3>2, <3>3, OneMore
  <2>6. CASE p # a
    <3>1. HasBy("rule 12 motion", p)' <=> HasBy("rule 12 motion", p)
      BY <1>4, <2>6 DEF HasBy
    <3> QED BY <2>1, <2>2, <2>4, <3>1
  <2> QED BY <2>5, <2>6
<1>9. WithinLimits'
  BY <1>4, <1>8, ParamsFit DEF WithinLimits
<1> QED BY <1>3, <1>5, <1>6, <1>7, <1>9 DEF CaseInv

LEMMA OrdinaryPleadings ==
  ASSUME CaseInv,
         \/ OpposeRule12(Current) \/ ReplyRule12(Current) \/ FileAnswer(Current)
  PROVE  CaseInv'
<1>1. CASE OpposeRule12(Current)
  <2>1. Current.role \in Sides
    BY <1>1, ParamsFit, StageOfTool DEF OpposeRule12, Takes, PleadingOffers, TurnsOf
  <2> QED BY <1>1, <2>1, EnterKept DEF OpposeRule12, Titles
<1>2. CASE ReplyRule12(Current)
  <2>1. Current.role \in Sides
    BY <1>2, ParamsFit, StageOfTool DEF ReplyRule12, Takes, PleadingOffers, TurnsOf
  <2> QED BY <1>2, <2>1, EnterKept DEF ReplyRule12, Titles
<1>3. CASE FileAnswer(Current)
  <2>1. Current.role \in Sides
    BY <1>3, ParamsFit, StageOfTool DEF FileAnswer, Takes, PleadingOffers, TurnsOf
  <2> QED BY <1>3, <2>1, EnterKept DEF FileAnswer, Titles
<1> QED BY <1>1, <1>2, <1>3

(* As long as the pleadings are open nothing has been tried or ordered.    *)
LEMMA StaysFiled ==
  ASSUME CaseInv, case.status = "filed", case' \in CaseType, passed' = {},
         case'.status \in {"filed", "closed"}, case'.phase = case.phase,
         case'.jury = case.jury, ~Has("pretrial order")', case'.exhibits = case.exhibits,
         case'.offered = case.offered, case'.produced = case.produced,
         case'.files = case.files, \A p \in Sides : Dispositive(p)' <= MaxDispositive
  PROVE  CaseInv'
<1>1. case.phase = "none" /\ case.jury = "none"
  BY ParamsFit DEF NotYetTried
<1>2. PassesOptional' /\ NotYetTried' /\ Answered12' /\ OrderFinal' /\ ReadyKept' /\ Founded'
  BY <1>1 DEF PassesOptional, NotYetTried, Answered12, OrderFinal, ReadyKept, Founded
<1>3. ModeKept' /\ StagesRested'
  BY <1>1 DEF ModeKept, StagesRested, AfterEvidence, AfterRebuttal, AfterDefense, AfterPlaintiff
<1>4. WithinLimits'
  BY ParamsFit DEF WithinLimits
<1> QED BY <1>2, <1>3, <1>4 DEF CaseInv

LEMMA DecideRule12Kept ==
  ASSUME CaseInv, DecideRule12(Current)
  PROVE  CaseInv'
<1>1. PICK status \in {case.status, "closed"} :
        Update([case EXCEPT !.docket = Docketed("rule 12 order", "court"), !.status = status])
  BY DEF DecideRule12
<1>2. case \in CaseType /\ case.status = "filed"
  BY ParamsFit, StageOfTool DEF DecideRule12, Takes
<1>3. Docketed("rule 12 order", "court")
        \in SUBSET (Titles \X (Sides \cup {"court"} \cup TrialPhases))
  <2>1. <<"rule 12 order", "court">> \in Titles \X (Sides \cup {"court"} \cup TrialPhases)
    BY DEF Titles
  <2>2. case.docket \in SUBSET (Titles \X (Sides \cup {"court"} \cup TrialPhases))
    BY <1>2, CaseFields
  <2> QED BY <2>1, <2>2 DEF Docketed
<1>4. case' \in CaseType /\ passed' = {}
  BY <1>1, <1>2, <1>3 DEF CaseType, Update
<1>5. /\ case'.docket = case.docket \cup {<<"rule 12 order", "court">>}
      /\ case'.status \in {"filed", "closed"}
      /\ case'.phase = case.phase /\ case'.jury = case.jury
      /\ case'.motions56 = case.motions56 /\ case'.exhibits = case.exhibits
      /\ case'.offered = case.offered /\ case'.produced = case.produced
      /\ case'.files = case.files
  BY <1>1, <1>2 DEF CaseType, Docketed, Update
<1>6. ~Has("pretrial order")'
  <2>1. ~Has("pretrial order")
    BY <1>2, ParamsFit DEF OrderFinal
  <2>2. \A u : u # "rule 12 order" => (Has(u) <=> Has(u)')
    BY <1>5, DocketEntered
  <2> QED BY <2>1, <2>2
<1>7. ASSUME NEW p \in Sides PROVE Dispositive(p)' <= MaxDispositive
  <2>1. \A q : HasBy("rule 12 motion", q)' <=> HasBy("rule 12 motion", q)
    BY <1>5 DEF HasBy
  <2>2. Dispositive(p)' = Dispositive(p)
    BY <1>5, <2>1 DEF Dispositive
  <2> QED BY <2>2, ParamsFit DEF WithinLimits
<1> QED BY <1>2, <1>4, <1>5, <1>6, <1>7, StaysFiled

LEMMA ResolveTrialModeKept ==
  ASSUME CaseInv, ResolveTrialMode(Current)
  PROVE  CaseInv'
<1>1. case \in CaseType /\ case.status = "filed"
  BY ParamsFit, StageOfTool DEF ResolveTrialMode, Takes
<1> DEFINE m == IF case.setup.jury THEN "jury" ELSE "bench"
<1>m. case' = [case EXCEPT !.mode = m] /\ passed' = {} /\ m \in {"unset", "jury", "bench"}
  BY DEF ResolveTrialMode, Update
<1> HIDE DEF m
<1>2. case' \in CaseType /\ passed' = {}
  BY <1>1, <1>m DEF CaseType
<1>3. /\ case'.docket = case.docket /\ case'.status = "filed"
      /\ case'.phase = case.phase /\ case'.jury = case.jury
      /\ case'.motions56 = case.motions56 /\ case'.exhibits = case.exhibits
      /\ case'.offered = case.offered /\ case'.produced = case.produced
      /\ case'.files = case.files
  BY <1>1, <1>m DEF CaseType
<1>4. ~Has("pretrial order")'
  <2>1. ~Has("pretrial order")
    BY <1>1, ParamsFit DEF OrderFinal
  <2> QED BY <1>3, <2>1, DocketSame
<1>5. ASSUME NEW p \in Sides PROVE Dispositive(p)' <= MaxDispositive
  <2>1. Dispositive(p)' = Dispositive(p)
    BY <1>3 DEF Dispositive, HasBy
  <2> QED BY <2>1, ParamsFit DEF WithinLimits
<1> QED BY <1>1, <1>2, <1>3, <1>4, <1>5, StaysFiled

LEMMA FileAmendedComplaintKept ==
  ASSUME CaseInv, FileAmendedComplaint(Current)
  PROVE  CaseInv'
<1> DEFINE a == Current.role
<1>1. case \in CaseType /\ case.status = "filed" /\ a \in Sides
  BY ParamsFit, StageOfTool DEF FileAmendedComplaint, Takes, PleadingOffers, TurnsOf
<1>2. /\ case' = [case EXCEPT !.docket = Docketed("amended complaint", a), !.closed56 = {}]
      /\ passed' = {}
  BY DEF FileAmendedComplaint, Update
<1> HIDE DEF a
<1>3. Docketed("amended complaint", a)
        \in SUBSET (Titles \X (Sides \cup {"court"} \cup TrialPhases))
  <2>1. <<"amended complaint", a>> \in Titles \X (Sides \cup {"court"} \cup TrialPhases)
    BY <1>1 DEF Titles
  <2>2. case.docket \in SUBSET (Titles \X (Sides \cup {"court"} \cup TrialPhases))
    BY <1>1, CaseFields
  <2> QED BY <2>1, <2>2 DEF Docketed
<1>4. case' \in CaseType
  BY <1>1, <1>2, <1>3 DEF CaseType
<1>5. /\ case'.docket = case.docket \cup {<<"amended complaint", a>>} /\ case'.status = "filed"
      /\ case'.phase = case.phase /\ case'.jury = case.jury
      /\ case'.motions56 = case.motions56 /\ case'.exhibits = case.exhibits
      /\ case'.offered = case.offered /\ case'.produced = case.produced
      /\ case'.files = case.files
  BY <1>1, <1>2 DEF CaseType, Docketed
<1>6. ~Has("pretrial order")'
  <2>1. ~Has("pretrial order")
    BY <1>1, ParamsFit DEF OrderFinal
  <2>2. \A u : u # "amended complaint" => (Has(u) <=> Has(u)')
    BY <1>5, DocketEntered
  <2> QED BY <2>1, <2>2
<1>7. ASSUME NEW p \in Sides PROVE Dispositive(p)' <= MaxDispositive
  <2>1. \A q : HasBy("rule 12 motion", q)' <=> HasBy("rule 12 motion", q)
    BY <1>5 DEF HasBy
  <2>2. Dispositive(p)' = Dispositive(p)
    BY <1>5, <2>1 DEF Dispositive
  <2> QED BY <2>2, ParamsFit DEF WithinLimits
<1> QED BY <1>1, <1>2, <1>4, <1>5, <1>6, <1>7, StaysFiled

(* A step of the status alone.                                             *)
LEMMA StatusStep ==
  ASSUME CaseInv,
         NEW new \in {"filed", "pretrial", "trial", "judgment_entered", "closed"},
         Update([case EXCEPT !.status = new]),
         new \in {"filed", "pretrial"} => case.phase = "none" /\ case.jury = "none",
         new \in {"pretrial", "trial", "judgment_entered"} =>
           Has("answer") /\ case.mode # "unset",
         new = "filed" => ~Has("pretrial order"),
         new \in {"trial", "judgment_entered"} => ReadyForTrial,
         new = "judgment_entered" => JudgmentFounded
  PROVE  CaseInv'
<1>1. case \in CaseType
  BY ParamsFit
<1>2. case' \in CaseType /\ passed' = {} /\ case'.status = new
  BY <1>1 DEF CaseType, Update
<1>3. /\ case'.docket = case.docket /\ case'.mode = case.mode
      /\ case'.phase = case.phase /\ case'.jury = case.jury
      /\ case'.motions56 = case.motions56 /\ case'.orders56 = case.orders56
      /\ case'.closed56 = case.closed56 /\ case'.exhibits = case.exhibits
      /\ case'.offered = case.offered /\ case'.produced = case.produced
      /\ case'.files = case.files /\ case'.requested = case.requested
      /\ case'.answered = case.answered /\ case'.passes37 = case.passes37
      /\ case'.motions37 = case.motions37 /\ case'.orders37 = case.orders37
  BY <1>1 DEF CaseType, Update
<1>4. ASSUME NEW p \in Sides
      PROVE  Generation(p)' = Generation(p) /\ Dispositive(p)' = Dispositive(p)
  BY <1>3 DEF Generation, Requested, Answered, Dispositive, HasBy
<1>5. \A t : Has(t) <=> Has(t)'
  BY <1>3, DocketSame
<1>6. ReadyForTrial => ReadyForTrial'
  BY <1>3, <1>4, ReadyFrame
<1>7. JudgmentFounded => JudgmentFounded'
  BY <1>3, FoundedFrame
<1>8. PassesOptional' /\ NotYetTried' /\ Answered12' /\ ReadyKept' /\ Founded'
  BY <1>2, <1>3, <1>5, <1>6, <1>7
  DEF PassesOptional, NotYetTried, Answered12, ReadyKept, Founded
<1>9. OrderFinal'
  BY <1>2, <1>3, <1>5, ParamsFit DEF OrderFinal, Pending56, Moved56
<1>10. ModeKept' /\ StagesRested'
  <2>1. ModeKept'
    BY <1>3, <1>5, ParamsFit DEF ModeKept
  <2>2. StagesRested'
    BY <1>3, ParamsFit DEF StagesRested, HasBy, BothClosed
  <2> QED BY <2>1, <2>2
<1>11. WithinLimits'
  <2>1. \A p \in Sides : case'.exhibits[p] <= MaxExhibits /\ Dispositive(p)' <= MaxDispositive
    BY <1>3, <1>4, ParamsFit DEF WithinLimits
  <2> QED BY <1>3, <2>1, ParamsFit DEF WithinLimits
<1> QED BY <1>2, <1>8, <1>9, <1>10, <1>11 DEF CaseInv

LEMMA DismissKept ==
  ASSUME CaseInv, Dismiss(Current)
  PROVE  CaseInv'
BY StatusStep DEF Dismiss

LEMMA TransitionCaseKept ==
  ASSUME CaseInv, TransitionCase(Current)
  PROVE  CaseInv'
<1>0. /\ case \in CaseType /\ PassesOptional /\ NotYetTried /\ Answered12 /\ OrderFinal
  BY ParamsFit
<1>1. /\ \/ case.status = "filed" /\ AllPassed(Pleadings)
         \/ case.status = "pretrial" /\ AllPassed(PretrialPapers) /\ AllPassed(Orders)
         \/ case.status = "trial"
      /\ Update([case EXCEPT !.status = CASE @ = "filed"    -> "pretrial"
                                          [] @ = "pretrial" -> "trial"
                                          [] @ = "trial"    -> "closed"])
  BY <1>0, StageOfTool DEF TransitionCase, Takes
<1>2. ASSUME NEW role, NEW tool PROVE ~ AllPassed(Must(role, tool))
  <2>1. DOMAIN Must(role, tool) = {1} /\ Must(role, tool)[1].mayPass = FALSE
    BY DEF Must, Opportunity
  <2> QED BY <1>0, <2>1 DEF AllPassed, PassesOptional
<1>3. CASE case.status = "filed"
  <2>1. Has("answer") /\ case.mode # "unset"
    BY <1>1, <1>2, <1>3, PleadingsListed DEF Given
  <2>2. Update([case EXCEPT !.status = "pretrial"])
    BY <1>1, <1>3
  <2>3. case.phase = "none" /\ case.jury = "none"
    BY <1>0, <1>3 DEF NotYetTried
  <2> QED BY <2>1, <2>2, <2>3, StatusStep
<1>4. CASE case.status = "pretrial"
  <2>1. Has("pretrial order")
    BY <1>1, <1>2, <1>4 DEF Orders, Given
  <2>2. ReadyForTrial /\ Has("answer") /\ case.mode # "unset"
    BY <1>0, <1>1, <1>4, <2>1, NothingPending DEF ReadyForTrial, Answered12, OrderFinal
  <2>3. Update([case EXCEPT !.status = "trial"])
    BY <1>1, <1>4
  <2> QED BY <2>2, <2>3, StatusStep
<1>5. CASE case.status = "trial"
  <2>1. Update([case EXCEPT !.status = "closed"])
    BY <1>1, <1>5
  <2> QED BY <2>1, StatusStep
<1> QED BY <1>1, <1>3, <1>4, <1>5

-----------------------------------------------------------------------------
(* The steps of discovery and of the pretrial motions.                     *)

LEMMA PretrialKept ==
  ASSUME CaseInv, case.status = "pretrial", case' \in CaseType, passed' = {},
         case'.status = case.status, case'.mode = case.mode,
         case'.phase = case.phase, case'.jury = case.jury, case'.docket = case.docket,
         case'.motions56 = case.motions56, case'.orders56 = case.orders56,
         case.closed56 \subseteq case'.closed56, case'.exhibits = case.exhibits,
         case'.offered = case.offered, case'.files = case.files,
         \A x \in case'.produced : x[2] \in Range(case.files)
  PROVE  CaseInv'
<1>1. PassesOptional'
  BY DEF PassesOptional
<1>2. /\ Has("pretrial order")' => Has("pretrial order")
      /\ \A p \in Sides : HasBy("rule 12 motion", p)' <=> HasBy("rule 12 motion", p)
  BY DocketSame
<1>3. /\ \A p \in Sides : case'.exhibits[p] <= MaxExhibits
      /\ \A x \in case'.offered \cup case'.produced : x[2] \in Range(case'.files)
  BY ParamsFit
<1> QED BY <1>1, <1>2, <1>3, Kept

LEMMA PaperTurn ==
  ASSUME CaseInv,
         NEW tool \in {"serve_initial_disclosures", "submit_technical_report",
              "produce_case_file", "serve_interrogatories", "serve_request_for_production",
              "serve_requests_for_admission", "respond_interrogatories",
              "respond_request_for_production", "respond_requests_for_admission",
              "file_rule37_motion", "file_rule56_motion", "oppose_rule56_motion",
              "reply_rule56_motion"},
         tool \in Current.tools
  PROVE  case \in CaseType /\ case.status = "pretrial" /\ Current.role \in Sides
<1>1. case \in CaseType /\ case.status = "pretrial" /\ Current \in PaperOffers
  BY ParamsFit, StageOfTool
<1> QED BY <1>1 DEF PaperOffers, TurnsOf

LEMMA ServeRequestKept ==
  ASSUME CaseInv, ServeRequest(Current)
  PROVE  CaseInv'
<1> DEFINE a == Current.role
<1>1. PICK kind \in Discovery :
        /\ ServeTool[kind] \in Current.tools
        /\ case' = [case EXCEPT !.requested = @ \cup {<<kind, a>>}] /\ passed' = {}
  BY DEF ServeRequest, Takes, Update
<1>2. case \in CaseType /\ case.status = "pretrial" /\ a \in Sides
  BY <1>1, ToolsOfDiscovery, PaperTurn
<1> HIDE DEF a
<1>3. case.requested \cup {<<kind, a>>} \in SUBSET (Discovery \X Sides)
  BY <1>2, CaseFields
<1>4. case' \in CaseType
  BY <1>1, <1>2, <1>3 DEF CaseType
<1>5. /\ case'.docket = case.docket /\ case'.mode = case.mode /\ case'.status = case.status
      /\ case'.phase = case.phase /\ case'.jury = case.jury
      /\ case'.motions56 = case.motions56 /\ case'.orders56 = case.orders56
      /\ case'.closed56 = case.closed56 /\ case'.exhibits = case.exhibits
      /\ case'.offered = case.offered /\ case'.produced = case.produced
      /\ case'.files = case.files
  BY <1>1, <1>2 DEF CaseType
<1> QED BY <1>1, <1>2, <1>4, <1>5, ParamsFit, PretrialKept

LEMMA RespondKept ==
  ASSUME CaseInv, Respond(Current)
  PROVE  CaseInv'
<1> DEFINE a == Current.role
<1>1. PICK kind \in Discovery :
        /\ RespondTool[kind] \in Current.tools
        /\ case' = [case EXCEPT !.answered = @ \cup {<<kind, a>>}] /\ passed' = {}
  BY DEF Respond, Takes, Update
<1>2. case \in CaseType /\ case.status = "pretrial" /\ a \in Sides
  BY <1>1, ToolsOfDiscovery, PaperTurn
<1> HIDE DEF a
<1>3. case.answered \cup {<<kind, a>>} \in SUBSET (Discovery \X Sides)
  BY <1>2, CaseFields
<1>4. case' \in CaseType
  BY <1>1, <1>2, <1>3 DEF CaseType
<1>5. /\ case'.docket = case.docket /\ case'.mode = case.mode /\ case'.status = case.status
      /\ case'.phase = case.phase /\ case'.jury = case.jury
      /\ case'.motions56 = case.motions56 /\ case'.orders56 = case.orders56
      /\ case'.closed56 = case.closed56 /\ case'.exhibits = case.exhibits
      /\ case'.offered = case.offered /\ case'.produced = case.produced
      /\ case'.files = case.files
  BY <1>1, <1>2 DEF CaseType
<1> QED BY <1>1, <1>2, <1>4, <1>5, ParamsFit, PretrialKept

LEMMA ProduceCaseFileKept ==
  ASSUME CaseInv, ProduceCaseFile(Current)
  PROVE  CaseInv'
<1> DEFINE a == Current.role
           f == Current.about
<1>1. /\ "produce_case_file" \in Current.tools
      /\ case' = [case EXCEPT !.produced = @ \cup {<<a, f>>}] /\ passed' = {}
  BY DEF ProduceCaseFile, Takes, Update
<1>2. case \in CaseType /\ case.status = "pretrial" /\ a \in Sides
  BY <1>1, PaperTurn
<1>3. f \in Range(case.files)
  <2>1. Current \in PaperOffers
    BY <1>1, <1>2, StageOfTool
  <2> QED BY <1>1, <2>1 DEF PaperOffers, TurnsOf
<1> HIDE DEF a, f
<1>4. f \in STRING
  BY <1>2, <1>3, CaseFields DEF Range
<1>5. case.produced \cup {<<a, f>>} \in SUBSET (Sides \X STRING)
  BY <1>2, <1>4, CaseFields
<1>6. case' \in CaseType
  BY <1>1, <1>2, <1>5 DEF CaseType
<1>7. /\ case'.docket = case.docket /\ case'.mode = case.mode /\ case'.status = case.status
      /\ case'.phase = case.phase /\ case'.jury = case.jury
      /\ case'.motions56 = case.motions56 /\ case'.orders56 = case.orders56
      /\ case'.closed56 = case.closed56 /\ case'.exhibits = case.exhibits
      /\ case'.offered = case.offered /\ case'.produced = case.produced \cup {<<a, f>>}
      /\ case'.files = case.files
  BY <1>1, <1>2 DEF CaseType
<1>8. \A x \in case'.produced : x[2] \in Range(case.files)
  BY <1>3, <1>7, ParamsFit
<1> QED BY <1>1, <1>2, <1>6, <1>7, <1>8, PretrialKept

(* Files are counted for discovery when they are produced: importing one   *)
(* changes no discovery record.                                            *)
LEMMA ImportCaseFileKept ==
  ASSUME CaseInv, ImportCaseFile(Current)
  PROVE  CaseInv'
<1>1. PICK f \in Imports \ Range(case.files) :
        case' = [case EXCEPT !.files = Append(@, f)] /\ passed' = {}
  BY DEF ImportCaseFile, Update
<1>2. case \in CaseType /\ f \in STRING
  BY ParamsFit, ImportAssumption
<1>3. case.files \in Seq(STRING)
  BY <1>2, CaseFields
<1>4. Append(case.files, f) \in Seq(STRING)
  BY <1>2, <1>3
<1>5. case' \in CaseType
  BY <1>1, <1>2, <1>4 DEF CaseType
<1>6. /\ case'.docket = case.docket /\ case'.mode = case.mode /\ case'.status = case.status
      /\ case'.phase = case.phase /\ case'.jury = case.jury
      /\ case'.motions56 = case.motions56 /\ case'.orders56 = case.orders56
      /\ case'.closed56 = case.closed56 /\ case'.exhibits = case.exhibits
      /\ case'.offered = case.offered /\ case'.produced = case.produced
      /\ case'.files = Append(case.files, f) /\ case'.requested = case.requested
      /\ case'.answered = case.answered /\ case'.passes37 = case.passes37
      /\ case'.motions37 = case.motions37 /\ case'.orders37 = case.orders37
  BY <1>1, <1>2 DEF CaseType
<1>7. Range(case.files) \subseteq Range(case'.files)
  <2> SUFFICES ASSUME NEW i \in DOMAIN case.files PROVE case.files[i] \in Range(case'.files)
    BY DEF Range
  <2>1. i \in DOMAIN case'.files /\ case'.files[i] = case.files[i]
    BY <1>2, <1>3, <1>6
  <2> QED BY <2>1 DEF Range
<1>8. \A x \in case'.offered \cup case'.produced : x[2] \in Range(case'.files)
  BY <1>6, <1>7, ParamsFit
<1>9. ASSUME NEW p \in Sides PROVE Generation(p)' = Generation(p)
  <2>1. {g \in Range(case'.files) : <<Opponent(p), g>> \in case'.produced}
          = {g \in Range(case.files) : <<Opponent(p), g>> \in case.produced}
    <3>1. ASSUME NEW g, <<Opponent(p), g>> \in case.produced PROVE g \in Range(case.files)
      <4>1. <<Opponent(p), g>>[2] = g
        OBVIOUS
      <4> QED BY <3>1, <4>1, ParamsFit
    <3> QED BY <1>6, <1>7, <3>1
  <2> QED BY <1>6, <2>1 DEF Generation, Requested, Answered
<1>10. ReadyForTrial => ReadyForTrial'
  BY <1>6, <1>9, ReadyFrame
<1>11. /\ PassesOptional'
       /\ Has("pretrial order")' => Has("pretrial order")
       /\ \A p \in Sides : HasBy("rule 12 motion", p)' <=> HasBy("rule 12 motion", p)
  BY <1>1, <1>6, DocketSame DEF PassesOptional
<1> QED BY <1>5, <1>6, <1>8, <1>10, <1>11, ParamsFit, Kept DEF ReadyKept

LEMMA GenerationNat ==
  ASSUME case \in CaseType, NEW p \in Sides
  PROVE  Generation(p) \in Nat
<1>1. IsFiniteSet(Discovery)
  <2>1. IsFiniteSet({"interrogatories"})
    BY FS_Singleton
  <2>2. IsFiniteSet({"interrogatories"} \cup {"rfp"})
    BY <2>1, FS_AddElement
  <2>3. IsFiniteSet(({"interrogatories"} \cup {"rfp"}) \cup {"rfa"})
    BY <2>2, FS_AddElement
  <2>4. Discovery = ({"interrogatories"} \cup {"rfp"}) \cup {"rfa"}
    BY DEF Discovery
  <2> QED BY <2>3, <2>4
<1>2. ASSUME NEW S \in SUBSET Discovery PROVE Cardinality(S) \in Nat
  BY <1>1, FS_Subset, FS_CardinalityType
<1> DEFINE q == case.files
           R == Range(q)
           P == {f \in R : <<Opponent(p), f>> \in case.produced}
<1>3. q \in Seq(STRING)
  BY CaseFields
<1> HIDE DEF q
<1>4. IsFiniteSet(R)
  <2> DEFINE n == Len(q)
  <2>1. n \in Nat /\ DOMAIN q = 1 .. n
    BY <1>3
  <2> HIDE DEF n
  <2>2. IsFiniteSet(1 .. n)
    BY <2>1, FS_Interval
  <2>3. IsFiniteSet(DOMAIN q)
    BY <2>1, <2>2
  <2>4. R = {q[i] : i \in DOMAIN q}
    BY DEF Range
  <2> DEFINE D == DOMAIN q
             g == [i \in D |-> q[i]]
  <2>5. g \in Surjection(D, R)
    BY <2>4 DEF Surjection
  <2> HIDE DEF D, R, g
  <2> QED BY <2>3, <2>5, FS_Surjection DEF D
<1>5. Cardinality(P) \in Nat
  <2>1. P \subseteq R
    OBVIOUS
  <2> HIDE DEF P, R
  <2> QED BY <1>4, <2>1, FS_Subset, FS_CardinalityType
<1>6. /\ Cardinality({k \in Discovery : Requested(k, p)}) \in Nat
      /\ Cardinality({k \in Discovery : Answered(k, Opponent(p))}) \in Nat
  BY <1>2
<1> QED BY <1>5, <1>6 DEF Generation, q

LEMMA FileRule37Kept ==
  ASSUME CaseInv, FileRule37(Current)
  PROVE  CaseInv'
<1> DEFINE a == Current.role
           m == [movant |-> a, generation |-> Generation(a)]
<1>1. /\ "file_rule37_motion" \in Current.tools
      /\ case' = [case EXCEPT !.motions37 = Append(@, m)] /\ passed' = {}
  BY DEF FileRule37, Takes, Update
<1>2. case \in CaseType /\ case.status = "pretrial" /\ a \in Sides
  BY <1>1, PaperTurn
<1>3. m \in [movant : Sides, generation : Nat]
  BY <1>2, GenerationNat
<1> HIDE DEF a, m
<1>4. Append(case.motions37, m) \in Seq([movant : Sides, generation : Nat])
  BY <1>2, <1>3, CaseFields
<1>5. case' \in CaseType
  BY <1>1, <1>2, <1>4 DEF CaseType
<1>6. /\ case'.docket = case.docket /\ case'.mode = case.mode /\ case'.status = case.status
      /\ case'.phase = case.phase /\ case'.jury = case.jury
      /\ case'.motions56 = case.motions56 /\ case'.orders56 = case.orders56
      /\ case'.closed56 = case.closed56 /\ case'.exhibits = case.exhibits
      /\ case'.offered = case.offered /\ case'.produced = case.produced
      /\ case'.files = case.files
  BY <1>1, <1>2 DEF CaseType
<1> QED BY <1>1, <1>2, <1>5, <1>6, ParamsFit, PretrialKept

LEMMA DecideRule37Kept ==
  ASSUME CaseInv, DecideRule37(Current)
  PROVE  CaseInv'
<1>1. /\ case' = [case EXCEPT !.orders37 = @ + 1] /\ passed' = {}
      /\ case \in CaseType /\ case.status = "pretrial"
  BY ParamsFit, StageOfTool DEF DecideRule37, Takes, Update
<1>2. case.orders37 + 1 \in Nat
  BY <1>1, CaseFields
<1>3. case' \in CaseType
  BY <1>1, <1>2 DEF CaseType
<1>4. /\ case'.docket = case.docket /\ case'.mode = case.mode /\ case'.status = case.status
      /\ case'.phase = case.phase /\ case'.jury = case.jury
      /\ case'.motions56 = case.motions56 /\ case'.orders56 = case.orders56
      /\ case'.closed56 = case.closed56 /\ case'.exhibits = case.exhibits
      /\ case'.offered = case.offered /\ case'.produced = case.produced
      /\ case'.files = case.files
  BY <1>1 DEF CaseType
<1> QED BY <1>1, <1>3, <1>4, ParamsFit, PretrialKept

LEMMA PassRule37Kept ==
  ASSUME CaseInv, PassRule37(Current)
  PROVE  CaseInv'
<1> DEFINE a == Current.role
           g == Generation(a)
<1>1. /\ "file_rule37_motion" \in Current.tools
      /\ case' = [case EXCEPT !.passes37 = @ \cup {<<a, g>>}] /\ passed' = {}
  BY DEF PassRule37, Update
<1>2. case \in CaseType /\ case.status = "pretrial" /\ a \in Sides
  BY <1>1, PaperTurn
<1>3. g \in Nat
  BY <1>2, GenerationNat
<1> HIDE DEF a, g
<1>4. case.passes37 \cup {<<a, g>>} \in SUBSET (Sides \X Nat)
  BY <1>2, <1>3, CaseFields
<1>5. case' \in CaseType
  BY <1>1, <1>2, <1>4 DEF CaseType
<1>6. /\ case'.docket = case.docket /\ case'.mode = case.mode /\ case'.status = case.status
      /\ case'.phase = case.phase /\ case'.jury = case.jury
      /\ case'.motions56 = case.motions56 /\ case'.orders56 = case.orders56
      /\ case'.closed56 = case.closed56 /\ case'.exhibits = case.exhibits
      /\ case'.offered = case.offered /\ case'.produced = case.produced
      /\ case'.files = case.files
  BY <1>1, <1>2 DEF CaseType
<1> QED BY <1>1, <1>2, <1>5, <1>6, ParamsFit, PretrialKept

LEMMA PassRule56Kept ==
  ASSUME CaseInv, PassRule56(Current)
  PROVE  CaseInv'
<1> DEFINE a == Current.role
<1>1. /\ "file_rule56_motion" \in Current.tools
      /\ case' = [case EXCEPT !.closed56 = @ \cup {a}] /\ passed' = {}
  BY DEF PassRule56, Update
<1>2. case \in CaseType /\ case.status = "pretrial" /\ a \in Sides
  BY <1>1, PaperTurn
<1> HIDE DEF a
<1>3. case.closed56 \cup {a} \in SUBSET Sides
  BY <1>2, CaseFields
<1>4. case' \in CaseType
  BY <1>1, <1>2, <1>3 DEF CaseType
<1>5. /\ case'.docket = case.docket /\ case'.mode = case.mode /\ case'.status = case.status
      /\ case'.phase = case.phase /\ case'.jury = case.jury
      /\ case'.motions56 = case.motions56 /\ case'.orders56 = case.orders56
      /\ case'.closed56 = case.closed56 \cup {a} /\ case'.exhibits = case.exhibits
      /\ case'.offered = case.offered /\ case'.produced = case.produced
      /\ case'.files = case.files
  BY <1>1, <1>2 DEF CaseType
<1> QED BY <1>1, <1>2, <1>4, <1>5, ParamsFit, PretrialKept

LEMMA PassKept ==
  ASSUME CaseInv, Pass(Current)
  PROVE  CaseInv'
<1>1. /\ passed' = passed \cup {Current} /\ case' = case
      /\ Current.mayPass /\ "file_rule37_motion" \notin Current.tools
      /\ "file_rule56_motion" \notin Current.tools
  BY DEF Pass
<1>2. PassesOptional'
  BY <1>1, ParamsFit DEF PassesOptional
<1>3. ReadyForTrial => ReadyForTrial'
  <2>1. ASSUME NEW p \in Sides PROVE Generation(p)' = Generation(p)
    BY <1>1 DEF Generation, Requested, Answered
  <2> QED BY <1>1, <2>1, ReadyFrame
<1>4. /\ Has("pretrial order")' => Has("pretrial order")
      /\ \A p \in Sides : HasBy("rule 12 motion", p)' <=> HasBy("rule 12 motion", p)
  BY <1>1, DocketSame
<1> QED BY <1>1, <1>2, <1>3, <1>4, ParamsFit, Kept DEF ReadyKept

(* Before the trial only Rule 56 and the order itself can spoil the order. *)
LEMMA StaysPretrial ==
  ASSUME CaseInv, case.status = "pretrial", case' \in CaseType, passed' = {},
         case'.status = case.status, case'.mode = case.mode,
         case'.phase = case.phase, case'.jury = case.jury,
         case.docket \subseteq case'.docket, case'.exhibits = case.exhibits,
         case'.offered = case.offered, case'.produced = case.produced,
         case'.files = case.files,
         \A p \in Sides : Dispositive(p)' <= MaxDispositive, OrderFinal'
  PROVE  CaseInv'
<1>1. case.phase = "none" /\ case.jury = "none"
  BY ParamsFit DEF NotYetTried
<1>2. Has("answer") /\ case.mode # "unset"
  BY ParamsFit DEF Answered12
<1>3. Answered12'
  BY <1>2, DocketGrows DEF Answered12
<1>4. PassesOptional' /\ NotYetTried' /\ ReadyKept' /\ Founded'
  BY <1>1 DEF PassesOptional, NotYetTried, ReadyKept, Founded
<1>5. ModeKept' /\ StagesRested'
  BY <1>1 DEF ModeKept, StagesRested, AfterEvidence, AfterRebuttal, AfterDefense, AfterPlaintiff
<1>6. WithinLimits'
  BY ParamsFit DEF WithinLimits
<1> QED BY <1>3, <1>4, <1>5, <1>6 DEF CaseInv

LEMMA FileRule56Kept ==
  ASSUME CaseInv, FileRule56(Current)
  PROVE  CaseInv'
<1> DEFINE a == Current.role
           m == [movant |-> a, opposed |-> FALSE, replied |-> FALSE]
           q == case.motions56
           n == Len(q)
<1>1. /\ "file_rule56_motion" \in Current.tools /\ Dispositive(a) < MaxDispositive
      /\ case' = [case EXCEPT !.motions56 = Append(@, m)] /\ passed' = {}
  BY DEF FileRule56, Takes, Update
<1>2. case \in CaseType /\ case.status = "pretrial" /\ a \in Sides
  BY <1>1, PaperTurn
<1>3. ~Has("pretrial order")
  <2>1. Current \in PaperOffers
    BY <1>1, <1>2, StageOfTool
  <2> QED BY <1>1, <2>1 DEF PaperOffers, TurnsOf
<1>4. m \in Motion56s /\ m.movant = a
  BY <1>2 DEF Motion56s
<1>5. q \in Seq(Motion56s)
  BY <1>2, CaseFields
<1>6. /\ case'.docket = case.docket /\ case'.mode = case.mode /\ case'.status = case.status
      /\ case'.phase = case.phase /\ case'.jury = case.jury
      /\ case'.exhibits = case.exhibits
      /\ case'.offered = case.offered /\ case'.produced = case.produced
      /\ case'.files = case.files /\ case'.motions56 = Append(q, m)
  BY <1>1, <1>2 DEF CaseType
<1> HIDE DEF a, m
<1>7. Append(q, m) \in Seq(Motion56s)
  BY <1>4, <1>5
<1>8. case' \in CaseType
  BY <1>1, <1>2, <1>7 DEF CaseType
<1>9. ~Has("pretrial order")'
  BY <1>3, <1>6, DocketSame
<1>10. ASSUME NEW p \in Sides PROVE Dispositive(p)' <= MaxDispositive
  <2> DEFINE S == {i \in DOMAIN q : q[i].movant = p}
             U == {i \in DOMAIN case'.motions56 : case'.motions56[i].movant = p}
             h == Cardinality({t \in {"rule 12 motion"} : HasBy(t, p)})
  <2>0. IsFiniteSet(S) /\ Cardinality(S) \in Nat /\ h \in Nat
    <3>1. IsFiniteSet(S) /\ Cardinality(S) \in Nat
      BY <1>2, AtMostOneFiled
    <3>2. h = IF HasBy("rule 12 motion", p) THEN 1 ELSE 0
      BY <1>2, AtMostOneFiled
    <3> HIDE DEF h
    <3> QED BY <3>1, <3>2
  <2>1. /\ n \in Nat /\ DOMAIN q = 1 .. n /\ DOMAIN case'.motions56 = 1 .. n + 1
        /\ \A i \in 1 .. n : case'.motions56[i] = q[i]
        /\ case'.motions56[n + 1] = m
    BY <1>4, <1>5, <1>6
  <2>2. Dispositive(p) = h + Cardinality(S)
    BY DEF Dispositive
  <2>3. Dispositive(p)' = h + Cardinality(U)
    BY <1>6 DEF Dispositive, HasBy
  <2> HIDE DEF h, n
  <2>4. CASE p = a
    <3>1. U = S \cup {n + 1} /\ n + 1 \notin S
      BY <1>4, <2>1, <2>4
    <3> HIDE DEF S, U, q
    <3>2. Cardinality(U) = Cardinality(S) + 1
      BY <2>0, <3>1, FS_AddElement
    <3>3. Dispositive(p) < MaxDispositive
      BY <1>1, <2>4
    <3>4. MaxDispositive \in Nat
      BY LimitAssumption
    <3> DEFINE k == Cardinality(S)
               x == Dispositive(p)
               y == Dispositive(p)'
    <3>5. k \in Nat /\ h \in Nat /\ x = h + k /\ y = h + (k + 1) /\ x < MaxDispositive
      BY <2>0, <2>2, <2>3, <3>2, <3>3
    <3> HIDE DEF k, x, y
    <3>6. y <= MaxDispositive
      <4>1. h + k \in Nat /\ h + (k + 1) = 1 + (h + k)
        BY <3>5
      <4> QED BY <3>4, <3>5, <4>1, OneMore
    <3> QED BY <3>6 DEF y
  <2>5. CASE p # a
    <3>1. U = S
      BY <1>4, <2>1, <2>5
    <3> HIDE DEF S, U, q
    <3>2. Dispositive(p)' = Dispositive(p)
      BY <2>2, <2>3, <3>1
    <3> QED BY <3>2, ParamsFit DEF WithinLimits
  <2> QED BY <2>4, <2>5
<1>11. OrderFinal'
  BY <1>2, <1>6, <1>9 DEF OrderFinal
<1> QED BY <1>1, <1>2, <1>6, <1>8, <1>10, <1>11, StaysPretrial

(* The papers of a pending motion leave its movant as it was.              *)
LEMMA PaperOnMotion ==
  ASSUME CaseInv, case.status = "pretrial", Pending56,
         case'.docket = case.docket,
         \/ case'.motions56 = [case.motions56 EXCEPT ![case.orders56 + 1].opposed = TRUE]
         \/ case'.motions56 = [case.motions56 EXCEPT ![case.orders56 + 1].replied = TRUE]
         \/ case'.motions56 = case.motions56
  PROVE  /\ case'.motions56 \in Seq(Motion56s)
         /\ \A p \in Sides : Dispositive(p)' <= MaxDispositive
         /\ ~Has("pretrial order")'
<1> DEFINE q == case.motions56
           r == case'.motions56
           k == case.orders56 + 1
<1>1. q \in Seq(Motion56s) /\ k \in DOMAIN q
  BY ParamsFit, CaseFields DEF Pending56
<1>2. q[k] \in Motion56s
  BY <1>1
<1>3. /\ [q[k] EXCEPT !.opposed = TRUE] \in Motion56s
      /\ [q[k] EXCEPT !.replied = TRUE] \in Motion56s
      /\ [q[k] EXCEPT !.opposed = TRUE].movant = q[k].movant
      /\ [q[k] EXCEPT !.replied = TRUE].movant = q[k].movant
  BY <1>2 DEF Motion56s
<1>4. PICK m \in Motion56s : m.movant = q[k].movant /\ r = [q EXCEPT ![k] = m]
  <2>1. CASE r = [q EXCEPT ![k].opposed = TRUE]
    <3>1. r = [q EXCEPT ![k] = [q[k] EXCEPT !.opposed = TRUE]]
      BY <2>1
    <3> QED BY <1>3, <3>1
  <2>2. CASE r = [q EXCEPT ![k].replied = TRUE]
    <3>1. r = [q EXCEPT ![k] = [q[k] EXCEPT !.replied = TRUE]]
      BY <2>2
    <3> QED BY <1>3, <3>1
  <2>3. CASE r = q
    <3>1. r = [q EXCEPT ![k] = q[k]]
      BY <1>1, <2>3
    <3> QED BY <1>2, <3>1
  <2> QED BY <2>1, <2>2, <2>3
<1> HIDE DEF r, k
<1>5. /\ r \in Seq(Motion56s) /\ DOMAIN r = DOMAIN q
      /\ \A i \in DOMAIN q : r[i].movant = q[i].movant
  <2> HIDE DEF q
  <2> QED BY <1>1, <1>4
<1>6. ~Has("pretrial order")
  BY ParamsFit DEF OrderFinal
<1>7. ~Has("pretrial order")'
  BY <1>6, DocketSame
<1>8. ASSUME NEW p \in Sides PROVE Dispositive(p)' <= MaxDispositive
  <2>1. {i \in DOMAIN r : r[i].movant = p} = {i \in DOMAIN q : q[i].movant = p}
    BY <1>5
  <2>2. Dispositive(p)' = Dispositive(p)
    BY <2>1 DEF Dispositive, HasBy, r
  <2> QED BY <2>2, ParamsFit DEF WithinLimits
<1> QED BY <1>5, <1>7, <1>8 DEF r

LEMMA Rule56PapersKept ==
  ASSUME CaseInv,
         OpposeRule56(Current) \/ ReplyRule56(Current) \/ DecideRule56(Current)
  PROVE  CaseInv'
<1>1. case \in CaseType /\ case.status = "pretrial" /\ Pending56
  <2>1. \E tool \in {"oppose_rule56_motion", "reply_rule56_motion", "decide_rule56_motion"} :
          tool \in Current.tools
    BY DEF OpposeRule56, ReplyRule56, DecideRule56, Takes
  <2>2. case \in CaseType /\ case.status = "pretrial" /\ Current \in PaperOffers
    BY <2>1, ParamsFit, StageOfTool
  <2> QED BY <2>1, <2>2 DEF PaperOffers, TurnsOf
<1>2. passed' = {}
  BY DEF OpposeRule56, ReplyRule56, DecideRule56, Update
<1> DEFINE k == case.orders56 + 1
<1>3. \/ /\ case' = [case EXCEPT !.motions56 = [case.motions56 EXCEPT ![k].opposed = TRUE]]
         /\ case'.motions56 = [case.motions56 EXCEPT ![k].opposed = TRUE]
      \/ /\ case' = [case EXCEPT !.motions56 = [case.motions56 EXCEPT ![k].replied = TRUE]]
         /\ case'.motions56 = [case.motions56 EXCEPT ![k].replied = TRUE]
      \/ /\ case' = [case EXCEPT !.orders56 = k]
         /\ case'.motions56 = case.motions56
  <2>1. CASE OpposeRule56(Current)
    BY <1>1, <2>1 DEF OpposeRule56, Update, CaseType
  <2>2. CASE ReplyRule56(Current)
    BY <1>1, <2>2 DEF ReplyRule56, Update, CaseType
  <2>3. CASE DecideRule56(Current)
    BY <1>1, <2>3 DEF DecideRule56, Update, CaseType
  <2> QED BY <2>1, <2>2, <2>3
<1>4. k \in Nat
  BY <1>1, CaseFields
<1>5. /\ case'.docket = case.docket /\ case'.mode = case.mode /\ case'.status = case.status
      /\ case'.phase = case.phase /\ case'.jury = case.jury
      /\ case'.exhibits = case.exhibits
      /\ case'.offered = case.offered /\ case'.produced = case.produced
      /\ case'.files = case.files
  <2> DEFINE o1 == [case.motions56 EXCEPT ![k].opposed = TRUE]
             o2 == [case.motions56 EXCEPT ![k].replied = TRUE]
  <2>1. \/ case' = [case EXCEPT !.motions56 = o1] \/ case' = [case EXCEPT !.motions56 = o2]
        \/ case' = [case EXCEPT !.orders56 = k]
    BY <1>3
  <2> HIDE DEF o1, o2, k
  <2> QED BY <1>1, <2>1 DEF CaseType
<1>6. /\ case'.motions56 \in Seq(Motion56s)
      /\ \A p \in Sides : Dispositive(p)' <= MaxDispositive
      /\ ~Has("pretrial order")'
  BY <1>1, <1>3, <1>5, PaperOnMotion
<1>7. case' \in CaseType
  <2> DEFINE o1 == [case.motions56 EXCEPT ![k].opposed = TRUE]
             o2 == [case.motions56 EXCEPT ![k].replied = TRUE]
  <2>1. \/ case' = [case EXCEPT !.motions56 = o1] /\ case'.motions56 = o1
        \/ case' = [case EXCEPT !.motions56 = o2] /\ case'.motions56 = o2
        \/ case' = [case EXCEPT !.orders56 = k]
    BY <1>3
  <2> HIDE DEF o1, o2, k
  <2>2. CASE case' = [case EXCEPT !.motions56 = o1] /\ case'.motions56 = o1
    <3>1. o1 \in Seq(Motion56s)
      BY <1>6, <2>2
    <3> QED BY <1>1, <2>2, <3>1 DEF CaseType
  <2>3. CASE case' = [case EXCEPT !.motions56 = o2] /\ case'.motions56 = o2
    <3>1. o2 \in Seq(Motion56s)
      BY <1>6, <2>3
    <3> QED BY <1>1, <2>3, <3>1 DEF CaseType
  <2>4. CASE case' = [case EXCEPT !.orders56 = k]
    BY <1>1, <1>4, <2>4 DEF CaseType
  <2> QED BY <2>1, <2>2, <2>3, <2>4
<1>8. OrderFinal'
  BY <1>1, <1>5, <1>6 DEF OrderFinal
<1> QED BY <1>1, <1>2, <1>5, <1>6, <1>7, <1>8, StaysPretrial

LEMMA EnterPretrialOrderKept ==
  ASSUME CaseInv, EnterPretrialOrder(Current)
  PROVE  CaseInv'
<1>1. /\ case \in CaseType /\ PassesOptional /\ case.status = "pretrial"
      /\ AllPassed(PretrialPapers)
      /\ case' = [case EXCEPT !.docket = Docketed("pretrial order", "court")] /\ passed' = {}
  BY ParamsFit, StageOfTool DEF EnterPretrialOrder, Takes, Enter, Update
<1>2. Docketed("pretrial order", "court")
        \in SUBSET (Titles \X (Sides \cup {"court"} \cup TrialPhases))
  <2>1. <<"pretrial order", "court">> \in Titles \X (Sides \cup {"court"} \cup TrialPhases)
    BY DEF Titles
  <2>2. case.docket \in SUBSET (Titles \X (Sides \cup {"court"} \cup TrialPhases))
    BY <1>1, CaseFields
  <2> QED BY <2>1, <2>2 DEF Docketed
<1>3. case' \in CaseType
  BY <1>1, <1>2 DEF CaseType
<1>4. /\ case'.docket = case.docket \cup {<<"pretrial order", "court">>}
      /\ case'.mode = case.mode /\ case'.status = case.status
      /\ case'.phase = case.phase /\ case'.jury = case.jury
      /\ case'.motions56 = case.motions56 /\ case'.orders56 = case.orders56
      /\ case'.closed56 = case.closed56 /\ case'.exhibits = case.exhibits
      /\ case'.offered = case.offered /\ case'.produced = case.produced
      /\ case'.files = case.files
  BY <1>1 DEF CaseType, Docketed
<1>5. OrderFinal'
  <2>1. ~Pending56 /\ \A p \in Sides : Moved56(p) \/ p \in case.closed56
    BY <1>1, NothingPending, ParamsFit DEF OrderFinal
  <2> QED BY <1>1, <1>4, <2>1 DEF OrderFinal, Pending56, Moved56
<1>6. ASSUME NEW p \in Sides PROVE Dispositive(p)' <= MaxDispositive
  <2>1. \A b : HasBy("rule 12 motion", b)' <=> HasBy("rule 12 motion", b)
    BY <1>4 DEF HasBy
  <2>2. Dispositive(p)' = Dispositive(p)
    BY <1>4, <2>1 DEF Dispositive
  <2> QED BY <2>2, ParamsFit DEF WithinLimits
<1>7. case.docket \subseteq case'.docket
  BY <1>4
<1> QED BY <1>1, <1>3, <1>4, <1>5, <1>6, <1>7, StaysPretrial

LEMMA OrdinaryPapers ==
  ASSUME CaseInv, ServeDisclosures(Current) \/ SubmitReport(Current)
  PROVE  CaseInv'
<1>1. CASE ServeDisclosures(Current)
  <2>1. Current.role \in Sides
    BY <1>1, PaperTurn DEF ServeDisclosures, Takes
  <2> QED BY <1>1, <2>1, EnterKept DEF ServeDisclosures, Titles
<1>2. CASE SubmitReport(Current)
  <2>1. Current.role \in Sides
    BY <1>2, PaperTurn DEF SubmitReport, Takes
  <2> QED BY <1>2, <2>1, EnterKept DEF SubmitReport, Titles
<1> QED BY <1>1, <1>2

-----------------------------------------------------------------------------
(* The steps of the trial.                                                 *)

LEMMA TrialTurn ==
  ASSUME CaseInv
  PROVE  /\ \A tool \in {"record_opening_statement", "submit_trial_theory", "rest_case",
              "offer_exhibit", "propose_jury_instruction", "object_jury_instruction",
              "deliver_closing_argument"} :
              tool \in Current.tools => case.status = "trial" /\ Current.role \in Sides
         /\ \A tool \in {"set_jury_configuration", "add_juror", "empanel_jury",
              "advance_trial_phase", "submit_juror_vote", "enter_judgment"} :
              tool \in Current.tools => case.status = "trial"
         /\ "set_jury_configuration" \in Current.tools => case.mode = "jury"
         /\ "add_juror" \in Current.tools => case.mode = "jury"
         /\ "empanel_jury" \in Current.tools => case.phase = "voir_dire"
         /\ "submit_juror_vote" \in Current.tools => case.phase = "deliberation"
         /\ "enter_judgment" \in Current.tools => case.phase = "post_verdict"
         /\ "advance_trial_phase" \in Current.tools =>
              /\ case.phase # "post_verdict"
              /\ case.phase \in EvidencePhases => HasBy("rested", case.phase)
              /\ case.phase = "closings" => BothClosed
<1>1. ASSUME NEW tool \in {"record_opening_statement", "submit_trial_theory", "rest_case",
              "offer_exhibit", "propose_jury_instruction", "object_jury_instruction",
              "deliver_closing_argument"}, tool \in Current.tools
      PROVE  case.status = "trial" /\ Current.role \in Sides
  <2>1. case.status = "trial" /\ Current \in TrialOffers
    BY <1>1, ParamsFit, StageOfTool
  <2> QED BY <1>1, <2>1 DEF TrialOffers, TurnsOf
<1>2. ASSUME NEW tool \in {"set_jury_configuration", "add_juror", "empanel_jury",
              "advance_trial_phase", "submit_juror_vote", "enter_judgment"},
             tool \in Current.tools
      PROVE  /\ case.status = "trial"
             /\ tool = "set_jury_configuration" => case.mode = "jury"
             /\ tool = "add_juror" => case.mode = "jury"
             /\ tool = "empanel_jury" => case.phase = "voir_dire"
             /\ tool = "submit_juror_vote" => case.phase = "deliberation"
             /\ tool = "enter_judgment" => case.phase = "post_verdict"
             /\ tool = "advance_trial_phase" =>
                  /\ case.phase # "post_verdict"
                  /\ case.phase \in EvidencePhases => HasBy("rested", case.phase)
                  /\ case.phase = "closings" => BothClosed
  <2>1. case.status = "trial" /\ Current \in TrialOffers
    BY <1>2, ParamsFit, StageOfTool
  <2> QED BY <1>2, <2>1 DEF TrialOffers, TurnsOf
<1> QED BY <1>1, <1>2

LEMMA OrdinaryTrialActs ==
  ASSUME CaseInv,
         \/ RecordOpening(Current) \/ SubmitTheory(Current) \/ RestCase(Current)
         \/ ProposeInstruction(Current) \/ ObjectToInstruction(Current)
         \/ SettleInstructions(Current) \/ DeliverInstructions(Current)
         \/ DeliverClosing(Current) \/ FileBenchOpinion(Current)
  PROVE  CaseInv'
<1> DEFINE abouts == Sides \cup {"court"} \cup TrialPhases
<1>1. case.phase \in abouts /\ "court" \in abouts
  BY ParamsFit, CaseFields
<1>2. CASE RecordOpening(Current)
  <2>1. Current.role \in abouts
    BY <1>2, TrialTurn DEF RecordOpening, Takes
  <2> QED BY <1>2, <2>1, EnterKept DEF RecordOpening, Titles
<1>3. CASE SubmitTheory(Current)
  BY <1>1, <1>3, EnterKept DEF SubmitTheory, Titles
<1>4. CASE RestCase(Current)
  BY <1>1, <1>4, EnterKept DEF RestCase, Titles
<1>5. CASE ProposeInstruction(Current)
  <2>1. Current.role \in abouts
    BY <1>5, TrialTurn DEF ProposeInstruction, Takes
  <2> QED BY <1>5, <2>1, EnterKept DEF ProposeInstruction, Titles
<1>6. CASE ObjectToInstruction(Current)
  <2>1. Current.role \in abouts
    BY <1>6, TrialTurn DEF ObjectToInstruction, Takes
  <2> QED BY <1>6, <2>1, EnterKept DEF ObjectToInstruction, Titles
<1>7. CASE SettleInstructions(Current)
  BY <1>1, <1>7, EnterKept DEF SettleInstructions, Titles
<1>8. CASE DeliverInstructions(Current)
  BY <1>1, <1>8, EnterKept DEF DeliverInstructions, Titles
<1>9. CASE DeliverClosing(Current)
  <2>1. Current.role \in abouts
    BY <1>9, TrialTurn DEF DeliverClosing, Takes
  <2> QED BY <1>9, <2>1, EnterKept DEF DeliverClosing, Titles
<1>10. CASE FileBenchOpinion(Current)
  BY <1>1, <1>10, EnterKept DEF FileBenchOpinion, Titles
<1> QED BY <1>2, <1>3, <1>4, <1>5, <1>6, <1>7, <1>8, <1>9, <1>10

(* A step of the trial that enters nothing on the docket.                  *)
LEMMA TrialKept ==
  ASSUME CaseInv, case.status = "trial", case' \in CaseType, passed' = {},
         case'.docket = case.docket, case'.status = case.status, case'.mode = case.mode,
         case'.files = case.files, case'.produced = case.produced,
         case'.requested = case.requested, case'.answered = case.answered,
         case'.passes37 = case.passes37, case'.motions37 = case.motions37,
         case'.orders37 = case.orders37, case'.motions56 = case.motions56,
         case'.orders56 = case.orders56, case'.closed56 = case.closed56,
         \A p \in Sides : case'.exhibits[p] <= MaxExhibits,
         \A x \in case'.offered : x[2] \in Range(case.files),
         ModeKept', StagesRested'
  PROVE  CaseInv'
<1>1. ASSUME NEW p \in Sides
      PROVE  Generation(p)' = Generation(p) /\ Dispositive(p)' = Dispositive(p)
  BY DEF Generation, Requested, Answered, Dispositive, HasBy
<1>2. ReadyForTrial'
  <2>1. ReadyForTrial
    BY ParamsFit DEF ReadyKept
  <2> QED BY <1>1, <2>1, ReadyFrame
<1>3. \A t : Has(t) <=> Has(t)'
  BY DocketSame
<1>4. PassesOptional' /\ NotYetTried' /\ Answered12' /\ ReadyKept' /\ Founded'
  BY <1>2, <1>3, ParamsFit DEF PassesOptional, NotYetTried, Answered12, ReadyKept, Founded
<1>5. OrderFinal'
  BY <1>3, ParamsFit DEF OrderFinal, Pending56, Moved56
<1>6. WithinLimits'
  <2>1. \A p \in Sides : Dispositive(p)' <= MaxDispositive
    BY <1>1, ParamsFit DEF WithinLimits
  <2> QED BY <2>1, ParamsFit DEF WithinLimits
<1> QED BY <1>4, <1>5, <1>6 DEF CaseInv

LEMMA JuryStepsKept ==
  ASSUME CaseInv,
         \/ ConfigureJury(Current) \/ AddJurors(Current) \/ EmpanelJury(Current)
         \/ SubmitJurorVote(Current)
  PROVE  CaseInv'
<1>0. case \in CaseType /\ ModeKept /\ StagesRested /\ Answered12
  BY ParamsFit
<1>1. PICK new \in {"configured", "panel", "sworn", "verdict", "hung"} :
        case' = [case EXCEPT !.jury = new]
  BY DEF ConfigureJury, AddJurors, EmpanelJury, SubmitJurorVote, Update
<1>2. passed' = {}
  BY DEF ConfigureJury, AddJurors, EmpanelJury, SubmitJurorVote, Update
<1>3. case.status = "trial" /\ case.mode # "bench"
  <2>1. CASE ConfigureJury(Current)
    BY <2>1, TrialTurn DEF ConfigureJury, Takes
  <2>2. CASE AddJurors(Current)
    BY <2>2, TrialTurn DEF AddJurors, Takes
  <2>3. CASE EmpanelJury(Current)
    BY <1>0, <2>3, TrialTurn DEF EmpanelJury, Takes, ModeKept
  <2>4. CASE SubmitJurorVote(Current)
    BY <1>0, <2>4, TrialTurn DEF SubmitJurorVote, Takes, ModeKept
  <2> QED BY <2>1, <2>2, <2>3, <2>4
<1>4. case' \in CaseType
  BY <1>0, <1>1 DEF CaseType
<1>5. /\ case'.docket = case.docket /\ case'.status = case.status /\ case'.mode = case.mode
      /\ case'.files = case.files /\ case'.produced = case.produced
      /\ case'.requested = case.requested /\ case'.answered = case.answered
      /\ case'.passes37 = case.passes37 /\ case'.motions37 = case.motions37
      /\ case'.orders37 = case.orders37 /\ case'.motions56 = case.motions56
      /\ case'.orders56 = case.orders56 /\ case'.closed56 = case.closed56
      /\ case'.exhibits = case.exhibits /\ case'.offered = case.offered
      /\ case'.phase = case.phase
  BY <1>0, <1>1 DEF CaseType
<1>6. ModeKept' /\ StagesRested'
  <2>1. ModeKept'
    BY <1>0, <1>3, <1>5, DocketSame DEF ModeKept
  <2>2. StagesRested'
    BY <1>0, <1>5 DEF StagesRested, HasBy, BothClosed
  <2> QED BY <2>1, <2>2
<1> QED BY <1>2, <1>3, <1>4, <1>5, <1>6, ParamsFit, TrialKept

LEMMA OfferExhibitKept ==
  ASSUME CaseInv, OfferExhibit(Current)
  PROVE  CaseInv'
<1> DEFINE a == Current.role
<1>1. PICK file \in SUBSET {<<a, f>> : f \in Range(case.files)} :
        /\ case' = [case EXCEPT !.exhibits[a] = @ + 1, !.offered = @ \cup file]
        /\ passed' = {}
  BY DEF OfferExhibit, Update
<1>2. case \in CaseType /\ case.status = "trial" /\ a \in Sides /\ case.exhibits[a] < MaxExhibits
  BY ParamsFit, TrialTurn DEF OfferExhibit, Takes
<1> HIDE DEF a
<1>3. case.exhibits \in [Sides -> Nat] /\ case.offered \in SUBSET (Sides \X STRING)
      /\ case.files \in Seq(STRING)
  BY <1>2, CaseFields
<1> DEFINE e == [case.exhibits EXCEPT ![a] = @ + 1]
           o == case.offered \cup file
<1>4. e \in [Sides -> Nat] /\ \A p \in Sides : e[p] <= MaxExhibits
  <2>1. \A p \in Sides : e[p] = IF p = a THEN case.exhibits[p] + 1 ELSE case.exhibits[p]
    BY <1>3
  <2>2. MaxExhibits \in Nat
    BY LimitAssumption
  <2> QED BY <1>2, <1>3, <2>1, <2>2, ParamsFit
<1>5. o \in SUBSET (Sides \X STRING) /\ \A x \in o : x[2] \in Range(case.files)
  <2>1. ASSUME NEW x \in file PROVE x \in Sides \X STRING /\ x[2] \in Range(case.files)
    <3>1. PICK f \in Range(case.files) : x = <<a, f>>
      OBVIOUS
    <3>2. f \in STRING
      BY <1>3 DEF Range
    <3> QED BY <1>2, <3>1, <3>2
  <2> QED BY <1>3, <2>1, ParamsFit
<1>6. case' = [case EXCEPT !.exhibits = e, !.offered = o]
  BY <1>1
<1> HIDE DEF e, o
<1>7. case' \in CaseType
  BY <1>2, <1>4, <1>5, <1>6 DEF CaseType
<1>8. /\ case'.docket = case.docket /\ case'.status = case.status /\ case'.mode = case.mode
      /\ case'.files = case.files /\ case'.produced = case.produced
      /\ case'.requested = case.requested /\ case'.answered = case.answered
      /\ case'.passes37 = case.passes37 /\ case'.motions37 = case.motions37
      /\ case'.orders37 = case.orders37 /\ case'.motions56 = case.motions56
      /\ case'.orders56 = case.orders56 /\ case'.closed56 = case.closed56
      /\ case'.exhibits = e /\ case'.offered = o
      /\ case'.phase = case.phase /\ case'.jury = case.jury
  BY <1>2, <1>6 DEF CaseType
<1>9. ModeKept' /\ StagesRested'
  <2>1. ModeKept'
    BY <1>8, ParamsFit, DocketSame DEF ModeKept
  <2>2. StagesRested'
    BY <1>8, ParamsFit DEF StagesRested, HasBy, BothClosed
  <2> QED BY <2>1, <2>2
<1> QED BY <1>1, <1>2, <1>4, <1>5, <1>7, <1>8, <1>9, TrialKept

LEMMA EnterJudgmentKept ==
  ASSUME CaseInv, EnterJudgment(Current)
  PROVE  CaseInv'
<1>1. /\ case \in CaseType /\ case.status = "trial" /\ case.phase = "post_verdict"
      /\ IF case.mode = "bench" THEN Has("bench opinion") ELSE case.jury = "verdict"
      /\ Update([case EXCEPT !.status = "judgment_entered"])
  BY ParamsFit, TrialTurn DEF EnterJudgment, Takes
<1>2. case.mode \in {"jury", "bench"} /\ ReadyForTrial /\ Has("answer")
  BY <1>1, ParamsFit, CaseFields DEF Answered12, ReadyKept
<1>3. IF case.mode = "jury" THEN case.jury = "verdict" /\ Has("instructions delivered")
      ELSE case.jury = "none" /\ Has("bench opinion")
  BY <1>1, <1>2, ParamsFit DEF ModeKept
<1>4. BothClosed /\ \A phase \in EvidencePhases : HasBy("rested", phase)
  BY <1>1, ParamsFit DEF StagesRested, AfterEvidence, AfterRebuttal, AfterDefense,
     AfterPlaintiff, EvidencePhases
<1>5. JudgmentFounded
  BY <1>3, <1>4 DEF JudgmentFounded
<1> QED BY <1>1, <1>2, <1>5, StatusStep

LEMMA PhasePlaces ==
  /\ DOMAIN PhaseOrder = 1 .. 17
  /\ \A i, j \in 1 .. 17 : PhaseOrder[i] = PhaseOrder[j] => i = j
BY DEF PhaseOrder

LEMMA Following ==
  ASSUME NEW i \in 1 .. 17, case.phase = PhaseOrder[i]
  PROVE  (CHOOSE j \in DOMAIN PhaseOrder : PhaseOrder[j] = case.phase) = i
BY PhasePlaces

LEMMA NextPhaseIs ==
  /\ case.phase = "none" =>
       NextPhase = IF case.mode = "bench" THEN "openings" ELSE "voir_dire"
  /\ case.phase = "voir_dire" => NextPhase = "openings"
  /\ case.phase = "openings" => NextPhase = "plaintiff_case"
  /\ case.phase = "plaintiff_case" => NextPhase = "plaintiff_evidence"
  /\ case.phase = "plaintiff_evidence" => NextPhase = "defense_case"
  /\ case.phase = "defense_case" => NextPhase = "defense_evidence"
  /\ case.phase = "defense_evidence" => NextPhase = "plaintiff_rebuttal"
  /\ case.phase = "plaintiff_rebuttal" => NextPhase = "plaintiff_rebuttal_evidence"
  /\ case.phase = "plaintiff_rebuttal_evidence" => NextPhase = "defense_surrebuttal"
  /\ case.phase = "defense_surrebuttal" => NextPhase = "defense_surrebuttal_evidence"
  /\ case.phase = "defense_surrebuttal_evidence" => NextPhase = "charge_conference"
  /\ case.phase = "charge_conference" => NextPhase = "closings"
  /\ case.phase = "closings" =>
       NextPhase = IF case.mode = "bench" THEN "verdict_return" ELSE "jury_charge"
  /\ case.phase = "jury_charge" => NextPhase = "deliberation"
  /\ case.phase = "deliberation" => NextPhase = "post_verdict"
  /\ case.phase = "verdict_return" => NextPhase = "post_verdict"
<1> DEFINE place == CHOOSE j \in DOMAIN PhaseOrder : PhaseOrder[j] = case.phase
<1>1. NextPhase = CASE case.phase = "none" /\ case.mode = "bench"     -> "openings"
                    [] case.phase = "closings" /\ case.mode = "bench" -> "verdict_return"
                    [] case.phase = "deliberation"                    -> "post_verdict"
                    [] OTHER                                          -> PhaseOrder[1 + place]
  BY DEF NextPhase
<1>2. \A i \in 1 .. 17 : case.phase = PhaseOrder[i] => place = i
  BY Following
<1> HIDE DEF place
<1>3. ASSUME NEW i \in 1 .. 16, case.phase = PhaseOrder[i]
      PROVE  PhaseOrder[1 + place] = PhaseOrder[i + 1]
  BY <1>2, <1>3
<1>4. /\ PhaseOrder[1] = "none" /\ PhaseOrder[2] = "voir_dire" /\ PhaseOrder[3] = "openings"
      /\ PhaseOrder[4] = "plaintiff_case" /\ PhaseOrder[5] = "plaintiff_evidence"
      /\ PhaseOrder[6] = "defense_case" /\ PhaseOrder[7] = "defense_evidence"
      /\ PhaseOrder[8] = "plaintiff_rebuttal"
      /\ PhaseOrder[9] = "plaintiff_rebuttal_evidence"
      /\ PhaseOrder[10] = "defense_surrebuttal"
      /\ PhaseOrder[11] = "defense_surrebuttal_evidence"
      /\ PhaseOrder[12] = "charge_conference" /\ PhaseOrder[13] = "closings"
      /\ PhaseOrder[14] = "jury_charge" /\ PhaseOrder[15] = "deliberation"
      /\ PhaseOrder[16] = "verdict_return" /\ PhaseOrder[17] = "post_verdict"
  BY DEF PhaseOrder
<1>5. /\ case.phase = "none" => PhaseOrder[1 + place] = "voir_dire"
      /\ case.phase = "voir_dire" => PhaseOrder[1 + place] = "openings"
      /\ case.phase = "openings" => PhaseOrder[1 + place] = "plaintiff_case"
      /\ case.phase = "plaintiff_case" => PhaseOrder[1 + place] = "plaintiff_evidence"
      /\ case.phase = "plaintiff_evidence" => PhaseOrder[1 + place] = "defense_case"
      /\ case.phase = "defense_case" => PhaseOrder[1 + place] = "defense_evidence"
      /\ case.phase = "defense_evidence" => PhaseOrder[1 + place] = "plaintiff_rebuttal"
      /\ case.phase = "plaintiff_rebuttal" =>
           PhaseOrder[1 + place] = "plaintiff_rebuttal_evidence"
      /\ case.phase = "plaintiff_rebuttal_evidence" =>
           PhaseOrder[1 + place] = "defense_surrebuttal"
      /\ case.phase = "defense_surrebuttal" =>
           PhaseOrder[1 + place] = "defense_surrebuttal_evidence"
      /\ case.phase = "defense_surrebuttal_evidence" =>
           PhaseOrder[1 + place] = "charge_conference"
      /\ case.phase = "charge_conference" => PhaseOrder[1 + place] = "closings"
      /\ case.phase = "closings" => PhaseOrder[1 + place] = "jury_charge"
      /\ case.phase = "jury_charge" => PhaseOrder[1 + place] = "deliberation"
      /\ case.phase = "verdict_return" => PhaseOrder[1 + place] = "post_verdict"
  BY <1>3, <1>4
<1> QED BY <1>1, <1>5

LEMMA AdvanceTrialPhaseKept ==
  ASSUME CaseInv, AdvanceTrialPhase(Current)
  PROVE  CaseInv'
<1> DEFINE new == NextPhase
<1>0. /\ case \in CaseType /\ ModeKept /\ StagesRested /\ Answered12
  BY ParamsFit
<1>1. /\ AdvanceAllowed(new) /\ case' = [case EXCEPT !.phase = new] /\ passed' = {}
      /\ "advance_trial_phase" \in Current.tools
  BY DEF AdvanceTrialPhase, Takes, Update
<1>2. /\ case.status = "trial" /\ case.phase # "post_verdict"
      /\ case.phase \in EvidencePhases => HasBy("rested", case.phase)
      /\ case.phase = "closings" => BothClosed
  BY <1>1, TrialTurn
<1>3. case.phase \in TrialPhases /\ case.mode \in {"jury", "bench"}
  BY <1>0, <1>2, CaseFields DEF Answered12
<1>4. new \in TrialPhases
  BY <1>2, <1>3, NextPhaseIs DEF TrialPhases, TheoryPhases, EvidencePhases
<1>5. /\ new \in AfterPlaintiff =>
           case.phase \in AfterPlaintiff \/ case.phase = "plaintiff_evidence"
      /\ new \in AfterDefense =>
           case.phase \in AfterDefense \/ case.phase = "defense_evidence"
      /\ new \in AfterRebuttal =>
           case.phase \in AfterRebuttal \/ case.phase = "plaintiff_rebuttal_evidence"
      /\ new \in AfterEvidence =>
           case.phase \in AfterEvidence \/ case.phase = "defense_surrebuttal_evidence"
      /\ new \in AfterEvidence \ {"charge_conference", "closings"} =>
           case.phase \in AfterEvidence \ {"charge_conference"}
  BY <1>2, <1>3, NextPhaseIs
  DEF TrialPhases, TheoryPhases, EvidencePhases, AfterPlaintiff, AfterDefense, AfterRebuttal,
      AfterEvidence
<1>6. /\ new = "voir_dire" => case.phase = "none" /\ case.mode # "bench"
      /\ new = "jury_charge" => case.phase = "closings" /\ case.mode # "bench"
      /\ new = "deliberation" => case.phase = "jury_charge"
      /\ new = "verdict_return" => case.phase = "closings" /\ case.mode = "bench"
      /\ new = "post_verdict" => case.phase \in {"deliberation", "verdict_return"}
  BY <1>2, <1>3, NextPhaseIs DEF TrialPhases, TheoryPhases, EvidencePhases
<1>7. AdvanceAllowed(new) =>
        (case.mode = "jury" /\ new = "deliberation" => Has("instructions delivered"))
  BY DEF AdvanceAllowed
<1> HIDE DEF new
<1>8. case' \in CaseType
  BY <1>0, <1>1, <1>4 DEF CaseType
<1>9. /\ case'.docket = case.docket /\ case'.status = case.status /\ case'.mode = case.mode
      /\ case'.files = case.files /\ case'.produced = case.produced
      /\ case'.requested = case.requested /\ case'.answered = case.answered
      /\ case'.passes37 = case.passes37 /\ case'.motions37 = case.motions37
      /\ case'.orders37 = case.orders37 /\ case'.motions56 = case.motions56
      /\ case'.orders56 = case.orders56 /\ case'.closed56 = case.closed56
      /\ case'.exhibits = case.exhibits /\ case'.offered = case.offered
      /\ case'.jury = case.jury /\ case'.phase = new
  BY <1>0, <1>1 DEF CaseType
<1>10. /\ \A t : Has(t) <=> Has(t)'
       /\ \A t, a : HasBy(t, a) <=> HasBy(t, a)'
       /\ BothClosed <=> BothClosed'
  BY <1>9, DocketSame DEF BothClosed
<1>11. ModeKept'
  BY <1>0, <1>1, <1>6, <1>7, <1>9, <1>10 DEF ModeKept
<1>12. StagesRested'
  BY <1>0, <1>2, <1>5, <1>9, <1>10 DEF StagesRested, EvidencePhases
<1> QED BY <1>1, <1>2, <1>8, <1>9, <1>11, <1>12, ParamsFit, TrialKept

-----------------------------------------------------------------------------

LEMMA CaseInvInit == CaseInit => CaseInv
<1> SUFFICES ASSUME CaseInit PROVE CaseInv
  OBVIOUS
<1>1. PICK x \in Setups :
        case = [setup |-> x, status |-> "filed", mode |-> "unset", phase |-> "none",
            docket |-> {}, requested |-> {}, answered |-> {},
            files |-> x.attached, produced |-> {},
            passes37 |-> {}, motions37 |-> <<>>, orders37 |-> 0,
            closed56 |-> {}, motions56 |-> <<>>, orders56 |-> 0,
            exhibits |-> [p \in Sides |-> 0], offered |-> {}, jury |-> "none"]
  BY DEF CaseInit
<1>2. x.attached \in Seq(STRING)
  BY SetupAssumption DEF Setup
<1>3. case \in CaseType
  BY <1>1, <1>2 DEF CaseType, TrialPhases
<1>4. /\ case.status = "filed" /\ case.phase = "none" /\ case.jury = "none"
      /\ case.docket = {} /\ case.motions56 = <<>> /\ case.mode = "unset"
      /\ case.offered = {} /\ case.produced = {} /\ \A p \in Sides : case.exhibits[p] = 0
  BY <1>1
<1>5. PassesOptional
  BY DEF CaseInit, PassesOptional
<1>6. \A t : ~Has(t)
  BY <1>4 DEF Has
<1>7. NotYetTried /\ Answered12 /\ OrderFinal /\ ReadyKept /\ Founded
  BY <1>4, <1>6 DEF NotYetTried, Answered12, OrderFinal, ReadyKept, Founded
<1>8. ModeKept /\ StagesRested
  BY <1>4 DEF ModeKept, StagesRested, AfterEvidence, AfterRebuttal, AfterDefense, AfterPlaintiff
<1>9. ASSUME NEW p \in Sides
      PROVE  case.exhibits[p] <= MaxExhibits /\ Dispositive(p) <= MaxDispositive
  <2>1. {m \in {"rule 12 motion"} : HasBy(m, p)} = {}
    BY <1>4 DEF HasBy
  <2>2. {i \in DOMAIN case.motions56 : case.motions56[i].movant = p} = {}
    BY <1>4
  <2>3. Dispositive(p) = 0 + 0
    BY <2>1, <2>2, FS_EmptySet DEF Dispositive
  <2>4. MaxExhibits \in Nat /\ MaxDispositive \in Nat
    BY LimitAssumption
  <2>5. 0 <= MaxDispositive /\ 0 + 0 = 0
    BY <2>4
  <2> QED BY <1>4, <2>3, <2>4, <2>5
<1>10. WithinLimits
  BY <1>4, <1>9 DEF WithinLimits
<1> QED BY <1>3, <1>5, <1>7, <1>8, <1>10 DEF CaseInv

LEMMA CaseInvNext == CaseInv /\ [CaseNext]_caseVars => CaseInv'
<1> SUFFICES ASSUME CaseInv, [CaseNext]_caseVars PROVE CaseInv'
  OBVIOUS
<1>1. CASE Pleading(Current)
  BY <1>1, FileRule12Kept, OrdinaryPleadings, DecideRule12Kept, FileAmendedComplaintKept,
     ResolveTrialModeKept, DismissKept, TransitionCaseKept DEF Pleading
<1>2. CASE Discovering(Current)
  BY <1>2, OrdinaryPapers, ServeRequestKept, RespondKept, ProduceCaseFileKept,
     ImportCaseFileKept, FileRule37Kept, DecideRule37Kept, FileRule56Kept, Rule56PapersKept,
     EnterPretrialOrderKept DEF Discovering
<1>3. CASE Trying(Current)
  BY <1>3, JuryStepsKept, AdvanceTrialPhaseKept, OrdinaryTrialActs, OfferExhibitKept,
     EnterJudgmentKept DEF Trying
<1>4. CASE Passing(Current)
  BY <1>4, PassRule37Kept, PassRule56Kept, PassKept DEF Passing
<1>5. CASE UNCHANGED caseVars
  <2>1. case' = case /\ passed' = passed
    BY <1>5 DEF caseVars
  <2>2. ReadyForTrial => ReadyForTrial'
    <3>1. ASSUME NEW p \in Sides PROVE Generation(p)' = Generation(p)
      BY <2>1 DEF Generation, Requested, Answered
    <3> QED BY <2>1, <3>1, ReadyFrame
  <2>3. /\ Has("pretrial order")' => Has("pretrial order")
        /\ \A p \in Sides : HasBy("rule 12 motion", p)' <=> HasBy("rule 12 motion", p)
        /\ PassesOptional'
    BY <2>1, DocketSame, ParamsFit DEF PassesOptional
  <2> QED BY <2>1, <2>2, <2>3, ParamsFit, Kept DEF ReadyKept
<1> QED BY <1>1, <1>2, <1>3, <1>4, <1>5 DEF CaseNext

(* The record of the case keeps its shape at every stage: what was ordered *)
(* stays ordered, what a phase of the trial rests on is on the docket, and *)
(* no counter exceeds its limit.                                           *)
THEOREM CaseConsistent == CaseSpec => []CaseInv
<1> QED BY CaseInvInit, CaseInvNext, PTL DEF CaseSpec

(* No case is tried with its pretrial record open, no judgment is entered  *)
(* without its foundation, and neither side ever exceeds its limits        *)
(* (RecordComplete), whatever the cases, files and limits.                 *)
THEOREM RecordsComplete == CaseSpec => []RecordComplete
<1>1. CaseInv => RecordComplete
  BY ParamsFit DEF RecordComplete, ReadyKept, Founded, WithinLimits
<1> QED BY <1>1, CaseConsistent, PTL
================================================================================
