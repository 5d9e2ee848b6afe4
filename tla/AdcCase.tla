-------------------------------- MODULE AdcCase --------------------------------
(***************************************************************************)
(* A civil case before the Agent District Court, from the complaint to the *)
(* judgment: adc/engine/ADC/Core.lean as the runner drives it              *)
(* (adc/runtime/runner/autopilot.go).  The engine lists the opportunities  *)
(* of the case; the first one not passed is the current one; its role acts *)
(* with a tool it is offered, which the step may refuse, or passes.  Every *)
(* accepted act forgets the passes, except those written into the case.    *)
(*                                                                         *)
(* Left out are opportunities for tools that no role of a generated case   *)
(* has (adc/runtime/casegen/casegen.go), those of Rule 11, which its roles *)
(* have but which are offered only in a case with auto_rule11, off unless  *)
(* a scenario sets it, and what follows a judgment, which ends the run.    *)
(* Jury selection and deliberation are one step each here; AdcJury has     *)
(* them whole.                                                             *)
(***************************************************************************)
EXTENDS Naturals, Sequences, FiniteSets, SequencesExt

CONSTANTS
  Setups,         \* the cases considered
  Imports,        \* bound: the files the parties may import in all
  MaxExhibits,    \* max_exhibits_per_side
  MaxDispositive  \* max_dispositive_motions_per_side_pretrial

Sides == {"plaintiff", "defendant"}
Opponent(p) == IF p = "plaintiff" THEN "defendant" ELSE "plaintiff"

\* A jury demanded; a complaint the court's jurisdiction screen finds
\* defective; parties that have the instruction tools; files with the
\* complaint; and the bound: the tools used where others or a pass would do.
Setup == [jury : BOOLEAN, defective : BOOLEAN, instructions : BOOLEAN,
          attached : Seq(STRING), moves : SUBSET STRING]
ASSUME SetupAssumption == Setups \subseteq Setup
ASSUME ImportAssumption == Imports \subseteq STRING
ASSUME LimitAssumption == MaxExhibits \in Nat /\ MaxDispositive \in Nat

Discovery == {"interrogatories", "rfp", "rfa"}
ServeTool ==
  [interrogatories |-> "serve_interrogatories", rfp |-> "serve_request_for_production",
   rfa |-> "serve_requests_for_admission"]
RespondTool ==
  [interrogatories |-> "respond_interrogatories", rfp |-> "respond_request_for_production",
   rfa |-> "respond_requests_for_admission"]

PhaseOrder ==
  <<"none", "voir_dire", "openings", "plaintiff_case", "plaintiff_evidence",
    "defense_case", "defense_evidence", "plaintiff_rebuttal", "plaintiff_rebuttal_evidence",
    "defense_surrebuttal", "defense_surrebuttal_evidence", "charge_conference", "closings",
    "jury_charge", "deliberation", "verdict_return", "post_verdict">>

\* Whose case a phase belongs to.
Presenter(phase) ==
  IF phase \in {"plaintiff_case", "plaintiff_evidence", "plaintiff_rebuttal",
                "plaintiff_rebuttal_evidence"}
  THEN "plaintiff" ELSE "defendant"
TheoryPhases   == {"plaintiff_case", "defense_case", "plaintiff_rebuttal", "defense_surrebuttal"}
EvidencePhases == {"plaintiff_evidence", "defense_evidence", "plaintiff_rebuttal_evidence",
                   "defense_surrebuttal_evidence"}

VARIABLES
  case,      \* the case
  passed  \* passed_opportunities: passes that no field of the case records

caseVars == <<case, passed>>

CaseInit ==
  /\ passed = {}
  /\ \E s \in Setups :
       case = [setup |-> s, status |-> "filed", mode |-> "unset", phase |-> "none",
            docket |-> {}, requested |-> {}, answered |-> {},
            files |-> s.attached, produced |-> {},
            passes37 |-> {}, motions37 |-> <<>>, orders37 |-> 0,
            closed56 |-> {}, motions56 |-> <<>>, orders56 |-> 0,
            exhibits |-> [p \in Sides |-> 0], offered |-> {}, jury |-> "none"]

-----------------------------------------------------------------------------
(* What the docket says.  An entry is a title and who or what it is about; *)
(* requests and their answers have their kind in the place of a title.     *)

Has(title)      == \E about \in {e[2] : e \in case.docket} : <<title, about>> \in case.docket
HasBy(title, p) == <<title, p>> \in case.docket

Requested(kind, p) == <<kind, p>> \in case.requested
Answered(kind, p)  == <<kind, p>> \in case.answered

\* discoveryGenerationFor: requests, answers to them, and files produced to p.
Generation(p) ==
  Cardinality({k \in Discovery : Requested(k, p)})
  + Cardinality({k \in Discovery : Answered(k, Opponent(p))})
  + Cardinality({f \in Range(case.files) : <<Opponent(p), f>> \in case.produced})

DiscoveryComplete(p) == \A k \in Discovery : Requested(k, p) /\ Answered(k, Opponent(p))

Pending37 == case.orders37 < Len(case.motions37)
Pending56 == case.orders56 < Len(case.motions56)
Motion56  == case.motions56[case.orders56 + 1]

\* Mutant: a pass on Rule 37 is taken for good.
PassedOnce37(p) == \E x \in case.passes37 : x[1] = p

Passed37(p) == <<p, Generation(p)>> \in case.passes37
Moved37(p)  == [movant |-> p, generation |-> Generation(p)] \in Range(case.motions37)
Moved56(p)  == \E i \in DOMAIN case.motions56 : case.motions56[i].movant = p

Window56(p) ==
  /\ ~Has("pretrial order") /\ ~Pending56 /\ ~Pending37
  /\ ~Moved56(p) /\ p \notin case.closed56
  /\ DiscoveryComplete(p)

Dispositive(p) ==
  Cardinality({m \in {"rule 12 motion"} : HasBy(m, p)})
  + Cardinality({i \in DOMAIN case.motions56 : case.motions56[i].movant = p})

CanOfferMore(p) ==
  /\ case.exhibits[p] < MaxExhibits
  /\ \E f \in Range(case.files) : <<p, f>> \notin case.offered

-----------------------------------------------------------------------------
(* Opportunities, in the order the engine lists them.                      *)

Opportunity(role, tools, mayPass, about) ==
  [role |-> role, tools |-> tools, mayPass |-> mayPass, about |-> about]
May(role, tool)  == <<Opportunity(role, {tool}, TRUE, "case")>>
Must(role, tool) == <<Opportunity(role, {tool}, FALSE, "case")>>
Given(condition, turns) == IF condition THEN turns ELSE <<>>
Each(Turns(_)) == Turns("plaintiff") \o Turns("defendant")

Pleadings ==
     Given(~Has("rule 12 motion") /\ ~Has("answer"), May("defendant", "file_rule12_motion"))
  \o Given(Has("rule 12 motion") /\ ~Has("rule 12 opposition"),
          May("plaintiff", "oppose_rule12_motion"))
  \o Given(Has("rule 12 opposition") /\ ~Has("rule 12 reply"),
          May("defendant", "reply_rule12_motion"))
  \o Given(Has("rule 12 motion") /\ ~Has("rule 12 order"), Must("judge", "decide_rule12_motion"))
  \o Given(~Has("answer"), Must("defendant", "file_answer"))
  \o Given(Has("rule 12 order") /\ ~Has("amended complaint"),
          Must("plaintiff", "file_amended_complaint"))
  \o Given(case.mode = "unset", Must("judge", "resolve_trial_mode"))
FiledTurns == Pleadings \o Must("judge", "transition_case")

Disclosing(p) == Given(~HasBy("disclosures", p), Must(p, "serve_initial_disclosures"))
Reporting(p)  == Given(~HasBy("technical report", p), May(p, "submit_technical_report"))

\* Each party's request of a kind, then each party's answer to the other's.
Asking(kind, p)    == Given(~Requested(kind, p), Must(p, ServeTool[kind]))
Producing(p, f)    == Given(<<p, f>> \notin case.produced,
                           <<Opportunity(p, {"produce_case_file"}, TRUE, f)>>)
Answering(kind, p) ==
  Given(Requested(kind, Opponent(p)),
       Given(kind = "rfp", FlattenSeq([i \in DOMAIN case.files |-> Producing(p, case.files[i])]))
       \o Given(~Answered(kind, p), Must(p, RespondTool[kind])))
DiscoveryTurns(kind) ==
     Asking(kind, "plaintiff") \o Asking(kind, "defendant")
  \o Answering(kind, "plaintiff") \o Answering(kind, "defendant")

Moving37(p) == Given(~Pending37 /\ DiscoveryComplete(p) /\ ~Passed37(p) /\ ~Moved37(p),
                    May(p, "file_rule37_motion"))
Moving56(p) == Given(Window56(p), May(p, "file_rule56_motion"))

\* The papers of the pending Rule 56 motion, one after the other.
Hearing56 ==
  CASE ~Pending56          -> <<>>
    [] OTHER -> CASE ~Motion56.opposed -> Must(Opponent(Motion56.movant), "oppose_rule56_motion")
                  [] Motion56.opposed /\ ~Motion56.replied ->
                       Must(Motion56.movant, "reply_rule56_motion")
                  [] OTHER -> Must("judge", "decide_rule56_motion")

PretrialPapers ==
     Each(Disclosing) \o Each(Reporting)
  \o DiscoveryTurns("interrogatories") \o DiscoveryTurns("rfp") \o DiscoveryTurns("rfa")
  \o Each(Moving37) \o Given(Pending37, Must("judge", "decide_rule37_motion"))
  \o Each(Moving56) \o Hearing56

PretrialTurns ==
     PretrialPapers
  \o Given(~Has("pretrial order"), Must("judge", "enter_pretrial_order"))
  \o Must("judge", "transition_case")

AdvanceTurn == Must("judge", "advance_trial_phase")

Configuring ==
  Given(case.mode = "jury" /\ case.jury = "none", Must("clerk", "set_jury_configuration"))

Opening(p) == Given(~HasBy("opening", p), May(p, "record_opening_statement"))

Presenting ==
  Given(~HasBy("presentation", case.phase), May(Presenter(case.phase), "submit_trial_theory"))
  \o AdvanceTurn

\* One exhibit at a time until the party rests.
Evidence ==
  LET p == Presenter(case.phase) IN
  IF HasBy("rested", case.phase) THEN AdvanceTurn
  ELSE <<Opportunity(p, {"rest_case"} \cup (IF CanOfferMore(p) THEN {"offer_exhibit"} ELSE {}),
              FALSE, "case")>>

Proposing(p) == Given(case.setup.instructions /\ ~HasBy("instruction", p),
                     May(p, "propose_jury_instruction"))
Objecting(p) == Given(case.setup.instructions /\ HasBy("instruction", Opponent(p))
                       /\ ~HasBy("objection", p),
                     May(p, "object_jury_instruction"))

ChargeConference ==
  Each(Proposing) \o Each(Objecting)
  \o Given(\A p \in Sides : HasBy("instruction", p), AdvanceTurn)

BothClosed == \A p \in Sides : HasBy("closing", p)

\* Plaintiff, defendant, and the plaintiff's rebuttal.
Closings ==
  LET p == HasBy("closing", "plaintiff")  d == HasBy("closing", "defendant") IN
     Given(~p, May("plaintiff", "deliver_closing_argument"))
  \o Given(p /\ ~d, May("defendant", "deliver_closing_argument"))
  \o Given(BothClosed /\ ~Has("closing rebuttal"), May("plaintiff", "deliver_closing_argument"))
  \o Given(BothClosed, AdvanceTurn)

JuryCharge ==
     Given(~Has("instructions settled"), Must("judge", "settle_jury_instructions"))
  \o Given(Has("instructions settled") /\ ~Has("instructions delivered"),
          Must("judge", "deliver_jury_instructions"))
  \o Given(Has("instructions delivered"), AdvanceTurn)

JuryDone == case.jury \in {"verdict", "hung"}

PostVerdict ==
  CASE case.jury = "hung" -> Must("judge", "transition_case")
    [] case.jury # "hung" /\ (case.jury = "verdict" \/ Has("bench opinion")) ->
         Must("judge", "enter_judgment")
    [] OTHER -> <<>>

TrialTurns ==
  Configuring \o
  CASE case.phase = "none" ->
         Given(case.mode = "jury" /\ case.jury # "panel", Must("clerk", "add_juror"))
         \o AdvanceTurn
    [] case.phase = "voir_dire" ->
         IF case.jury = "sworn" THEN AdvanceTurn ELSE Must("judge", "empanel_jury")
    [] case.phase = "openings"          -> Each(Opening) \o AdvanceTurn
    [] case.phase \in TheoryPhases      -> Presenting
    [] case.phase \in EvidencePhases    -> Evidence
    [] case.phase = "charge_conference" -> ChargeConference
    [] case.phase = "closings"          -> Closings
    [] case.phase = "jury_charge"       -> JuryCharge
    [] case.phase = "deliberation"      ->
         Given(~JuryDone, Must("juror", "submit_juror_vote")) \o Given(JuryDone, AdvanceTurn)
    [] case.phase = "verdict_return"    ->
         Given(~Has("bench opinion"), Must("judge", "file_bench_opinion"))
         \o Given(Has("bench opinion"), AdvanceTurn)
    [] case.phase = "post_verdict"      -> PostVerdict

Screening == Opportunity("judge", {"dismiss_for_lack_of_subject_matter_jurisdiction"}, TRUE, "case")

Turns ==
  CASE case.status = "filed"    -> FiledTurns
    [] case.status = "pretrial" -> PretrialTurns
    [] case.status = "trial"    -> TrialTurns
    [] OTHER                 -> <<>>

Over == case.status \in {"judgment_entered", "closed"}
NoOpportunity == Opportunity("none", {}, FALSE, "case")

FirstOpen(turns) ==
  LET open == {i \in DOMAIN turns : turns[i] \notin passed}
  IN IF open = {} THEN NoOpportunity ELSE turns[Min(open)]

\* nextOpportunity: the screen has the lowest priority value, and among the
\* others, all equal, the list decides.
Current == FirstOpen(Given(case.setup.defective /\ ~Over, <<Screening>>) \o Turns)

-----------------------------------------------------------------------------
(* Decisions.  An accepted act forgets the passes; o is the open turn.     *)

Takes(o, tool) == tool \in o.tools /\ (o.mayPass => tool \in case.setup.moves)
Update(d)      == case' = d /\ passed' = {}
Docketed(title, about) == case.docket \cup {<<title, about>>}
Enter(title, about) == Update([case EXCEPT !.docket = Docketed(title, about)])

FileRule12(o) ==
  /\ Takes(o, "file_rule12_motion") /\ ~Has("answer") /\ ~Has("rule 12 order")
  /\ Dispositive(o.role) < MaxDispositive
  /\ Enter("rule 12 motion", o.role)

\* Both are still offered after the order, when the step refuses them.
OpposeRule12(o) ==
  Takes(o, "oppose_rule12_motion") /\ ~Has("rule 12 order") /\ Enter("rule 12 opposition", o.role)
ReplyRule12(o) ==
  Takes(o, "reply_rule12_motion") /\ ~Has("rule 12 order") /\ Enter("rule 12 reply", o.role)

DecideRule12(o) ==
  /\ Takes(o, "decide_rule12_motion")
  /\ \E status \in {case.status, "closed"} :
       Update([case EXCEPT !.docket = Docketed("rule 12 order", "court"), !.status = status])

FileAnswer(o) == Takes(o, "file_answer") /\ Enter("answer", o.role)

FileAmendedComplaint(o) ==
  /\ Takes(o, "file_amended_complaint")
  /\ Update([case EXCEPT !.docket = Docketed("amended complaint", o.role), !.closed56 = {}])

ResolveTrialMode(o) ==
  /\ Takes(o, "resolve_trial_mode")
  /\ Update([case EXCEPT !.mode = IF case.setup.jury THEN "jury" ELSE "bench"])

TransitionCase(o) ==
  /\ Takes(o, "transition_case")
  /\ Update([case EXCEPT !.status = CASE @ = "filed"    -> "pretrial"
                                   [] @ = "pretrial" -> "trial"
                                   [] @ = "trial"    -> "closed"])

Dismiss(o) ==
  /\ Takes(o, "dismiss_for_lack_of_subject_matter_jurisdiction") /\ ~Over
  /\ Update([case EXCEPT !.status = "closed"])

ServeDisclosures(o) == Takes(o, "serve_initial_disclosures") /\ Enter("disclosures", o.role)
SubmitReport(o) == Takes(o, "submit_technical_report") /\ Enter("technical report", o.role)

ServeRequest(o) ==
  \E kind \in Discovery :
    /\ Takes(o, ServeTool[kind])
    /\ Update([case EXCEPT !.requested = @ \cup {<<kind, o.role>>}])
Respond(o) ==
  \E kind \in Discovery :
    /\ Takes(o, RespondTool[kind])
    /\ Update([case EXCEPT !.answered = @ \cup {<<kind, o.role>>}])

ProduceCaseFile(o) ==
  /\ Takes(o, "produce_case_file")
  /\ Update([case EXCEPT !.produced = @ \cup {<<o.role, o.about>>}])

\* Offered with every turn of a party.
ImportCaseFile(o) ==
  /\ o.role \in Sides /\ "import_case_file" \in case.setup.moves
  /\ \E f \in Imports \ Range(case.files) : Update([case EXCEPT !.files = Append(@, f)])

FileRule37(o) ==
  /\ Takes(o, "file_rule37_motion") /\ ~Pending37 /\ ~Moved37(o.role)
  /\ Update([case EXCEPT !.motions37 =
                Append(@, [movant |-> o.role, generation |-> Generation(o.role)])])
DecideRule37(o) ==
  Takes(o, "decide_rule37_motion") /\ Update([case EXCEPT !.orders37 = @ + 1])

FileRule56(o) ==
  /\ Takes(o, "file_rule56_motion")
  /\ ~Pending56 /\ ~Moved56(o.role) /\ o.role \notin case.closed56
  /\ Dispositive(o.role) < MaxDispositive
  /\ Update([case EXCEPT !.motions56 =
                Append(@, [movant |-> o.role, opposed |-> FALSE, replied |-> FALSE])])
OpposeRule56(o) ==
  /\ Takes(o, "oppose_rule56_motion")
  /\ Update([case EXCEPT !.motions56[case.orders56 + 1].opposed = TRUE])
ReplyRule56(o) ==
  /\ Takes(o, "reply_rule56_motion")
  /\ Update([case EXCEPT !.motions56[case.orders56 + 1].replied = TRUE])
\* Granted, denied or partial: the case goes on all the same.
DecideRule56(o) ==
  Takes(o, "decide_rule56_motion") /\ Update([case EXCEPT !.orders56 = @ + 1])

EnterPretrialOrder(o) == Takes(o, "enter_pretrial_order") /\ Enter("pretrial order", "court")

ConfigureJury(o) ==
  /\ Takes(o, "set_jury_configuration") /\ case.jury = "none"
  /\ Update([case EXCEPT !.jury = "configured"])
AddJurors(o) == Takes(o, "add_juror") /\ Update([case EXCEPT !.jury = "panel"])
EmpanelJury(o) ==
  Takes(o, "empanel_jury") /\ case.jury = "panel" /\ Update([case EXCEPT !.jury = "sworn"])

NextPhase ==
  LET following == PhaseOrder[1 + CHOOSE i \in DOMAIN PhaseOrder : PhaseOrder[i] = case.phase]
  IN CASE case.phase = "none" /\ case.mode = "bench"     -> "openings"
       [] case.phase = "closings" /\ case.mode = "bench" -> "verdict_return"
       [] case.phase = "deliberation"                 -> "post_verdict"
       [] OTHER                                    -> following

\* validateAdvanceTrialPhase.
AdvanceAllowed(phase) ==
  IF case.mode = "jury"
  THEN /\ phase = "voir_dire"    => case.jury = "panel"
       /\ phase = "openings"     => case.jury = "sworn"
       /\ phase = "deliberation" => Has("instructions delivered")
       /\ phase = "post_verdict" => JuryDone
  ELSE phase = "post_verdict" => Has("bench opinion")

AdvanceTrialPhase(o) ==
  /\ Takes(o, "advance_trial_phase") /\ AdvanceAllowed(NextPhase)
  /\ Update([case EXCEPT !.phase = NextPhase])

RecordOpening(o) == Takes(o, "record_opening_statement") /\ Enter("opening", o.role)
SubmitTheory(o)  == Takes(o, "submit_trial_theory") /\ Enter("presentation", case.phase)

\* With a case file or without one.
OfferExhibit(o) ==
  /\ Takes(o, "offer_exhibit") /\ "offer_exhibit" \in case.setup.moves
  /\ case.exhibits[o.role] < MaxExhibits
  /\ \E file \in SUBSET {<<o.role, f>> : f \in Range(case.files)} :
       /\ Cardinality(file) <= 1
       /\ Update([case EXCEPT !.exhibits[o.role] = @ + 1, !.offered = @ \cup file])
RestCase(o) == Takes(o, "rest_case") /\ Enter("rested", case.phase)

ProposeInstruction(o) == Takes(o, "propose_jury_instruction") /\ Enter("instruction", o.role)
ObjectToInstruction(o) == Takes(o, "object_jury_instruction") /\ Enter("objection", o.role)
SettleInstructions(o) ==
  /\ Takes(o, "settle_jury_instructions") /\ Has("instruction")
  /\ Enter("instructions settled", "court")
DeliverInstructions(o) ==
  /\ Takes(o, "deliver_jury_instructions") /\ Has("instructions settled")
  /\ Enter("instructions delivered", "court")

DeliverClosing(o) ==
  /\ Takes(o, "deliver_closing_argument")
  /\ IF BothClosed THEN Enter("closing rebuttal", o.role) ELSE Enter("closing", o.role)

\* The vote that decides, or that leaves the jury hung.
SubmitJurorVote(o) ==
  /\ Takes(o, "submit_juror_vote")
  /\ \E outcome \in {"verdict", "hung"} : Update([case EXCEPT !.jury = outcome])

FileBenchOpinion(o) == Takes(o, "file_bench_opinion") /\ Enter("bench opinion", "court")

EnterJudgment(o) ==
  /\ Takes(o, "enter_judgment")
  /\ IF case.mode = "bench" THEN Has("bench opinion") ELSE case.jury = "verdict"
  /\ Update([case EXCEPT !.status = "judgment_entered"])

\* Mutant: the pass on Rule 37 is not written into the case.
PassRule37Lost(o) == "file_rule37_motion" \in o.tools /\ Update(case)

\* Passes with an effect of their own are acts on the case.
PassRule37(o) ==
  /\ "file_rule37_motion" \in o.tools
  /\ Update([case EXCEPT !.passes37 = @ \cup {<<o.role, Generation(o.role)>>}])
PassRule56(o) ==
  /\ "file_rule56_motion" \in o.tools
  /\ Update([case EXCEPT !.closed56 = @ \cup {o.role}])
Pass(o) ==
  /\ o.mayPass /\ o.tools \cap {"file_rule37_motion", "file_rule56_motion"} = {}
  /\ passed' = passed \cup {o}
  /\ UNCHANGED case

Pleading(o) ==
  \/ FileRule12(o) \/ OpposeRule12(o) \/ ReplyRule12(o) \/ DecideRule12(o)
  \/ FileAnswer(o) \/ FileAmendedComplaint(o) \/ ResolveTrialMode(o) \/ Dismiss(o)
  \/ TransitionCase(o)
Discovering(o) ==
  \/ ServeDisclosures(o) \/ SubmitReport(o) \/ ServeRequest(o) \/ Respond(o)
  \/ ProduceCaseFile(o) \/ ImportCaseFile(o) \/ FileRule37(o) \/ DecideRule37(o)
  \/ FileRule56(o) \/ OpposeRule56(o) \/ ReplyRule56(o) \/ DecideRule56(o)
  \/ EnterPretrialOrder(o)
Trying(o) ==
  \/ ConfigureJury(o) \/ AddJurors(o) \/ EmpanelJury(o) \/ AdvanceTrialPhase(o)
  \/ RecordOpening(o) \/ SubmitTheory(o) \/ OfferExhibit(o) \/ RestCase(o)
  \/ ProposeInstruction(o) \/ ObjectToInstruction(o)
  \/ SettleInstructions(o) \/ DeliverInstructions(o) \/ DeliverClosing(o)
  \/ SubmitJurorVote(o) \/ FileBenchOpinion(o) \/ EnterJudgment(o)
Passing(o) == PassRule37(o) \/ PassRule56(o) \/ Pass(o)

CaseNext == \E o \in {Current} : Pleading(o) \/ Discovering(o) \/ Trying(o) \/ Passing(o)

CaseSpec == CaseInit /\ [][CaseNext]_caseVars

\* Whoever has the turn in the end acts or passes.  The role API waits for
\* the parties without a deadline, so this is asked of them, not given.
CaseFairSpec == CaseSpec /\ WF_caseVars(CaseNext)

-----------------------------------------------------------------------------
(* Where the engine has no turn left to offer although the case is open:   *)
(* a party passed its proposed instruction, or cannot propose one, or its  *)
(* closing.                                                                *)
Stranded ==
  /\ case.status = "trial" /\ Current = NoOpportunity
  /\ \/ case.phase = "charge_conference" /\ \E p \in Sides : ~HasBy("instruction", p)
     \/ case.phase = "closings" /\ ~BothClosed

(* Passes forgotten at every accepted act, motions reopened by discovery,  *)
(* papers and phases cannot keep a case going for ever: it is decided,     *)
(* dismissed or closed, or stops at one of the two places above            *)
(* (availableOpportunities, recordOpportunityPassFor), provided its files  *)
(* are imported only Imports times; the code leaves that to MaxTurns.      *)
CaseEnds == <>(Over \/ Stranded)

(* No case is tried with its pretrial record open: the answer and both     *)
(* sides' disclosures and discovery are in, nothing is pending, and either *)
(* side moved or passed under Rule 56, and under Rule 37 on the discovery  *)
(* record as it finally stood.                                             *)
ReadyForTrial ==
  /\ Has("answer") /\ Has("pretrial order") /\ case.mode # "unset"
  /\ ~Pending37 /\ ~Pending56
  /\ \A p \in Sides :
       /\ HasBy("disclosures", p) /\ DiscoveryComplete(p)
       /\ Moved56(p) \/ p \in case.closed56
       /\ Moved37(p) \/ <<p, Generation(p)>> \in case.passes37

(* A judgment rests on a verdict under delivered instructions, or on the   *)
(* court's opinion, after both sides rested at every stage and closed.     *)
JudgmentFounded ==
  /\ IF case.mode = "jury" THEN case.jury = "verdict" /\ Has("instructions delivered")
     ELSE case.jury = "none" /\ Has("bench opinion")
  /\ BothClosed /\ \A phase \in EvidencePhases : HasBy("rested", phase)

(* The two together, and no side over its limits on exhibits or            *)
(* dispositive motions, or with an exhibit that is not a case file         *)
(* (pretrialCandidates, trialCandidates, and the guards of step).          *)
RecordComplete ==
  /\ case.status \in {"trial", "judgment_entered"} => ReadyForTrial
  /\ case.status = "judgment_entered" => JudgmentFounded
  /\ \A p \in Sides : case.exhibits[p] <= MaxExhibits /\ Dispositive(p) <= MaxDispositive
  /\ \A x \in case.offered : x[2] \in Range(case.files)

(* A bench case is decided or dismissed before the engine runs out of      *)
(* turns: the generated scenario asserts it of every bench case            *)
(* (adc/runtime/casegen/casegen.go:423).                                   *)
BenchCasesAreDecided == (case.mode = "bench" /\ Current = NoOpportunity) => Over
=============================================================================
