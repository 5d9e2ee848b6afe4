------------------------------ MODULE ArbEngine ------------------------------
(***************************************************************************)
(* The ARB arbitration engine (arb/engine/Main.lean) as operators on its   *)
(* state: which opportunity is open, which actions it authorises, and the  *)
(* state each accepted action leads to.  The engine is a pure program (one *)
(* JSON request in, one JSON response out), so this module has no          *)
(* variables: ArbCase runs it as a state machine and ArbRuntime calls it   *)
(* from the proceeding's Go runtime.                                       *)
(*                                                                         *)
(* Texts, titles, hashes and byte sizes are abstracted: a payload the      *)
(* engine rejects for its form is a payload nobody offers.  Technical      *)
(* reports, counted and limited exactly as exhibits are, are left out.     *)
(***************************************************************************)
EXTENDS Naturals, Sequences, FiniteSets

CONSTANTS
  CouncilSize,          \* policy.council_size: members are 1 .. CouncilSize
  RequiredVotes,        \* policy.required_votes_for_decision
  MaxRounds,            \* policy.max_deliberation_rounds
  MaxEvidencePerSide,   \* policy.max_submitted_evidence_per_side
  MaxExhibitsPerFiling, \* policy.max_exhibits_per_filing
  MaxExhibitsPerSide,   \* policy.max_exhibits_per_side
  Catalog,              \* evidence ids of the evidence_catalog
  NewEvidence,          \* evidence ids the parties may submit
  FailureReasons        \* reasons an opportunity fails for

\* What validatePolicy requires of a policy.
ASSUME PolicyAssumption ==
  /\ CouncilSize \in Nat \ {0}
  /\ RequiredVotes \in 1 .. CouncilSize
  /\ 2 * RequiredVotes > CouncilSize
  /\ MaxRounds \in Nat \ {0}
  /\ MaxEvidencePerSide \in Nat
  /\ MaxExhibitsPerSide \in Nat
  /\ MaxExhibitsPerFiling \in 0 .. MaxExhibitsPerSide

Members      == 1 .. CouncilSize
Parties      == {"plaintiff", "defendant"}
FilingPhases == {"openings", "arguments", "rebuttals", "surrebuttals", "closings"}
Phases       == FilingPhases \cup {"deliberation", "closed"}
Votes        == {"demonstrated", "not_demonstrated"}
EvidenceIds  == Catalog \cup NewEvidence

\* An opportunity; its fields are what the opportunity_id string spells out.
Opportunity ==
  [phase : Phases, role : Parties \cup {"council"}, round : Nat, member : Nat]

NoOpportunity == [phase |-> "none", role |-> "none", round |-> 0, member |-> 0]

Authority == [opp : Opportunity, version : Nat]

\* Evidence a party has put on record, an exhibit a filing offers, a ballot.
SubmittedEvidence ==
  [id : EvidenceIds, parent : SUBSET EvidenceIds, role : Parties, phase : Phases]
OfferedEvidence == [id : EvidenceIds, role : Parties, phase : Phases]
CouncilVote     == [member : Members, round : Nat, vote : Votes]

Statuses    == {"active", "closed", "failed"}
Seats       == {"seated", "failed", "removed"}
Filings     == [FilingPhases -> Seq(Parties)]
Resolutions == Votes \cup {"", "no_majority"}

State ==
  [status     : Statuses,
   phase      : Phases,
   filings    : Filings,
   submitted  : Seq(SubmittedEvidence),
   offered    : Seq(OfferedEvidence),
   council    : [Members -> Seats],
   round      : Nat,
   votes      : Seq(CouncilVote),
   resolution : Resolutions,
   failure    : Opportunity \cup {NoOpportunity},
   version    : Nat]

-----------------------------------------------------------------------------
(* Reading the state.                                                      *)

Terminal(s) == s.status # "active"

Seated(s) == {m \in Members : s.council[m] = "seated"}

\* Positions of the votes cast in round r, and those of one value.
VotesIn(s, r)       == {i \in DOMAIN s.votes : s.votes[i].round = r}
VotesFor(s, r, v)   == {i \in VotesIn(s, r) : s.votes[i].vote = v}
CurrentRoundVotes(s) == VotesIn(s, s.round)
HasVoted(s, m)      == \E i \in CurrentRoundVotes(s) : s.votes[i].member = m

\* Mutant: votes of earlier rounds count towards a decision.
ReachedInAnyRound(s, v) ==
  Cardinality({i \in DOMAIN s.votes : s.votes[i].vote = v}) >= RequiredVotes

Reached(s, v) == Cardinality(VotesFor(s, s.round, v)) >= RequiredVotes

\* Seated members without a vote in the current round, in the council's order.
Pending(s) == {m \in Seated(s) : ~HasVoted(s, m)}
NextMember(s) == CHOOSE m \in Pending(s) : \A n \in Pending(s) : m <= n

PartyOpportunity(p, r) == [phase |-> p, role |-> r, round |-> 0, member |-> 0]

PlaintiffThenDefendant(s, p) ==
  CASE Len(s.filings[p]) = 0 -> PartyOpportunity(p, "plaintiff")
    [] Len(s.filings[p]) = 1 -> PartyOpportunity(p, "defendant")
    [] OTHER                 -> NoOpportunity

NextOpportunityForPhase(s) ==
  CASE s.phase \in {"openings", "arguments", "closings"} ->
         PlaintiffThenDefendant(s, s.phase)
    [] s.phase = "rebuttals" /\ s.filings["rebuttals"] = <<>> ->
         PartyOpportunity("rebuttals", "plaintiff")
    [] s.phase = "surrebuttals" /\ s.filings["surrebuttals"] = <<>> ->
         PartyOpportunity("surrebuttals", "defendant")
    [] s.phase = "deliberation" /\ Pending(s) # {} ->
         [phase |-> "deliberation", role |-> "council",
          round |-> s.round, member |-> NextMember(s)]
    [] OTHER -> NoOpportunity

\* The only opportunity open in s, or NoOpportunity ("terminal").
NextOpportunity(s) == IF Terminal(s) THEN NoOpportunity ELSE NextOpportunityForPhase(s)

CurrentAuthority(s) == [opp |-> NextOpportunity(s), version |-> s.version]

EvidencePhases == {"arguments", "rebuttals", "surrebuttals"}

-----------------------------------------------------------------------------
(* Actions.  An action names the authority it was built for, the actor     *)
(* role, and the part of its payload the properties tell apart.            *)

\* Mutant: the state version of an authority is not compared.
AuthorizedByOpportunity(s, auth) ==
  NextOpportunity(s) # NoOpportunity /\ auth.opp = NextOpportunity(s)

\* requireOpportunityAuthority: the action was built for the opportunity that
\* is open now, in the state version that is current now.
Authorized(s, auth) ==
  /\ NextOpportunity(s) # NoOpportunity
  /\ auth = CurrentAuthority(s)

\* Mutant: a phase that does not exist.
NextPhaseMisspelt == [openings |-> "arguments", arguments |-> "rebuttals",
                      rebuttals |-> "surrebuttals", surrebuttals |-> "closing",
                      closings |-> "deliberation"]

\* addFiling and advanceAfterMerits: the filing that completes a phase opens
\* the next one.
NextPhase == [openings |-> "arguments", arguments |-> "rebuttals",
              rebuttals |-> "surrebuttals", surrebuttals |-> "closings",
              closings |-> "deliberation"]

\* Mutant: every phase is over after one filing.
OneFilingCompletes(p) == 1

FilingsToComplete(p) == IF p \in {"rebuttals", "surrebuttals"} THEN 1 ELSE 2

AddFiling(s, role) ==
  LET filed == [s.filings EXCEPT ![s.phase] = Append(@, role)] IN
  [s EXCEPT !.filings = filed,
            !.phase   = IF Len(filed[s.phase]) >= FilingsToComplete(s.phase)
                        THEN NextPhase[s.phase] ELSE s.phase]

Bump(s) == [s EXCEPT !.version = @ + 1]

CountForRole(items, role) ==
  Cardinality({i \in DOMAIN items : items[i].role = role})

KnownEvidence(s) == Catalog \cup {s.submitted[i].id : i \in DOMAIN s.submitted}

\* record_opening_statement, submit_argument, submit_rebuttal,
\* submit_surrebuttal and deliver_closing_statement: one filing by the party
\* whose turn it is, with the evidence ids it offers as exhibits.
CanFile(s, role, exhibits) ==
  /\ s.phase \in FilingPhases
  /\ role = NextOpportunity(s).role
  /\ s.phase \notin EvidencePhases => exhibits = <<>>
  /\ Len(exhibits) <= MaxExhibitsPerFiling
  /\ CountForRole(s.offered, role) + Len(exhibits) <= MaxExhibitsPerSide
  /\ \A i \in DOMAIN exhibits : exhibits[i] \in KnownEvidence(s)

File(s, role, exhibits) ==
  LET items == [i \in DOMAIN exhibits |->
                  [id |-> exhibits[i], role |-> role, phase |-> s.phase]] IN
  Bump([AddFiling(s, role) EXCEPT !.offered = @ \o items])

\* pass_phase_opportunity: the phase moves on without a filing.
CanPass(s, role) ==
  /\ s.phase \in {"rebuttals", "surrebuttals"}
  /\ s.filings[s.phase] = <<>>
  /\ role = NextOpportunity(s).role

Pass(s) == Bump([s EXCEPT !.phase = NextPhase[s.phase]])

\* Mutant: the parent is not looked up.
CanSubmitOrphan(s, role, id, parent) ==
  /\ s.phase \in EvidencePhases
  /\ role = NextOpportunity(s).role
  /\ id \in EvidenceIds \ KnownEvidence(s)
  /\ Cardinality(parent) <= 1
  /\ CountForRole(s.submitted, role) + 1 <= MaxEvidencePerSide

\* submit_evidence: a new id, with at most one parent that is on record.
CanSubmitEvidence(s, role, id, parent) ==
  /\ s.phase \in EvidencePhases
  /\ role = NextOpportunity(s).role
  /\ id \in EvidenceIds \ KnownEvidence(s)
  /\ Cardinality(parent) <= 1
  /\ parent \subseteq KnownEvidence(s)
  /\ CountForRole(s.submitted, role) + 1 <= MaxEvidencePerSide

SubmitEvidence(s, role, id, parent) ==
  Bump([s EXCEPT !.submitted =
          Append(@, [id |-> id, parent |-> parent, role |-> role, phase |-> s.phase])])

-----------------------------------------------------------------------------
(* Deliberation.                                                           *)

Close(s, resolution) ==
  [s EXCEPT !.status = "closed", !.phase = "closed", !.resolution = resolution]

\* Mutant: members who have left the council are still waited for.
RoundCompleteForAll(s) == Cardinality(CurrentRoundVotes(s)) = CouncilSize

\* Mutant: a round is over as soon as it could decide the case.
RoundCompleteEarly(s) == Cardinality(CurrentRoundVotes(s)) >= RequiredVotes

RoundComplete(s) == Cardinality(CurrentRoundVotes(s)) = Cardinality(Seated(s))

Decided(s) == \E v \in Votes : Reached(s, v)
Winner(s)  == IF Reached(s, "demonstrated") THEN "demonstrated" ELSE "not_demonstrated"

Exhausted(s) == Cardinality(Seated(s)) < RequiredVotes \/ s.round >= MaxRounds

\* continueDeliberation: nothing is decided before every seated member has
\* voted; then a side with enough votes wins, a council too small to decide or
\* out of rounds ends without a majority, and otherwise a new round begins.
ContinueDeliberation(s) ==
  Bump(CASE ~RoundComplete(s)              -> s
         [] RoundComplete(s) /\ Decided(s) -> Close(s, Winner(s))
         [] RoundComplete(s) /\ ~Decided(s) /\ Exhausted(s)  -> Close(s, "no_majority")
         [] RoundComplete(s) /\ ~Decided(s) /\ ~Exhausted(s) -> [s EXCEPT !.round = @ + 1])

\* submit_council_vote by the member whose opportunity it is.
CanVote(s, m) ==
  /\ s.phase = "deliberation"
  /\ m \in Seated(s)
  /\ ~HasVoted(s, m)
  /\ m = NextOpportunity(s).member

Vote(s, m, v) ==
  ContinueDeliberation(
    [s EXCEPT !.votes = Append(@, [member |-> m, round |-> s.round, vote |-> v])])

\* remove_council_member and the council half of fail_opportunity: the member
\* leaves the council and the deliberation goes on without it.
CanUnseat(s, m) == CanVote(s, m)

Unseat(s, m, status) == ContinueDeliberation([s EXCEPT !.council[m] = status])

\* fail_opportunity.  A party that fails its opportunity fails the case.
FailParty(s) ==
  Bump([s EXCEPT !.status = "failed", !.failure = NextOpportunity(s)])

FailOpportunity(s) ==
  IF s.phase = "deliberation" THEN Unseat(s, NextOpportunity(s).member, "failed")
                              ELSE FailParty(s)

-----------------------------------------------------------------------------
(* The actions a court can be sent, and one engine step.                   *)

Action ==
       [type : {"file"}, role : Parties, exhibits : Seq(EvidenceIds)]
  \cup [type : {"pass"}, role : Parties]
  \cup [type : {"evidence"}, role : Parties, id : EvidenceIds, parent : SUBSET EvidenceIds]
  \cup [type : {"vote"}, member : Members, vote : Votes]
  \cup [type : {"remove"}, member : Members]
  \cup [type : {"fail"}, reason : FailureReasons]

\* step accepts the action: the case is live, the authority is current, and
\* the handler's own conditions hold.
Accepts(s, auth, a) ==
  /\ ~Terminal(s)
  /\ Authorized(s, auth)
  /\ CASE a.type = "file"     -> CanFile(s, a.role, a.exhibits)
       [] a.type = "pass"     -> CanPass(s, a.role)
       [] a.type = "evidence" -> CanSubmitEvidence(s, a.role, a.id, a.parent)
       [] a.type = "vote"     -> CanVote(s, a.member)
       [] a.type = "remove"   -> CanUnseat(s, a.member)
       [] a.type = "fail"     -> TRUE

Apply(s, a) ==
  CASE a.type = "file"     -> File(s, a.role, a.exhibits)
    [] a.type = "pass"     -> Pass(s)
    [] a.type = "evidence" -> SubmitEvidence(s, a.role, a.id, a.parent)
    [] a.type = "vote"     -> Vote(s, a.member, a.vote)
    [] a.type = "remove"   -> Unseat(s, a.member, "removed")
    [] a.type = "fail"     -> FailOpportunity(s)

\* initializeCase: stateWithCase has already counted the initialisation.
InitialState ==
  [status |-> "active", phase |-> "openings",
   filings |-> [p \in FilingPhases |-> <<>>],
   submitted |-> <<>>, offered |-> <<>>,
   council |-> [m \in Members |-> "seated"],
   round |-> 1, votes |-> <<>>, resolution |-> "", failure |-> NoOpportunity,
   version |-> 1]
=============================================================================
