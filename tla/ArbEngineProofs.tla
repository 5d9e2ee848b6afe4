----------------------------- MODULE ArbEngineProofs -----------------------------
(***************************************************************************)
(* Lemmas about the engine of ArbEngine for every policy: what an          *)
(* opportunity is, and that every accepted action leads from a state to a  *)
(* state one version on.  ArbCaseProofs and ArbRuntimeProofs rest on them. *)
(***************************************************************************)
EXTENDS ArbEngine, FiniteSetTheorems, WellFoundedInduction, TLAPS

-----------------------------------------------------------------------------
(* Types of what the engine reads from a state.                            *)

LEMMA MembersFacts ==
  /\ Members \subseteq Nat
  /\ IsFiniteSet(Members)
  /\ Cardinality(Members) = CouncilSize
  /\ CouncilSize \in Nat /\ RequiredVotes \in Nat /\ RequiredVotes >= 1
BY PolicyAssumption, FS_Interval DEF Members

LEMMA LeastNatural ==
  ASSUME NEW S \in SUBSET Nat, S # {}
  PROVE  \E x \in S : \A y \in S : x <= y
<1>1. PICK x \in S : \A y \in S : ~ (<<y, x>> \in OpToRel(<, Nat))
  BY NatLessThanWellFounded, WFMin
<1>2. \A y \in S : ~ (y < x)
  BY <1>1 DEF OpToRel
<1> QED BY <1>2

LEMMA NextMemberType ==
  ASSUME NEW s, Pending(s) # {}
  PROVE  NextMember(s) \in Pending(s) /\ NextMember(s) \in Members
<1>1. Pending(s) \subseteq Members /\ Pending(s) \subseteq Nat
  BY MembersFacts DEF Pending, Seated
<1>2. \E m \in Pending(s) : \A n \in Pending(s) : m <= n
  BY <1>1, LeastNatural
<1> QED BY <1>1, <1>2 DEF NextMember

LEMMA NextOpportunityType ==
  ASSUME NEW s \in State
  PROVE  NextOpportunity(s) \in Opportunity \cup {NoOpportunity}
<1>1. \A p \in Phases, r \in Parties : PartyOpportunity(p, r) \in Opportunity
  BY DEF PartyOpportunity, Opportunity
<1>2. PlaintiffThenDefendant(s, s.phase) \in Opportunity \cup {NoOpportunity}
  BY <1>1 DEF PlaintiffThenDefendant, State, Parties
<1>3. ASSUME Pending(s) # {}
      PROVE  [phase |-> "deliberation", role |-> "council", round |-> s.round,
              member |-> NextMember(s)] \in Opportunity
  BY <1>3, NextMemberType, MembersFacts DEF Opportunity, Phases, State
<1> QED
  BY <1>1, <1>2, <1>3
  DEF NextOpportunity, NextOpportunityForPhase, Phases, FilingPhases, Parties

-----------------------------------------------------------------------------
(* Every accepted action leads to a state, one version on.                 *)

LEMMA NextPhaseType ==
  \A p \in FilingPhases : NextPhase[p] \in Phases
BY DEF NextPhase, FilingPhases, Phases

LEMMA BumpType ==
  ASSUME NEW s \in State
  PROVE  Bump(s) \in State /\ Bump(s).version = s.version + 1
<1>1. \A n \in Nat : [s EXCEPT !.version = n] \in State /\ [s EXCEPT !.version = n].version = n
  BY DEF State
<1>2. s.version + 1 \in Nat
  BY DEF State
<1> QED BY <1>1, <1>2 DEF Bump

LEMMA AddFilingType ==
  ASSUME NEW s \in State, s.phase \in FilingPhases, NEW role \in Parties
  PROVE  /\ AddFiling(s, role) \in State
         /\ AddFiling(s, role).version = s.version
<1> DEFINE filed == [s.filings EXCEPT ![s.phase] = Append(@, role)]
           phase == IF Len(filed[s.phase]) >= FilingsToComplete(s.phase)
                    THEN NextPhase[s.phase] ELSE s.phase
<1>1. filed \in Filings
  BY DEF State, Filings
<1>2. phase \in Phases
  BY NextPhaseType DEF State
<1>3. AddFiling(s, role) = [s EXCEPT !.filings = filed, !.phase = phase]
  BY DEF AddFiling
<1> HIDE DEF filed, phase
<1> QED BY <1>1, <1>2, <1>3 DEF State

LEMMA FileType ==
  ASSUME NEW s \in State, NEW role \in Parties, NEW exhibits \in Seq(EvidenceIds),
         CanFile(s, role, exhibits)
  PROVE  File(s, role, exhibits) \in State /\ File(s, role, exhibits).version = s.version + 1
<1> DEFINE items == [i \in DOMAIN exhibits |->
                       [id |-> exhibits[i], role |-> role, phase |-> s.phase]]
           filed == AddFiling(s, role)
           listed == [filed EXCEPT !.offered = @ \o items]
<1>1. filed \in State /\ filed.version = s.version
  BY AddFilingType DEF CanFile
<1>2. items \in Seq(OfferedEvidence)
  <2>1. \A i \in 1 .. Len(exhibits) :
          [id |-> exhibits[i], role |-> role, phase |-> s.phase] \in OfferedEvidence
    BY DEF State, OfferedEvidence
  <2>2. items \in [1 .. Len(exhibits) -> OfferedEvidence] /\ Len(exhibits) \in Nat
    BY <2>1
  <2> QED BY <2>2
<1>3. filed.offered \o items \in Seq(OfferedEvidence)
  BY <1>1, <1>2 DEF State
<1>4. File(s, role, exhibits) = Bump(listed)
  BY DEF File
<1> HIDE DEF items, filed
<1>5. listed \in State /\ listed.version = s.version
  BY <1>1, <1>3 DEF State
<1> HIDE DEF listed
<1> QED BY <1>4, <1>5, BumpType

LEMMA PassType ==
  ASSUME NEW s \in State, NEW role, CanPass(s, role)
  PROVE  Pass(s) \in State /\ Pass(s).version = s.version + 1
<1>1. NextPhase[s.phase] \in Phases
  BY NextPhaseType DEF CanPass, FilingPhases
<1>2. LET r == [s EXCEPT !.phase = NextPhase[s.phase]] IN
      r \in State /\ r.version = s.version
  BY <1>1 DEF State
<1> QED BY <1>2, BumpType DEF Pass

LEMMA SubmitEvidenceType ==
  ASSUME NEW s \in State, NEW role \in Parties, NEW id \in EvidenceIds,
         NEW parent \in SUBSET EvidenceIds
  PROVE  /\ SubmitEvidence(s, role, id, parent) \in State
         /\ SubmitEvidence(s, role, id, parent).version = s.version + 1
<1> DEFINE item == [id |-> id, parent |-> parent, role |-> role, phase |-> s.phase]
           r    == [s EXCEPT !.submitted = Append(@, item)]
<1>1. item \in SubmittedEvidence
  BY DEF SubmittedEvidence, State
<1> HIDE DEF item
<1>2. r \in State /\ r.version = s.version
  <2>1. \A q \in Seq(SubmittedEvidence) :
          /\ [s EXCEPT !.submitted = q] \in State
          /\ [s EXCEPT !.submitted = q].version = s.version
    BY DEF State
  <2>2. Append(s.submitted, item) \in Seq(SubmittedEvidence)
    BY <1>1 DEF State
  <2> QED BY <2>1, <2>2
<1>3. SubmitEvidence(s, role, id, parent) = Bump(r)
  BY DEF SubmitEvidence, item
<1> QED BY <1>2, <1>3, BumpType

LEMMA ContinueDeliberationType ==
  ASSUME NEW s \in State
  PROVE  /\ ContinueDeliberation(s) \in State
         /\ ContinueDeliberation(s).version = s.version + 1
<1>1. \A v \in Votes \cup {"no_majority"} :
        Close(s, v) \in State /\ Close(s, v).version = s.version
  BY DEF Close, State, Phases, Statuses, Resolutions
<1>2. /\ [s EXCEPT !.round = @ + 1] \in State
      /\ [s EXCEPT !.round = @ + 1].version = s.version
  <2>1. \A n \in Nat : /\ [s EXCEPT !.round = n] \in State
                       /\ [s EXCEPT !.round = n].version = s.version
    BY DEF State
  <2>2. s.round + 1 \in Nat
    BY DEF State
  <2> QED BY <2>1, <2>2
<1>3. Winner(s) \in Votes
  BY DEF Winner, Votes
<1>4. CASE ~RoundComplete(s)
  <2>1. ContinueDeliberation(s) = Bump(s)
    BY <1>4 DEF ContinueDeliberation
  <2> QED BY <2>1, BumpType
<1>5. CASE RoundComplete(s) /\ Decided(s)
  <2>1. ContinueDeliberation(s) = Bump(Close(s, Winner(s)))
    BY <1>5 DEF ContinueDeliberation
  <2> QED BY <2>1, <1>1, <1>3, BumpType
<1>6. CASE RoundComplete(s) /\ ~Decided(s) /\ Exhausted(s)
  <2>1. ContinueDeliberation(s) = Bump(Close(s, "no_majority"))
    BY <1>6 DEF ContinueDeliberation
  <2> QED BY <2>1, <1>1, BumpType
<1>7. CASE RoundComplete(s) /\ ~Decided(s) /\ ~Exhausted(s)
  <2>1. ContinueDeliberation(s) = Bump([s EXCEPT !.round = @ + 1])
    BY <1>7 DEF ContinueDeliberation
  <2> QED BY <2>1, <1>2, BumpType
<1> QED BY <1>4, <1>5, <1>6, <1>7

\* The record once a member has voted, and once it has left, before the
\* deliberation goes on.
Cast(s, m, v) ==
  [s EXCEPT !.votes = Append(@, [member |-> m, round |-> s.round, vote |-> v])]

Leave(s, m, status) == [s EXCEPT !.council[m] = status]

LEMMA CastFacts ==
  ASSUME NEW s \in State, NEW m \in Members, NEW v \in Votes
  PROVE  LET r == Cast(s, m, v)
             ballot == [member |-> m, round |-> s.round, vote |-> v]
         IN  /\ r \in State /\ r.version = s.version
             /\ r.filings = s.filings /\ r.phase = s.phase /\ r.status = s.status
             /\ r.round = s.round /\ r.council = s.council
             /\ r.votes = Append(s.votes, ballot) /\ ballot \in CouncilVote
             /\ Vote(s, m, v) = ContinueDeliberation(r)
<1> DEFINE ballot == [member |-> m, round |-> s.round, vote |-> v]
<1>1. ballot \in CouncilVote
  BY DEF CouncilVote, State
<1>2. Cast(s, m, v) = [s EXCEPT !.votes = Append(@, ballot)]
  BY DEF Cast
<1>3. Vote(s, m, v) = ContinueDeliberation(Cast(s, m, v))
  BY DEF Vote, Cast
<1> HIDE DEF ballot
<1>4. \A q \in Seq(CouncilVote) :
        LET r == [s EXCEPT !.votes = q] IN
        /\ r \in State /\ r.version = s.version
        /\ r.filings = s.filings /\ r.phase = s.phase /\ r.status = s.status
        /\ r.round = s.round /\ r.council = s.council /\ r.votes = q
  BY DEF State
<1>5. Append(s.votes, ballot) \in Seq(CouncilVote)
  BY <1>1 DEF State
<1>6. Cast(s, m, v) = [s EXCEPT !.votes = Append(s.votes, ballot)]
  BY <1>2
<1>7. LET r == [s EXCEPT !.votes = Append(s.votes, ballot)] IN
        /\ r \in State /\ r.version = s.version
        /\ r.filings = s.filings /\ r.phase = s.phase /\ r.status = s.status
        /\ r.round = s.round /\ r.council = s.council
        /\ r.votes = Append(s.votes, ballot)
  BY <1>4, <1>5, Zenon
<1> QED BY <1>1, <1>3, <1>6, <1>7, Zenon DEF ballot

LEMMA VoteType ==
  ASSUME NEW s \in State, NEW m \in Members, NEW v \in Votes
  PROVE  Vote(s, m, v) \in State /\ Vote(s, m, v).version = s.version + 1
<1> DEFINE r == Cast(s, m, v)
<1>1. r \in State /\ r.version = s.version /\ Vote(s, m, v) = ContinueDeliberation(r)
  BY CastFacts
<1> HIDE DEF r
<1> QED BY <1>1, ContinueDeliberationType

LEMMA LeaveFacts ==
  ASSUME NEW s \in State, NEW m \in Members, NEW status \in Seats
  PROVE  LET r == Leave(s, m, status) IN
         /\ r \in State /\ r.version = s.version
         /\ r.filings = s.filings /\ r.phase = s.phase /\ r.status = s.status
         /\ r.round = s.round /\ r.votes = s.votes
         /\ r.council = [s.council EXCEPT ![m] = status]
         /\ Unseat(s, m, status) = ContinueDeliberation(r)
<1>1. Leave(s, m, status) = [s EXCEPT !.council = [s.council EXCEPT ![m] = status]]
  BY DEF Leave
<1>2. Unseat(s, m, status) = ContinueDeliberation(Leave(s, m, status))
  BY DEF Unseat, Leave
<1>3. [s.council EXCEPT ![m] = status] \in [Members -> Seats]
  BY DEF State
<1>4. \A c \in [Members -> Seats] :
        LET r == [s EXCEPT !.council = c] IN
        /\ r \in State /\ r.version = s.version
        /\ r.filings = s.filings /\ r.phase = s.phase /\ r.status = s.status
        /\ r.round = s.round /\ r.votes = s.votes /\ r.council = c
  BY DEF State
<1>5. LET r == [s EXCEPT !.council = [s.council EXCEPT ![m] = status]] IN
        /\ r \in State /\ r.version = s.version
        /\ r.filings = s.filings /\ r.phase = s.phase /\ r.status = s.status
        /\ r.round = s.round /\ r.votes = s.votes
        /\ r.council = [s.council EXCEPT ![m] = status]
  BY <1>3, <1>4, Zenon
<1> QED BY <1>1, <1>2, <1>5, Zenon

LEMMA UnseatType ==
  ASSUME NEW s \in State, NEW m \in Members, NEW status \in Seats
  PROVE  Unseat(s, m, status) \in State /\ Unseat(s, m, status).version = s.version + 1
<1> DEFINE r == Leave(s, m, status)
<1>1. r \in State /\ r.version = s.version /\ Unseat(s, m, status) = ContinueDeliberation(r)
  BY LeaveFacts
<1> HIDE DEF r
<1> QED BY <1>1, ContinueDeliberationType

\* In deliberation the open opportunity is that of the first pending member.
LEMMA CouncilOpportunity ==
  ASSUME NEW s \in State, s.phase = "deliberation", NextOpportunity(s) # NoOpportunity
  PROVE  /\ ~Terminal(s) /\ Pending(s) # {}
         /\ NextOpportunity(s).member = NextMember(s)
         /\ NextOpportunity(s).member \in Pending(s)
         /\ NextOpportunity(s).member \in Members
<1>1. ~Terminal(s) /\ Pending(s) # {}
  BY DEF NextOpportunity, NextOpportunityForPhase
<1>2. NextOpportunity(s) = [phase |-> "deliberation", role |-> "council",
                            round |-> s.round, member |-> NextMember(s)]
  BY <1>1 DEF NextOpportunity, NextOpportunityForPhase
<1> QED BY <1>1, <1>2, NextMemberType

LEMMA FailOpportunityType ==
  ASSUME NEW s \in State, NextOpportunity(s) # NoOpportunity
  PROVE  /\ FailOpportunity(s) \in State
         /\ FailOpportunity(s).version = s.version + 1
<1>1. CASE s.phase = "deliberation"
  BY <1>1, CouncilOpportunity, UnseatType DEF FailOpportunity, Seats
<1>2. CASE s.phase # "deliberation"
  <2> DEFINE r == [s EXCEPT !.status = "failed", !.failure = NextOpportunity(s)]
  <2>1. r \in State /\ r.version = s.version
    BY NextOpportunityType DEF State, Statuses
  <2>2. FailOpportunity(s) = Bump(r)
    BY <1>2 DEF FailOpportunity, FailParty
  <2> HIDE DEF r
  <2> QED BY <2>1, <2>2, BumpType
<1> QED BY <1>1, <1>2

LEMMA ApplyType ==
  ASSUME NEW s \in State, NEW auth, NEW a \in Action, Accepts(s, auth, a)
  PROVE  Apply(s, a) \in State /\ Apply(s, a).version = s.version + 1
<1>0. a.type \in {"file", "pass", "evidence", "vote", "remove", "fail"}
  BY DEF Action
<1>1. CASE a.type = "file"
  <2>1. a.role \in Parties /\ a.exhibits \in Seq(EvidenceIds)
    BY <1>1 DEF Action
  <2>2. CanFile(s, a.role, a.exhibits) /\ Apply(s, a) = File(s, a.role, a.exhibits)
    BY <1>1 DEF Accepts, Apply
  <2> QED BY <2>1, <2>2, FileType
<1>2. CASE a.type = "pass"
  <2>1. CanPass(s, a.role) /\ Apply(s, a) = Pass(s)
    BY <1>2 DEF Accepts, Apply
  <2> QED BY <2>1, PassType
<1>3. CASE a.type = "evidence"
  <2>1. a.role \in Parties /\ a.id \in EvidenceIds /\ a.parent \in SUBSET EvidenceIds
    BY <1>3 DEF Action
  <2>2. Apply(s, a) = SubmitEvidence(s, a.role, a.id, a.parent)
    BY <1>3 DEF Apply
  <2> QED BY <2>1, <2>2, SubmitEvidenceType
<1>4. CASE a.type = "vote"
  <2>1. a.member \in Members /\ a.vote \in Votes
    BY <1>4 DEF Action
  <2>2. Apply(s, a) = Vote(s, a.member, a.vote)
    BY <1>4 DEF Apply
  <2> QED BY <2>1, <2>2, VoteType
<1>5. CASE a.type = "remove"
  <2>1. a.member \in Members
    BY <1>5 DEF Action
  <2>2. Apply(s, a) = Unseat(s, a.member, "removed")
    BY <1>5 DEF Apply
  <2> QED BY <2>1, <2>2, UnseatType DEF Seats
<1>6. CASE a.type = "fail"
  <2>1. Apply(s, a) = FailOpportunity(s) /\ NextOpportunity(s) # NoOpportunity
    BY <1>6 DEF Apply, Accepts, Authorized
  <2> QED BY <2>1, FailOpportunityType
<1> QED BY <1>0, <1>1, <1>2, <1>3, <1>4, <1>5, <1>6

LEMMA InitialStateType == InitialState \in State
BY DEF InitialState, State, Statuses, Phases, FilingPhases, Filings, Seats, Resolutions, Votes

\* The open opportunity is of the case's phase, and its role and member are
\* those whose turn it is.
LEMMA OpportunityFacts ==
  ASSUME NEW s \in State, NextOpportunity(s) # NoOpportunity
  PROVE  LET opp == NextOpportunity(s) IN
         /\ ~Terminal(s) /\ opp \in Opportunity /\ opp.phase = s.phase
         /\ \/ s.phase \in FilingPhases /\ opp.role \in Parties
            \/ /\ s.phase = "deliberation" /\ opp.role = "council"
               /\ opp.member \in Pending(s) /\ opp.member \in Members
         /\ s.phase \in {"rebuttals", "surrebuttals"} => s.filings[s.phase] = <<>>
<1> DEFINE opp == NextOpportunity(s)
<1>1. ~Terminal(s) /\ opp \in Opportunity /\ opp = NextOpportunityForPhase(s)
  BY NextOpportunityType DEF NextOpportunity
<1>2. CASE s.phase \in {"openings", "arguments", "closings"}
  <2>1. opp \in {PartyOpportunity(s.phase, "plaintiff"), PartyOpportunity(s.phase, "defendant")}
    BY <1>1, <1>2 DEF NextOpportunityForPhase, PlaintiffThenDefendant
  <2>2. opp.phase = s.phase /\ opp.role \in Parties
    BY <2>1 DEF PartyOpportunity, Parties
  <2> QED BY <1>1, <1>2, <2>2 DEF FilingPhases
<1>3. CASE s.phase = "rebuttals"
  <2>1. s.filings["rebuttals"] = <<>> /\ opp = PartyOpportunity("rebuttals", "plaintiff")
    BY <1>1, <1>3 DEF NextOpportunityForPhase
  <2> QED BY <1>1, <1>3, <2>1 DEF FilingPhases, PartyOpportunity, Parties
<1>4. CASE s.phase = "surrebuttals"
  <2>1. s.filings["surrebuttals"] = <<>> /\ opp = PartyOpportunity("surrebuttals", "defendant")
    BY <1>1, <1>4 DEF NextOpportunityForPhase
  <2> QED BY <1>1, <1>4, <2>1 DEF FilingPhases, PartyOpportunity, Parties
<1>5. CASE s.phase = "deliberation"
  <2>1. opp = [phase |-> "deliberation", role |-> "council", round |-> s.round, member |-> NextMember(s)]
    BY <1>1, <1>5 DEF NextOpportunityForPhase
  <2> QED BY <1>1, <1>5, <2>1, CouncilOpportunity
<1>6. CASE s.phase = "closed"
  BY <1>1, <1>6 DEF NextOpportunityForPhase
<1> QED BY <1>2, <1>3, <1>4, <1>5, <1>6 DEF State, Phases, FilingPhases

-----------------------------------------------------------------------------
(* What a step leaves alone.                                               *)

\* What deliberation leaves alone, whichever way it goes on.
LEMMA ContinueDeliberationFrame ==
  ASSUME NEW s \in State
  PROVE  LET t == ContinueDeliberation(s) IN
         /\ t.filings = s.filings /\ t.council = s.council /\ t.votes = s.votes
         /\ \/ ~RoundComplete(s) /\ t = Bump(s)
            \/ RoundComplete(s) /\ Decided(s) /\ t = Bump(Close(s, Winner(s)))
            \/ RoundComplete(s) /\ ~Decided(s) /\ Exhausted(s) /\ t = Bump(Close(s, "no_majority"))
            \/ RoundComplete(s) /\ ~Decided(s) /\ ~Exhausted(s) /\ t = Bump([s EXCEPT !.round = @ + 1])
<1> DEFINE t == ContinueDeliberation(s)
<1>1. \/ ~RoundComplete(s) /\ t = Bump(s)
      \/ RoundComplete(s) /\ Decided(s) /\ t = Bump(Close(s, Winner(s)))
      \/ RoundComplete(s) /\ ~Decided(s) /\ Exhausted(s) /\ t = Bump(Close(s, "no_majority"))
      \/ RoundComplete(s) /\ ~Decided(s) /\ ~Exhausted(s) /\ t = Bump([s EXCEPT !.round = @ + 1])
  BY Zenon DEF ContinueDeliberation
<1>2. \A v : LET u == Bump(Close(s, v)) IN
        u.filings = s.filings /\ u.council = s.council /\ u.votes = s.votes
  BY DEF Bump, Close, State
<1>3. LET u == Bump(s) IN
        u.filings = s.filings /\ u.council = s.council /\ u.votes = s.votes
  BY DEF Bump, State
<1>4. LET u == Bump([s EXCEPT !.round = @ + 1]) IN
        u.filings = s.filings /\ u.council = s.council /\ u.votes = s.votes
  BY DEF Bump, State
<1> HIDE DEF t
<1>5. t.filings = s.filings /\ t.council = s.council /\ t.votes = s.votes
  BY <1>1, <1>2, <1>3, <1>4
<1> QED BY <1>1, <1>5 DEF t

\* Nothing but submit_evidence touches the submitted items.
LEMMA DeliberationKeepsEvidence ==
  ASSUME NEW s \in State
  PROVE  ContinueDeliberation(s).submitted = s.submitted
<1>1. \A v : Bump(Close(s, v)).submitted = s.submitted
  BY DEF Bump, Close, State
<1>2. Bump(s).submitted = s.submitted /\ Bump([s EXCEPT !.round = @ + 1]).submitted = s.submitted
  BY DEF Bump, State
<1> QED BY <1>1, <1>2, ContinueDeliberationFrame

LEMMA VoteKeepsEvidence ==
  ASSUME NEW s \in State, NEW m \in Members, NEW v \in Votes
  PROVE  Vote(s, m, v).submitted = s.submitted
<1> DEFINE r == Cast(s, m, v)
<1>1. r \in State /\ Vote(s, m, v) = ContinueDeliberation(r)
  BY CastFacts
<1>2. r.submitted = s.submitted
  BY DEF Cast, State
<1> HIDE DEF r
<1> QED BY <1>1, <1>2, DeliberationKeepsEvidence

LEMMA UnseatKeepsEvidence ==
  ASSUME NEW s \in State, NEW m \in Members, NEW status \in Seats
  PROVE  Unseat(s, m, status).submitted = s.submitted
<1> DEFINE r == Leave(s, m, status)
<1>1. r \in State /\ Unseat(s, m, status) = ContinueDeliberation(r)
  BY LeaveFacts
<1>2. r.submitted = s.submitted
  BY DEF Leave, State
<1> HIDE DEF r
<1> QED BY <1>1, <1>2, DeliberationKeepsEvidence

LEMMA FailKeepsEvidence ==
  ASSUME NEW s \in State, NextOpportunity(s) # NoOpportunity
  PROVE  FailOpportunity(s).submitted = s.submitted
<1>1. CASE s.phase = "deliberation"
  BY <1>1, CouncilOpportunity, UnseatKeepsEvidence DEF FailOpportunity, Seats
<1>2. FailParty(s).submitted = s.submitted
  BY DEF FailParty, Bump, State
<1> QED BY <1>1, <1>2 DEF FailOpportunity

LEMMA FilingKeepsEvidence ==
  ASSUME NEW s \in State, NEW role, NEW exhibits
  PROVE  File(s, role, exhibits).submitted = s.submitted /\ Pass(s).submitted = s.submitted
BY DEF File, AddFiling, Pass, Bump, State

\* The opportunity stays open when evidence is submitted.
LEMMA EvidenceKeepsOpportunity ==
  ASSUME NEW s \in State, NEW role, NEW id, NEW parent
  PROVE  NextOpportunity(SubmitEvidence(s, role, id, parent)) = NextOpportunity(s)
<1> DEFINE t == SubmitEvidence(s, role, id, parent)
<1>1. /\ t.status = s.status /\ t.phase = s.phase /\ t.filings = s.filings
      /\ t.council = s.council /\ t.round = s.round /\ t.votes = s.votes
  BY DEF SubmitEvidence, Bump, State
<1> HIDE DEF t
<1>2. Pending(t) = Pending(s)
  BY <1>1 DEF Pending, Seated, HasVoted, CurrentRoundVotes, VotesIn
<1>3. NextMember(t) = NextMember(s)
  BY <1>2 DEF NextMember
<1>4. NextOpportunity(t) = NextOpportunity(s)
  BY <1>1, <1>2, <1>3
  DEF NextOpportunity, NextOpportunityForPhase, Terminal, PlaintiffThenDefendant
<1> QED BY <1>4 DEF t

LEMMA SubmissionRecorded ==
  ASSUME NEW s \in State, NEW role, NEW id, NEW parent
  PROVE  SubmitEvidence(s, role, id, parent).submitted =
           Append(s.submitted, [id |-> id, parent |-> parent, role |-> role, phase |-> s.phase])
BY DEF SubmitEvidence, Bump, State

LEMMA ApplyKeepsEvidence ==
  ASSUME NEW s \in State, NEW auth, NEW a \in Action, Accepts(s, auth, a), a.type # "evidence"
  PROVE  Apply(s, a).submitted = s.submitted
<1>0. a.type \in {"file", "pass", "vote", "remove", "fail"}
  BY DEF Action
<1>1. CASE a.type \in {"file", "pass"}
  <2>1. Apply(s, a) = File(s, a.role, a.exhibits) \/ Apply(s, a) = Pass(s)
    BY <1>1 DEF Apply
  <2> QED BY <2>1, FilingKeepsEvidence
<1>2. CASE a.type = "vote"
  <2>1. a.member \in Members /\ a.vote \in Votes
    BY <1>2 DEF Action
  <2>2. Apply(s, a) = Vote(s, a.member, a.vote)
    BY <1>2 DEF Apply
  <2> QED BY <2>1, <2>2, VoteKeepsEvidence
<1>3. CASE a.type = "remove"
  <2>1. a.member \in Members /\ "removed" \in Seats
    BY <1>3 DEF Action, Seats
  <2>2. Apply(s, a) = Unseat(s, a.member, "removed")
    BY <1>3 DEF Apply
  <2> QED BY <2>1, <2>2, UnseatKeepsEvidence
<1>4. CASE a.type = "fail"
  <2>1. Apply(s, a) = FailOpportunity(s) /\ NextOpportunity(s) # NoOpportunity
    BY <1>4 DEF Apply, Accepts, Authorized
  <2> QED BY <2>1, FailKeepsEvidence
<1> QED BY <1>0, <1>1, <1>2, <1>3, <1>4
================================================================================
