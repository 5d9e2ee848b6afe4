------------------------------- MODULE ArbCase -------------------------------
(***************************************************************************)
(* One ARB case: the engine of ArbEngine driven by callers that may hold   *)
(* any authority the engine ever issued.  A caller reads the open          *)
(* opportunity, keeps the authority as long as it likes, and sends an      *)
(* action built on it; the engine accepts or rejects it, and a rejection   *)
(* leaves the state as it was.  The accepted actions, in order, are what a *)
(* replay certificate holds (arb/runtime/proceeding/certificate.go).       *)
(***************************************************************************)
EXTENDS ArbEngine

CONSTANT ExhibitLists  \* the exhibit lists a filing may come with
ASSUME ExhibitAssumption == ExhibitLists \subseteq Seq(EvidenceIds)

VARIABLES
  st,  \* the arbitration state
  log  \* accepted actions, each with the authority it was accepted under

vars == <<st, log>>

\* What callers may send: payloads small enough to enumerate.
Offers ==
       [type : {"file"}, role : Parties, exhibits : ExhibitLists]
  \cup [type : {"pass"}, role : Parties]
  \cup [type : {"evidence"}, role : Parties, id : NewEvidence,
        parent : {{}} \cup {{e} : e \in EvidenceIds}]
  \cup [type : {"vote"}, member : Members, vote : Votes]
  \cup [type : {"remove"}, member : Members]
  \cup [type : {"fail"}, reason : FailureReasons]

\* Authorities next_opportunity has ever handed out: one per state version, so
\* the current one and those the past actions were accepted under.
Held == {log[i].authority : i \in DOMAIN log} \cup {CurrentAuthority(st)}

Init == st = InitialState /\ log = <<>>

Step(auth, a) ==
  /\ Accepts(st, auth, a)
  /\ st' = Apply(st, a)
  /\ log' = Append(log, [authority |-> auth, action |-> a])

Done == Terminal(st) /\ UNCHANGED vars

Next == (\E auth \in Held, a \in Offers : Step(auth, a)) \/ Done

Spec == Init /\ [][Next]_vars

-----------------------------------------------------------------------------
\* The state and the log are of the engine's types.
TypeOK ==
  /\ st \in State
  /\ log \in Seq([authority : Authority, action : Action])

\* A live case always has an open opportunity: no sequence of votes, removals,
\* failures and filings leaves the engine "awaiting_deliberation_resolution"
\* (nextOpportunityForPhase's terminal answer for a case that never closed).
LiveCaseHasOpportunity == ~Terminal(st) => NextOpportunity(st) # NoOpportunity

\* The votes of the current round are by different members, all still seated:
\* continueDeliberation compares their number with the number of seats.
VotersSeated(s) ==
  /\ \A i \in CurrentRoundVotes(s) : s.votes[i].member \in Seated(s)
  /\ \A i, j \in CurrentRoundVotes(s) :
       s.votes[i].member = s.votes[j].member => i = j

CurrentVotersSeated == VotersSeated(st)

VotersFor(s, v) == {s.votes[i].member : i \in VotesFor(s, s.round, v)}

\* A resolution stands on the last round alone: a decision has the votes of
\* RequiredVotes different seated members and the other side does not, and
\* "no_majority" means neither side had them and no further round could help.
Sound(s) ==
  s.status = "closed" =>
    /\ s.resolution # ""
    /\ \A v \in Votes : s.resolution = v <=> Cardinality(VotersFor(s, v)) >= RequiredVotes
    /\ s.resolution = "no_majority" =>
         s.round = MaxRounds \/ Cardinality(Seated(s)) < RequiredVotes

DecisionSound == Sound(st)

\* Both parties were heard before the council deliberates: two openings, two
\* arguments and two closings, plaintiff first, and at most one rebuttal each.
HeardBothSides ==
  st.phase \in {"deliberation", "closed"} =>
    /\ \A p \in {"openings", "arguments", "closings"} :
         st.filings[p] = <<"plaintiff", "defendant">>
    /\ st.filings["rebuttals"] \in {<<>>, <<"plaintiff">>}
    /\ st.filings["surrebuttals"] \in {<<>>, <<"defendant">>}

\* Every submitted item descends from evidence already on record: following
\* parents leads back to the catalog or to an original, never round in a loop.
CustodyChain ==
  \A i \in DOMAIN st.submitted :
    /\ st.submitted[i].id \notin Catalog
    /\ \A p \in st.submitted[i].parent :
         p \in Catalog \/ \E j \in 1 .. i - 1 : st.submitted[j].id = p
    /\ \A j \in DOMAIN st.submitted : st.submitted[j].id = st.submitted[i].id => j = i

\* An authority is spent by the first action accepted under it: the same
\* request sent twice, or one kept from an earlier opportunity, changes nothing.
AuthoritySpentOnce ==
  \A i, j \in DOMAIN log : log[i].authority = log[j].authority => i = j

\* A round ends only when every member still seated has voted in it, so a vote
\* is never skipped by another member's failure.
RoundEndsWhenAllVoted ==
  [][ (st.phase = "deliberation" /\ (st'.round # st.round \/ st'.phase = "closed"))
      => \A m \in Seated(st') :
           \E i \in DOMAIN st'.votes :
             st'.votes[i].member = m /\ st'.votes[i].round = st.round ]_vars

=============================================================================
