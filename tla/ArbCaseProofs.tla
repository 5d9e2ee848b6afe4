----------------------------- MODULE ArbCaseProofs -----------------------------
(***************************************************************************)
(* Theorems about ArbCase for every council size, vote threshold, number   *)
(* of rounds, evidence limit and evidence catalog a policy may set: first  *)
(* authorities, filings and evidence, then the council: the voters of a    *)
(* round are seated, a live case always has an opportunity open, and a     *)
(* resolution stands on the votes of the last round alone.                 *)
(***************************************************************************)
EXTENDS ArbCase, ArbEngineProofs

-----------------------------------------------------------------------------
(* Type correctness.                                                       *)

LEMMA OffersAreActions == Offers \subseteq Action
<1>1. \A e \in EvidenceIds : {e} \in SUBSET EvidenceIds
  OBVIOUS
<1>2. NewEvidence \subseteq EvidenceIds
  BY DEF EvidenceIds
<1> QED BY <1>1, <1>2, ExhibitAssumption DEF Offers, Action

\* What every step of the machine does, whoever sends it.
LEMMA StepFacts ==
  ASSUME TypeOK, NEW auth \in Held, NEW a \in Offers, Step(auth, a)
  PROVE  /\ a \in Action /\ Accepts(st, auth, a) /\ st \in State
         /\ st' = Apply(st, a) /\ st' \in State
         /\ st'.version = st.version + 1
         /\ auth = CurrentAuthority(st) /\ auth \in Authority
         /\ log' = Append(log, [authority |-> auth, action |-> a])
<1>1. a \in Action /\ Accepts(st, auth, a) /\ st \in State /\ st' = Apply(st, a)
      /\ log' = Append(log, [authority |-> auth, action |-> a])
  BY OffersAreActions DEF Step, TypeOK
<1>2. auth = CurrentAuthority(st) /\ NextOpportunity(st) # NoOpportunity
  BY <1>1 DEF Accepts, Authorized
<1>3. auth \in Authority
  BY <1>1, <1>2, NextOpportunityType DEF CurrentAuthority, Authority, State
<1> QED BY <1>1, <1>2, <1>3, ApplyType

\* The state and the log keep their types: no accepted action, in any order,
\* takes the engine's record outside them.
THEOREM TypeCorrect == Spec => []TypeOK
<1>1. Init => TypeOK
  BY InitialStateType DEF Init, TypeOK
<1>2. TypeOK /\ [Next]_vars => TypeOK'
  <2> SUFFICES ASSUME TypeOK, [Next]_vars PROVE TypeOK'
    OBVIOUS
  <2>1. CASE UNCHANGED vars
    BY <2>1 DEF TypeOK, vars
  <2>2. ASSUME NEW auth \in Held, NEW a \in Offers, Step(auth, a)
        PROVE  TypeOK'
    <3>1. /\ st' \in State
          /\ [authority |-> auth, action |-> a] \in [authority : Authority, action : Action]
          /\ log' = Append(log, [authority |-> auth, action |-> a])
      BY <2>2, StepFacts
    <3> QED BY <3>1 DEF TypeOK
  <2> QED BY <2>1, <2>2 DEF Next, Done
<1> QED BY <1>1, <1>2, PTL DEF Spec

-----------------------------------------------------------------------------
(* An authority is accepted once.                                          *)

\* The strengthening: versions count the accepted actions, so the i-th was
\* accepted under version i and no earlier authority carries the current one.
VersionCounts ==
  /\ st.version = Len(log) + 1
  /\ \A i \in DOMAIN log : log[i].authority.version = i

VersionInv == TypeOK /\ VersionCounts

LEMMA VersionInvInit == Init => VersionInv
<1> SUFFICES ASSUME Init PROVE VersionInv
  OBVIOUS
<1>1. TypeOK
  BY InitialStateType DEF Init, TypeOK
<1>2. VersionCounts
  <2>1. InitialState.version = 1
    BY DEF InitialState
  <2>2. st = InitialState /\ log = <<>> /\ Len(log) = 0 /\ DOMAIN log = {}
    BY DEF Init
  <2> QED BY <2>1, <2>2 DEF VersionCounts
<1> QED BY <1>1, <1>2 DEF VersionInv

LEMMA VersionInvNext == VersionInv /\ [Next]_vars => VersionInv'
<1> SUFFICES ASSUME VersionInv, [Next]_vars PROVE VersionInv'
  OBVIOUS
<1>1. CASE UNCHANGED vars
  BY <1>1 DEF VersionInv, VersionCounts, TypeOK, vars
<1>2. ASSUME NEW auth \in Held, NEW a \in Offers, Step(auth, a)
      PROVE  VersionInv'
  <2> DEFINE Entry == [authority : Authority, action : Action]
             e     == [authority |-> auth, action |-> a]
  <2>1. /\ st' \in State /\ st'.version = st.version + 1
        /\ auth = CurrentAuthority(st) /\ e \in Entry
        /\ log' = Append(log, e)
    BY <1>2, StepFacts DEF VersionInv
  <2>2. log \in Seq(Entry)
    BY DEF VersionInv, TypeOK
  <2>3. e.authority.version = Len(log) + 1
    BY <2>1 DEF CurrentAuthority, VersionInv, VersionCounts
  <2> HIDE DEF e, Entry
  <2>4. /\ log' \in Seq(Entry) /\ Len(log') = Len(log) + 1
        /\ \A i \in DOMAIN log' : log'[i] = IF i = Len(log) + 1 THEN e ELSE log[i]
    BY <2>1, <2>2
  <2>5. DOMAIN log = 1 .. Len(log) /\ DOMAIN log' = 1 .. Len(log) + 1
    BY <2>1, <2>2
  <2>6. VersionCounts'
    BY <2>1, <2>3, <2>4, <2>5 DEF VersionInv, VersionCounts
  <2>7. TypeOK'
    BY <2>1, <2>4 DEF TypeOK, Entry
  <2> QED BY <2>6, <2>7 DEF VersionInv
<1> QED BY <1>1, <1>2 DEF Next, Done

\* However many callers hold it and however often they send it, an authority is
\* spent by the first action accepted under it (requireOpportunityAuthority).
THEOREM AuthorityNeverReused == Spec => []AuthoritySpentOnce
<1>1. VersionInv => AuthoritySpentOnce
  BY DEF VersionInv, VersionCounts, AuthoritySpentOnce
<1> QED BY <1>1, VersionInvInit, VersionInvNext, PTL DEF Spec

-----------------------------------------------------------------------------
(* Filings come in order.                                                  *)

\* The phases a case reaches only after p, and the filings p may hold when it
\* is over and while it is open.
Later == [openings     |-> Phases \ {"openings"},
          arguments    |-> Phases \ {"openings", "arguments"},
          rebuttals    |-> {"surrebuttals", "closings", "deliberation", "closed"},
          surrebuttals |-> {"closings", "deliberation", "closed"},
          closings     |-> {"deliberation", "closed"}]

Full == [openings     |-> {<<"plaintiff", "defendant">>},
         arguments    |-> {<<"plaintiff", "defendant">>},
         rebuttals    |-> {<<>>, <<"plaintiff">>},
         surrebuttals |-> {<<>>, <<"defendant">>},
         closings     |-> {<<"plaintiff", "defendant">>}]

Begun == [openings     |-> {<<>>, <<"plaintiff">>},
          arguments    |-> {<<>>, <<"plaintiff">>},
          rebuttals    |-> {<<>>},
          surrebuttals |-> {<<>>},
          closings     |-> {<<>>, <<"plaintiff">>}]

FilingsInOrder(s) ==
  \A p \in FilingPhases :
    /\ s.phase \in Later[p] => s.filings[p] \in Full[p]
    /\ s.phase = p => s.filings[p] \in Begun[p]
    /\ s.phase \notin Later[p] \cup {p} => s.filings[p] = <<>>

LEMMA SecondOfTwo == Append(<<"plaintiff">>, "defendant") = <<"plaintiff", "defendant">>
<1> DEFINE a == Append(<<"plaintiff">>, "defendant")
           b == <<"plaintiff", "defendant">>
<1>1. a \in Seq(Parties) /\ Len(a) = 2 /\ a[1] = "plaintiff" /\ a[2] = "defendant"
  <2>1. <<"plaintiff">> \in Seq(Parties) /\ "defendant" \in Parties
    BY DEF Parties
  <2> QED BY <2>1
<1>2. b \in Seq(Parties) /\ Len(b) = 2 /\ b[1] = "plaintiff" /\ b[2] = "defendant"
  BY DEF Parties
<1>3. \A s, t \in Seq(Parties) :
        Len(s) = 2 /\ Len(t) = 2 /\ s[1] = t[1] /\ s[2] = t[2] => s = t
  OBVIOUS
<1> HIDE DEF a, b
<1>4. a = b
  BY <1>1, <1>2, <1>3
<1> QED BY <1>4 DEF a, b

LEMMA LaterFacts ==
  \A p, q \in FilingPhases :
    /\ NextPhase[q] \in Later[p] <=> q \in Later[p] \/ q = p
    /\ NextPhase[q] = p => q \notin Later[p] /\ q # p
    /\ p \notin Later[p]
    /\ <<>> \in Begun[p]
BY DEF FilingPhases, NextPhase, Later, Begun, Phases

\* The filing a party may make is the next one of the phase.
LEMMA FilingIsNext ==
  ASSUME NEW s \in State, FilingsInOrder(s), ~Terminal(s),
         NEW role, s.phase \in FilingPhases, role = NextOpportunity(s).role
  PROVE  LET filed == Append(s.filings[s.phase], role) IN
         IF Len(filed) >= FilingsToComplete(s.phase)
         THEN filed \in Full[s.phase] ELSE filed \in Begun[s.phase]
<1> DEFINE before == s.filings[s.phase]
           filed  == Append(before, role)
<1>1. CASE s.phase \in {"openings", "arguments", "closings"}
  <2>1. before \in {<<>>, <<"plaintiff">>} /\ Begun[s.phase] = {<<>>, <<"plaintiff">>}
        /\ Full[s.phase] = {<<"plaintiff", "defendant">>} /\ FilingsToComplete(s.phase) = 2
    BY <1>1 DEF FilingsInOrder, Begun, Full, FilingsToComplete
  <2>2. NextOpportunity(s) = PlaintiffThenDefendant(s, s.phase)
    BY <1>1 DEF NextOpportunity, NextOpportunityForPhase
  <2>3. CASE before = <<>>
    <3>1. Len(before) = 0
      BY <2>3
    <3>2. role = "plaintiff"
      BY <3>1, <2>2 DEF PlaintiffThenDefendant, PartyOpportunity
    <3>3. filed = <<"plaintiff">> /\ Len(filed) = 1
      BY <3>2, <2>3
    <3> QED BY <3>3, <2>1
  <2>4. CASE before = <<"plaintiff">>
    <3>1. Len(before) = 1
      BY <2>4
    <3>2. role = "defendant"
      BY <3>1, <2>2 DEF PlaintiffThenDefendant, PartyOpportunity
    <3>3. filed = <<"plaintiff", "defendant">>
      BY <3>2, <2>4, SecondOfTwo
    <3>4. Len(filed) = 2
      BY <3>3
    <3> QED BY <3>3, <3>4, <2>1
  <2> QED BY <2>1, <2>3, <2>4
<1>2. CASE s.phase = "rebuttals"
  <2>1. before = <<>> /\ Full[s.phase] = {<<>>, <<"plaintiff">>} /\ FilingsToComplete(s.phase) = 1
    BY <1>2 DEF FilingsInOrder, Begun, Full, FilingsToComplete
  <2>2. role = "plaintiff"
    BY <1>2, <2>1 DEF NextOpportunity, NextOpportunityForPhase, PartyOpportunity
  <2>3. filed = <<"plaintiff">> /\ Len(filed) = 1
    BY <2>1, <2>2
  <2> QED BY <2>1, <2>3
<1>3. CASE s.phase = "surrebuttals"
  <2>1. before = <<>> /\ Full[s.phase] = {<<>>, <<"defendant">>} /\ FilingsToComplete(s.phase) = 1
    BY <1>3 DEF FilingsInOrder, Begun, Full, FilingsToComplete
  <2>2. role = "defendant"
    BY <1>3, <2>1 DEF NextOpportunity, NextOpportunityForPhase, PartyOpportunity
  <2>3. filed = <<"defendant">> /\ Len(filed) = 1
    BY <2>1, <2>2
  <2> QED BY <2>1, <2>3
<1> QED BY <1>1, <1>2, <1>3 DEF FilingPhases

\* One phase moves forward and the others keep their filings.
LEMMA OrderKept ==
  ASSUME NEW s \in State, NEW t, FilingsInOrder(s), s.phase \in FilingPhases,
         \A p \in FilingPhases \ {s.phase} : t.filings[p] = s.filings[p],
         \/ t.phase = NextPhase[s.phase] /\ t.filings[s.phase] \in Full[s.phase]
         \/ t.phase = s.phase /\ t.filings[s.phase] \in Begun[s.phase]
  PROVE  FilingsInOrder(t)
<1> SUFFICES ASSUME NEW p \in FilingPhases
             PROVE  /\ t.phase \in Later[p] => t.filings[p] \in Full[p]
                    /\ t.phase = p => t.filings[p] \in Begun[p]
                    /\ t.phase \notin Later[p] \cup {p} => t.filings[p] = <<>>
  BY DEF FilingsInOrder
<1>1. /\ s.phase \in Later[p] => s.filings[p] \in Full[p]
      /\ s.phase = p => s.filings[p] \in Begun[p]
      /\ s.phase \notin Later[p] \cup {p} => s.filings[p] = <<>>
  BY DEF FilingsInOrder
<1>2. CASE p = s.phase
  BY <1>2, LaterFacts
<1>3. CASE p # s.phase
  BY <1>1, <1>3, LaterFacts
<1> QED BY <1>2, <1>3

LEMMA FileKeepsOrder ==
  ASSUME NEW s \in State, FilingsInOrder(s), ~Terminal(s),
         NEW role, NEW exhibits, CanFile(s, role, exhibits)
  PROVE  FilingsInOrder(File(s, role, exhibits))
<1> DEFINE filed == Append(s.filings[s.phase], role)
           t == File(s, role, exhibits)
<1>1. s.phase \in FilingPhases /\ role = NextOpportunity(s).role
  BY DEF CanFile
<1>2. /\ t.filings = [s.filings EXCEPT ![s.phase] = filed]
      /\ t.phase = IF Len(filed) >= FilingsToComplete(s.phase)
                   THEN NextPhase[s.phase] ELSE s.phase
  BY <1>1 DEF File, AddFiling, Bump, State, Filings
<1>3. IF Len(filed) >= FilingsToComplete(s.phase)
      THEN filed \in Full[s.phase] ELSE filed \in Begun[s.phase]
  BY <1>1, FilingIsNext
<1>4. t.filings[s.phase] = filed /\ \A p \in FilingPhases \ {s.phase} : t.filings[p] = s.filings[p]
  BY <1>1, <1>2 DEF State, Filings
<1> HIDE DEF t, filed
<1> QED BY <1>1, <1>2, <1>3, <1>4, OrderKept DEF t

LEMMA PassKeepsOrder ==
  ASSUME NEW s \in State, FilingsInOrder(s), NEW role, CanPass(s, role)
  PROVE  FilingsInOrder(Pass(s))
<1>1. Pass(s).filings = s.filings /\ Pass(s).phase = NextPhase[s.phase]
  BY DEF Pass, Bump, State
<1>2. s.phase \in FilingPhases /\ s.filings[s.phase] \in Full[s.phase]
  BY DEF CanPass, FilingPhases, Full
<1> QED BY <1>1, <1>2, OrderKept

\* A step that leaves the filings and the phase alone, and one from
\* deliberation to the end.
LEMMA OrderFrame ==
  ASSUME NEW s, NEW t, FilingsInOrder(s), t.filings = s.filings, t.phase = s.phase
  PROVE  FilingsInOrder(t)
BY DEF FilingsInOrder

LEMMA OrderEnd ==
  ASSUME NEW s, NEW t, FilingsInOrder(s), t.filings = s.filings,
         s.phase = "deliberation", t.phase \in {"deliberation", "closed"}
  PROVE  FilingsInOrder(t)
<1>1. \A p \in FilingPhases :
        /\ {"deliberation", "closed"} \subseteq Later[p]
        /\ p \notin {"deliberation", "closed"}
  BY DEF FilingPhases, Later, Phases
<1> QED BY <1>1 DEF FilingsInOrder

LEMMA ContinueDeliberationPhase ==
  ASSUME NEW s \in State, s.phase = "deliberation"
  PROVE  ContinueDeliberation(s).phase \in {"deliberation", "closed"}
<1>1. \A v : Bump(Close(s, v)).phase = "closed"
  BY DEF Bump, Close, State
<1>2. Bump(s).phase = s.phase /\ Bump([s EXCEPT !.round = @ + 1]).phase = s.phase
  BY DEF Bump, State
<1> QED BY <1>1, <1>2, ContinueDeliberationFrame

LEMMA DeliberationKeepsOrder ==
  ASSUME NEW s \in State, NEW r \in State, FilingsInOrder(s), s.phase = "deliberation",
         r.filings = s.filings, r.phase = s.phase
  PROVE  FilingsInOrder(ContinueDeliberation(r))
<1> DEFINE t == ContinueDeliberation(r)
<1>1. t.phase \in {"deliberation", "closed"}
  BY ContinueDeliberationPhase
<1>2. t.filings = s.filings
  BY ContinueDeliberationFrame
<1> HIDE DEF t
<1>3. FilingsInOrder(t)
  BY <1>1, <1>2, OrderEnd
<1> QED BY <1>3 DEF t

LEMMA VoteKeepsOrder ==
  ASSUME NEW s \in State, FilingsInOrder(s), s.phase = "deliberation",
         NEW m \in Members, NEW v \in Votes
  PROVE  FilingsInOrder(Vote(s, m, v))
<1> DEFINE r == Cast(s, m, v)
<1>1. /\ r \in State /\ r.filings = s.filings /\ r.phase = s.phase
      /\ Vote(s, m, v) = ContinueDeliberation(r)
  BY CastFacts
<1> HIDE DEF r
<1> QED BY <1>1, DeliberationKeepsOrder

LEMMA UnseatKeepsOrder ==
  ASSUME NEW s \in State, FilingsInOrder(s), s.phase = "deliberation",
         NEW m \in Members, NEW status \in Seats
  PROVE  FilingsInOrder(Unseat(s, m, status))
<1> DEFINE r == Leave(s, m, status)
<1>1. /\ r \in State /\ r.filings = s.filings /\ r.phase = s.phase
      /\ Unseat(s, m, status) = ContinueDeliberation(r)
  BY LeaveFacts
<1> HIDE DEF r
<1> QED BY <1>1, DeliberationKeepsOrder

\* In deliberation the failure of the open opportunity is a member's leaving.
LEMMA FailKeepsOrder ==
  ASSUME NEW s \in State, FilingsInOrder(s), NextOpportunity(s) # NoOpportunity
  PROVE  FilingsInOrder(FailOpportunity(s))
<1> DEFINE t == FailParty(s)
<1>1. CASE s.phase = "deliberation"
  BY <1>1, CouncilOpportunity, UnseatKeepsOrder DEF FailOpportunity, Seats
<1>2. t.filings = s.filings /\ t.phase = s.phase
  BY DEF FailParty, Bump, State
<1> HIDE DEF t
<1>3. FilingsInOrder(t)
  BY <1>2, OrderFrame
<1> QED BY <1>1, <1>3 DEF FailOpportunity, t

LEMMA ApplyKeepsOrder ==
  ASSUME NEW s \in State, FilingsInOrder(s), NEW auth, NEW a \in Action, Accepts(s, auth, a)
  PROVE  FilingsInOrder(Apply(s, a))
<1>0. a.type \in {"file", "pass", "evidence", "vote", "remove", "fail"}
  BY DEF Action
<1>1. CASE a.type = "file"
  <2>1. CanFile(s, a.role, a.exhibits) /\ ~Terminal(s) /\ Apply(s, a) = File(s, a.role, a.exhibits)
    BY <1>1 DEF Accepts, Apply
  <2> QED BY <2>1, FileKeepsOrder
<1>2. CASE a.type = "pass"
  <2>1. CanPass(s, a.role) /\ Apply(s, a) = Pass(s)
    BY <1>2 DEF Accepts, Apply
  <2> QED BY <2>1, PassKeepsOrder
<1>3. CASE a.type = "evidence"
  <2> DEFINE t == SubmitEvidence(s, a.role, a.id, a.parent)
  <2>1. Apply(s, a) = t
    BY <1>3 DEF Apply
  <2>2. t.filings = s.filings /\ t.phase = s.phase
    BY DEF SubmitEvidence, Bump, State
  <2> HIDE DEF t
  <2> QED BY <2>1, <2>2, OrderFrame
<1>4. CASE a.type = "vote"
  <2>1. a.member \in Members /\ a.vote \in Votes
    BY <1>4 DEF Action
  <2>2. s.phase = "deliberation" /\ Apply(s, a) = Vote(s, a.member, a.vote)
    BY <1>4 DEF Accepts, Apply, CanVote
  <2> QED BY <2>1, <2>2, VoteKeepsOrder
<1>5. CASE a.type = "remove"
  <2>1. a.member \in Members /\ "removed" \in Seats
    BY <1>5 DEF Action, Seats
  <2>2. s.phase = "deliberation" /\ Apply(s, a) = Unseat(s, a.member, "removed")
    BY <1>5 DEF Accepts, Apply, CanUnseat, CanVote
  <2> QED BY <2>1, <2>2, UnseatKeepsOrder
<1>6. CASE a.type = "fail"
  <2>1. Apply(s, a) = FailOpportunity(s) /\ NextOpportunity(s) # NoOpportunity
    BY <1>6 DEF Apply, Accepts, Authorized
  <2> QED BY <2>1, FailKeepsOrder
<1> QED BY <1>0, <1>1, <1>2, <1>3, <1>4, <1>5, <1>6

LEMMA OrderInit == FilingsInOrder(InitialState)
BY DEF FilingsInOrder, InitialState, FilingPhases, Later, Begun, Phases

\* In every reachable state the filings are those of the phases gone through.
THEOREM FilingsOrdered == Spec => []FilingsInOrder(st)
<1>1. Init => FilingsInOrder(st)
  BY OrderInit DEF Init
<1>2. FilingsInOrder(st) /\ [Next]_vars /\ TypeOK => FilingsInOrder(st)'
  <2> SUFFICES ASSUME TypeOK, FilingsInOrder(st), [Next]_vars PROVE FilingsInOrder(st')
    BY DEF FilingsInOrder
  <2>1. CASE UNCHANGED vars
    BY <2>1 DEF vars
  <2>2. ASSUME NEW auth \in Held, NEW a \in Offers, Step(auth, a)
        PROVE  FilingsInOrder(st')
    <3>1. st \in State /\ a \in Action /\ Accepts(st, auth, a) /\ st' = Apply(st, a)
      BY <2>2, StepFacts
    <3> QED BY <3>1, ApplyKeepsOrder
  <2> QED BY <2>1, <2>2 DEF Next, Done
<1>3. Spec => []TypeOK
  BY TypeCorrect
<1> QED BY <1>1, <1>2, <1>3, PTL DEF Spec

\* A council never deliberates on an unheard case: whatever the callers send,
\* every phase was closed by the filings it needs, in the parties' order.
THEOREM BothSidesHeard == Spec => []HeardBothSides
<1>1. TypeOK /\ FilingsInOrder(st) => HeardBothSides
  BY DEF FilingsInOrder, HeardBothSides, Later, Full, FilingPhases, Phases
<1> QED BY <1>1, TypeCorrect, FilingsOrdered, PTL

-----------------------------------------------------------------------------
(* Every submitted item descends from evidence on record.                  *)

\* CustodyChain of any state.
InCustody(s) ==
  \A i \in DOMAIN s.submitted :
    /\ s.submitted[i].id \notin Catalog
    /\ \A p \in s.submitted[i].parent :
         p \in Catalog \/ \E j \in 1 .. i - 1 : s.submitted[j].id = p
    /\ \A j \in DOMAIN s.submitted : s.submitted[j].id = s.submitted[i].id => j = i

LEMMA CustodyFrame ==
  ASSUME NEW s, NEW t, InCustody(s), t.submitted = s.submitted
  PROVE  InCustody(t)
BY DEF InCustody

\* The new item has an id nobody used and a parent that is on record before it.
LEMMA SubmissionKeepsCustody ==
  ASSUME NEW s \in State, InCustody(s), NEW role, NEW id, NEW parent,
         CanSubmitEvidence(s, role, id, parent)
  PROVE  InCustody(SubmitEvidence(s, role, id, parent))
<1> DEFINE item == [id |-> id, parent |-> parent, role |-> role, phase |-> s.phase]
           t    == SubmitEvidence(s, role, id, parent)
           n    == Len(s.submitted)
<1>1. t.submitted = Append(s.submitted, item)
  BY DEF SubmitEvidence, Bump, State
<1>2. item.id = id /\ item.parent = parent
  OBVIOUS
<1>3. /\ id \notin Catalog
      /\ \A j \in DOMAIN s.submitted : s.submitted[j].id # id
      /\ \A p \in parent : p \in Catalog \/ \E j \in DOMAIN s.submitted : s.submitted[j].id = p
  BY DEF CanSubmitEvidence, KnownEvidence
<1>4. s.submitted \in Seq(SubmittedEvidence)
  BY DEF State
<1> HIDE DEF item, t
<1>5. /\ n \in Nat /\ DOMAIN s.submitted = 1 .. n /\ DOMAIN t.submitted = 1 .. n + 1
      /\ \A i \in 1 .. n : t.submitted[i] = s.submitted[i]
      /\ t.submitted[n + 1] = item
  BY <1>1, <1>4
<1>6. ASSUME NEW i \in 1 .. n
      PROVE  /\ t.submitted[i].id \notin Catalog
             /\ \A p \in t.submitted[i].parent :
                  p \in Catalog \/ \E j \in 1 .. i - 1 : t.submitted[j].id = p
             /\ \A j \in 1 .. n + 1 : t.submitted[j].id = t.submitted[i].id => j = i
  <2>1. /\ s.submitted[i].id \notin Catalog
        /\ \A p \in s.submitted[i].parent :
             p \in Catalog \/ \E j \in 1 .. i - 1 : s.submitted[j].id = p
        /\ \A j \in 1 .. n : s.submitted[j].id = s.submitted[i].id => j = i
    BY <1>5 DEF InCustody
  <2>2. \A j \in 1 .. i - 1 : j \in 1 .. n
    BY <1>5
  <2>3. t.submitted[n + 1].id # t.submitted[i].id
    BY <1>2, <1>3, <1>5
  <2>4. \A j \in 1 .. n + 1 : j \in 1 .. n \/ j = n + 1
    BY <1>5
  <2> QED BY <2>1, <2>2, <2>3, <2>4, <1>5
<1>7. /\ t.submitted[n + 1].id \notin Catalog
      /\ \A p \in t.submitted[n + 1].parent :
           p \in Catalog \/ \E j \in 1 .. n : t.submitted[j].id = p
      /\ \A j \in 1 .. n + 1 : t.submitted[j].id = t.submitted[n + 1].id => j = n + 1
  <2>1. \A j \in 1 .. n + 1 : j \in 1 .. n \/ j = n + 1
    BY <1>5
  <2> QED BY <2>1, <1>2, <1>3, <1>5
<1>8. ASSUME NEW i \in DOMAIN t.submitted
      PROVE  i \in 1 .. n \/ (i = n + 1 /\ 1 .. i - 1 = 1 .. n)
  BY <1>5
<1>9. InCustody(t)
  BY <1>5, <1>6, <1>7, <1>8 DEF InCustody
<1> QED BY <1>9 DEF t

LEMMA ApplyKeepsCustody ==
  ASSUME NEW s \in State, InCustody(s), NEW auth, NEW a \in Action, Accepts(s, auth, a)
  PROVE  InCustody(Apply(s, a))
<1>1. CASE a.type = "evidence"
  <2>1. /\ CanSubmitEvidence(s, a.role, a.id, a.parent)
        /\ Apply(s, a) = SubmitEvidence(s, a.role, a.id, a.parent)
    BY <1>1 DEF Accepts, Apply
  <2> QED BY <2>1, SubmissionKeepsCustody
<1>2. CASE a.type # "evidence"
  BY <1>2, ApplyKeepsEvidence, CustodyFrame
<1> QED BY <1>1, <1>2

\* Following parents from a submitted item leads back to the catalog or to an
\* original: for every catalog, every limit and every order of submissions,
\* exhibits, votes and failures.
THEOREM EvidenceInCustody == Spec => []CustodyChain
<1>1. Init => InCustody(st)
  <2>1. InitialState.submitted = <<>>
    BY Zenon DEF InitialState
  <2>2. \A s : s.submitted = <<>> => InCustody(s)
    BY DEF InCustody
  <2> QED BY <2>1, <2>2 DEF Init
<1>2. TypeOK /\ InCustody(st) /\ [Next]_vars => InCustody(st)'
  <2> SUFFICES ASSUME TypeOK, InCustody(st), [Next]_vars PROVE InCustody(st')
    BY DEF InCustody
  <2>1. CASE UNCHANGED vars
    BY <2>1 DEF vars
  <2>2. ASSUME NEW auth \in Held, NEW a \in Offers, Step(auth, a)
        PROVE  InCustody(st')
    <3>1. st \in State /\ a \in Action /\ Accepts(st, auth, a) /\ st' = Apply(st, a)
      BY <2>2, StepFacts
    <3> QED BY <3>1, ApplyKeepsCustody
  <2> QED BY <2>1, <2>2 DEF Next, Done
<1>3. InCustody(st) => CustodyChain
  BY DEF InCustody, CustodyChain
<1> QED BY <1>1, <1>2, <1>3, TypeCorrect, PTL DEF Spec


-----------------------------------------------------------------------------
(* The council: its invariant.                                             *)

\* What holds of a council in session: rounds are within the policy's, nobody
\* votes ahead of the round, and the current voters are seated and different.
InSession(s) ==
  /\ s.status = "active"
  /\ s.round \in 1 .. MaxRounds
  /\ \A i \in DOMAIN s.votes : s.votes[i].round <= s.round
  /\ VotersSeated(s)

\* Before deliberation the council is untouched; in it somebody is still to
\* vote; after it the resolution is sound.
CouncilInv(s) ==
  /\ s.phase \in FilingPhases => s.votes = <<>> /\ s.round = 1 /\ Seated(s) = Members
  /\ s.phase = "deliberation" => InSession(s) /\ Pending(s) # {}
  /\ s.phase = "closed" => s.status = "closed" /\ VotersSeated(s)
  /\ s.status = "closed" => s.phase = "closed"
  /\ Sound(s)

-----------------------------------------------------------------------------
(* Counting voters.                                                        *)

LEMMA SeatedFacts ==
  ASSUME NEW s
  PROVE  /\ Seated(s) \subseteq Members /\ IsFiniteSet(Seated(s))
         /\ Cardinality(Seated(s)) \in Nat /\ Cardinality(Seated(s)) <= CouncilSize
<1>1. Seated(s) \in SUBSET Members
  BY DEF Seated
<1> QED BY <1>1, MembersFacts, FS_Subset, FS_CardinalityType

\* Votes are no more than the seats when the voters are different and seated.
LEMMA RoundFacts ==
  ASSUME NEW s \in State, VotersSeated(s)
  PROVE  /\ IsFiniteSet(CurrentRoundVotes(s))
         /\ Cardinality(CurrentRoundVotes(s)) \in Nat
         /\ RoundComplete(s) <=> Pending(s) = {}
<1> DEFINE I == CurrentRoundVotes(s)
           f == [i \in I |-> s.votes[i].member]
<1>1. \A i \in I : s.votes[i].member \in Seated(s)
  BY DEF VotersSeated
<1>2. \A i, j \in I : s.votes[i].member = s.votes[j].member => i = j
  BY DEF VotersSeated
<1>3. Pending(s) = {} <=> \A m \in Seated(s) : \E i \in I : s.votes[i].member = m
  BY DEF Pending, HasVoted
<1>4. RoundComplete(s) <=> Cardinality(I) = Cardinality(Seated(s))
  BY DEF RoundComplete
<1> HIDE DEF I
<1>5. f \in [I -> Seated(s)] /\ \A i \in I : f[i] = s.votes[i].member
  BY <1>1
<1> HIDE DEF f
<1>6. f \in Injection(I, Seated(s))
  BY <1>2, <1>5 DEF Injection, IsInjective
<1>7. IsFiniteSet(I) /\ (Cardinality(I) = Cardinality(Seated(s)) <=> f \in Surjection(I, Seated(s)))
  BY <1>6, SeatedFacts, FS_Injection
<1>8. f \in Surjection(I, Seated(s)) <=> \A m \in Seated(s) : \E i \in I : s.votes[i].member = m
  BY <1>5 DEF Surjection
<1>9. Cardinality(I) \in Nat
  BY <1>7, FS_CardinalityType
<1> QED BY <1>3, <1>4, <1>7, <1>8, <1>9 DEF I

\* A side has its votes exactly when that many seated members voted for it.
LEMMA ReachedByVoters ==
  ASSUME NEW s \in State, VotersSeated(s), NEW v
  PROVE  Reached(s, v) <=> Cardinality(VotersFor(s, v)) >= RequiredVotes
<1> DEFINE I == VotesFor(s, s.round, v)
           V == VotersFor(s, v)
<1>1. I \subseteq CurrentRoundVotes(s)
  BY DEF VotesFor, CurrentRoundVotes
<1>2. V = {s.votes[i].member : i \in I}
  BY DEF VotersFor
<1>3. V \in SUBSET Seated(s)
  BY <1>1, <1>2 DEF VotersSeated
<1>4. IsFiniteSet(V)
  BY <1>3, SeatedFacts, FS_Subset
<1>5. \A i, j \in I : s.votes[i].member = s.votes[j].member => i = j
  BY <1>1 DEF VotersSeated
<1>6. Reached(s, v) <=> Cardinality(I) >= RequiredVotes
  BY DEF Reached
<1> HIDE DEF I, V
<1>7. /\ \A i \in I : s.votes[i].member \in V
      /\ \A m \in V : \E i \in I : s.votes[i].member = m
  BY <1>2
<1> DEFINE f == [i \in I |-> s.votes[i].member]
<1>8. f \in [I -> V] /\ \A i \in I : f[i] = s.votes[i].member
  BY <1>7
<1> HIDE DEF f
<1>9. f \in Injection(I, V) /\ f \in Surjection(I, V)
  BY <1>5, <1>7, <1>8 DEF Injection, IsInjective, Surjection
<1>10. Cardinality(I) = Cardinality(V)
  BY <1>4, <1>9, FS_Injection
<1> QED BY <1>6, <1>10 DEF V

\* The required votes are a majority of the council: both sides cannot have them.
LEMMA OneSideReached ==
  ASSUME NEW s \in State, VotersSeated(s),
         Reached(s, "demonstrated"), Reached(s, "not_demonstrated")
  PROVE  FALSE
<1> DEFINE A == VotersFor(s, "demonstrated")
           B == VotersFor(s, "not_demonstrated")
<1>1. A \in SUBSET Seated(s) /\ B \in SUBSET Seated(s)
  BY DEF VotersFor, VotersSeated, VotesFor, CurrentRoundVotes
<1>2. A \cap B = {}
  BY DEF VotersFor, VotersSeated, VotesFor, CurrentRoundVotes
<1>3. Cardinality(A) >= RequiredVotes /\ Cardinality(B) >= RequiredVotes
  BY ReachedByVoters
<1> HIDE DEF A, B
<1>4. /\ IsFiniteSet(A) /\ IsFiniteSet(B)
      /\ Cardinality(A) \in Nat /\ Cardinality(B) \in Nat
  BY <1>1, SeatedFacts, FS_Subset, FS_CardinalityType
<1>5. Cardinality(A) + Cardinality(B) > Cardinality(Seated(s))
  BY <1>3, <1>4, SeatedFacts, PolicyAssumption
<1>6. A \cap B # {}
  BY <1>1, <1>5, SeatedFacts, FS_MajoritiesIntersect
<1> QED BY <1>2, <1>6

-----------------------------------------------------------------------------
(* Deliberation keeps the invariant.                                       *)

\* What the invariant reads of a state, besides its phase and its status.
LEMMA SameCouncil ==
  ASSUME NEW s, NEW t, t.votes = s.votes, t.round = s.round, t.council = s.council
  PROVE  /\ Seated(t) = Seated(s) /\ CurrentRoundVotes(t) = CurrentRoundVotes(s)
         /\ Pending(t) = Pending(s)
         /\ VotersSeated(s) => VotersSeated(t)
         /\ \A v : VotersFor(t, v) = VotersFor(s, v)
<1>1. Seated(t) = Seated(s)
  BY DEF Seated
<1>2. CurrentRoundVotes(t) = CurrentRoundVotes(s)
  BY DEF CurrentRoundVotes, VotesIn
<1>3. \A m : HasVoted(t, m) <=> HasVoted(s, m)
  BY <1>2 DEF HasVoted
<1>4. Pending(t) = Pending(s)
  BY <1>1, <1>3 DEF Pending
<1>5. VotersSeated(s) => VotersSeated(t)
  BY <1>1, <1>2 DEF VotersSeated
<1>6. \A v : VotersFor(t, v) = VotersFor(s, v)
  BY <1>2 DEF VotersFor, VotesFor, CurrentRoundVotes
<1> QED BY <1>1, <1>2, <1>4, <1>5, <1>6

\* A case closed on a complete round has a sound resolution.
LEMMA CloseKeepsCouncil ==
  ASSUME NEW r \in State, InSession(r), NEW w,
         NEW t, t.votes = r.votes, t.round = r.round, t.council = r.council,
         t.phase = "closed", t.status = "closed", t.resolution = w, w # "",
         \A v \in Votes : w = v <=> Reached(r, v),
         w = "no_majority" => Exhausted(r)
  PROVE  CouncilInv(t)
<1>1. /\ Seated(t) = Seated(r) /\ VotersSeated(t)
      /\ \A v : VotersFor(t, v) = VotersFor(r, v)
  BY SameCouncil DEF InSession
<1>2. \A v \in Votes : w = v <=> Cardinality(VotersFor(t, v)) >= RequiredVotes
  BY <1>1, ReachedByVoters DEF InSession
<1>3. w = "no_majority" => t.round = MaxRounds \/ Cardinality(Seated(t)) < RequiredVotes
  BY <1>1, PolicyAssumption DEF Exhausted, InSession
<1>4. Sound(t)
  BY <1>2, <1>3 DEF Sound
<1> QED BY <1>1, <1>4 DEF CouncilInv, FilingPhases

\* A new round starts without votes and with every seat pending.
LEMMA NewRoundKeepsCouncil ==
  ASSUME NEW r \in State, InSession(r), ~Exhausted(r),
         NEW t, t.votes = r.votes, t.round = r.round + 1, t.council = r.council,
         t.phase = "deliberation", t.status = "active"
  PROVE  CouncilInv(t)
<1>0. r.round \in Nat /\ \A i \in DOMAIN r.votes : r.votes[i] \in CouncilVote
  BY DEF State
<1>1. \A i \in DOMAIN t.votes : t.votes[i].round \in Nat /\ t.votes[i].round <= r.round
  BY <1>0 DEF CouncilVote, InSession
<1>2. CurrentRoundVotes(t) = {}
  BY <1>0, <1>1 DEF CurrentRoundVotes, VotesIn
<1>3. t.round \in 1 .. MaxRounds /\ Cardinality(Seated(r)) >= RequiredVotes
  BY <1>0, SeatedFacts, MembersFacts, PolicyAssumption DEF Exhausted, InSession
<1>4. Seated(t) = Seated(r) /\ Seated(r) # {}
  <2>1. Seated(t) = Seated(r)
    BY DEF Seated
  <2>2. RequiredVotes > 0
    BY PolicyAssumption
  <2> SUFFICES ASSUME Seated(r) = {} PROVE FALSE
    BY <2>1
  <2>4. Cardinality(Seated(r)) = 0
    BY FS_EmptySet
  <2> QED BY <1>3, <2>2, <2>4, PolicyAssumption
<1>5. Pending(t) # {}
  BY <1>2, <1>4 DEF Pending, HasVoted
<1>6. InSession(t)
  BY <1>0, <1>1, <1>2, <1>3 DEF InSession, VotersSeated
<1> QED BY <1>5, <1>6 DEF CouncilInv, FilingPhases, Sound

\* The fields of the four outcomes of a vote or a departure.
LEMMA OutcomeFields ==
  ASSUME NEW r \in State
  PROVE  /\ LET t == Bump(r) IN
            /\ t.votes = r.votes /\ t.round = r.round /\ t.council = r.council
            /\ t.phase = r.phase /\ t.status = r.status
         /\ \A w : LET t == Bump(Close(r, w)) IN
            /\ t.votes = r.votes /\ t.round = r.round /\ t.council = r.council
            /\ t.phase = "closed" /\ t.status = "closed" /\ t.resolution = w
         /\ LET t == Bump([r EXCEPT !.round = @ + 1]) IN
            /\ t.votes = r.votes /\ t.round = r.round + 1 /\ t.council = r.council
            /\ t.phase = r.phase /\ t.status = r.status
BY DEF Bump, Close, State

LEMMA ContinueKeepsCouncil ==
  ASSUME NEW r \in State, r.phase = "deliberation", InSession(r)
  PROVE  CouncilInv(ContinueDeliberation(r))
<1> DEFINE t == ContinueDeliberation(r)
<1>0. VotersSeated(r) /\ r.status = "active"
  BY DEF InSession
<1>1. CASE ~RoundComplete(r)
  <2> DEFINE u == Bump(r)
  <2>1. t = u
    BY <1>1, ContinueDeliberationFrame
  <2>2. /\ u.votes = r.votes /\ u.round = r.round /\ u.council = r.council
        /\ u.phase = r.phase /\ u.status = r.status
    BY OutcomeFields
  <2> HIDE DEF u
  <2>3. Pending(u) # {} /\ VotersSeated(u)
    BY <1>0, <1>1, <2>2, RoundFacts, SameCouncil
  <2>4. InSession(u)
    BY <2>2, <2>3 DEF InSession
  <2> QED BY <2>1, <2>2, <2>3, <2>4, <1>0 DEF CouncilInv, FilingPhases, Sound
<1>2. CASE RoundComplete(r) /\ Decided(r)
  <2> DEFINE w == Winner(r)
             u == Bump(Close(r, w))
  <2>1. t = u
    BY <1>2, ContinueDeliberationFrame
  <2>2. w \in Votes /\ Reached(r, w)
    BY <1>2 DEF Decided, Winner, Votes
  <2>3. \A v \in Votes : w = v <=> Reached(r, v)
    BY <1>0, <2>2, OneSideReached DEF Votes
  <2>4. w # "" /\ w # "no_majority"
    BY <2>2 DEF Votes
  <2> HIDE DEF w
  <2>5. /\ u.votes = r.votes /\ u.round = r.round /\ u.council = r.council
        /\ u.phase = "closed" /\ u.status = "closed" /\ u.resolution = w
    BY OutcomeFields
  <2> HIDE DEF u
  <2> QED BY <2>1, <2>3, <2>4, <2>5, CloseKeepsCouncil
<1>3. CASE RoundComplete(r) /\ ~Decided(r) /\ Exhausted(r)
  <2> DEFINE u == Bump(Close(r, "no_majority"))
  <2>1. t = u
    BY <1>3, ContinueDeliberationFrame
  <2>2. \A v \in Votes : "no_majority" = v <=> Reached(r, v)
    BY <1>3 DEF Decided, Votes
  <2>3. /\ u.votes = r.votes /\ u.round = r.round /\ u.council = r.council
        /\ u.phase = "closed" /\ u.status = "closed" /\ u.resolution = "no_majority"
    BY OutcomeFields
  <2> HIDE DEF u
  <2> QED BY <1>3, <2>1, <2>2, <2>3, CloseKeepsCouncil
<1>4. CASE RoundComplete(r) /\ ~Decided(r) /\ ~Exhausted(r)
  <2> DEFINE u == Bump([r EXCEPT !.round = @ + 1])
  <2>1. t = u
    BY <1>4, ContinueDeliberationFrame
  <2>2. /\ u.votes = r.votes /\ u.round = r.round + 1 /\ u.council = r.council
        /\ u.phase = "deliberation" /\ u.status = "active"
    BY <1>0, OutcomeFields
  <2> HIDE DEF u
  <2> QED BY <1>4, <2>1, <2>2, NewRoundKeepsCouncil
<1> QED BY <1>1, <1>2, <1>3, <1>4

-----------------------------------------------------------------------------
(* Votes and departures.                                                   *)

\* The next member's vote is one more vote of the round, by a new voter.
LEMMA CastInSession ==
  ASSUME NEW s \in State, InSession(s), NEW m \in Pending(s), NEW v \in Votes
  PROVE  InSession(Cast(s, m, v))
<1> DEFINE r == Cast(s, m, v)
           ballot == [member |-> m, round |-> s.round, vote |-> v]
           n == Len(s.votes) + 1
<1>0. m \in Members /\ m \in Seated(s) /\ ~HasVoted(s, m)
  BY DEF Pending, Seated
<1>1. /\ r.status = s.status /\ r.round = s.round /\ r.council = s.council
      /\ r.votes = Append(s.votes, ballot)
  BY <1>0, CastFacts
<1>2. ballot.member = m /\ ballot.round = s.round
  OBVIOUS
<1>3. s.votes \in Seq(CouncilVote) /\ ballot \in CouncilVote
  BY <1>0, CastFacts DEF State
<1> HIDE DEF r, ballot
<1>4. /\ DOMAIN s.votes = 1 .. Len(s.votes) /\ DOMAIN r.votes = 1 .. n /\ Len(s.votes) \in Nat
      /\ r.votes[n] = ballot
      /\ \A i \in DOMAIN s.votes : r.votes[i] = s.votes[i]
  BY <1>1, <1>3
<1>5. Seated(r) = Seated(s)
  BY <1>1 DEF Seated
<1>6. \A i \in CurrentRoundVotes(r) : i = n \/ (i \in CurrentRoundVotes(s) /\ r.votes[i] = s.votes[i])
  BY <1>1, <1>4 DEF CurrentRoundVotes, VotesIn
<1>7. \A i \in CurrentRoundVotes(s) : s.votes[i].member \in Seated(s) /\ s.votes[i].member # m
  BY <1>0 DEF HasVoted, InSession, VotersSeated
<1>8. \A i, j \in CurrentRoundVotes(s) : s.votes[i].member = s.votes[j].member => i = j
  BY DEF InSession, VotersSeated
<1>9. VotersSeated(r)
  BY <1>0, <1>2, <1>4, <1>5, <1>6, <1>7, <1>8 DEF VotersSeated
<1>10. \A i \in DOMAIN r.votes : r.votes[i].round <= r.round
  <2> SUFFICES ASSUME NEW i \in DOMAIN r.votes PROVE r.votes[i].round <= r.round
    OBVIOUS
  <2>1. CASE i = n
    BY <2>1, <1>1, <1>2, <1>4 DEF InSession
  <2>2. CASE i # n
    BY <2>2, <1>1, <1>4 DEF InSession
  <2> QED BY <2>1, <2>2
<1>11. InSession(r)
  BY <1>1, <1>9, <1>10 DEF InSession
<1> QED BY <1>11 DEF r

\* A member that leaves has not voted in the round, so its voters all stay.
LEMMA LeaveInSession ==
  ASSUME NEW s \in State, InSession(s), NEW m \in Pending(s),
         NEW status \in Seats, status # "seated"
  PROVE  InSession(Leave(s, m, status))
<1> DEFINE r == Leave(s, m, status)
<1>0. m \in Members /\ m \in Seated(s) /\ ~HasVoted(s, m)
  BY DEF Pending, Seated
<1>1. /\ r.status = s.status /\ r.round = s.round /\ r.votes = s.votes
      /\ r.council = [s.council EXCEPT ![m] = status]
  BY <1>0, LeaveFacts
<1> HIDE DEF r
<1>2. s.council \in [Members -> Seats]
  BY DEF State
<1>3. Seated(r) = Seated(s) \ {m}
  BY <1>0, <1>1, <1>2 DEF Seated
<1>4. CurrentRoundVotes(r) = CurrentRoundVotes(s)
  BY <1>1 DEF CurrentRoundVotes, VotesIn
<1>5. VotersSeated(r)
  BY <1>0, <1>1, <1>3, <1>4 DEF VotersSeated, HasVoted, InSession
<1>6. InSession(r)
  BY <1>1, <1>5 DEF InSession
<1> QED BY <1>6 DEF r

LEMMA VoteKeepsCouncil ==
  ASSUME NEW s \in State, CouncilInv(s), s.phase = "deliberation",
         NEW m \in Pending(s), NEW v \in Votes
  PROVE  CouncilInv(Vote(s, m, v))
<1> DEFINE r == Cast(s, m, v)
<1>1. m \in Members /\ InSession(s)
  BY DEF Pending, Seated, CouncilInv
<1>2. r \in State /\ r.phase = "deliberation" /\ Vote(s, m, v) = ContinueDeliberation(r)
  BY <1>1, CastFacts
<1>3. InSession(r)
  BY <1>1, CastInSession
<1> HIDE DEF r
<1> QED BY <1>2, <1>3, ContinueKeepsCouncil

LEMMA UnseatKeepsCouncil ==
  ASSUME NEW s \in State, CouncilInv(s), s.phase = "deliberation",
         NEW m \in Pending(s), NEW status \in Seats, status # "seated"
  PROVE  CouncilInv(Unseat(s, m, status))
<1> DEFINE r == Leave(s, m, status)
<1>1. m \in Members /\ InSession(s)
  BY DEF Pending, Seated, CouncilInv
<1>2. r \in State /\ r.phase = "deliberation" /\ Unseat(s, m, status) = ContinueDeliberation(r)
  BY <1>1, LeaveFacts
<1>3. InSession(r)
  BY <1>1, LeaveInSession
<1> HIDE DEF r
<1> QED BY <1>2, <1>3, ContinueKeepsCouncil

-----------------------------------------------------------------------------
(* The parties' actions do not touch the council.                          *)

LEMMA UntouchedCouncil ==
  ASSUME NEW s \in State, CouncilInv(s), s.phase \in FilingPhases,
         NEW t, t.votes = s.votes, t.round = s.round, t.council = s.council,
         t.phase \in FilingPhases \cup {"deliberation"}, t.status # "closed",
         t.phase = "deliberation" => t.status = "active"
  PROVE  CouncilInv(t)
<1>1. t.votes = <<>> /\ t.round = 1 /\ Seated(t) = Members
  BY SameCouncil DEF CouncilInv
<1>2. CurrentRoundVotes(t) = {} /\ DOMAIN t.votes = {}
  BY <1>1 DEF CurrentRoundVotes, VotesIn
<1>3. Pending(t) # {}
  BY <1>1, <1>2, PolicyAssumption DEF Pending, HasVoted, Members
<1>4. VotersSeated(t) /\ t.round \in 1 .. MaxRounds
  BY <1>1, <1>2, PolicyAssumption DEF VotersSeated
<1>5. t.phase = "deliberation" => InSession(t)
  BY <1>2, <1>4 DEF InSession
<1> QED BY <1>1, <1>3, <1>5 DEF CouncilInv, Sound, FilingPhases

\* What a filing, a pass, a submission and a party's failure leave alone.
LEMMA PartyFields ==
  ASSUME NEW s \in State, s.phase \in FilingPhases,
         NEW role \in Parties, NEW exhibits, NEW id, NEW parent
  PROVE  /\ LET t == File(s, role, exhibits) IN
            /\ t.votes = s.votes /\ t.round = s.round /\ t.council = s.council
            /\ t.status = s.status /\ t.phase \in {s.phase, NextPhase[s.phase]}
         /\ LET t == Pass(s) IN
            /\ t.votes = s.votes /\ t.round = s.round /\ t.council = s.council
            /\ t.status = s.status /\ t.phase = NextPhase[s.phase]
         /\ LET t == SubmitEvidence(s, role, id, parent) IN
            /\ t.votes = s.votes /\ t.round = s.round /\ t.council = s.council
            /\ t.status = s.status /\ t.phase = s.phase
         /\ LET t == FailParty(s) IN
            /\ t.votes = s.votes /\ t.round = s.round /\ t.council = s.council
            /\ t.status = "failed" /\ t.phase = s.phase
BY DEF File, AddFiling, Pass, SubmitEvidence, FailParty, Bump, State

-----------------------------------------------------------------------------
(* The invariant, and the theorems.                                        *)

\* The acting member of an accepted vote or departure is a pending one.
LEMMA ActingMember ==
  ASSUME NEW s \in State, NEW auth, NEW a \in Action, Accepts(s, auth, a)
  PROVE  /\ s.status = "active" /\ NextOpportunity(s) # NoOpportunity
         /\ a.type \in {"vote", "remove"} => s.phase = "deliberation" /\ a.member \in Pending(s)
         /\ a.type = "fail" /\ s.phase = "deliberation" => NextOpportunity(s).member \in Pending(s)
<1>1. s.status = "active" /\ NextOpportunity(s) # NoOpportunity
  BY DEF Accepts, Terminal, Authorized
<1>2. CASE a.type = "vote"
  BY <1>1, <1>2 DEF Accepts, CanVote, Pending
<1>3. CASE a.type = "remove"
  BY <1>1, <1>3 DEF Accepts, CanUnseat, CanVote, Pending
<1>4. CASE a.type \notin {"vote", "remove"}
  BY <1>1, <1>4, CouncilOpportunity
<1> QED BY <1>2, <1>3, <1>4

LEMMA ApplyKeepsCouncil ==
  ASSUME NEW s \in State, CouncilInv(s), NEW auth, NEW a \in Action, Accepts(s, auth, a)
  PROVE  CouncilInv(Apply(s, a))
<1>0. a.type \in {"file", "pass", "evidence", "vote", "remove", "fail"} /\ s.status = "active"
  BY ActingMember DEF Action
<1>a. \A p \in FilingPhases : NextPhase[p] \in FilingPhases \cup {"deliberation"}
  BY DEF NextPhase, FilingPhases
<1>1. CASE a.type = "file"
  <2> DEFINE t == File(s, a.role, a.exhibits)
  <2>1. Apply(s, a) = t /\ s.phase \in FilingPhases /\ a.role \in Parties
    BY <1>1 DEF Apply, Accepts, CanFile, Action
  <2>2. /\ t.votes = s.votes /\ t.round = s.round /\ t.council = s.council
        /\ t.status = s.status /\ t.phase \in {s.phase, NextPhase[s.phase]}
    BY <2>1, PartyFields
  <2> HIDE DEF t
  <2> QED BY <1>0, <1>a, <2>1, <2>2, UntouchedCouncil
<1>2. CASE a.type = "pass"
  <2> DEFINE t == Pass(s)
  <2>1. Apply(s, a) = t /\ s.phase \in FilingPhases /\ "plaintiff" \in Parties
    BY <1>2 DEF Apply, Accepts, CanPass, FilingPhases, Parties
  <2>2. /\ t.votes = s.votes /\ t.round = s.round /\ t.council = s.council
        /\ t.status = s.status /\ t.phase = NextPhase[s.phase]
    BY <2>1, PartyFields
  <2> HIDE DEF t
  <2> QED BY <1>0, <1>a, <2>1, <2>2, UntouchedCouncil
<1>3. CASE a.type = "evidence"
  <2> DEFINE t == SubmitEvidence(s, a.role, a.id, a.parent)
  <2>1. Apply(s, a) = t /\ s.phase \in FilingPhases /\ a.role \in Parties
    BY <1>3 DEF Apply, Accepts, CanSubmitEvidence, EvidencePhases, FilingPhases, Action
  <2>2. /\ t.votes = s.votes /\ t.round = s.round /\ t.council = s.council
        /\ t.status = s.status /\ t.phase = s.phase
    BY <2>1, PartyFields
  <2> HIDE DEF t
  <2> QED BY <1>0, <2>1, <2>2, UntouchedCouncil
<1>4. CASE a.type = "vote"
  <2>1. Apply(s, a) = Vote(s, a.member, a.vote) /\ a.vote \in Votes
    BY <1>4 DEF Apply, Action
  <2> QED BY <1>4, <2>1, ActingMember, VoteKeepsCouncil
<1>5. CASE a.type = "remove"
  <2>1. Apply(s, a) = Unseat(s, a.member, "removed") /\ "removed" \in Seats
    BY <1>5 DEF Apply, Seats
  <2> QED BY <1>5, <2>1, ActingMember, UnseatKeepsCouncil
<1>6. CASE a.type = "fail" /\ s.phase = "deliberation"
  <2>1. Apply(s, a) = Unseat(s, NextOpportunity(s).member, "failed") /\ "failed" \in Seats
    BY <1>6 DEF Apply, FailOpportunity, Seats
  <2> QED BY <1>6, <2>1, ActingMember, UnseatKeepsCouncil
<1>7. CASE a.type = "fail" /\ s.phase # "deliberation"
  <2> DEFINE t == FailParty(s)
  <2>1. Apply(s, a) = t /\ "plaintiff" \in Parties
    BY <1>7 DEF Apply, FailOpportunity, Parties
  <2>2. s.phase \in FilingPhases
    BY <1>0, <1>7 DEF CouncilInv, State, Phases
  <2>3. /\ t.votes = s.votes /\ t.round = s.round /\ t.council = s.council
        /\ t.status = "failed" /\ t.phase = s.phase
    BY <2>1, <2>2, PartyFields
  <2> HIDE DEF t
  <2>4. s.phase # "deliberation"
    BY <1>7
  <2> QED BY <2>1, <2>2, <2>3, <2>4, UntouchedCouncil
<1> QED BY <1>0, <1>1, <1>2, <1>3, <1>4, <1>5, <1>6, <1>7

LEMMA CouncilInit == CouncilInv(InitialState)
<1>1. Seated(InitialState) = Members
  BY DEF InitialState, Seated
<1> QED BY <1>1 DEF CouncilInv, InitialState, FilingPhases, Sound

\* Every reachable state of a case has a council the invariant describes.
THEOREM CouncilOrdered == Spec => [](TypeOK /\ CouncilInv(st))
<1>1. Init => CouncilInv(st)
  BY CouncilInit DEF Init
<1>2. TypeOK /\ CouncilInv(st) /\ [Next]_vars => CouncilInv(st)'
  <2> SUFFICES ASSUME TypeOK, CouncilInv(st), [Next]_vars PROVE CouncilInv(st')
    BY DEF CouncilInv, InSession, VotersSeated, Sound, Seated, Pending, CurrentRoundVotes,
           VotesIn, HasVoted, VotersFor, VotesFor
  <2>1. CASE UNCHANGED vars
    BY <2>1 DEF vars
  <2>2. ASSUME NEW auth \in Held, NEW a \in Offers, Step(auth, a)
        PROVE  CouncilInv(st')
    <3>1. st \in State /\ a \in Action /\ Accepts(st, auth, a) /\ st' = Apply(st, a)
      BY <2>2, StepFacts
    <3> QED BY <3>1, ApplyKeepsCouncil
  <2> QED BY <2>1, <2>2 DEF Next, Done
<1>3. Spec => []TypeOK
  BY TypeCorrect
<1> QED BY <1>1, <1>2, <1>3, PTL DEF Spec

\* The voters of the current round are different members, all still seated,
\* whoever has failed or left meanwhile (continueDeliberation counts on it).
THEOREM VotersStaySeated == Spec => []CurrentVotersSeated
<1>1. TypeOK /\ CouncilInv(st) => CurrentVotersSeated
  <2> SUFFICES ASSUME TypeOK, CouncilInv(st) PROVE VotersSeated(st)
    BY DEF CurrentVotersSeated
  <2>1. CASE st.phase \in FilingPhases
    BY <2>1 DEF CouncilInv, VotersSeated, CurrentRoundVotes, VotesIn
  <2>2. CASE st.phase \in {"deliberation", "closed"}
    BY <2>2 DEF CouncilInv, InSession
  <2> QED BY <2>1, <2>2 DEF TypeOK, State, Phases
<1> QED BY <1>1, CouncilOrdered, PTL

\* A decision has the votes of RequiredVotes different seated members in the
\* last round and the other side has not; "no_majority" is declared only when
\* neither has and no round could follow.
THEOREM ResolutionSound == Spec => []DecisionSound
<1>1. CouncilInv(st) => DecisionSound
  BY DEF CouncilInv, DecisionSound
<1> QED BY <1>1, CouncilOrdered, PTL

\* A live case always has an open opportunity: the parties' phases end with the
\* filing that completes them, and a round in which nobody is left to vote has
\* been closed or followed by another by the step that left it so.
THEOREM LiveCasesGoOn == Spec => []LiveCaseHasOpportunity
<1>1. TypeOK /\ CouncilInv(st) /\ FilingsInOrder(st) => LiveCaseHasOpportunity
  <2> SUFFICES ASSUME TypeOK, CouncilInv(st), FilingsInOrder(st), ~Terminal(st)
               PROVE  NextOpportunityForPhase(st) # NoOpportunity
    BY DEF LiveCaseHasOpportunity, NextOpportunity
  <2>0. \A p, r : r \in Parties => PartyOpportunity(p, r) # NoOpportunity
    BY DEF PartyOpportunity, NoOpportunity, Parties
  <2>1. CASE st.phase \in {"openings", "arguments", "closings"}
    <3>1. st.filings[st.phase] \in {<<>>, <<"plaintiff">>}
      BY <2>1 DEF FilingsInOrder, Begun, FilingPhases
    <3>2. Len(st.filings[st.phase]) \in {0, 1}
      BY <3>1
    <3> QED BY <2>0, <2>1, <3>2 DEF NextOpportunityForPhase, PlaintiffThenDefendant, Parties
  <2>2. CASE st.phase = "rebuttals"
    <3>1. st.filings["rebuttals"] = <<>>
      BY <2>2 DEF FilingsInOrder, Begun, FilingPhases
    <3> QED BY <2>0, <2>2, <3>1 DEF NextOpportunityForPhase, Parties
  <2>3. CASE st.phase = "surrebuttals"
    <3>1. st.filings["surrebuttals"] = <<>>
      BY <2>3 DEF FilingsInOrder, Begun, FilingPhases
    <3> QED BY <2>0, <2>3, <3>1 DEF NextOpportunityForPhase, Parties
  <2>4. CASE st.phase = "deliberation"
    <3>1. Pending(st) # {}
      BY <2>4 DEF CouncilInv
    <3> QED BY <2>4, <3>1 DEF NextOpportunityForPhase, NoOpportunity
  <2>5. st.phase # "closed"
    BY DEF CouncilInv, Terminal
  <2> QED BY <2>1, <2>2, <2>3, <2>4, <2>5 DEF TypeOK, State, Phases, FilingPhases
<1> QED BY <1>1, CouncilOrdered, FilingsOrdered, PTL

-----------------------------------------------------------------------------
(* Rounds.                                                                 *)

\* What RoundEndsWhenAllVoted says of one step.
RoundStep(s, t) ==
  (s.phase = "deliberation" /\ (t.round # s.round \/ t.phase = "closed"))
  => \A m \in Seated(t) :
       \E i \in DOMAIN t.votes : t.votes[i].member = m /\ t.votes[i].round = s.round

\* A step of deliberation leaves the round only when everybody seated voted.
LEMMA RoundLeft ==
  ASSUME NEW r \in State, r.phase = "deliberation", InSession(r)
  PROVE  RoundStep(r, ContinueDeliberation(r))
<1> DEFINE t == ContinueDeliberation(r)
<1> SUFFICES ASSUME t.round # r.round \/ t.phase = "closed"
             PROVE  \A m \in Seated(t) :
                      \E i \in DOMAIN t.votes :
                        t.votes[i].member = m /\ t.votes[i].round = r.round
  BY DEF RoundStep
<1>1. t.votes = r.votes /\ t.council = r.council
  BY ContinueDeliberationFrame
<1>2. RoundComplete(r)
  <2> SUFFICES ASSUME ~RoundComplete(r) PROVE FALSE
    OBVIOUS
  <2>1. t = Bump(r)
    BY ContinueDeliberationFrame
  <2>2. t.round = r.round /\ t.phase = r.phase
    BY <2>1, OutcomeFields
  <2> QED BY <2>2
<1> HIDE DEF t
<1>3. Pending(r) = {}
  BY <1>2, RoundFacts DEF InSession
<1>4. Seated(t) = Seated(r)
  BY <1>1 DEF Seated
<1> SUFFICES ASSUME NEW m \in Seated(t)
             PROVE  \E i \in DOMAIN t.votes :
                      t.votes[i].member = m /\ t.votes[i].round = r.round
  OBVIOUS
<1>5. HasVoted(r, m)
  BY <1>3, <1>4 DEF Pending
<1> QED BY <1>1, <1>5 DEF HasVoted, CurrentRoundVotes, VotesIn

\* Votes and failures are accepted only for a member still to vote, and leave
\* the round as a step of deliberation does.
LEMMA ApplyEndsRound ==
  ASSUME NEW s \in State, CouncilInv(s), NEW auth, NEW a \in Action, Accepts(s, auth, a)
  PROVE  RoundStep(s, Apply(s, a))
<1> SUFFICES ASSUME s.phase = "deliberation",
                    Apply(s, a).round # s.round \/ Apply(s, a).phase = "closed"
             PROVE  RoundStep(s, Apply(s, a))
  BY DEF RoundStep
<1>0. a.type \in {"vote", "remove", "fail"} /\ InSession(s)
  BY DEF Action, Accepts, CanFile, CanPass, CanSubmitEvidence, EvidencePhases,
         FilingPhases, CouncilInv
<1>1. ASSUME NEW m \in Pending(s), NEW v \in Votes, Apply(s, a) = Vote(s, m, v)
      PROVE  RoundStep(s, Apply(s, a))
  <2> DEFINE r == Cast(s, m, v)
  <2>1. m \in Members
    BY DEF Pending, Seated
  <2>2. /\ r \in State /\ r.phase = "deliberation" /\ r.round = s.round
        /\ Apply(s, a) = ContinueDeliberation(r)
    BY <1>1, <2>1, CastFacts
  <2>3. InSession(r)
    BY <1>0, CastInSession
  <2> HIDE DEF r
  <2> QED BY <2>2, <2>3, RoundLeft DEF RoundStep
<1>2. ASSUME NEW m \in Pending(s), NEW status \in Seats, status # "seated",
             Apply(s, a) = Unseat(s, m, status)
      PROVE  RoundStep(s, Apply(s, a))
  <2> DEFINE r == Leave(s, m, status)
  <2>1. m \in Members
    BY DEF Pending, Seated
  <2>2. /\ r \in State /\ r.phase = "deliberation" /\ r.round = s.round
        /\ Apply(s, a) = ContinueDeliberation(r)
    BY <1>2, <2>1, LeaveFacts
  <2>3. InSession(r)
    BY <1>0, <1>2, LeaveInSession
  <2> HIDE DEF r
  <2> QED BY <2>2, <2>3, RoundLeft DEF RoundStep
<1>3. CASE a.type = "vote"
  <2>1. Apply(s, a) = Vote(s, a.member, a.vote) /\ a.vote \in Votes
    BY <1>3 DEF Apply, Action
  <2> QED BY <1>1, <1>3, <2>1, ActingMember
<1>4. CASE a.type = "remove"
  <2>1. Apply(s, a) = Unseat(s, a.member, "removed") /\ "removed" \in Seats
    BY <1>4 DEF Apply, Seats
  <2> QED BY <1>2, <1>4, <2>1, ActingMember
<1>5. CASE a.type = "fail"
  <2>1. Apply(s, a) = Unseat(s, NextOpportunity(s).member, "failed") /\ "failed" \in Seats
    BY <1>5 DEF Apply, FailOpportunity, Seats
  <2> QED BY <1>2, <1>5, <2>1, ActingMember
<1> QED BY <1>0, <1>3, <1>4, <1>5

\* A round ends only when every member still seated has voted in it: nobody's
\* failure ends it over the head of a member that is still to vote.
THEOREM RoundsEndComplete == Spec => RoundEndsWhenAllVoted
<1>1. ASSUME TypeOK, CouncilInv(st), Next PROVE RoundStep(st, st') \/ UNCHANGED vars
  <2>1. ASSUME NEW auth \in Held, NEW a \in Offers, Step(auth, a)
        PROVE  RoundStep(st, st')
    <3>1. st \in State /\ a \in Action /\ Accepts(st, auth, a) /\ st' = Apply(st, a)
      BY <2>1, <1>1, StepFacts
    <3> QED BY <3>1, <1>1, ApplyEndsRound
  <2> QED BY <1>1, <2>1 DEF Next, Done
<1> DEFINE Ends == RoundStep(st, st')
<1>2. TypeOK /\ CouncilInv(st) /\ [Next]_vars => [Ends]_vars
  BY <1>1
<1>3. Spec => [][Ends]_vars
  <2> HIDE DEF Ends
  <2> QED BY <1>2, CouncilOrdered, PTL DEF Spec
<1> QED BY <1>3, PTL DEF RoundEndsWhenAllVoted, RoundStep, Ends
=============================================================================
