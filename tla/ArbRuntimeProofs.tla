---------------------------- MODULE ArbRuntimeProofs ----------------------------
(***************************************************************************)
(* Theorems about ArbRuntime for every policy, either council backend, any *)
(* attempt limit and any number of clients: the runtime implements the     *)
(* engine's state machine, a turn is resolved once and in time, only       *)
(* faults and cancellation end a run in an error, and no client sleeps     *)
(* through the moment it waits for.                                        *)
(***************************************************************************)
EXTENDS ArbRuntime, ArbEngineProofs

-----------------------------------------------------------------------------
(* The inductive invariant.                                                *)

InTurn   == main.at \in {"wait", "timeout", "clear", "clear_err"}
MyTurn   == active[MyServer]
OpenTurn == InTurn /\ ~MyTurn.completed

LockedCall ==
  [server : Servers, req : Opportunity \cup {NoOpportunity}, act : Action, spoiled : BOOLEAN]

Places == {"next", "start", "wait", "timeout", "clear", "clear_err", "done", "failed"}

MainState ==
  [at : Places, turn : Nat, backend : {"council", "direct"},
   authority : [opp : Opportunity \cup {NoOpportunity}, version : Nat]]

RuntimeTypeOK ==
  /\ state \in State
  /\ submitted \in Seq([id : EvidenceIds, role : Parties])
  /\ cert \in Seq([authority : Authority, action : Action])
  /\ active \in [Servers -> Turn \cup {NoTurn}]
  /\ lock \in LockedCall \cup {Free}
  /\ main \in MainState
  /\ clock \in [expired : BOOLEAN, cancelled : BOOLEAN]
  /\ fault \in BOOLEAN
  /\ \A w \in asleep : ServerOf(w.client.role) \in APIs

\* The only turn on any server is the run loop's own, for the opportunity it
\* read; its done channel is full when it is completed.
OneTurnOpen ==
  /\ \A sv \in Servers : active[sv] # NoTurn <=> InTurn /\ sv = MyServer
  /\ InTurn =>
       /\ MyTurn.number = main.turn
       /\ MyTurn.opp = main.authority.opp
       /\ MyTurn.completed <=> MyTurn.done # "empty"

\* Until it is completed a turn holds the authority the engine would issue now,
\* through every submission of evidence in between.
TurnIsCurrent ==
  /\ main.at = "start" => main.authority = CurrentAuthority(state)
  /\ OpenTurn => TurnAuthority(MyTurn) = CurrentAuthority(state)
  /\ OpenTurn /\ (lock = Free \/ lock.act.type # "fail") => MyTurn.attempts >= 1
  /\ main.at = "start" \/ OpenTurn => NextOpportunity(state) # NoOpportunity

\* Whoever holds the lock acts for the open turn, with an action the engine
\* accepts; the deadline's failure is sent after the deadline only.
LockServesTurn ==
  lock # Free =>
    /\ lock.server = MyServer /\ OpenTurn
    /\ lock.act \in Case!Offers
    /\ Accepts(state, TurnAuthority(MyTurn), lock.act)
    /\ lock.act.type # "fail" => lock.req = MyTurn.opp
    /\ lock.act = DeadlineFailure /\ main.backend = "council" => clock.expired

\* The registry lists what the engine has on record.
RegistryAgrees ==
  /\ Len(submitted) = Len(state.submitted)
  /\ \A i \in DOMAIN submitted :
       submitted[i].id = state.submitted[i].id /\ submitted[i].role = state.submitted[i].role

\* Every error on the way out of the loop comes from a fault or a cancellation.
ErrorsExplained ==
  /\ main.at \in {"clear_err", "failed"} => fault \/ clock.cancelled
  /\ InTurn /\ MyTurn.done = "err" => fault \/ clock.cancelled
  /\ lock # Free /\ lock.spoiled => fault
  /\ main.at = "clear" => MyTurn.done = "ok"
  /\ main.at = "timeout" => clock.expired

\* The actions of the certificate that resolve a turn, counted.
Resolving(c) == {i \in DOMAIN c : c[i].action.type # "evidence"}
Resolved == Cardinality(Resolving(cert))

TurnsCounted ==
  /\ Resolved <= main.turn
  /\ main.at \in {"next", "done"} => Resolved = main.turn
  /\ main.at = "start" \/ OpenTurn => Resolved + 1 = main.turn
  /\ InTurn /\ MyTurn.done = "ok" => Resolved = main.turn

RuntimeInv ==
  /\ RuntimeTypeOK /\ OneTurnOpen /\ TurnIsCurrent /\ LockServesTurn
  /\ RegistryAgrees /\ ErrorsExplained /\ TurnsCounted

-----------------------------------------------------------------------------
(* The engine of Case is the engine the runtime calls.                     *)

LEMMA SameOpportunity ==
  /\ Case!NoOpportunity = NoOpportunity
  /\ \A s : Case!NextOpportunity(s) = NextOpportunity(s)
  /\ \A s : Case!CurrentAuthority(s) = CurrentAuthority(s)
BY DEF Case!CurrentAuthority, CurrentAuthority,
  Case!NoOpportunity, NoOpportunity, Case!NextOpportunity, NextOpportunity, Case!Terminal, Terminal,
  Case!NextOpportunityForPhase, NextOpportunityForPhase, Case!PlaintiffThenDefendant, PlaintiffThenDefendant,
  Case!PartyOpportunity, PartyOpportunity, Case!Pending, Pending, Case!Seated, Seated, Case!Members, Members,
  Case!HasVoted, HasVoted, Case!CurrentRoundVotes, CurrentRoundVotes, Case!VotesIn, VotesIn,
  Case!NextMember, NextMember

LEMMA SameCounts ==
  /\ \A items, r : Case!CountForRole(items, r) = CountForRole(items, r)
  /\ \A s : Case!RoundComplete(s) = RoundComplete(s) /\ Case!Exhausted(s) = Exhausted(s)
  /\ \A s, v : Case!Reached(s, v) = Reached(s, v)
<1>1. \A S : Case!Cardinality(S) = Cardinality(S)
  BY DEF Case!Cardinality, Cardinality
<1>2. \A items, r : Case!CountForRole(items, r) = CountForRole(items, r)
  BY <1>1 DEF Case!CountForRole, CountForRole
<1>3. \A s : Case!RoundComplete(s) = RoundComplete(s) /\ Case!Exhausted(s) = Exhausted(s)
  BY <1>1 DEF Case!RoundComplete, RoundComplete, Case!CurrentRoundVotes, CurrentRoundVotes,
              Case!VotesIn, VotesIn, Case!Seated, Seated, Case!Members, Members,
              Case!Exhausted, Exhausted
<1>4. \A s, v : Case!Reached(s, v) = Reached(s, v)
  BY <1>1 DEF Case!Reached, Reached, Case!VotesFor, VotesFor, Case!VotesIn, VotesIn
<1> QED BY <1>2, <1>3, <1>4

LEMMA SameGuards ==
  ASSUME NEW s
  PROVE  /\ Case!Terminal(s) = Terminal(s)
         /\ \A auth : Case!Authorized(s, auth) = Authorized(s, auth)
         /\ \A r, x : Case!CanFile(s, r, x) = CanFile(s, r, x)
         /\ \A r : Case!CanPass(s, r) = CanPass(s, r)
         /\ \A r, i, p : Case!CanSubmitEvidence(s, r, i, p) = CanSubmitEvidence(s, r, i, p)
         /\ \A m : Case!CanVote(s, m) = CanVote(s, m) /\ Case!CanUnseat(s, m) = CanUnseat(s, m)
<1>0. Case!KnownEvidence(s) = KnownEvidence(s)
  BY DEF Case!KnownEvidence, KnownEvidence
<1>1. Case!Terminal(s) = Terminal(s)
  BY DEF Case!Terminal, Terminal
<1>2. ASSUME NEW auth PROVE Case!Authorized(s, auth) = Authorized(s, auth)
  BY SameOpportunity DEF Case!Authorized, Authorized
<1>3. \A r, x : Case!CanFile(s, r, x) = CanFile(s, r, x)
  BY <1>0, SameOpportunity, SameCounts
  DEF Case!CanFile, CanFile, Case!FilingPhases, FilingPhases, Case!EvidencePhases, EvidencePhases
<1>4. \A r : Case!CanPass(s, r) = CanPass(s, r)
  BY SameOpportunity DEF Case!CanPass, CanPass
<1>5. \A r, i, p : Case!CanSubmitEvidence(s, r, i, p) = CanSubmitEvidence(s, r, i, p)
  BY <1>0, SameOpportunity, SameCounts
  DEF Case!CanSubmitEvidence, CanSubmitEvidence, Case!Cardinality, Cardinality, Case!EvidencePhases, EvidencePhases,
      Case!EvidenceIds, EvidenceIds
<1>6. \A m : Case!CanVote(s, m) = CanVote(s, m) /\ Case!CanUnseat(s, m) = CanUnseat(s, m)
  BY SameOpportunity
  DEF Case!CanVote, CanVote, Case!CanUnseat, CanUnseat, Case!Seated, Seated, Case!Members, Members,
      Case!HasVoted, HasVoted, Case!CurrentRoundVotes, CurrentRoundVotes, Case!VotesIn, VotesIn
<1> QED BY <1>1, <1>2, <1>3, <1>4, <1>5, <1>6

LEMMA SameAccepts ==
  ASSUME NEW s, NEW auth, NEW a
  PROVE  Case!Accepts(s, auth, a) = Accepts(s, auth, a)
BY SameGuards, Zenon DEF Case!Accepts, Accepts

LEMMA SameContinue ==
  ASSUME NEW s
  PROVE  Case!ContinueDeliberation(s) = ContinueDeliberation(s)
<1>4. /\ Case!Decided(s) = Decided(s)
      /\ Case!Winner(s) = Winner(s)
  BY SameCounts, Zenon DEF Case!Decided, Decided, Case!Votes, Votes, Case!Winner, Winner
<1>3. \A t : Case!Bump(t) = Bump(t) /\ \A r : Case!Close(t, r) = Close(t, r)
  BY DEF Case!Bump, Bump, Case!Close, Close
<1> QED BY SameCounts, <1>3, <1>4, Zenon DEF Case!ContinueDeliberation, ContinueDeliberation

LEMMA SameApply ==
  ASSUME NEW s, NEW a
  PROVE  Case!Apply(s, a) = Apply(s, a)
<1>1. \A t : Case!Bump(t) = Bump(t)
  BY DEF Case!Bump, Bump
<1>2. \A r, x : Case!File(s, r, x) = File(s, r, x)
  BY <1>1 DEF Case!File, File, Case!AddFiling, AddFiling,
              Case!FilingsToComplete, FilingsToComplete, Case!NextPhase, NextPhase
<1>3. Case!Pass(s) = Pass(s)
  BY <1>1 DEF Case!Pass, Pass, Case!NextPhase, NextPhase
<1>4. \A r, i, p : Case!SubmitEvidence(s, r, i, p) = SubmitEvidence(s, r, i, p)
  BY <1>1 DEF Case!SubmitEvidence, SubmitEvidence
<1>5. /\ \A m, v : Case!Vote(s, m, v) = Vote(s, m, v)
      /\ \A m, q : Case!Unseat(s, m, q) = Unseat(s, m, q)
  BY SameContinue DEF Case!Vote, Vote, Case!Unseat, Unseat
<1>6. Case!FailOpportunity(s) = FailOpportunity(s)
  BY <1>1, <1>5, SameOpportunity
  DEF Case!FailOpportunity, FailOpportunity, Case!FailParty, FailParty
<1> QED
  BY <1>2, <1>3, <1>4, <1>5, <1>6, Zenon DEF Case!Apply, Apply

LEMMA SameInit == Case!InitialState = InitialState
BY Zenon DEF Case!InitialState, InitialState, Case!FilingPhases, FilingPhases,
             Case!Members, Members, Case!NoOpportunity, NoOpportunity

LEMMA OffersAreActions == Case!Offers \subseteq Action
<1>1. \A e \in EvidenceIds : {e} \in SUBSET EvidenceIds
  OBVIOUS
<1> QED
  BY <1>1, RuntimeAssumption
  DEF Case!Offers, Action, Case!Parties, Parties, Case!EvidenceIds, EvidenceIds,
      Case!Members, Members, Case!Votes, Votes
-----------------------------------------------------------------------------
(* Turns and servers.                                                      *)

LEMMA ServerFacts ==
  ASSUME RuntimeTypeOK
  PROVE  MyServer \in Servers /\ \A role : ServerOf(role) \in Servers
BY DEF RuntimeTypeOK, MainState, MyServer, ServerOf, Servers, APIs

LEMMA MyTurnFacts ==
  ASSUME RuntimeTypeOK, OneTurnOpen, InTurn
  PROVE  /\ MyServer \in Servers /\ MyTurn \in Turn /\ MyTurn # NoTurn
         /\ MyTurn.done \in {"empty", "ok", "err"} /\ MyTurn.completed \in BOOLEAN
         /\ MyTurn.opp \in Opportunity /\ MyTurnActive
<1>1. MyServer \in Servers /\ MyTurn # NoTurn /\ MyTurnActive
  BY ServerFacts DEF OneTurnOpen, MyTurn, MyTurnActive
<1>2. MyTurn \in Turn
  BY <1>1 DEF RuntimeTypeOK, MyTurn
<1> HIDE DEF MyTurn, MyTurnActive
<1> QED BY <1>1, <1>2 DEF Turn

LEMMA CompletedFacts ==
  ASSUME NEW t \in Turn, NEW verdict \in {"ok", "err"}
  PROVE  LET c == Completed(t, verdict) IN
         /\ c \in Turn /\ c.completed
         /\ c.number = t.number /\ c.opp = t.opp /\ c.version = t.version
         /\ c.attempts = t.attempts
         /\ c.done = IF t.completed THEN t.done ELSE verdict
BY DEF Completed, Turn

LEMMA NewVersionFacts ==
  ASSUME NEW t \in Turn
  PROVE  LET c == AtNewVersion(t) IN
         /\ c \in Turn /\ c.completed = t.completed /\ c.done = t.done
         /\ c.number = t.number /\ c.opp = t.opp /\ c.version = t.version + 1
         /\ c.attempts = t.attempts
BY DEF AtNewVersion, Turn

LEMMA NoTurnIsNoTurn == NoTurn \notin Turn
BY DEF NoTurn, Turn

-----------------------------------------------------------------------------
(* Steps that leave the record alone.                                      *)

\* The conjuncts about the record survive whatever else happens.
LEMMA RecordKept ==
  ASSUME RuntimeInv, UNCHANGED record
  PROVE  /\ RegistryAgrees' /\ Resolved' = Resolved
         /\ state' \in State
         /\ submitted' \in Seq([id : EvidenceIds, role : Parties])
         /\ cert' \in Seq([authority : Authority, action : Action])
BY DEF RuntimeInv, RuntimeTypeOK, RegistryAgrees, Resolved, Resolving, record

\* The run loop moves on within its turn.
LEMMA MoveInTurn ==
  ASSUME RuntimeInv, InTurn,
         NEW q \in {"wait", "timeout", "clear", "clear_err"},
         main' = [main EXCEPT !.at = q],
         q = "clear" => MyTurn.done = "ok",
         q = "clear_err" => fault \/ clock.cancelled,
         q = "timeout" => clock.expired,
         UNCHANGED <<record, active, lock, clock, fault, asleep>>
  PROVE  RuntimeInv'
<1>0. /\ main' \in MainState /\ main'.at = q /\ main'.turn = main.turn
      /\ main'.backend = main.backend /\ main'.authority = main.authority
  BY DEF RuntimeInv, RuntimeTypeOK, MainState, Places
<1>1. /\ MyServer' = MyServer /\ InTurn' /\ MyTurn' = MyTurn /\ OpenTurn' = OpenTurn
      /\ \A role : ServerOf(role)' = ServerOf(role)
  BY <1>0 DEF MyServer, ServerOf, InTurn, MyTurn, OpenTurn
<1>2. RuntimeTypeOK'
  BY <1>0, <1>1, RecordKept DEF RuntimeInv, RuntimeTypeOK
<1>3. OneTurnOpen'
  BY <1>0, <1>1 DEF RuntimeInv, OneTurnOpen
<1>4. TurnIsCurrent'
  BY <1>0, <1>1 DEF RuntimeInv, TurnIsCurrent, TurnAuthority, record
<1>5. LockServesTurn'
  BY <1>0, <1>1 DEF RuntimeInv, LockServesTurn, TurnAuthority, record
<1>6. ErrorsExplained'
  BY <1>0, <1>1 DEF RuntimeInv, ErrorsExplained
<1>7. TurnsCounted'
  BY <1>0, <1>1, RecordKept DEF RuntimeInv, TurnsCounted
<1> QED BY <1>2, <1>3, <1>4, <1>5, <1>6, <1>7, RecordKept DEF RuntimeInv

\* A deadline passes or the case is cancelled.
LEMMA ClockMoves ==
  ASSUME RuntimeInv, clock' \in [expired : BOOLEAN, cancelled : BOOLEAN],
         clock.expired => clock'.expired, clock.cancelled => clock'.cancelled,
         UNCHANGED <<record, active, lock, main, fault, asleep>>
  PROVE  RuntimeInv'
<1>1. /\ MyServer' = MyServer /\ InTurn' = InTurn /\ MyTurn' = MyTurn /\ OpenTurn' = OpenTurn
      /\ \A role : ServerOf(role)' = ServerOf(role)
  BY DEF MyServer, ServerOf, InTurn, MyTurn, OpenTurn
<1>2. RuntimeTypeOK'
  BY <1>1, RecordKept DEF RuntimeInv, RuntimeTypeOK
<1>3. OneTurnOpen' /\ TurnIsCurrent'
  BY <1>1 DEF RuntimeInv, OneTurnOpen, TurnIsCurrent, TurnAuthority, record
<1>4. LockServesTurn'
  BY <1>1 DEF RuntimeInv, LockServesTurn, TurnAuthority, record
<1>5. ErrorsExplained'
  BY <1>1 DEF RuntimeInv, ErrorsExplained
<1>6. TurnsCounted'
  BY <1>1, RecordKept DEF RuntimeInv, TurnsCounted
<1> QED BY <1>2, <1>3, <1>4, <1>5, <1>6, RecordKept DEF RuntimeInv

\* Clients go to sleep and stop waiting.
LEMMA SleepersMove ==
  ASSUME RuntimeInv, \A w \in asleep' : ServerOf(w.client.role) \in APIs,
         UNCHANGED <<record, active, lock, main, clock, fault>>
  PROVE  RuntimeInv'
<1>1. /\ MyServer' = MyServer /\ InTurn' = InTurn /\ MyTurn' = MyTurn /\ OpenTurn' = OpenTurn
      /\ \A role : ServerOf(role)' = ServerOf(role)
  BY DEF MyServer, ServerOf, InTurn, MyTurn, OpenTurn
<1>2. RuntimeTypeOK'
  BY <1>1, RecordKept DEF RuntimeInv, RuntimeTypeOK
<1>3. OneTurnOpen' /\ TurnIsCurrent'
  BY <1>1 DEF RuntimeInv, OneTurnOpen, TurnIsCurrent, TurnAuthority, record
<1>4. LockServesTurn' /\ ErrorsExplained'
  BY <1>1 DEF RuntimeInv, LockServesTurn, ErrorsExplained, TurnAuthority, record
<1>5. TurnsCounted'
  BY <1>1, RecordKept DEF RuntimeInv, TurnsCounted
<1> QED BY <1>2, <1>3, <1>4, <1>5, RecordKept DEF RuntimeInv

\* A handler, the timer or the run loop takes the lock with an action the
\* engine accepts on the open turn's authority.
LEMMA LockTaken ==
  ASSUME RuntimeInv, lock = Free, OpenTurn,
         NEW req \in Opportunity \cup {NoOpportunity}, NEW a \in Case!Offers, a \in Action,
         Accepts(state, TurnAuthority(MyTurn), a),
         a.type # "fail" => req = MyTurn.opp,
         a = DeadlineFailure /\ main.backend = "council" => clock.expired,
         lock' = Call(MyServer, req, a),
         UNCHANGED <<record, main, clock, fault, asleep>>,
         NEW n \in 0 .. InvalidAttemptLimit,
         active' \in {active, [active EXCEPT ![MyServer].attempts = n]},
         a.type # "fail" => active' = active
  PROVE  RuntimeInv'
<1>0. lock' \in LockedCall /\ lock'.server = MyServer /\ lock'.req = req /\ lock'.act = a
      /\ ~lock'.spoiled /\ lock' # Free
  BY ServerFacts DEF Call, LockedCall, Free, RuntimeInv, Servers, APIs
<1>1. /\ MyServer' = MyServer /\ InTurn' = InTurn
      /\ \A role : ServerOf(role)' = ServerOf(role)
  BY DEF MyServer, ServerOf, InTurn
<1>2. MyServer \in Servers /\ MyTurn \in Turn
  BY MyTurnFacts DEF RuntimeInv, OpenTurn
<1>3. /\ active' \in [Servers -> Turn \cup {NoTurn}]
      /\ MyTurn' \in Turn
      /\ \A sv \in Servers \ {MyServer} : active'[sv] = active[sv]
      /\ MyTurn'.number = MyTurn.number /\ MyTurn'.opp = MyTurn.opp
      /\ MyTurn'.version = MyTurn.version
      /\ MyTurn'.completed = MyTurn.completed /\ MyTurn'.done = MyTurn.done
  <2> DEFINE t == [MyTurn EXCEPT !.attempts = n]
  <2>1. /\ t \in Turn /\ t.number = MyTurn.number /\ t.opp = MyTurn.opp
        /\ t.version = MyTurn.version /\ t.completed = MyTurn.completed /\ t.done = MyTurn.done
    BY <1>2 DEF Turn
  <2>2. active' \in {active, [active EXCEPT ![MyServer] = t]}
    BY DEF MyTurn
  <2>3. active \in [Servers -> Turn \cup {NoTurn}]
    BY DEF RuntimeInv, RuntimeTypeOK
  <2>4. MyTurn' = active'[MyServer]
    BY <1>1 DEF MyTurn
  <2> HIDE DEF t
  <2> QED BY <1>2, <2>1, <2>2, <2>3, <2>4 DEF MyTurn
<1>4. MyTurn # NoTurn /\ MyTurn' # NoTurn
  BY <1>2, <1>3, NoTurnIsNoTurn
<1>5. RuntimeTypeOK'
  BY <1>0, <1>1, <1>3, RecordKept DEF RuntimeInv, RuntimeTypeOK
<1>6. OneTurnOpen'
  <2>1. \A sv \in Servers : active'[sv] # NoTurn <=> InTurn /\ sv = MyServer
    BY <1>1, <1>2, <1>3, <1>4 DEF RuntimeInv, OneTurnOpen, OpenTurn, MyTurn
  <2> QED BY <2>1, <1>1, <1>3 DEF RuntimeInv, OneTurnOpen
<1>7. TurnIsCurrent'
  <2>1. a.type # "fail" => MyTurn' = MyTurn
    BY <1>1 DEF MyTurn
  <2> QED BY <2>1, <1>0, <1>1, <1>3 DEF RuntimeInv, TurnIsCurrent, TurnAuthority, OpenTurn, record
<1>8. LockServesTurn'
  BY <1>0, <1>1, <1>3 DEF RuntimeInv, LockServesTurn, TurnAuthority, OpenTurn, record
<1>9. ErrorsExplained'
  BY <1>0, <1>1, <1>3 DEF RuntimeInv, ErrorsExplained, OpenTurn
<1>10. TurnsCounted'
  BY <1>1, <1>3, RecordKept DEF RuntimeInv, TurnsCounted, OpenTurn
<1> QED BY <1>5, <1>6, <1>7, <1>8, <1>9, <1>10, RecordKept DEF RuntimeInv
-----------------------------------------------------------------------------
(* What the runtime sends, the engine accepts.                             *)

LEMMA OpenTurnFacts ==
  ASSUME RuntimeInv, OpenTurn
  PROVE  /\ state \in State /\ NextOpportunity(state) # NoOpportunity
         /\ ~Terminal(state)
         /\ MyTurn.opp = NextOpportunity(state) /\ main.authority.opp = MyTurn.opp
         /\ Authorized(state, TurnAuthority(MyTurn))
<1>1. /\ state \in State /\ NextOpportunity(state) # NoOpportunity
      /\ TurnAuthority(MyTurn) = CurrentAuthority(state) /\ main.authority.opp = MyTurn.opp
  BY DEF RuntimeInv, RuntimeTypeOK, TurnIsCurrent, OneTurnOpen, OpenTurn
<1>2. MyTurn.opp = NextOpportunity(state)
  BY <1>1 DEF TurnAuthority, CurrentAuthority
<1> QED BY <1>1, <1>2, OpportunityFacts DEF Authorized

\* fail_opportunity is accepted from anybody who holds the open authority.
LEMMA FailureAccepted ==
  ASSUME RuntimeInv, OpenTurn, NEW reason \in FailureReasons
  PROVE  LET a == [type |-> "fail", reason |-> reason] IN
         /\ a \in Case!Offers /\ a \in Action /\ a.type = "fail"
         /\ Accepts(state, TurnAuthority(MyTurn), a)
<1> DEFINE a == [type |-> "fail", reason |-> reason]
<1>1. a \in Case!Offers /\ a \in Action /\ a.type = "fail"
  BY DEF Case!Offers, Action
<1>2. Accepts(state, TurnAuthority(MyTurn), a)
  BY <1>1, OpenTurnFacts, Zenon DEF Accepts
<1> QED BY <1>1, <1>2

LEMMA VoteAccepted ==
  ASSUME RuntimeInv, OpenTurn, MyTurn.opp.role = "council", NEW v \in Votes
  PROVE  LET a == [type |-> "vote", member |-> MyTurn.opp.member, vote |-> v] IN
         /\ a \in Case!Offers /\ a \in Action
         /\ Accepts(state, TurnAuthority(MyTurn), a)
<1> DEFINE opp == MyTurn.opp
           a   == [type |-> "vote", member |-> opp.member, vote |-> v]
<1>1. opp = NextOpportunity(state) /\ state \in State
  BY OpenTurnFacts
<1>2. state.phase = "deliberation" /\ opp.member \in Pending(state) /\ opp.member \in Members
  BY <1>1, OpenTurnFacts, OpportunityFacts DEF Parties
<1>3. CanVote(state, opp.member)
  BY <1>1, <1>2 DEF CanVote, Pending
<1> HIDE DEF opp
<1>4. a \in Case!Offers /\ a \in Action /\ a.type = "vote" /\ a.member = opp.member
  BY <1>2 DEF Case!Offers, Action, Members, Case!Members, Votes, Case!Votes
<1> HIDE DEF a
<1>5. Accepts(state, TurnAuthority(MyTurn), a)
  BY <1>3, <1>4, OpenTurnFacts, Zenon DEF Accepts
<1> QED BY <1>4, <1>5 DEF a, opp

LEMMA CountType ==
  ASSUME NEW S, NEW items \in Seq(S), NEW r
  PROVE  CountForRole(items, r) \in Nat
<1> DEFINE I == {i \in DOMAIN items : items[i].role = r}
<1>1. I \subseteq 1 .. Len(items) /\ Len(items) \in Nat
  OBVIOUS
<1>2. CountForRole(items, r) = Cardinality(I)
  BY DEF CountForRole
<1> HIDE DEF I
<1>3. IsFiniteSet(1 .. Len(items))
  BY <1>1, FS_Interval
<1>4. IsFiniteSet(I)
  BY <1>1, <1>3, FS_Subset
<1> QED BY <1>2, <1>4, FS_CardinalityType

LEMMA RegistryFacts ==
  ASSUME RuntimeInv
  PROVE  /\ Registered = KnownEvidence(state)
         /\ \A r : CountForRole(submitted, r) = CountForRole(state.submitted, r)
<1>1. /\ DOMAIN submitted = DOMAIN state.submitted
      /\ \A i \in DOMAIN submitted :
           submitted[i].id = state.submitted[i].id /\ submitted[i].role = state.submitted[i].role
  <2>1. submitted \in Seq([id : EvidenceIds, role : Parties]) /\ state.submitted \in Seq(SubmittedEvidence)
    BY DEF RuntimeInv, RuntimeTypeOK, State
  <2>2. DOMAIN submitted = 1 .. Len(submitted) /\ DOMAIN state.submitted = 1 .. Len(state.submitted)
    BY <2>1
  <2> QED BY <2>2 DEF RuntimeInv, RegistryAgrees
<1>2. Registered = KnownEvidence(state)
  BY <1>1 DEF Registered, KnownEvidence
<1>3. ASSUME NEW r
      PROVE  {i \in DOMAIN submitted : submitted[i].role = r}
               = {i \in DOMAIN state.submitted : state.submitted[i].role = r}
  BY <1>1
<1> QED BY <1>2, <1>3 DEF CountForRole

\* Whatever the runtime lets through of a party's or a member's answer is
\* accepted by the engine: a client's mistake costs an attempt, never the run.
LEMMA AnswerAccepted ==
  ASSUME RuntimeInv, OpenTurn, NEW a \in Answers(MyTurn.opp), Prevalidated(MyTurn.opp, a)
  PROVE  /\ a \in Case!Offers /\ a \in Action
         /\ Accepts(state, TurnAuthority(MyTurn), a)
<1> DEFINE opp == MyTurn.opp
<1>0. opp = NextOpportunity(state) /\ state \in State /\ opp.phase = state.phase
  BY OpenTurnFacts, OpportunityFacts
<1>1. CASE opp.role = "council"
  <2>1. a = [type |-> "vote", member |-> opp.member, vote |-> a.vote] /\ a.vote \in Votes
    BY <1>1 DEF Answers
  <2> QED BY <1>1, <2>1, VoteAccepted
<1>2. CASE opp.role # "council"
  <2>1. /\ opp.role \in Parties /\ state.phase \in FilingPhases
        /\ state.phase \in {"rebuttals", "surrebuttals"} => state.filings[state.phase] = <<>>
    BY <1>0, <1>2, OpenTurnFacts, OpportunityFacts
  <2> DEFINE parents == {{}} \cup {{e} : e \in EvidenceIds}
  <2>2. \/ /\ a.type = "file" /\ a.role = opp.role /\ a.exhibits \in ExhibitLists
           /\ a = [type |-> "file", role |-> a.role, exhibits |-> a.exhibits]
        \/ a.type = "pass" /\ a.role = opp.role /\ a = [type |-> "pass", role |-> a.role]
        \/ /\ a.type = "evidence" /\ a.role = opp.role /\ a.id \in NewEvidence /\ a.parent \in parents
           /\ a = [type |-> "evidence", role |-> a.role, id |-> a.id, parent |-> a.parent]
    BY <1>2 DEF Answers
  <2>3. a \in Case!Offers /\ Case!Offers \subseteq Action
    BY <2>1, <2>2, OffersAreActions DEF Case!Offers, Parties, Case!Parties, EvidenceIds, Case!EvidenceIds
  <2>4. CASE a.type = "file"
    <3>1. CanFile(state, a.role, a.exhibits)
      BY <1>0, <2>1, <2>2, <2>4, RegistryFacts DEF Prevalidated, CanFile
    <3> QED BY <2>3, <2>4, <3>1, OpenTurnFacts, Zenon DEF Accepts
  <2>5. CASE a.type = "pass"
    <3>1. CanPass(state, a.role)
      BY <1>0, <2>1, <2>2, <2>5 DEF Prevalidated, CanPass
    <3> QED BY <2>3, <2>5, <3>1, OpenTurnFacts, Zenon DEF Accepts
  <2>6. CASE a.type = "evidence"
    <3>1. Cardinality(a.parent) <= 1
      <4>1. a.parent = {} \/ \E e : a.parent = {e}
        BY <2>2, <2>6
      <4>2. Cardinality(a.parent) = 0 \/ Cardinality(a.parent) = 1
        BY <4>1, FS_EmptySet, FS_Singleton
      <4> QED BY <4>2
    <3>2. CountForRole(state.submitted, opp.role) + 1 <= MaxEvidencePerSide
      <4>1. CountForRole(state.submitted, opp.role) < MaxEvidencePerSide
        BY <2>6, RegistryFacts DEF Prevalidated
      <4>2. CountForRole(state.submitted, opp.role) \in Nat
        BY <1>0, CountType DEF State
      <4> QED BY <4>1, <4>2, PolicyAssumption
    <3>3. /\ state.phase \in EvidencePhases /\ a.role = NextOpportunity(state).role
          /\ a.id \in EvidenceIds \ KnownEvidence(state) /\ a.parent \subseteq KnownEvidence(state)
      BY <1>0, <2>2, <2>6, RegistryFacts DEF Prevalidated, EvidenceIds
    <3>4. CanSubmitEvidence(state, a.role, a.id, a.parent)
      BY <2>2, <2>6, <3>1, <3>2, <3>3 DEF CanSubmitEvidence
    <3> QED BY <2>3, <2>6, <3>4, OpenTurnFacts, Zenon DEF Accepts
  <2> QED BY <2>2, <2>4, <2>5, <2>6
<1> QED BY <1>1, <1>2
-----------------------------------------------------------------------------
(* The turn's own life: opened, spent, ended and cleared.                  *)

\* A new value for the turn of the run loop and nothing else on the servers.
LEMMA TurnReplaced ==
  ASSUME RuntimeInv, NEW t \in Turn, active' = [active EXCEPT ![MyServer] = t],
         UNCHANGED <<main.backend, main.authority>>
  PROVE  /\ MyServer' = MyServer /\ MyServer \in Servers
         /\ \A role : ServerOf(role)' = ServerOf(role)
         /\ MyTurn' = t /\ t # NoTurn
         /\ active' \in [Servers -> Turn \cup {NoTurn}]
         /\ \A sv \in Servers \ {MyServer} : active'[sv] = active[sv]
<1>1. MyServer' = MyServer /\ \A role : ServerOf(role)' = ServerOf(role)
  BY DEF MyServer, ServerOf
<1>2. MyServer \in Servers /\ active \in [Servers -> Turn \cup {NoTurn}]
  BY ServerFacts DEF RuntimeInv, RuntimeTypeOK
<1> QED BY <1>1, <1>2, NoTurnIsNoTurn DEF MyTurn

\* An attempt is spent and others are left.
LEMMA AttemptSpent ==
  ASSUME RuntimeInv, OpenTurn, lock = Free, MyTurn.attempts # 1,
         active' = [active EXCEPT ![MyServer].attempts = @ - 1],
         asleep' \subseteq asleep,
         UNCHANGED <<record, lock, main, clock, fault>>
  PROVE  RuntimeInv'
<1> DEFINE t == [MyTurn EXCEPT !.attempts = @ - 1]
<1>1. /\ t \in Turn /\ t.number = MyTurn.number /\ t.opp = MyTurn.opp
      /\ t.version = MyTurn.version /\ t.completed = MyTurn.completed /\ t.done = MyTurn.done
      /\ t.attempts >= 1
  <2>1. MyTurn \in Turn
    BY MyTurnFacts DEF RuntimeInv, OpenTurn
  <2>2. MyTurn.attempts >= 1
    BY DEF RuntimeInv, TurnIsCurrent
  <2> HIDE DEF MyTurn
  <2> QED BY <2>1, <2>2, RuntimeAssumption DEF Turn
<1>2. active' = [active EXCEPT ![MyServer] = t]
  BY DEF MyTurn
<1> HIDE DEF t
<1>3. /\ MyServer' = MyServer /\ MyServer \in Servers /\ MyTurn' = t /\ t # NoTurn
      /\ \A role : ServerOf(role)' = ServerOf(role)
      /\ active' \in [Servers -> Turn \cup {NoTurn}]
      /\ \A sv \in Servers \ {MyServer} : active'[sv] = active[sv]
  BY <1>1, <1>2, TurnReplaced
<1>4. InTurn' /\ OpenTurn'
  BY <1>1, <1>3 DEF OpenTurn, InTurn
<1>5. RuntimeTypeOK'
  BY <1>3, RecordKept DEF RuntimeInv, RuntimeTypeOK
<1>6. OneTurnOpen'
  <2>1. \A sv \in Servers : active'[sv] # NoTurn <=> InTurn /\ sv = MyServer
    BY <1>3, <1>4 DEF RuntimeInv, OneTurnOpen, OpenTurn, MyTurn
  <2> QED BY <2>1, <1>1, <1>3, <1>4 DEF RuntimeInv, OneTurnOpen, OpenTurn
<1>7. TurnIsCurrent'
  BY <1>1, <1>3, <1>4 DEF RuntimeInv, TurnIsCurrent, TurnAuthority, record
<1>8. LockServesTurn' /\ ErrorsExplained'
  BY <1>1, <1>3, <1>4 DEF RuntimeInv, LockServesTurn, ErrorsExplained, OpenTurn
<1>9. TurnsCounted'
  BY <1>1, <1>3, <1>4, RecordKept DEF RuntimeInv, TurnsCounted, OpenTurn, InTurn
<1> QED BY <1>5, <1>6, <1>7, <1>8, <1>9, RecordKept DEF RuntimeInv

\* The turn ends in an error, and the lock with it.
LEMMA TurnEndsInError ==
  ASSUME RuntimeInv, OpenTurn,
         active' = [active EXCEPT ![MyServer] = Completed(@, "err")],
         lock' = Free, fault' \in BOOLEAN, fault => fault', fault' \/ clock.cancelled,
         asleep' \subseteq asleep,
         UNCHANGED <<record, main, clock>>
  PROVE  RuntimeInv'
<1> DEFINE t == Completed(MyTurn, "err")
<1>1. /\ t \in Turn /\ t.number = MyTurn.number /\ t.opp = MyTurn.opp
      /\ t.completed /\ t.done = "err"
  <2>1. MyTurn \in Turn /\ ~MyTurn.completed
    BY MyTurnFacts DEF RuntimeInv, OpenTurn
  <2> HIDE DEF MyTurn
  <2> QED BY <2>1, CompletedFacts
<1>2. active' = [active EXCEPT ![MyServer] = t]
  BY DEF MyTurn
<1> HIDE DEF t
<1>3. /\ MyServer' = MyServer /\ MyServer \in Servers /\ MyTurn' = t /\ t # NoTurn
      /\ \A role : ServerOf(role)' = ServerOf(role)
      /\ active' \in [Servers -> Turn \cup {NoTurn}]
      /\ \A sv \in Servers \ {MyServer} : active'[sv] = active[sv]
  BY <1>1, <1>2, TurnReplaced
<1>4. InTurn /\ InTurn' /\ ~OpenTurn'
  BY <1>1, <1>3 DEF OpenTurn, InTurn
<1>5. RuntimeTypeOK'
  BY <1>3, RecordKept DEF RuntimeInv, RuntimeTypeOK
<1>6. OneTurnOpen'
  <2>1. \A sv \in Servers : active'[sv] # NoTurn <=> InTurn /\ sv = MyServer
    BY <1>3, <1>4 DEF RuntimeInv, OneTurnOpen, MyTurn
  <2> QED BY <2>1, <1>1, <1>3, <1>4 DEF RuntimeInv, OneTurnOpen
<1>7. TurnIsCurrent' /\ LockServesTurn'
  BY <1>1, <1>3, <1>4 DEF RuntimeInv, TurnIsCurrent, LockServesTurn, InTurn, record
<1>8. ErrorsExplained'
  <2>1. main.at # "clear"
    BY <1>4 DEF RuntimeInv, ErrorsExplained, OneTurnOpen, OpenTurn
  <2> QED BY <2>1, <1>1, <1>3, <1>4 DEF RuntimeInv, ErrorsExplained
<1>9. TurnsCounted'
  BY <1>1, <1>3, <1>4, RecordKept DEF RuntimeInv, TurnsCounted, InTurn
<1> QED BY <1>5, <1>6, <1>7, <1>8, <1>9, RecordKept DEF RuntimeInv

\* The answer came too late: the deadline's failure takes its place.
LEMMA LateKeeps ==
  ASSUME RuntimeInv, NEW spoiled \in BOOLEAN, Late(spoiled)
  PROVE  RuntimeInv'
<1>1. /\ lock \in LockedCall /\ clock.expired /\ lock # Free
      /\ lock' = [lock EXCEPT !.act = DeadlineFailure, !.spoiled = spoiled]
      /\ fault' = (fault \/ spoiled)
      /\ UNCHANGED <<record, active, main, clock, asleep>>
  BY DEF RuntimeInv, RuntimeTypeOK, Late, Timely
<1>2. LET a == DeadlineFailure IN
      /\ a \in Case!Offers /\ a \in Action /\ a.type = "fail"
      /\ Accepts(state, TurnAuthority(MyTurn), a)
  BY <1>1, FailureAccepted, RuntimeAssumption DEF RuntimeInv, LockServesTurn, DeadlineFailure
<1>3. /\ lock' \in LockedCall /\ lock' # Free
      /\ lock'.server = lock.server /\ lock'.act = DeadlineFailure /\ lock'.spoiled = spoiled
  BY <1>1, <1>2 DEF LockedCall, Free
<1>4. /\ MyServer' = MyServer /\ InTurn' = InTurn /\ MyTurn' = MyTurn /\ OpenTurn' = OpenTurn
      /\ \A role : ServerOf(role)' = ServerOf(role)
  BY <1>1 DEF MyServer, ServerOf, InTurn, MyTurn, OpenTurn
<1>5. RuntimeTypeOK'
  BY <1>1, <1>3, <1>4, RecordKept DEF RuntimeInv, RuntimeTypeOK
<1>6. OneTurnOpen' /\ TurnIsCurrent'
  BY <1>1, <1>2, <1>3, <1>4 DEF RuntimeInv, OneTurnOpen, TurnIsCurrent, TurnAuthority, record
<1>7. LockServesTurn'
  BY <1>1, <1>2, <1>3, <1>4 DEF RuntimeInv, LockServesTurn, TurnAuthority, record
<1>8. ErrorsExplained'
  BY <1>1, <1>3, <1>4 DEF RuntimeInv, ErrorsExplained
<1>9. TurnsCounted'
  BY <1>1, <1>4, RecordKept DEF RuntimeInv, TurnsCounted
<1> QED BY <1>1, <1>5, <1>6, <1>7, <1>8, <1>9, RecordKept DEF RuntimeInv
-----------------------------------------------------------------------------
(* The run loop between turns.                                             *)

\* Out of a turn no server has one and nobody holds the lock.
LEMMA BetweenTurns ==
  ASSUME RuntimeInv, ~InTurn
  PROVE  lock = Free /\ \A sv \in Servers : active[sv] = NoTurn
BY DEF RuntimeInv, OneTurnOpen, LockServesTurn, OpenTurn

LEMMA AskNextKeeps == RuntimeInv /\ AskNext => RuntimeInv'
<1> SUFFICES ASSUME RuntimeInv, AskNext PROVE RuntimeInv'
  OBVIOUS
<1>0. main.at = "next" /\ ~InTurn /\ lock = Free /\ Resolved = main.turn
      /\ \A sv \in Servers : active[sv] = NoTurn
  BY BetweenTurns DEF AskNext, InTurn, RuntimeInv, TurnsCounted
<1>1. /\ main' \in MainState /\ main'.backend = main.backend /\ ~InTurn' /\ fault' \in BOOLEAN
      /\ main'.at \in {"done", "start", "failed"}
      /\ main'.at # "start" => main'.turn = main.turn
      /\ main'.at = "start" => /\ main'.turn = main.turn + 1 /\ main'.authority = CurrentAuthority(state)
                               /\ NextOpportunity(state) # NoOpportunity
      /\ main'.at = "failed" => fault' \/ clock.cancelled
      /\ UNCHANGED <<record, lock, clock>>
  <2>1. CurrentAuthority(state) \in [opp : Opportunity \cup {NoOpportunity}, version : Nat]
    BY NextOpportunityType DEF RuntimeInv, RuntimeTypeOK, CurrentAuthority, State
  <2>2. main \in MainState /\ fault \in BOOLEAN
    BY DEF RuntimeInv, RuntimeTypeOK
  <2>3. /\ \/ main' = [main EXCEPT !.at = "done"] /\ fault' = fault
           \/ /\ main' = [main EXCEPT !.at = "start", !.turn = @ + 1,
                                        !.authority = CurrentAuthority(state)]
              /\ NextOpportunity(state) # NoOpportunity /\ fault' = fault
           \/ main' = [main EXCEPT !.at = "failed"] /\ fault' = (fault \/ ~clock.cancelled)
        /\ UNCHANGED <<record, lock, clock>>
    BY DEF AskNext
  <2> DEFINE auth == CurrentAuthority(state)
  <2> HIDE DEF RuntimeInv, auth
  <2>4. CASE main' = [main EXCEPT !.at = "done"] /\ fault' = fault
    BY <2>2, <2>3, <2>4 DEF MainState, Places, InTurn
  <2>5. CASE /\ main' = [main EXCEPT !.at = "start", !.turn = @ + 1, !.authority = auth]
             /\ NextOpportunity(state) # NoOpportunity /\ fault' = fault
    <3> DEFINE n == main.turn + 1
    <3>1. n \in Nat
      BY <2>2 DEF MainState
    <3>2. auth \in [opp : Opportunity \cup {NoOpportunity}, version : Nat]
      BY <2>1 DEF auth
    <3>3. main' = [main EXCEPT !.at = "start", !.turn = n, !.authority = auth]
      BY <2>5
    <3> HIDE DEF n
    <3>4. /\ main'.backend = main.backend /\ main'.at = "start"
          /\ main'.turn = n /\ main'.authority = auth
      BY <2>2, <3>3 DEF MainState
    <3>5. main' \in MainState
      BY <2>2, <3>1, <3>2, <3>3 DEF MainState, Places
    <3> QED BY <3>4, <3>5, <2>2, <2>3, <2>5 DEF InTurn, auth, n
  <2>6. CASE main' = [main EXCEPT !.at = "failed"] /\ fault' = (fault \/ ~clock.cancelled)
    <3>1. /\ main' \in MainState /\ main'.backend = main.backend /\ main'.at = "failed"
          /\ main'.turn = main.turn
      BY <2>2, <2>6 DEF MainState, Places
    <3>2. fault' \in BOOLEAN /\ (fault' \/ clock.cancelled)
      BY <2>2, <2>6
    <3> QED BY <3>1, <3>2, <2>3 DEF InTurn
  <2> QED BY <2>3, <2>4, <2>5, <2>6 DEF auth
<1>2. /\ active' = active
      /\ asleep' \subseteq asleep
  <2>1. \A sv \in APIs : sv \in Servers
    BY DEF Servers
  <2>2. active' \in {active, [active EXCEPT !["lawyer"] = NoTurn, !["council"] = NoTurn]}
        /\ asleep' \subseteq asleep
    BY DEF AskNext, Ring
  <2>3. active \in [Servers -> Turn \cup {NoTurn}]
    BY DEF RuntimeInv, RuntimeTypeOK
  <2> QED BY <1>0, <2>2, <2>3 DEF Servers, APIs
<1>3. \A role : ServerOf(role)' = ServerOf(role)
  BY <1>1 DEF ServerOf
<1>4. RuntimeTypeOK'
  BY <1>1, <1>2, <1>3, RecordKept DEF RuntimeInv, RuntimeTypeOK
<1>5. OneTurnOpen'
  BY <1>0, <1>1, <1>2 DEF OneTurnOpen
<1>6. TurnIsCurrent' /\ LockServesTurn'
  BY <1>0, <1>1 DEF TurnIsCurrent, LockServesTurn, OpenTurn, record
<1>7. ErrorsExplained'
  BY <1>0, <1>1 DEF ErrorsExplained, InTurn
<1>8. TurnsCounted'
  <2>1. main.turn \in Nat
    BY DEF RuntimeInv, RuntimeTypeOK, MainState
  <2> QED BY <2>1, <1>0, <1>1, RecordKept DEF TurnsCounted, OpenTurn
<1> QED BY <1>1, <1>4, <1>5, <1>6, <1>7, <1>8, RecordKept DEF RuntimeInv

LEMMA StartTurnKeeps == RuntimeInv /\ StartTurn => RuntimeInv'
<1> SUFFICES ASSUME RuntimeInv, StartTurn PROVE RuntimeInv'
  OBVIOUS
<1>0. /\ main.at = "start" /\ ~InTurn /\ lock = Free /\ Resolved + 1 = main.turn
      /\ main.authority = CurrentAuthority(state) /\ NextOpportunity(state) # NoOpportunity
      /\ MyServer \in Servers /\ \A sv \in Servers : active[sv] = NoTurn
      /\ ~Open(MyServer)
  BY BetweenTurns, ServerFacts
  DEF StartTurn, InTurn, RuntimeInv, TurnsCounted, TurnIsCurrent, Open
<1>1. ASSUME NEW q \in Places, main' = [main EXCEPT !.at = q]
      PROVE  /\ main' \in MainState /\ main'.at = q /\ main'.turn = main.turn
             /\ main'.backend = main.backend /\ main'.authority = main.authority
             /\ MyServer' = MyServer /\ \A role : ServerOf(role)' = ServerOf(role)
  BY <1>1 DEF RuntimeInv, RuntimeTypeOK, MainState, MyServer, ServerOf
<1>2. CASE main' = [main EXCEPT !.at = "wait"]
  <2> DEFINE t == [number |-> main.turn, opp |-> main.authority.opp,
                   version |-> main.authority.version, attempts |-> InvalidAttemptLimit,
                   completed |-> FALSE, done |-> "empty"]
  <2>1. /\ active' = [active EXCEPT ![MyServer] = t]
        /\ clock' = [clock EXCEPT !.expired = FALSE]
        /\ asleep' \subseteq asleep /\ fault' = fault
        /\ UNCHANGED <<record, lock>>
    <3>1. main'.at = "wait"
      BY <1>1, <1>2 DEF Places
    <3>2. main' # [main EXCEPT !.at = "failed"]
      BY <3>1 DEF RuntimeInv, RuntimeTypeOK, MainState
    <3> QED BY <3>2 DEF StartTurn, Ring
  <2>2. t \in Turn /\ t.attempts >= 1
    <3>1. main.turn \in Nat /\ main.authority.version \in Nat
      BY DEF RuntimeInv, RuntimeTypeOK, MainState
    <3>2. main.authority.opp \in Opportunity
      BY <1>0, OpportunityFacts DEF CurrentAuthority, RuntimeInv, RuntimeTypeOK
    <3> QED BY <3>1, <3>2, RuntimeAssumption DEF Turn
  <2>3. t.number = main.turn /\ t.opp = main.authority.opp /\ t.version = main.authority.version
        /\ ~t.completed /\ t.done = "empty"
    OBVIOUS
  <2> HIDE DEF t
  <2>4. /\ main' \in MainState /\ main'.at = "wait" /\ main'.turn = main.turn
        /\ main'.backend = main.backend /\ main'.authority = main.authority
    BY <1>1, <1>2 DEF Places
  <2>5. /\ MyServer' = MyServer /\ MyServer \in Servers /\ MyTurn' = t /\ t # NoTurn
        /\ \A role : ServerOf(role)' = ServerOf(role)
        /\ active' \in [Servers -> Turn \cup {NoTurn}]
        /\ \A sv \in Servers \ {MyServer} : active'[sv] = active[sv]
    BY <2>1, <2>2, <2>4, TurnReplaced
  <2>6. InTurn' /\ OpenTurn'
    BY <2>3, <2>4, <2>5 DEF InTurn, OpenTurn
  <2>7. clock' \in [expired : BOOLEAN, cancelled : BOOLEAN]
    BY <2>1 DEF RuntimeInv, RuntimeTypeOK
  <2>8. RuntimeTypeOK'
    BY <2>1, <2>4, <2>5, <2>7, RecordKept DEF RuntimeInv, RuntimeTypeOK
  <2>9. OneTurnOpen'
    <3>1. \A sv \in Servers : active'[sv] # NoTurn <=> sv = MyServer
      BY <1>0, <2>5 DEF MyTurn
    <3> QED BY <3>1, <2>3, <2>4, <2>5, <2>6 DEF OneTurnOpen
  <2>10. TurnIsCurrent'
    <3>1. TurnAuthority(MyTurn)' = CurrentAuthority(state)
      BY <1>0, <2>3, <2>5 DEF TurnAuthority, CurrentAuthority
    <3> QED BY <1>0, <3>1, <2>1, <2>2, <2>4, <2>5 DEF TurnIsCurrent, record
  <2>11. LockServesTurn' /\ ErrorsExplained'
    BY <1>0, <2>1, <2>3, <2>4, <2>5 DEF LockServesTurn, ErrorsExplained
  <2>12. TurnsCounted'
    BY <1>0, <2>3, <2>4, <2>5, RecordKept, <2>1 DEF TurnsCounted, RuntimeInv, RuntimeTypeOK, MainState
  <2> QED BY <2>1, <2>8, <2>9, <2>10, <2>11, <2>12, RecordKept DEF RuntimeInv
<1>3. CASE main' # [main EXCEPT !.at = "wait"]
  <2>1. /\ main' = [main EXCEPT !.at = "failed"] /\ fault' = TRUE
        /\ UNCHANGED <<record, active, lock, clock, asleep>>
    BY <1>0, <1>3 DEF StartTurn
  <2>2. /\ main' \in MainState /\ main'.at = "failed" /\ main'.turn = main.turn
        /\ MyServer' = MyServer /\ ~InTurn'
        /\ \A role : ServerOf(role)' = ServerOf(role)
    BY <1>1, <2>1 DEF Places, InTurn
  <2>3. RuntimeTypeOK'
    BY <2>1, <2>2, RecordKept DEF RuntimeInv, RuntimeTypeOK
  <2>4. OneTurnOpen' /\ TurnIsCurrent' /\ LockServesTurn' /\ ErrorsExplained'
    BY <1>0, <2>1, <2>2 DEF OneTurnOpen, TurnIsCurrent, LockServesTurn, ErrorsExplained, OpenTurn
  <2>5. TurnsCounted'
    BY <1>0, <2>1, <2>2, RecordKept DEF RuntimeInv, TurnsCounted, OpenTurn
  <2> QED BY <2>1, <2>3, <2>4, <2>5, RecordKept DEF RuntimeInv
<1> QED BY <1>2, <1>3

LEMMA ClearTurnKeeps == RuntimeInv /\ ClearTurn => RuntimeInv'
<1> SUFFICES ASSUME RuntimeInv, ClearTurn PROVE RuntimeInv'
  OBVIOUS
<1>0. /\ main.at \in {"clear", "clear_err"} /\ InTurn /\ lock = Free
      /\ MyServer \in Servers /\ MyTurnActive
      /\ main' = [main EXCEPT !.at = IF main.at = "clear" THEN "next" ELSE "failed"]
      /\ UNCHANGED <<record, lock, clock, fault>>
  BY MyTurnFacts DEF ClearTurn, InTurn, RuntimeInv
<1>1. active' = [active EXCEPT ![MyServer] = NoTurn] /\ asleep' \subseteq asleep
  BY <1>0 DEF ClearTurn, Ring
<1>2. /\ main' \in MainState /\ main'.turn = main.turn /\ main'.backend = main.backend
      /\ main'.authority = main.authority /\ ~InTurn'
      /\ main'.at = IF main.at = "clear" THEN "next" ELSE "failed"
      /\ \A role : ServerOf(role)' = ServerOf(role)
  BY <1>0 DEF RuntimeInv, RuntimeTypeOK, MainState, Places, InTurn, ServerOf
<1>3. active' \in [Servers -> Turn \cup {NoTurn}] /\ \A sv \in Servers : active'[sv] = NoTurn
  BY <1>0, <1>1 DEF RuntimeInv, RuntimeTypeOK, OneTurnOpen
<1>4. RuntimeTypeOK'
  BY <1>0, <1>1, <1>2, <1>3, RecordKept DEF RuntimeInv, RuntimeTypeOK
<1>5. OneTurnOpen' /\ TurnIsCurrent' /\ LockServesTurn'
  BY <1>0, <1>2, <1>3 DEF OneTurnOpen, TurnIsCurrent, LockServesTurn, OpenTurn
<1>6. ErrorsExplained'
  BY <1>0, <1>2 DEF RuntimeInv, ErrorsExplained
<1>7. TurnsCounted'
  BY <1>0, <1>2, RecordKept DEF RuntimeInv, TurnsCounted, ErrorsExplained, OpenTurn
<1> QED BY <1>0, <1>4, <1>5, <1>6, <1>7, RecordKept DEF RuntimeInv
-----------------------------------------------------------------------------
(* The commit.                                                             *)

LEMMA ResolvingAppend ==
  ASSUME NEW S, NEW c \in Seq(S), NEW e \in S
  PROVE  /\ Cardinality(Resolving(c)) \in Nat
         /\ Cardinality(Resolving(Append(c, e))) =
              IF e.action.type = "evidence" THEN Cardinality(Resolving(c))
                                            ELSE Cardinality(Resolving(c)) + 1
<1> DEFINE d == Append(c, e)
           n == Len(c)
<1>1. /\ n \in Nat /\ DOMAIN c = 1 .. n /\ DOMAIN d = 1 .. n + 1
      /\ d[n + 1] = e /\ \A i \in 1 .. n : d[i] = c[i]
  OBVIOUS
<1>2. Resolving(c) \subseteq 1 .. n /\ n + 1 \notin Resolving(c)
  BY <1>1 DEF Resolving
<1>3. IsFiniteSet(1 .. n)
  BY <1>1, FS_Interval
<1>4. IsFiniteSet(Resolving(c))
  BY <1>2, <1>3, FS_Subset
<1>5. Resolving(d) = IF e.action.type = "evidence" THEN Resolving(c) ELSE Resolving(c) \cup {n + 1}
  <2>1. \A i : i \in 1 .. n + 1 <=> i \in 1 .. n \/ i = n + 1
    BY <1>1
  <2> HIDE DEF d, n
  <2> QED BY <1>1, <2>1 DEF Resolving
<1> HIDE DEF d, n
<1> QED BY <1>2, <1>4, <1>5, FS_AddElement, FS_CardinalityType DEF d

\* The registry follows the engine's list of submitted evidence.
LEMMA RegistryFollows ==
  ASSUME RuntimeInv, lock # Free, NEW logged, Commit(logged)
  PROVE  /\ RegistryAgrees'
         /\ submitted' \in Seq([id : EvidenceIds, role : Parties])
<1> DEFINE a == lock.act
<1>1. /\ a \in Action /\ state \in State
      /\ submitted \in Seq([id : EvidenceIds, role : Parties])
  BY OffersAreActions DEF RuntimeInv, LockServesTurn, RuntimeTypeOK
<1>2. PICK auth : Accepts(state, auth, a)
  BY DEF Commit
<1>3. state' = Apply(state, a)
  BY DEF Commit
<1>4. CASE a.type = "evidence"
  <2> DEFINE item  == [id |-> a.id, parent |-> a.parent, role |-> a.role, phase |-> state.phase]
             entry == [id |-> a.id, role |-> a.role]
  <2>1. a.id \in EvidenceIds /\ a.role \in Parties /\ a.parent \in SUBSET EvidenceIds
    BY <1>1, <1>4 DEF Action
  <2>2. state' = SubmitEvidence(state, a.role, a.id, a.parent)
    BY <1>3, <1>4 DEF Apply
  <2>3. state'.submitted = Append(state.submitted, item)
    BY <1>1, <2>2, SubmissionRecorded
  <2>4. submitted' = Append(submitted, entry)
    BY <1>4 DEF Commit
  <2>5. /\ item \in SubmittedEvidence /\ entry \in [id : EvidenceIds, role : Parties]
        /\ item.id = entry.id /\ item.role = entry.role
    BY <1>1, <2>1 DEF SubmittedEvidence, State
  <2>6. state.submitted \in Seq(SubmittedEvidence)
    BY <1>1 DEF State
  <2>7. /\ Len(submitted) = Len(state.submitted)
        /\ \A i \in 1 .. Len(submitted) :
             submitted[i].id = state.submitted[i].id /\ submitted[i].role = state.submitted[i].role
    BY <1>1 DEF RuntimeInv, RegistryAgrees
  <2> HIDE DEF item, entry, a
  <2>8. /\ Len(submitted') = Len(submitted) + 1 /\ Len(state'.submitted) = Len(submitted) + 1
        /\ DOMAIN submitted' = 1 .. Len(submitted) + 1
        /\ submitted'[Len(submitted) + 1] = entry
        /\ state'.submitted[Len(submitted) + 1] = item
        /\ \A i \in 1 .. Len(submitted) :
             submitted'[i] = submitted[i] /\ state'.submitted[i] = state.submitted[i]
    BY <1>1, <2>3, <2>4, <2>5, <2>6, <2>7
  <2>9. \A i \in 1 .. Len(submitted) + 1 : i \in 1 .. Len(submitted) \/ i = Len(submitted) + 1
    BY <1>1
  <2>10. submitted' \in Seq([id : EvidenceIds, role : Parties])
    BY <1>1, <2>4, <2>5
  <2> QED BY <2>5, <2>7, <2>8, <2>9, <2>10 DEF RegistryAgrees
<1>5. CASE a.type # "evidence"
  <2>1. state'.submitted = state.submitted
    BY <1>1, <1>2, <1>3, <1>5, ApplyKeepsEvidence
  <2>2. submitted' = submitted
    BY <1>5 DEF Commit
  <2> QED BY <1>1, <2>1, <2>2 DEF RuntimeInv, RegistryAgrees
<1> QED BY <1>4, <1>5

\* The turn as the commit leaves it: open at the new version after evidence
\* that was logged, completed otherwise.
LEMMA CommitKeeps ==
  ASSUME RuntimeInv, NEW logged \in BOOLEAN, Commit(logged)
  PROVE  RuntimeInv'
<1> DEFINE a == lock.act
           t == MyTurn
           stays == a.type = "evidence" /\ logged
           verdict == IF logged /\ ~lock.spoiled THEN "ok" ELSE "err"
           u == IF stays THEN AtNewVersion(t) ELSE Completed(AtNewVersion(t), verdict)
<1>1. /\ lock \in LockedCall /\ lock.server = MyServer /\ OpenTurn /\ InTurn
      /\ a \in Action /\ Accepts(state, TurnAuthority(t), a) /\ state \in State
      /\ t \in Turn /\ ~t.completed /\ t.done = "empty" /\ Resolved + 1 = main.turn
  <2>1. /\ lock # Free /\ lock.server = MyServer /\ OpenTurn /\ InTurn
        /\ a \in Action /\ Accepts(state, TurnAuthority(t), a) /\ state \in State
        /\ lock \in LockedCall /\ Resolved + 1 = main.turn
    BY OffersAreActions
    DEF Commit, RuntimeInv, RuntimeTypeOK, LockServesTurn, OpenTurn, TurnsCounted
  <2>2. t \in Turn /\ ~t.completed /\ t.done = "empty"
    BY <2>1, MyTurnFacts DEF RuntimeInv, OneTurnOpen, OpenTurn
  <2> QED BY <2>1, <2>2
<1>2. /\ lock # Free /\ ~clock.cancelled
      /\ state' = Apply(state, a)
      /\ cert' = Append(cert, CertEntry(t, a))
      /\ active' = [active EXCEPT ![MyServer] = u]
      /\ lock' = Free /\ fault' = (fault \/ ~logged)
      /\ asleep' \subseteq asleep
      /\ UNCHANGED <<main, clock>>
  BY <1>1 DEF Commit, Timely, MyTurn, Ring
<1>3. /\ u \in Turn /\ u.number = t.number /\ u.opp = t.opp /\ u.version = t.version + 1
      /\ u.attempts = t.attempts
      /\ u.completed = ~stays
      /\ u.done = IF stays THEN "empty" ELSE verdict
  <2> DEFINE w == AtNewVersion(t)
  <2>1. /\ w \in Turn /\ w.number = t.number /\ w.opp = t.opp /\ w.version = t.version + 1
        /\ w.attempts = t.attempts /\ ~w.completed /\ w.done = "empty"
    BY <1>1, NewVersionFacts
  <2> DEFINE c == Completed(w, verdict)
  <2>2. verdict \in {"ok", "err"}
    OBVIOUS
  <2>3. u = IF stays THEN w ELSE c
    OBVIOUS
  <2> HIDE DEF w, u, verdict, stays, t
  <2>4. /\ c \in Turn /\ c.completed /\ c.number = w.number /\ c.opp = w.opp
        /\ c.version = w.version /\ c.attempts = w.attempts /\ c.done = verdict
    BY <2>1, <2>2, CompletedFacts
  <2> HIDE DEF c
  <2>5. stays \in BOOLEAN /\ u.completed \in BOOLEAN
    BY <2>1, <2>3, <2>4 DEF stays, Turn
  <2> QED BY <2>1, <2>3, <2>4, <2>5
<1> HIDE DEF u
<1>4. state' \in State /\ state'.version = state.version + 1
  BY <1>1, <1>2, ApplyType
<1>5. /\ CertEntry(t, a) \in [authority : Authority, action : Action]
      /\ CertEntry(t, a).action = a
  <2>1. TurnAuthority(t) \in Authority
    <3> HIDE DEF t
    <3> QED BY <1>1 DEF TurnAuthority, Authority, Turn
  <2> QED BY <1>1, <2>1 DEF CertEntry
<1>6. /\ cert' \in Seq([authority : Authority, action : Action])
      /\ Resolved' = IF a.type = "evidence" THEN Resolved ELSE Resolved + 1
      /\ Resolved \in Nat
  <2> DEFINE Entry == [authority : Authority, action : Action]
             e     == CertEntry(t, a)
  <2>1. cert \in Seq(Entry) /\ e \in Entry /\ e.action = a /\ cert' = Append(cert, e)
    BY <1>2, <1>5 DEF RuntimeInv, RuntimeTypeOK
  <2> HIDE DEF Entry, e, a
  <2>2. cert' \in Seq(Entry) /\ Resolved' = Cardinality(Resolving(Append(cert, e)))
    BY <2>1 DEF Resolved, Resolving
  <2> QED BY <2>1, <2>2, ResolvingAppend DEF Resolved, Entry
<1>7. /\ MyServer' = MyServer /\ MyServer \in Servers /\ MyTurn' = u /\ u # NoTurn
      /\ \A role : ServerOf(role)' = ServerOf(role)
      /\ active' \in [Servers -> Turn \cup {NoTurn}]
      /\ \A sv \in Servers \ {MyServer} : active'[sv] = active[sv]
  BY <1>2, <1>3, TurnReplaced
<1>8. InTurn' /\ (OpenTurn' <=> stays)
  BY <1>1, <1>2, <1>3, <1>7 DEF OpenTurn, InTurn
<1>9. main.at # "clear" /\ main.turn \in Nat
  BY <1>1 DEF RuntimeInv, RuntimeTypeOK, MainState, ErrorsExplained
<1>10. RuntimeTypeOK'
  BY <1>2, <1>4, <1>6, <1>7, RegistryFollows DEF RuntimeInv, RuntimeTypeOK
<1>11. OneTurnOpen'
  <2>1. \A sv \in Servers : active'[sv] # NoTurn <=> InTurn /\ sv = MyServer
    BY <1>1, <1>7 DEF RuntimeInv, OneTurnOpen, MyTurn
  <2>2. u.completed <=> u.done # "empty"
    BY <1>3
  <2> QED BY <1>1, <1>2, <1>3, <1>7, <1>8, <2>1, <2>2 DEF RuntimeInv, OneTurnOpen
<1>12. TurnIsCurrent'
  <2>1. CASE stays
    <3>1. state' = SubmitEvidence(state, a.role, a.id, a.parent)
      BY <1>2, <2>1 DEF Apply
    <3>2. NextOpportunity(state') = NextOpportunity(state)
      <4>1. NextOpportunity(SubmitEvidence(state, a.role, a.id, a.parent)) = NextOpportunity(state)
        BY <1>1, EvidenceKeepsOpportunity
      <4> QED BY <3>1, <4>1
    <3>3. TurnAuthority(t) = CurrentAuthority(state) /\ NextOpportunity(state) # NoOpportunity
      BY <1>1 DEF RuntimeInv, TurnIsCurrent
    <3>4. t.opp = NextOpportunity(state) /\ t.version = state.version
      BY <3>3 DEF TurnAuthority, CurrentAuthority
    <3>5. TurnAuthority(u) = CurrentAuthority(state')
      BY <1>3, <1>4, <3>2, <3>4 DEF TurnAuthority, CurrentAuthority
    <3>6. u.attempts >= 1
      BY <1>1, <1>2, <1>3, <2>1 DEF RuntimeInv, TurnIsCurrent
    <3> QED BY <1>1, <1>2, <1>7, <3>2, <3>3, <3>5, <3>6 DEF TurnIsCurrent, InTurn
  <2>2. CASE ~stays
    BY <1>2, <1>8, <1>1, <2>2 DEF TurnIsCurrent, InTurn
  <2> QED BY <2>1, <2>2
<1>13. LockServesTurn'
  BY <1>2 DEF LockServesTurn
<1>14. ErrorsExplained'
  BY <1>1, <1>2, <1>3, <1>7, <1>9 DEF RuntimeInv, ErrorsExplained
<1>15. TurnsCounted'
  BY <1>1, <1>2, <1>3, <1>6, <1>7, <1>8, <1>9 DEF TurnsCounted, InTurn
<1> QED BY <1>2, <1>10, <1>11, <1>12, <1>13, <1>14, <1>15, RegistryFollows DEF RuntimeInv
-----------------------------------------------------------------------------
(* The invariant holds.                                                    *)

LEMMA NoAttempts == 0 \in 0 .. InvalidAttemptLimit
BY RuntimeAssumption

LEMMA OpenIsMine ==
  ASSUME RuntimeInv, NEW sv \in Servers, Open(sv)
  PROVE  sv = MyServer /\ OpenTurn
BY DEF RuntimeInv, OneTurnOpen, Open, OpenTurn, MyTurn

LEMMA RuntimeInvInit == Init => RuntimeInv
<1> SUFFICES ASSUME Init PROVE RuntimeInv
  OBVIOUS
<1>1. /\ state = InitialState /\ submitted = <<>> /\ cert = <<>> /\ lock = Free /\ asleep = {}
      /\ active = [sv \in Servers |-> NoTurn] /\ ~InTurn /\ main.at = "next" /\ main.turn = 0
      /\ fault = FALSE /\ clock = [expired |-> FALSE, cancelled |-> FALSE]
  BY DEF Init, InTurn
<1>2. main \in MainState
  <2>1. PICK backend \in Backends :
          main = [at |-> "next", turn |-> 0, backend |-> backend,
                  authority |-> [opp |-> NoOpportunity, version |-> 0]]
    BY DEF Init
  <2> QED BY <2>1, RuntimeAssumption DEF MainState, Places
<1>3. InitialState.submitted = <<>>
  BY Zenon DEF InitialState
<1>4. Resolved = 0
  <2>1. Resolving(cert) = {}
    BY <1>1 DEF Resolving
  <2> QED BY <2>1, FS_EmptySet DEF Resolved
<1>5. RuntimeTypeOK
  <2>1. state \in State /\ fault \in BOOLEAN /\ lock \in LockedCall \cup {Free}
        /\ active \in [Servers -> Turn \cup {NoTurn}]
        /\ clock \in [expired : BOOLEAN, cancelled : BOOLEAN]
        /\ \A w \in asleep : ServerOf(w.client.role) \in APIs
    BY <1>1, InitialStateType
  <2>2. /\ submitted \in Seq([id : EvidenceIds, role : Parties])
        /\ cert \in Seq([authority : Authority, action : Action])
    BY <1>1
  <2> QED BY <1>2, <2>1, <2>2 DEF RuntimeTypeOK
<1>6. OneTurnOpen /\ TurnIsCurrent /\ LockServesTurn
  BY <1>1 DEF OneTurnOpen, TurnIsCurrent, LockServesTurn, OpenTurn
<1>7. RegistryAgrees /\ ErrorsExplained
  BY <1>1, <1>3 DEF RegistryAgrees, ErrorsExplained
<1>8. TurnsCounted
  BY <1>1, <1>4 DEF TurnsCounted, OpenTurn
<1> QED BY <1>5, <1>6, <1>7, <1>8 DEF RuntimeInv

LEMMA RunLoopKeeps == RuntimeInv /\ RunLoop => RuntimeInv'
<1> SUFFICES ASSUME RuntimeInv, RunLoop PROVE RuntimeInv'
  OBVIOUS
<1>1. CASE TakeVerdict
  <2>1. InTurn
    BY <1>1 DEF TakeVerdict, InTurn
  <2>2. MyTurn.done \in {"ok", "err"}
    BY <1>1, <2>1, MyTurnFacts DEF TakeVerdict, MyTurn, RuntimeInv
  <2>3. MyTurn.done = "err" => fault \/ clock.cancelled
    BY <2>1 DEF RuntimeInv, ErrorsExplained
  <2> HIDE DEF RuntimeInv
  <2> QED BY <1>1, <2>1, <2>2, <2>3, MoveInTurn DEF TakeVerdict, MyTurn
<1>2. CASE SeeCancelled
  BY <1>2, MoveInTurn DEF SeeCancelled, InTurn
<1>3. CASE TimerFires
  BY <1>3, MoveInTurn DEF TimerFires, InTurn
<1>4. CASE TimeoutTurn
  <2>1. InTurn /\ MyTurnActive /\ clock.expired /\ lock = Free
    BY <1>4, MyTurnFacts DEF TimeoutTurn, InTurn, RuntimeInv, ErrorsExplained
  <2>2. CASE MyTurn.completed
    <3>1. MyTurn.done \in {"ok", "err"} /\ (MyTurn.done = "err" => fault \/ clock.cancelled)
      BY <2>1, <2>2, MyTurnFacts DEF RuntimeInv, OneTurnOpen, ErrorsExplained
    <3>2. /\ main' = [main EXCEPT !.at = IF MyTurn.done = "ok" THEN "clear" ELSE "clear_err"]
          /\ UNCHANGED <<record, active, lock, clock, fault, asleep>>
      BY <1>4, <2>1, <2>2 DEF TimeoutTurn, MyTurn
    <3> HIDE DEF RuntimeInv
    <3> QED BY <2>1, <3>1, <3>2, MoveInTurn
  <2>3. CASE ~MyTurn.completed
    <3>1. /\ lock' = Call(MyServer, NoOpportunity, DeadlineFailure)
          /\ UNCHANGED <<record, active, main, clock, fault, asleep>>
      BY <1>4, <2>1, <2>3 DEF TimeoutTurn, MyTurn
    <3>2. OpenTurn
      BY <2>1, <2>3 DEF OpenTurn
    <3>3. /\ DeadlineFailure \in Case!Offers /\ DeadlineFailure \in Action
          /\ DeadlineFailure.type = "fail"
          /\ Accepts(state, TurnAuthority(MyTurn), DeadlineFailure)
      BY <3>2, FailureAccepted, RuntimeAssumption DEF DeadlineFailure
    <3> QED BY <2>1, <3>1, <3>2, <3>3, LockTaken, NoAttempts
  <2> QED BY <2>2, <2>3
<1> QED
  BY <1>1, <1>2, <1>3, <1>4, AskNextKeeps, StartTurnKeeps, ClearTurnKeeps DEF RunLoop

\* A failure of the open turn for any reason but a deadline still to come.
LEMMA FailureSent ==
  ASSUME RuntimeInv, lock = Free, OpenTurn,
         NEW req \in Opportunity \cup {NoOpportunity}, NEW reason \in FailureReasons,
         reason = "deadline_expired" => main.backend = "direct" \/ clock.expired,
         lock' = Call(MyServer, req, [type |-> "fail", reason |-> reason]),
         UNCHANGED <<record, main, clock, fault, asleep>>,
         NEW n \in 0 .. InvalidAttemptLimit,
         active' \in {active, [active EXCEPT ![MyServer].attempts = n]}
  PROVE  RuntimeInv'
<1> DEFINE a == [type |-> "fail", reason |-> reason]
<1>1. /\ a \in Case!Offers /\ a \in Action /\ a.type = "fail"
      /\ Accepts(state, TurnAuthority(MyTurn), a)
  BY FailureAccepted
<1>2. a = DeadlineFailure /\ main.backend = "council" => clock.expired
  BY DEF DeadlineFailure
<1> HIDE DEF a
<1>3. lock' = Call(MyServer, req, a)
  BY DEF a
<1> QED BY <1>1, <1>2, <1>3, LockTaken

LEMMA AttemptConsumed ==
  ASSUME RuntimeInv, NEW sv \in APIs, lock = Free, Open(sv), ConsumeAttempt(sv)
  PROVE  RuntimeInv'
<1>1. sv = MyServer /\ OpenTurn /\ MyTurn \in Turn /\ MyTurn.attempts >= 1
  <2>1. sv = MyServer /\ OpenTurn
    BY OpenIsMine DEF Servers
  <2> QED BY <2>1, MyTurnFacts DEF RuntimeInv, TurnIsCurrent, OpenTurn
<1>2. MyTurn.attempts - 1 \in 0 .. InvalidAttemptLimit
  <2> HIDE DEF MyTurn
  <2> QED BY <1>1, RuntimeAssumption DEF Turn
<1>3. active' = [active EXCEPT ![MyServer].attempts = MyTurn.attempts - 1]
  BY <1>1 DEF ConsumeAttempt, MyTurn
<1>4. CASE MyTurn.attempts = 1
  <2>1. /\ lock' = Call(MyServer, NoOpportunity, [type |-> "fail", reason |-> "attempts_exhausted"])
        /\ UNCHANGED <<record, main, clock, fault, asleep>>
    BY <1>1, <1>4 DEF ConsumeAttempt, MyTurn
  <2> QED BY <1>1, <1>2, <1>3, <2>1, FailureSent, RuntimeAssumption
<1>5. CASE MyTurn.attempts # 1
  <2>1. asleep' \subseteq asleep /\ UNCHANGED <<record, lock, main, clock, fault>>
        /\ active' = [active EXCEPT ![MyServer].attempts = @ - 1]
    BY <1>1, <1>5 DEF ConsumeAttempt, MyTurn, Ring
  <2> QED BY <1>1, <1>5, <2>1, AttemptSpent
<1> QED BY <1>4, <1>5

LEMMA RequestsKeep == RuntimeInv /\ Requests => RuntimeInv'
<1> SUFFICES ASSUME RuntimeInv, Requests PROVE RuntimeInv'
  OBVIOUS
<1>0. APIs \subseteq Servers
  BY DEF Servers
<1>1. ASSUME NEW sv \in APIs, RequestFindsCancelled(sv) PROVE RuntimeInv'
  <2>1. sv = MyServer /\ OpenTurn
    BY <1>0, <1>1, OpenIsMine DEF RequestFindsCancelled
  <2> QED BY <1>1, <2>1, TurnEndsInError
    DEF RequestFindsCancelled, Ring, RuntimeInv, RuntimeTypeOK
<1>2. ASSUME NEW sv \in APIs, RequestFindsExpired(sv) PROVE RuntimeInv'
  <2>1. sv = MyServer /\ OpenTurn
    BY <1>0, <1>2, OpenIsMine DEF RequestFindsExpired
  <2> QED BY <1>2, <2>1, FailureSent, NoAttempts, RuntimeAssumption DEF RequestFindsExpired, DeadlineFailure
<1>3. ASSUME NEW sv \in APIs, NEW req, InvalidCall(sv, req) PROVE RuntimeInv'
  BY <1>3, AttemptConsumed DEF InvalidCall, Admitted
<1>4. ASSUME NEW sv \in APIs, NEW req, NEW a \in Answers(req), Answer(sv, req, a)
      PROVE  RuntimeInv'
  <2>1. sv = MyServer /\ OpenTurn /\ lock = Free /\ Open(sv) /\ req = MyTurn.opp
    BY <1>0, <1>4, OpenIsMine DEF Answer, Admitted, MyTurn
  <2>2. CASE Prevalidated(MyTurn.opp, a)
    <3>1. /\ lock' = Call(MyServer, req, a)
          /\ UNCHANGED <<record, active, main, clock, fault, asleep>>
      BY <1>4, <2>1, <2>2 DEF Answer, MyTurn
    <3>2. a \in Case!Offers /\ a \in Action /\ Accepts(state, TurnAuthority(MyTurn), a)
      BY <1>4, <2>1, <2>2, AnswerAccepted
    <3>3. req \in Opportunity
      BY <2>1, MyTurnFacts DEF RuntimeInv, OpenTurn
    <3>4. a # DeadlineFailure
      BY <1>4 DEF Answers, DeadlineFailure
    <3> QED BY <2>1, <3>1, <3>2, <3>3, <3>4, LockTaken, NoAttempts
  <2>3. CASE ~Prevalidated(MyTurn.opp, a)
    BY <1>4, <2>1, <2>3, AttemptConsumed DEF Answer, MyTurn
  <2> QED BY <2>2, <2>3
<1>5. ASSUME NEW req, MemberFails(req) PROVE RuntimeInv'
  <2>1. "council" = MyServer /\ OpenTurn /\ req = MyTurn.opp
    BY <1>5, OpenIsMine DEF MemberFails, Servers, APIs, MyTurn
  <2>2. req \in Opportunity
    BY <2>1, MyTurnFacts DEF RuntimeInv, OpenTurn
  <2> QED BY <1>5, <2>1, <2>2, FailureSent, NoAttempts, RuntimeAssumption DEF MemberFails
<1> QED BY <1>1, <1>2, <1>3, <1>4, <1>5 DEF Requests

LEMMA ProviderKeeps == RuntimeInv /\ Provider => RuntimeInv'
<1> SUFFICES ASSUME RuntimeInv, Provider PROVE RuntimeInv'
  OBVIOUS
<1>0. /\ Asking => MyServer = "direct" /\ OpenTurn /\ lock = Free /\ MyTurn \in Turn
                   /\ main.authority.opp = MyTurn.opp
      /\ MyServer = "direct" => main.authority.opp.role = "council" /\ main.backend = "direct"
  <2>1. Asking => OpenTurn /\ MyServer = "direct" /\ lock = Free
    BY OpenIsMine DEF Asking, Servers
  <2> QED BY <2>1, MyTurnFacts, OpenTurnFacts DEF MyServer, ServerOf, RuntimeInv, OpenTurn
<1>1. ASSUME NEW v \in Votes, ProviderVotes(v) PROVE RuntimeInv'
  <2> DEFINE a == [type |-> "vote", member |-> MyTurn.opp.member, vote |-> v]
  <2>1. OpenTurn /\ MyServer = "direct" /\ lock = Free /\ MyTurn.opp.role = "council"
        /\ MyTurn.opp \in Opportunity
    BY <1>0, <1>1, MyTurnFacts DEF ProviderVotes, RuntimeInv, OpenTurn
  <2>2. a \in Case!Offers /\ a \in Action /\ Accepts(state, TurnAuthority(MyTurn), a)
    BY <2>1, VoteAccepted
  <2>3. a # DeadlineFailure
    BY DEF DeadlineFailure
  <2>4. /\ lock' = Call(MyServer, MyTurn.opp, a)
        /\ UNCHANGED <<record, active, main, clock, fault, asleep>>
    BY <1>0, <1>1, <2>1 DEF ProviderVotes
  <2> HIDE DEF a
  <2> QED BY <2>1, <2>2, <2>3, <2>4, LockTaken, NoAttempts
<1>2. CASE ProviderInvalid
  <2>1. /\ OpenTurn /\ MyServer = "direct" /\ lock = Free /\ MyTurn \in Turn
        /\ MyTurn.attempts >= 1
    BY <1>0, <1>2 DEF ProviderInvalid, RuntimeInv, TurnIsCurrent
  <2>2. MyTurn.attempts - 1 \in 0 .. InvalidAttemptLimit
    <3> HIDE DEF MyTurn
    <3> QED BY <2>1, RuntimeAssumption DEF Turn
  <2>3. /\ active' = [active EXCEPT ![MyServer].attempts = @ - 1]
        /\ active' = [active EXCEPT ![MyServer].attempts = MyTurn.attempts - 1]
        /\ UNCHANGED <<record, main, clock, fault, asleep>>
    BY <1>2, <2>1 DEF ProviderInvalid, MyTurn
  <2>4. CASE MyTurn.attempts = 1
    <3>1. lock' = Call(MyServer, NoOpportunity, [type |-> "fail", reason |-> "attempts_exhausted"])
      BY <1>2, <2>1, <2>4 DEF ProviderInvalid, MyTurn
    <3> QED BY <2>1, <2>2, <2>3, <3>1, FailureSent, RuntimeAssumption
  <2>5. CASE MyTurn.attempts # 1
    <3>1. lock' = lock
      BY <1>2, <2>1, <2>5 DEF ProviderInvalid, MyTurn
    <3> QED BY <2>1, <2>3, <2>5, <3>1, AttemptSpent
  <2> QED BY <2>4, <2>5
<1>3. ASSUME NEW reason \in {"deadline_expired", "request_failed"}, ProviderFails(reason)
      PROVE  RuntimeInv'
  <2>1. /\ OpenTurn /\ MyServer = "direct" /\ lock = Free /\ main.backend = "direct"
        /\ reason \in FailureReasons
        /\ lock' = Call(MyServer, NoOpportunity, [type |-> "fail", reason |-> reason])
        /\ UNCHANGED <<record, active, main, clock, fault, asleep>>
    BY <1>0, <1>3, RuntimeAssumption DEF ProviderFails
  <2> QED BY <2>1, FailureSent, NoAttempts
<1> QED BY <1>1, <1>2, <1>3 DEF Provider

LEMMA EngineCallKeeps == RuntimeInv /\ EngineCall => RuntimeInv'
<1> SUFFICES ASSUME RuntimeInv, EngineCall PROVE RuntimeInv'
  OBVIOUS
<1>1. CASE CallFails
  <2>1. /\ lock.server = MyServer /\ OpenTurn
        /\ Accepts(state, TurnAuthority(active[lock.server]), lock.act)
    BY <1>1 DEF CallFails, RuntimeInv, LockServesTurn, MyTurn
  <2>2. fault' = (fault \/ ~clock.cancelled)
    BY <1>1, <2>1 DEF CallFails
  <2>3. fault' \in BOOLEAN /\ (fault => fault') /\ (fault' \/ clock.cancelled)
    BY <2>2 DEF RuntimeInv, RuntimeTypeOK
  <2>4. /\ active' = [active EXCEPT ![MyServer] = Completed(@, "err")]
        /\ lock' = Free /\ asleep' \subseteq asleep /\ UNCHANGED <<record, main, clock>>
    BY <1>1, <2>1 DEF CallFails, Ring
  <2> QED BY <2>1, <2>3, <2>4, TurnEndsInError
<1> QED BY <1>1, CommitKeeps, LateKeeps DEF EngineCall

LEMMA RuntimeInvNext == RuntimeInv /\ [Next]_vars => RuntimeInv'
<1> SUFFICES ASSUME RuntimeInv, [Next]_vars PROVE RuntimeInv'
  OBVIOUS
<1>1. CASE UNCHANGED vars
  <2>1. /\ clock' \in [expired : BOOLEAN, cancelled : BOOLEAN]
        /\ UNCHANGED <<record, active, lock, main, clock, fault, asleep>>
    BY <1>1 DEF vars, record, RuntimeInv, RuntimeTypeOK
  <2> QED BY <2>1, ClockMoves
<1>2. ASSUME NEW c, NEW seen, Wait(c, seen) PROVE RuntimeInv'
  <2>1. \A w \in asleep' : ServerOf(w.client.role) \in APIs
    BY <1>2 DEF Wait, RuntimeInv, RuntimeTypeOK
  <2> QED BY <1>2, <2>1, SleepersMove DEF Wait
<1>3. CASE StopWaiting
  <2>1. \A w \in asleep' : ServerOf(w.client.role) \in APIs
    BY <1>3 DEF StopWaiting, RuntimeInv, RuntimeTypeOK
  <2> QED BY <1>3, <2>1, SleepersMove DEF StopWaiting
<1>4. CASE DeadlinePasses \/ CaseCancelled
  <2>1. clock \in [expired : BOOLEAN, cancelled : BOOLEAN]
    BY DEF RuntimeInv, RuntimeTypeOK
  <2>2. /\ clock' \in [expired : BOOLEAN, cancelled : BOOLEAN]
        /\ clock.expired => clock'.expired
        /\ clock.cancelled => clock'.cancelled
    BY <1>4, <2>1 DEF DeadlinePasses, CaseCancelled
  <2> QED BY <1>4, <2>2, ClockMoves DEF DeadlinePasses, CaseCancelled
<1> QED
  BY <1>1, <1>2, <1>3, <1>4, RunLoopKeeps, RequestsKeep, ProviderKeeps, EngineCallKeeps
  DEF Next, Finished

\* In every reachable state the runtime's parts agree: at most one turn is open,
\* it is current, and whoever holds the lock acts for it.
THEOREM RuntimeConsistent == Spec => []RuntimeInv
BY RuntimeInvInit, RuntimeInvNext, PTL DEF Spec

-----------------------------------------------------------------------------
(* What the invariant implies.                                             *)

\* A turn is resolved once: of a late answer, an exhausted attempt, a reported
\* exit and the timer one counts, and the loop goes on only when one did
\* (completeTurnLocked, timeoutTurn, clearTurn).
THEOREM TurnsResolvedOnce == Spec => []OneResolutionPerTurn
<1>1. RuntimeInv => OneResolutionPerTurn
  <2> SUFFICES ASSUME RuntimeInv PROVE OneResolutionPerTurn
    OBVIOUS
  <2>1. main.at = "clear" => Resolved = main.turn
    BY DEF RuntimeInv, TurnsCounted, ErrorsExplained, InTurn
  <2> QED BY <2>1 DEF RuntimeInv, TurnsCounted, OneResolutionPerTurn, Resolved, Resolving
<1> QED BY <1>1, RuntimeConsistent, PTL

\* Whatever clients send and in whatever order, a run that no fault hits and
\* nobody cancels does not fail: what the runtime lets through the engine
\* accepts, in the state and under the authority it then has.
THEOREM RunsEndInErrorForCause == Spec => []OnlyFaultsEndRuns
<1>1. RuntimeInv => OnlyFaultsEndRuns
  BY DEF RuntimeInv, ErrorsExplained, OnlyFaultsEndRuns
<1> QED BY <1>1, RuntimeConsistent, PTL

\* Only the commit touches the record, and it does so for the lock's holder.
LEMMA OnlyCommitRecords ==
  ASSUME RuntimeInv, [Next]_vars
  PROVE  UNCHANGED record \/ \E logged \in BOOLEAN : Commit(logged)
<1>1. RunLoop => UNCHANGED record
  BY DEF RunLoop, AskNext, StartTurn, TakeVerdict, SeeCancelled, TimerFires, TimeoutTurn, ClearTurn
<1>2. Requests => UNCHANGED record
  BY DEF Requests, RequestFindsCancelled, RequestFindsExpired, InvalidCall, Answer, MemberFails,
         ConsumeAttempt
<1>3. Provider => UNCHANGED record
  BY DEF Provider, ProviderVotes, ProviderInvalid, ProviderFails
<1>4. EngineCall => UNCHANGED record \/ \E logged \in BOOLEAN : Commit(logged)
  BY DEF EngineCall, Late, CallFails
<1>5. \A c, seen : Wait(c, seen) => UNCHANGED record
  BY DEF Wait
<1>6. StopWaiting \/ DeadlinePasses \/ CaseCancelled \/ Finished \/ UNCHANGED vars => UNCHANGED record
  BY DEF StopWaiting, DeadlinePasses, CaseCancelled, Finished, vars, record
<1> QED BY <1>1, <1>2, <1>3, <1>4, <1>5, <1>6 DEF Next

LEMMA CommitFacts ==
  ASSUME RuntimeInv, NEW logged, Commit(logged)
  PROVE  /\ lock # Free /\ lock.act \in Case!Offers
         /\ Accepts(state, TurnAuthority(MyTurn), lock.act)
         /\ TurnAuthority(MyTurn) = CurrentAuthority(state)
         /\ state' = Apply(state, lock.act)
         /\ cert' = Append(cert, [authority |-> TurnAuthority(MyTurn), action |-> lock.act])
         /\ Added.authority = TurnAuthority(MyTurn) /\ Added.action = lock.act
         /\ ~clock.cancelled /\ (clock.expired => lock.act = DeadlineFailure)
<1>1. lock # Free /\ lock.server = MyServer /\ lock.act \in Case!Offers /\ OpenTurn
      /\ Accepts(state, TurnAuthority(MyTurn), lock.act)
  BY DEF Commit, RuntimeInv, LockServesTurn
<1>2. /\ state' = Apply(state, lock.act)
      /\ cert' = Append(cert, [authority |-> TurnAuthority(MyTurn), action |-> lock.act])
      /\ ~clock.cancelled /\ (clock.expired => lock.act = DeadlineFailure)
  BY <1>1 DEF Commit, MyTurn, CertEntry, Timely
<1>3. TurnAuthority(MyTurn) = CurrentAuthority(state)
  BY <1>1 DEF RuntimeInv, TurnIsCurrent
<1>4. /\ TurnAuthority(MyTurn) \in Authority /\ lock.act \in Action
      /\ cert \in Seq([authority : Authority, action : Action])
  <2>1. MyTurn \in Turn
    BY <1>1, MyTurnFacts DEF RuntimeInv, OpenTurn
  <2> HIDE DEF MyTurn
  <2> QED BY <1>1, <2>1, OffersAreActions
          DEF TurnAuthority, Authority, Turn, RuntimeInv, RuntimeTypeOK
<1>5. Added = [authority |-> TurnAuthority(MyTurn), action |-> lock.act]
  BY <1>2, <1>4 DEF Added
<1> QED BY <1>1, <1>2, <1>3, <1>5

\* After the deadline only the deadline's failure is committed, with the council
\* API never before it, and nothing once the case is cancelled, although both
\* may come while the engine runs (evaluateTurnStepLocked's second check).
THEOREM CommitsInTime == Spec => NothingCommittedLate
<1> DEFINE Timed == cert' # cert =>
                      /\ ~clock.cancelled
                      /\ clock.expired => Added.action = DeadlineFailure
                      /\ Added.action = DeadlineFailure /\ main.backend = "council" => clock.expired
<1>1. RuntimeInv /\ [Next]_vars => [Timed]_vars
  <2> SUFFICES ASSUME RuntimeInv, [Next]_vars, cert' # cert PROVE Timed
    OBVIOUS
  <2>1. PICK logged \in BOOLEAN : Commit(logged)
    BY OnlyCommitRecords DEF record
  <2>2. lock # Free /\ Added.action = lock.act /\ ~clock.cancelled
        /\ (clock.expired => lock.act = DeadlineFailure)
    BY <2>1, CommitFacts
  <2> QED BY <2>2 DEF RuntimeInv, LockServesTurn
<1>2. Spec => [][Timed]_vars
  <2> HIDE DEF Timed
  <2> QED BY <1>1, RuntimeConsistent, PTL DEF Spec
<1> QED BY <1>2, PTL DEF NothingCommittedLate, Timed

\* An answer is recorded under the opportunity its request named: one that is
\* delayed or sent twice never answers a later turn.
THEOREM AnswersMatchRequests == Spec => AnswersOwnOpportunity
<1> DEFINE Own == cert' # cert /\ lock.act.type # "fail" => lock.req = Added.authority.opp
<1>1. RuntimeInv /\ [Next]_vars => [Own]_vars
  <2> SUFFICES ASSUME RuntimeInv, [Next]_vars, cert' # cert, lock.act.type # "fail" PROVE Own
    OBVIOUS
  <2>1. PICK logged \in BOOLEAN : Commit(logged)
    BY OnlyCommitRecords DEF record
  <2>2. lock # Free /\ Added.authority = TurnAuthority(MyTurn)
    BY <2>1, CommitFacts
  <2>3. lock.req = MyTurn.opp
    BY <2>2 DEF RuntimeInv, LockServesTurn
  <2> QED BY <2>2, <2>3 DEF TurnAuthority
<1>2. Spec => [][Own]_vars
  <2> HIDE DEF Own
  <2> QED BY <1>1, RuntimeConsistent, PTL DEF Spec
<1> QED BY <1>2, PTL DEF AnswersOwnOpportunity, Own

-----------------------------------------------------------------------------
(* The runtime implements the engine's state machine.                      *)

\* The runtime's record is a run of ArbCase, whatever the order of requests,
\* timers, engine calls and failures: every theorem about a case holds of it.
THEOREM RuntimeImplementsCase == Spec => ImplementsCase
<1>1. Init => Case!Init
  BY SameInit DEF Init, Case!Init
<1>2. RuntimeInv /\ [Next]_vars => [Case!Next]_(Case!vars)
  <2> SUFFICES ASSUME RuntimeInv, [Next]_vars PROVE Case!Next \/ UNCHANGED <<state, cert>>
    BY DEF Case!vars
  <2>1. CASE UNCHANGED record
    BY <2>1 DEF record
  <2>2. ASSUME NEW logged \in BOOLEAN, Commit(logged) PROVE Case!Next
    <3> DEFINE auth == CurrentAuthority(state)
               a    == lock.act
    <3>1. /\ a \in Case!Offers /\ Accepts(state, auth, a) /\ state' = Apply(state, a)
          /\ cert' = Append(cert, [authority |-> auth, action |-> a])
      BY <2>2, CommitFacts
    <3> HIDE DEF a
    <3>2. auth \in Case!Held
      BY SameOpportunity DEF Case!Held
    <3> HIDE DEF auth
    <3>3. Case!Step(auth, a)
      BY <3>1, SameAccepts, SameApply DEF Case!Step
    <3> QED BY <3>1, <3>2, <3>3 DEF Case!Next
  <2> QED BY <2>1, <2>2, OnlyCommitRecords
<1> QED BY <1>1, <1>2, RuntimeConsistent, PTL DEF Spec, ImplementsCase, Case!Spec
-----------------------------------------------------------------------------
(* The certificate.  FoldLeft folds over the sets of places of a sequence, *)
(* greatest last; what it computes is settled by induction on the greatest *)
(* place.                                                                  *)

LEMMA GreatestBelow ==
  ASSUME NEW n \in Nat, NEW S \in SUBSET (1 .. n), S # {}
  PROVE  Max(S) \in S /\ \A y \in S : y <= Max(S)
<1> DEFINE D == {n - x : x \in S}
<1>0. D # {}
  OBVIOUS
<1>1. D \in SUBSET Nat
  OBVIOUS
<1>2. PICK d \in D : \A y \in D : d <= y
  BY <1>0, <1>1, LeastNatural
<1>3. PICK x \in S : d = n - x
  OBVIOUS
<1>4. \A y \in S : x >= y
  <2> TAKE y \in S
  <2>1. n - x <= n - y
    BY <1>2, <1>3
  <2> QED BY <2>1
<1>5. Max(S) \in S /\ \A y \in S : Max(S) >= y
  BY <1>4 DEF Max
<1> QED BY <1>5

Folding(it, b, q, n) ==
  it = [S \in SUBSET (1 .. n) |->
          IF S = {} THEN b ELSE ReplayStep(it[S \ {Max(S)}], q[Max(S)])]

Folded(b, q, n) == CHOOSE it : Folding(it, b, q, n)

LEMMA FoldIs ==
  ASSUME NEW b, NEW q, NEW n, DOMAIN q = 1 .. n
  PROVE  FoldLeft(ReplayStep, b, q) = Folded(b, q, n)[1 .. n]
BY DEF FoldLeft, MapThenFoldSet, Folding, Folded

LEMMA FoldingExists ==
  ASSUME NEW b, NEW q
  PROVE  \A n \in Nat : Folding(Folded(b, q, n), b, q, n)
<1> DEFINE Bad == {n \in Nat : ~ \E it : Folding(it, b, q, n)}
<1>0. Bad = {} => \A n \in Nat : Folding(Folded(b, q, n), b, q, n)
  BY DEF Folded
<1> SUFFICES ASSUME Bad # {} PROVE FALSE
  BY <1>0
<1>1. PICK n \in Bad : \A k \in Bad : n <= k
  BY LeastNatural
<1>2. n # 0
  <2> DEFINE it == [S \in SUBSET (1 .. 0) |-> b]
  <2>1. Folding(it, b, q, 0)
    BY DEF Folding
  <2> QED BY <2>1
<1>3. n - 1 \in Nat /\ n - 1 \notin Bad
  BY <1>1, <1>2
<1>4. PICK f : Folding(f, b, q, n - 1)
  BY <1>3
<1> DEFINE it == [S \in SUBSET (1 .. n) |->
                    IF n \in S THEN ReplayStep(f[S \ {n}], q[n]) ELSE f[S]]
<1>5. ASSUME NEW S \in SUBSET (1 .. n)
      PROVE  it[S] = IF S = {} THEN b ELSE ReplayStep(it[S \ {Max(S)}], q[Max(S)])
  <2>0. n \in Nat
    OBVIOUS
  <2>1. CASE n \in S
    <3>0. S # {} /\ S \subseteq 1 .. n
      BY <2>1
    <3>1. Max(S) \in S /\ Max(S) >= n
      BY <2>0, <2>1, <3>0, GreatestBelow
    <3>1a. Max(S) \in 1 .. n
      BY <3>0, <3>1
    <3>2. Max(S) = n
      BY <2>0, <3>1, <3>1a
    <3>3. S \ {n} \in SUBSET (1 .. n) /\ n \notin S \ {n}
      OBVIOUS
    <3>4. it[S \ {n}] = f[S \ {n}]
      BY <3>3
    <3>5. it[S] = ReplayStep(f[S \ {n}], q[n])
      BY <2>1
    <3> QED BY <3>0, <3>2, <3>4, <3>5
  <2>2. CASE n \notin S
    <3>1. S \in SUBSET (1 .. (n - 1))
      BY <2>0, <2>2
    <3>2. it[S] = f[S]
      BY <2>2
    <3>3. f[S] = IF S = {} THEN b ELSE ReplayStep(f[S \ {Max(S)}], q[Max(S)])
      BY <3>1, <1>4 DEF Folding
    <3>4. S \ {Max(S)} \in SUBSET (1 .. n) /\ n \notin S \ {Max(S)}
      BY <2>2
    <3>5. it[S \ {Max(S)}] = f[S \ {Max(S)}]
      BY <3>4
    <3> QED BY <3>2, <3>3, <3>5
  <2> QED BY <2>1, <2>2
<1>6. Folding(it, b, q, n)
  <2> HIDE DEF it
  <2>1. it = [S \in SUBSET (1 .. n) |-> it[S]]
    BY DEF it
  <2>2. it = [S \in SUBSET (1 .. n) |->
                IF S = {} THEN b ELSE ReplayStep(it[S \ {Max(S)}], q[Max(S)])]
    BY <2>1, <1>5
  <2> QED BY <2>2 DEF Folding
<1> QED BY <1>6

LEMMA FoldsAgree ==
  ASSUME NEW b, NEW q, NEW r, NEW m \in Nat, NEW n \in Nat, m <= n, NEW f, NEW g,
         Folding(f, b, q, m), Folding(g, b, r, n), \A i \in 1 .. m : q[i] = r[i]
  PROVE  f[1 .. m] = g[1 .. m]
<1> DEFINE Bad == {k \in 0 .. m : \E S \in SUBSET (1 .. k) : f[S] # g[S]}
<1>0. Bad \in SUBSET Nat
  OBVIOUS
<1> SUFFICES ASSUME Bad # {} PROVE FALSE
  <2>1. m \in 0 .. m
    OBVIOUS
  <2>2. m \notin Bad => f[1 .. m] = g[1 .. m]
    BY <2>1
  <2> QED BY <2>2
<1>1. PICK k \in Bad : \A j \in Bad : k <= j
  BY <1>0, LeastNatural
<1>k. k \in 0 .. m
  OBVIOUS
<1>2. PICK S \in SUBSET (1 .. k) : f[S] # g[S]
  OBVIOUS
<1>3. S \in SUBSET (1 .. m)
  BY <1>k
<1>3b. S \in SUBSET (1 .. n)
  BY <1>k
<1>4. f[S] = IF S = {} THEN b ELSE ReplayStep(f[S \ {Max(S)}], q[Max(S)])
  BY <1>3 DEF Folding
<1>4b. g[S] = IF S = {} THEN b ELSE ReplayStep(g[S \ {Max(S)}], r[Max(S)])
  BY <1>3b DEF Folding
<1>5. S # {}
  BY <1>2, <1>4, <1>4b
<1>6. Max(S) \in S /\ (\A y \in S : Max(S) >= y)
  BY <1>5, <1>3, GreatestBelow
<1> DEFINE x == Max(S)
<1> HIDE DEF x
<1>6a. x \in S /\ (\A y \in S : x >= y) /\ x \in 1 .. k /\ x \in 1 .. m
  BY <1>6, <1>3 DEF x
<1>7. S \ {x} \in SUBSET (1 .. (x - 1))
  BY <1>6a, <1>k
<1>8. x - 1 \in 0 .. m /\ x - 1 < k
  BY <1>6a, <1>k
<1>9. x - 1 \notin Bad
  <2> SUFFICES ASSUME x - 1 \in Bad PROVE FALSE
    OBVIOUS
  <2>1. k <= x - 1
    BY <1>1
  <2> QED BY <2>1, <1>8, <1>6a, <1>k
<1>10. f[S \ {x}] = g[S \ {x}]
  BY <1>7, <1>8, <1>9
<1>11. q[x] = r[x]
  BY <1>6a
<1> QED BY <1>2, <1>4, <1>4b, <1>5, <1>10, <1>11 DEF x

LEMMA FoldLeftEmpty ==
  ASSUME NEW b
  PROVE  FoldLeft(ReplayStep, b, <<>>) = b
<1>1. Folding(Folded(b, <<>>, 0), b, <<>>, 0)
  BY FoldingExists
<1>2. {} \in SUBSET (1 .. 0) /\ 1 .. 0 = {}
  OBVIOUS
<1>3. Folded(b, <<>>, 0)[{}] = b
  BY <1>1, <1>2 DEF Folding
<1>4. DOMAIN <<>> = 1 .. 0
  OBVIOUS
<1> QED BY <1>2, <1>3, <1>4, FoldIs

LEMMA FoldLeftAppend ==
  ASSUME NEW b, NEW T, NEW q \in Seq(T), NEW e \in T
  PROVE  FoldLeft(ReplayStep, b, Append(q, e)) = ReplayStep(FoldLeft(ReplayStep, b, q), e)
<1> DEFINE n == Len(q)
           r == Append(q, e)
           f == Folded(b, q, n)
           g == Folded(b, r, n + 1)
<1> HIDE DEF n, r, f, g
<1>0. n \in Nat /\ DOMAIN q = 1 .. n /\ DOMAIN r = 1 .. (n + 1)
  BY DEF n, r
<1>0a. r[n + 1] = e /\ \A i \in 1 .. n : q[i] = r[i]
  BY DEF n, r
<1>n. n + 1 \in Nat /\ n <= n + 1
  BY <1>0
<1>1. Folding(f, b, q, n) /\ Folding(g, b, r, n + 1)
  BY <1>0, <1>n, FoldingExists DEF f, g
<1>2. f[1 .. n] = g[1 .. n]
  BY <1>0, <1>n, <1>0a, <1>1, FoldsAgree
<1>3. g[1 .. (n + 1)] = ReplayStep(g[1 .. n], e)
  <2> DEFINE W == 1 .. (n + 1)
  <2>0. W # {} /\ n + 1 \in W /\ W \in SUBSET (1 .. (n + 1))
    BY <1>0
  <2>1. Max(W) \in W /\ \A y \in W : Max(W) >= y
    BY <1>n, <2>0, GreatestBelow
  <2>2. Max(W) = n + 1
    BY <1>0, <2>1, <2>0
  <2>3. W \ {n + 1} = 1 .. n
    BY <1>0
  <2>4. g[W] = IF W = {} THEN b ELSE ReplayStep(g[W \ {Max(W)}], r[Max(W)])
    BY <1>1, <2>0 DEF Folding
  <2> QED BY <2>0, <2>2, <2>3, <2>4, <1>0a
<1>4. FoldLeft(ReplayStep, b, q) = f[1 .. n]
  BY <1>0, FoldIs DEF f
<1>5. FoldLeft(ReplayStep, b, r) = g[1 .. (n + 1)]
  BY <1>0, FoldIs DEF g
<1> QED BY <1>2, <1>3, <1>4, <1>5 DEF r

(* The certificate replays from the initial state, every action accepted   *)
(* under the authority it is listed with, to the state it claims, whenever *)
(* it is read and whatever the run met (certificate.go,                    *)
(* VerifyReplayCertificate).                                               *)
THEOREM CertificateReplays == Spec => []CertificateVerifies
<1>1. Init => CertificateVerifies
  BY FoldLeftEmpty DEF Init, CertificateVerifies, Replay
<1>2. RuntimeInv /\ RuntimeInv' /\ CertificateVerifies /\ [Next]_vars => CertificateVerifies'
  <2> SUFFICES ASSUME RuntimeInv, RuntimeInv', CertificateVerifies, [Next]_vars
               PROVE  CertificateVerifies'
    OBVIOUS
  <2>1. CASE UNCHANGED record
    BY <2>1 DEF record, CertificateVerifies, Replay
  <2>2. ASSUME NEW logged \in BOOLEAN, Commit(logged) PROVE CertificateVerifies'
    <3> DEFINE Entry == [authority : Authority, action : Action]
               e     == [authority |-> TurnAuthority(MyTurn), action |-> lock.act]
               b     == [ok |-> TRUE, state |-> InitialState]
               r     == [ok |-> TRUE, state |-> state]
    <3>1. /\ Accepts(state, e.authority, e.action) /\ state' = Apply(state, e.action)
          /\ cert' = Append(cert, e)
      BY <2>2, CommitFacts
    <3>2. e \in Entry
      <4>1. /\ TurnAuthority(MyTurn) = CurrentAuthority(state) /\ lock.act \in Action
            /\ NextOpportunity(state) # NoOpportunity /\ state \in State
        BY <2>2, CommitFacts, OffersAreActions DEF RuntimeInv, RuntimeTypeOK, Accepts, Authorized
      <4>2. CurrentAuthority(state) \in Authority
        BY <4>1, NextOpportunityType DEF CurrentAuthority, Authority, State
      <4> QED BY <4>1, <4>2
    <3>3. cert \in Seq(Entry)
      BY DEF RuntimeInv, RuntimeTypeOK
    <3> HIDE DEF Entry, e
    <3>4. FoldLeft(ReplayStep, b, cert) = r
      BY DEF CertificateVerifies, Replay
    <3>5. ReplayStep(r, e) = [ok |-> TRUE, state |-> state']
      BY <3>1 DEF ReplayStep
    <3>6. CertificateVerifies' <=> FoldLeft(ReplayStep, b, cert') = [ok |-> TRUE, state |-> state']
      BY DEF CertificateVerifies, Replay
    <3> HIDE DEF b, r
    <3>7. FoldLeft(ReplayStep, b, Append(cert, e)) = ReplayStep(FoldLeft(ReplayStep, b, cert), e)
      BY <3>2, <3>3, FoldLeftAppend
    <3> QED BY <3>1, <3>4, <3>5, <3>6, <3>7
  <2> QED BY <2>1, <2>2, OnlyCommitRecords
<1> QED BY <1>1, <1>2, RuntimeConsistent, PTL DEF Spec

-----------------------------------------------------------------------------
(* Long polling.                                                           *)

\* A step keeps sleepers asleep rightly when the case goes on as it was and the
\* turns of the servers it leaves sleepers on are no more open than before.
LEMMA SleepersUndisturbed ==
  ASSUME NoLostWakeup, main.at # "failed",
         state' = state, main'.backend = main.backend, main'.at = "done" => main.at = "done",
         asleep' \subseteq asleep,
         NEW left, \A w \in asleep' : ServerOf(w.client.role) \in left,
         \A sv \in left : Open(sv)' => Open(sv) /\ active'[sv].opp = active[sv].opp
  PROVE  NoLostWakeup'
<1> SUFFICES ASSUME NEW w \in asleep' PROVE ~ReadyFor(w.client, w.seen)'
  BY DEF NoLostWakeup
<1>1. PICK sv \in left : sv = ServerOf(w.client.role)
  OBVIOUS
<1>2. ~ReadyFor(w.client, w.seen)
  BY DEF NoLostWakeup
<1>3. ServerOf(w.client.role)' = sv
  BY <1>1 DEF ServerOf
<1>4. CaseOver' => CaseOver
  BY DEF CaseOver
<1>5. Open(sv)' => Open(sv) /\ active'[sv].opp = active[sv].opp
  OBVIOUS
<1> QED BY <1>1, <1>2, <1>3, <1>4, <1>5 DEF ReadyFor, Open, Owner

LEMMA NobodyAsleep ==
  ASSUME asleep' = {} PROVE NoLostWakeup'
BY DEF NoLostWakeup

\* A step of a request, a provider or the engine changes the run loop's turn at
\* most, and never opens one.
LEMMA TurnNoMoreOpen ==
  ASSUME RuntimeInv, NoLostWakeup, main.at # "failed", OpenTurn,
         UNCHANGED <<state, main>>, asleep' \subseteq asleep,
         NEW t, t = NoTurn \/ t.completed \/ t.opp = MyTurn.opp,
         active' = [active EXCEPT ![MyServer] = t]
  PROVE  NoLostWakeup'
<1>1. MyServer \in Servers /\ active \in [Servers -> Turn \cup {NoTurn}]
  BY ServerFacts DEF RuntimeInv, RuntimeTypeOK
<1>2. MyTurn # NoTurn /\ ~MyTurn.completed
  BY MyTurnFacts DEF RuntimeInv, OpenTurn
<1>3. \A sv \in Servers : Open(sv)' => Open(sv) /\ active'[sv].opp = active[sv].opp
  BY <1>1, <1>2 DEF Open, MyTurn
<1>4. \A w \in asleep' : ServerOf(w.client.role) \in Servers
  BY ServerFacts DEF RuntimeInv
<1>5. main'.backend = main.backend /\ main'.at = main.at /\ state' = state
  OBVIOUS
<1> QED BY <1>3, <1>4, <1>5, SleepersUndisturbed

LEMMA SleepersKept ==
  ASSUME RuntimeInv, NoLostWakeup, main.at # "failed", UNCHANGED <<state, active>>,
         main'.backend = main.backend, main'.at = "done" => main.at = "done",
         asleep' \subseteq asleep
  PROVE  NoLostWakeup'
<1>1. \A sv \in Servers : Open(sv)' => Open(sv) /\ active'[sv].opp = active[sv].opp
  BY DEF Open
<1>2. \A w \in asleep' : ServerOf(w.client.role) \in Servers
  BY ServerFacts DEF RuntimeInv
<1> QED BY <1>1, <1>2, SleepersUndisturbed

LEMMA RunLoopWakes ==
  ASSUME RuntimeInv, NoLostWakeup, main.at # "failed", RunLoop
  PROVE  NoLostWakeup'
<1>0. /\ main \in MainState /\ \A q : [main EXCEPT !.at = q].backend = main.backend
                                      /\ [main EXCEPT !.at = q].at = q
      /\ \A w \in asleep : ServerOf(w.client.role) \in APIs
  BY DEF RuntimeInv, RuntimeTypeOK, MainState
<1>1. CASE AskNext
  <2>1. CASE NextOpportunity(state) = NoOpportunity /\ main'.at = "done"
    <3>1. Ring(APIs)
      BY <1>0, <1>1, <2>1 DEF AskNext
    <3> QED BY <1>0, <3>1, NobodyAsleep DEF Ring
  <2>2. CASE main'.at # "done"
    <3>1. UNCHANGED <<state, active, asleep>> /\ main'.backend = main.backend
      BY <1>0, <1>1, <2>2 DEF AskNext, record, MainState
    <3> QED BY <2>2, <3>1, SleepersKept
  <2>3. main'.at = "done" => NextOpportunity(state) = NoOpportunity
    BY <1>0, <1>1 DEF AskNext, MainState
  <2> QED BY <2>1, <2>2, <2>3
<1>2. CASE StartTurn
  <2>1. /\ main'.at \in {"wait", "failed"} /\ main'.backend = main.backend /\ state' = state
        /\ \/ main'.at = "failed"
           \/ Ring({MyServer}) /\ \E t : active' = [active EXCEPT ![MyServer] = t]
    BY <1>0, <1>2 DEF StartTurn, record
  <2>2. CASE main'.at = "failed"
    BY <2>2 DEF NoLostWakeup
  <2>3. CASE main'.at # "failed"
    <3>1. PICK t : active' = [active EXCEPT ![MyServer] = t]
      BY <2>1, <2>3
    <3>2. active \in [Servers -> Turn \cup {NoTurn}] /\ \A role : ServerOf(role) \in Servers
      BY ServerFacts DEF RuntimeInv, RuntimeTypeOK
    <3>3. asleep' = {w \in asleep : ServerOf(w.client.role) # MyServer}
      BY <2>1, <2>3 DEF Ring
    <3> DEFINE left == Servers \ {MyServer}
    <3>4. \A w \in asleep' : ServerOf(w.client.role) \in left
      BY <3>2, <3>3
    <3>5. \A sv \in left : active'[sv] = active[sv]
      BY <3>1, <3>2
    <3>6. \A sv \in left : Open(sv)' => Open(sv) /\ active'[sv].opp = active[sv].opp
      BY <3>5 DEF Open
    <3>7. asleep' \subseteq asleep /\ main'.at # "done"
      BY <2>1, <3>3
    <3> HIDE DEF left
    <3> QED BY <2>1, <3>4, <3>6, <3>7, SleepersUndisturbed
  <2> QED BY <2>2, <2>3
<1>3. CASE TakeVerdict \/ SeeCancelled \/ TimerFires \/ TimeoutTurn
  <2>1. /\ UNCHANGED <<state, active, asleep>> /\ main'.backend = main.backend
        /\ main'.at = "done" => main.at = "done"
    BY <1>0, <1>3 DEF TakeVerdict, SeeCancelled, TimerFires, TimeoutTurn, record
  <2> QED BY <2>1, SleepersKept
<1>4. CASE ClearTurn
  <2>1. MyServer \in Servers /\ active \in [Servers -> Turn \cup {NoTurn}]
        /\ \A w \in asleep' : ServerOf(w.client.role) \in Servers
    BY ServerFacts DEF RuntimeInv, RuntimeTypeOK
  <2>2. /\ active' \in {active, [active EXCEPT ![MyServer] = NoTurn]} /\ asleep' \subseteq asleep
        /\ state' = state /\ main'.backend = main.backend /\ main'.at # "done"
    BY <1>0, <1>4 DEF ClearTurn, Ring, record
  <2>3. \A sv \in Servers : Open(sv)' => Open(sv) /\ active'[sv].opp = active[sv].opp
    BY <2>1, <2>2 DEF Open
  <2> QED BY <2>1, <2>2, <2>3, SleepersUndisturbed
<1> QED BY <1>1, <1>2, <1>3, <1>4 DEF RunLoop

LEMMA SpentTurn ==
  ASSUME NEW t \in Turn, NEW n
  PROVE  [t EXCEPT !.attempts = n].opp = t.opp
BY DEF Turn

LEMMA AttemptWakes ==
  ASSUME RuntimeInv, NoLostWakeup, main.at # "failed", NEW sv \in Servers, Open(sv),
         active' = [active EXCEPT ![sv].attempts = @ - 1], asleep' \subseteq asleep,
         UNCHANGED <<state, main>>
  PROVE  NoLostWakeup'
<1> DEFINE t == [MyTurn EXCEPT !.attempts = @ - 1]
<1>1. sv = MyServer /\ OpenTurn /\ MyTurn \in Turn
  BY OpenIsMine, MyTurnFacts DEF RuntimeInv, OpenTurn
<1>2. t.opp = MyTurn.opp
  <2> HIDE DEF MyTurn
  <2> QED BY <1>1, SpentTurn
<1>3. active' = [active EXCEPT ![MyServer] = t]
  BY <1>1 DEF MyTurn
<1> HIDE DEF t
<1> QED BY <1>1, <1>2, <1>3, TurnNoMoreOpen

LEMMA ErrorWakes ==
  ASSUME RuntimeInv, NoLostWakeup, main.at # "failed", NEW sv \in Servers, OpenTurn, sv = MyServer,
         active' = [active EXCEPT ![sv] = Completed(@, "err")], asleep' \subseteq asleep,
         UNCHANGED <<state, main>>
  PROVE  NoLostWakeup'
<1> DEFINE t == Completed(MyTurn, "err")
<1>1. MyTurn \in Turn
  BY MyTurnFacts DEF RuntimeInv, OpenTurn
<1>2. t.completed
  <2> HIDE DEF MyTurn
  <2> QED BY <1>1, CompletedFacts
<1>3. active' = [active EXCEPT ![MyServer] = t]
  BY DEF MyTurn
<1> HIDE DEF t
<1> QED BY <1>2, <1>3, TurnNoMoreOpen

LEMMA RequestsWake ==
  ASSUME RuntimeInv, NoLostWakeup, main.at # "failed", Requests
  PROVE  NoLostWakeup'
<1>0. APIs \subseteq Servers
  BY DEF Servers
<1>1. ASSUME NEW sv \in APIs, RequestFindsCancelled(sv) PROVE NoLostWakeup'
  <2>1. sv = MyServer /\ OpenTurn
    BY <1>0, <1>1, OpenIsMine DEF RequestFindsCancelled
  <2> QED BY <1>0, <1>1, <2>1, ErrorWakes DEF RequestFindsCancelled, Ring, record
<1>2. ASSUME NEW sv \in APIs, lock = Free, Open(sv), ConsumeAttempt(sv) PROVE NoLostWakeup'
  <2>1. asleep' \subseteq asleep /\ UNCHANGED <<state, main>>
        /\ active' = [active EXCEPT ![sv].attempts = @ - 1]
    BY <1>2 DEF ConsumeAttempt, Ring, record
  <2> QED BY <1>0, <1>2, <2>1, AttemptWakes
<1>3. ASSUME UNCHANGED <<record, active, main, clock, fault, asleep>> PROVE NoLostWakeup'
  BY <1>3, SleepersKept DEF record
<1> QED
  BY <1>1, <1>2, <1>3
  DEF Requests, RequestFindsExpired, InvalidCall, Answer, Admitted, MemberFails

\* No client sleeps in /wait past the moment its turn opens, its seat fails or
\* the case ends, also when a step of the other role API brings that about
\* (signalChangedLocked, waitResponseLocked).
THEOREM NobodyOversleeps == Spec => []NoLostWakeup
<1>1. Init => NoLostWakeup
  BY DEF Init, NoLostWakeup
<1>2. RuntimeInv /\ NoLostWakeup /\ [Next]_vars => NoLostWakeup'
  <2> SUFFICES ASSUME RuntimeInv, NoLostWakeup, [Next]_vars PROVE NoLostWakeup'
    OBVIOUS
  <2>1. CASE main.at = "failed"
    <3>1. ~RunLoop
      BY <2>1 DEF RunLoop, AskNext, StartTurn, TakeVerdict, SeeCancelled, TimerFires, TimeoutTurn,
                  ClearTurn
    <3>2. main' = main
      BY <3>1, <2>1
      DEF Next, Requests, RequestFindsCancelled, RequestFindsExpired, InvalidCall, Answer,
          MemberFails, ConsumeAttempt, Provider, ProviderVotes, ProviderInvalid, ProviderFails,
          EngineCall, Commit, Late, CallFails, Wait, StopWaiting, DeadlinePasses, CaseCancelled,
          Finished, vars
    <3> QED BY <2>1, <3>2 DEF NoLostWakeup
  <2>2. CASE main.at # "failed" /\ Provider
    <3>1. UNCHANGED <<state, main, asleep>>
          /\ (active' = active \/ active' = [active EXCEPT !["direct"].attempts = @ - 1])
          /\ Open("direct") /\ "direct" \in Servers
      BY <2>2 DEF Provider, ProviderVotes, ProviderInvalid, ProviderFails, Asking, record, Servers
    <3> QED BY <2>2, <3>1, SleepersKept, AttemptWakes
  <2>3. ASSUME main.at # "failed", NEW logged \in BOOLEAN, Commit(logged) PROVE NoLostWakeup'
    BY <2>3, NobodyAsleep DEF Commit, Ring, RuntimeInv, RuntimeTypeOK
  <2>4. CASE main.at # "failed" /\ CallFails
    <3>1. lock.server = MyServer /\ OpenTurn /\ MyServer \in Servers
      BY <2>4, ServerFacts DEF CallFails, RuntimeInv, LockServesTurn
    <3> QED BY <2>4, <3>1, ErrorWakes DEF CallFails, Ring, record
  <2>5. ASSUME main.at # "failed", NEW spoiled \in BOOLEAN, Late(spoiled) PROVE NoLostWakeup'
    BY <2>5, SleepersKept DEF Late, record
  <2>6. ASSUME main.at # "failed", NEW c, NEW seen, Wait(c, seen) PROVE NoLostWakeup'
    <3>1. \A w \in asleep' : ~ReadyFor(w.client, w.seen)
      BY <2>6 DEF Wait, NoLostWakeup
    <3>2. \A w : ReadyFor(w.client, w.seen)' => ReadyFor(w.client, w.seen)
      BY <2>6 DEF Wait, ReadyFor, CaseOver, ServerOf, Open, Owner, record
    <3> QED BY <3>1, <3>2 DEF NoLostWakeup
  <2>7. CASE main.at # "failed" /\ (StopWaiting \/ DeadlinePasses \/ CaseCancelled \/ Finished
                                    \/ UNCHANGED vars)
    BY <2>7, SleepersKept DEF StopWaiting, DeadlinePasses, CaseCancelled, Finished, vars, record
  <2> QED
    BY <2>1, <2>2, <2>3, <2>4, <2>5, <2>6, <2>7, RunLoopWakes, RequestsWake DEF Next, EngineCall
<1> QED BY <1>1, <1>2, RuntimeConsistent, PTL DEF Spec
=================================================================================
