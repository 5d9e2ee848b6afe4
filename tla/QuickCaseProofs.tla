---------------------------- MODULE QuickCaseProofs ----------------------------
(***************************************************************************)
(* Theorems about QuickCase for every set of configurations: every council *)
(* size, majority, attempt limit and set of waiting lawyers, with members  *)
(* asked in turn or at once.                                               *)
(***************************************************************************)
EXTENDS QuickCase, SequenceTheorems, TLAPS

-----------------------------------------------------------------------------
(* The inductive invariant.                                                *)

Callbacks  == [kind : {"timeout", "cancelled"}, role : Lawyers]
Transcript == [arguments : Seq(Lawyers), votes : Seq([member : Nat, vote : Votes]),
               failures : Seq(Nat)]
Hearing(c) == [config : {c}, outcome : [1 .. c.CouncilSize -> Outcomes],
               left : [1 .. c.CouncilSize -> Nat], collected : SUBSET (1 .. c.CouncilSize),
               tallied : 0 .. c.CouncilSize, stopped : BOOLEAN]
Polls      == [at : {"idle", "asleep", "awake"}, base : Nat, after : Lawyers \cup {"none"}]

QuickTypeOK ==
  /\ main \in [at : Places, err : BOOLEAN]
  /\ active \in [role : Lawyers \cup {"none"}, completed : BOOLEAN, attempts : Nat]
  /\ verdicts \in [Lawyers -> Seq(Verdicts)]
  /\ callbacks \in [started : SUBSET Callbacks, ran : SUBSET Callbacks]
  /\ clock \in [turns : SUBSET Lawyers, members : SUBSET Nat, cancelled : BOOLEAN]
  /\ transcript \in Transcript
  /\ cfg \in Configs /\ council \in Hearing(cfg)
  /\ version \in Nat
  /\ terminal \in {"none", "done", "failed"}
  /\ waits \in [Waiters -> Polls]
  /\ fault \in BOOLEAN

\* An attempt is left wherever an answer may still come.
AttemptsLast ==
  /\ active.role # "none" /\ ~active.completed => active.attempts >= 1
  /\ \A m \in Members : council.outcome[m] = "none" => council.left[m] >= 1

Among(r, args) == \E i \in DOMAIN args : args[i] = r
Heard(r) == Among(r, transcript.arguments)

\* The verdict of r's turn, when it has one, has its cause, and it is "ok" only
\* for an argument that stands.
Earned(r) ==
  \/ verdicts[r] = <<>> /\ ~Heard(r)
  \/ verdicts[r] = <<"timeout">> /\ ~Heard(r) /\ r \in clock.turns
  \/ verdicts[r] = <<"cancelled">> /\ ~Heard(r) /\ clock.cancelled
  \/ verdicts[r] \in {<<"exhausted">>, <<"gave_up">>} /\ ~Heard(r) /\ fault
  \/ verdicts[r] = <<"record">> /\ fault
  \/ verdicts[r] = <<"ok">> /\ Heard(r)

\* The arguments heard before r's turn.
Before(r) == IF r = "plaintiff" THEN <<>> ELSE <<"plaintiff">>

\* The lawyers' turns come one after the other, and none has a verdict before
\* it ends.
TurnsInOrder ==
  /\ main.at = "await" <=> active.role # "none"
  /\ \A r \in Lawyers :
       /\ main.at = r \/ (active.role = r /\ ~active.completed) =>
            transcript.arguments = Before(r) /\ verdicts[r] = <<>>
       /\ active.role = r /\ active.completed =>
            /\ transcript.arguments \in {Before(r), Append(Before(r), r)}
            /\ verdicts[r] # <<>>
       /\ Earned(r)
  /\ main.at = "plaintiff" \/ active.role = "plaintiff" => verdicts["defendant"] = <<>>
  /\ main.at \in {"convene", "council"} => transcript.arguments = <<"plaintiff", "defendant">>

\* Nothing is blamed without a fault: deadlines, callbacks, the contexts, the
\* members' errors and the run's own.
FaultsExplain ==
  /\ clock.turns # {} \/ clock.cancelled \/ council.stopped \/ main.err => fault
  /\ \A m \in Members : council.outcome[m] = "error" => fault
  /\ \A c \in callbacks.started : IF c.kind = "timeout" THEN c.role \in clock.turns
                                                         ELSE clock.cancelled
  /\ terminal = "failed" => fault

\* Every tallied seat has an outcome and, unless an error has been set aside, an
\* entry in the record; a run that ends well has tallied them all.
SeatsTallied ==
  /\ \A m \in 1 .. council.tallied : council.outcome[m] # "none"
  /\ ~main.err => Len(transcript.votes) + Len(transcript.failures) = council.tallied
  /\ main.at \in {"ending", "closing", "over"} /\ ~main.err =>
       council.tallied = cfg.CouncilSize /\ transcript.arguments = <<"plaintiff", "defendant">>
  /\ terminal = "done" => main.at \in {"closing", "over"} /\ ~main.err

QuickInv ==
  /\ QuickTypeOK
  /\ AttemptsLast
  /\ TurnsInOrder
  /\ FaultsExplain
  /\ SeatsTallied
  /\ TalliedInOrder

-----------------------------------------------------------------------------
(* Broadcasts, and what completes a turn.                                  *)

LEMMA AnnounceFacts ==
  ASSUME QuickTypeOK, Announce
  PROVE  /\ version' \in Nat /\ waits' \in [Waiters -> Polls]
         /\ \A w \in Waiters : waits'[w].at # "asleep"
<1>1. \A p \in Polls : [p EXCEPT !.at = "awake"] \in Polls /\ [p EXCEPT !.at = "awake"].at = "awake"
  BY DEF Polls
<1>2. \A w \in Waiters : waits[w] \in Polls
  BY DEF QuickTypeOK
<1> QED BY <1>1, <1>2 DEF Announce, QuickTypeOK

LEMMA CompletedTurn ==
  ASSUME QuickTypeOK, TurnsInOrder, NEW role \in Lawyers, NEW v \in Verdicts,
         CompleteLawyerTurn(role, v), Completes(role)
  PROVE  /\ active' \in [role : Lawyers \cup {"none"}, completed : BOOLEAN, attempts : Nat]
         /\ active'.role = role /\ active'.completed
         /\ verdicts' = [verdicts EXCEPT ![role] = <<v>>]
         /\ Announce
<1>1. verdicts[role] = <<>> /\ active.role = role
  BY DEF TurnsInOrder, Completes
<1>2. /\ [active EXCEPT !.completed = TRUE] \in
           [role : Lawyers \cup {"none"}, completed : BOOLEAN, attempts : Nat]
      /\ [active EXCEPT !.completed = TRUE].role = role /\ [active EXCEPT !.completed = TRUE].completed
  BY <1>1 DEF QuickTypeOK
<1>3. verdicts \in [Lawyers -> Seq(Verdicts)] /\ Append(<<>>, v) = <<v>>
  BY DEF QuickTypeOK
<1> QED BY <1>1, <1>2, <1>3 DEF CompleteLawyerTurn

LEMMA ArgumentFacts ==
  /\ Before("plaintiff") = <<>> /\ Before("defendant") = <<"plaintiff">>
  /\ Append(<<>>, "plaintiff") = <<"plaintiff">>
  /\ Append(<<"plaintiff">>, "defendant") = <<"plaintiff", "defendant">>
<1>1. Before("plaintiff") = <<>> /\ Before("defendant") = <<"plaintiff">>
  BY DEF Before
<1>2. Append(<<>>, "plaintiff") = <<"plaintiff">>
  <2> <<>> \in Seq(Lawyers)
    OBVIOUS
  <2> QED OBVIOUS
<1>3. Append(<<"plaintiff">>, "defendant") = <<"plaintiff", "defendant">>
  <2> DEFINE s == <<"plaintiff">>  t == <<"plaintiff", "defendant">>
  <2>1. /\ s \in Seq(Lawyers) /\ Len(s) = 1 /\ s[1] = "plaintiff" /\ "defendant" \in Lawyers
        /\ t \in Seq(Lawyers) /\ Len(t) = 2 /\ t[1] = "plaintiff" /\ t[2] = "defendant"
    BY DEF Lawyers
  <2> HIDE DEF s, t
  <2> DEFINE q == Append(s, "defendant")
  <2>2. /\ q \in Seq(Lawyers) /\ Len(q) = Len(s) + 1
        /\ \A i \in 1 .. Len(s) : q[i] = s[i]
        /\ q[Len(s) + 1] = "defendant"
    BY <2>1, AppendProperties
  <2> HIDE DEF q
  <2>3. Len(q) = 2 /\ q[1] = "plaintiff" /\ q[2] = "defendant"
    BY <2>1, <2>2
  <2>4. q = t
    BY <2>1, <2>2, <2>3, SeqEqual
  <2> QED BY <2>4 DEF q, s, t
<1> QED BY <1>1, <1>2, <1>3

LEMMA AmongFacts ==
  ASSUME NEW r \in Lawyers
  PROVE  /\ ~Among(r, <<>>)
         /\ Among(r, <<"plaintiff">>) <=> r = "plaintiff"
         /\ Among(r, <<"plaintiff", "defendant">>)
<1>1. ~Among(r, <<>>)
  BY DEF Among
<1>2. Among(r, <<"plaintiff">>) <=> r = "plaintiff"
  BY DEF Among
<1>3. Among(r, <<"plaintiff", "defendant">>)
  <2> DEFINE q == <<"plaintiff", "defendant">>
  <2>1. 1 \in DOMAIN q /\ q[1] = "plaintiff" /\ 2 \in DOMAIN q /\ q[2] = "defendant"
    OBVIOUS
  <2> HIDE DEF q
  <2> QED BY <2>1 DEF Among, Lawyers, q
<1> QED BY <1>1, <1>2, <1>3

\* What has been said before and after r's turn.
LEMMA HeardFacts ==
  ASSUME NEW r \in Lawyers, NEW s \in Lawyers, NEW args \in {Before(r), Append(Before(r), r)}
  PROVE  /\ args \in Seq(Lawyers)
         /\ Among(r, args) <=> args = Append(Before(r), r)
         /\ s # r => (Among(s, args) <=> s = "plaintiff")
<1>1. <<>> \in Seq(Lawyers) /\ <<"plaintiff">> \in Seq(Lawyers)
      /\ <<"plaintiff", "defendant">> \in Seq(Lawyers)
  BY DEF Lawyers
<1>2. Len(<<>>) = 0 /\ Len(<<"plaintiff">>) = 1 /\ Len(<<"plaintiff", "defendant">>) = 2
  OBVIOUS
<1>3. CASE r = "plaintiff"
  BY <1>1, <1>2, <1>3, ArgumentFacts, AmongFacts DEF Lawyers
<1>4. CASE r = "defendant"
  BY <1>1, <1>2, <1>4, ArgumentFacts, AmongFacts DEF Lawyers
<1> QED BY <1>3, <1>4 DEF Lawyers

\* The open turn of role ends with a verdict that has its cause.
LEMMA SettledKeeps ==
  ASSUME QuickTypeOK, TurnsInOrder, NEW role \in Lawyers, NEW v \in Verdicts, Completes(role),
         active'.role = role, active'.completed, verdicts' = [verdicts EXCEPT ![role] = <<v>>],
         main' = main, transcript'.arguments \in {Before(role), Append(Before(role), role)},
         clock' = clock, fault => fault', Earned(role)'
  PROVE  TurnsInOrder'
<1>1. /\ main.at = "await" /\ transcript.arguments = Before(role)
      /\ \A r \in Lawyers : main.at # r /\ (r # role => active.role # r)
  BY DEF TurnsInOrder, Completes, Lawyers
<1>2. /\ verdicts'[role] = <<v>> /\ <<v>> # <<>>
      /\ \A r \in Lawyers : r # role => verdicts'[r] = verdicts[r]
  BY DEF QuickTypeOK
<1>3. ASSUME NEW r \in Lawyers, r # role PROVE Earned(r)'
  <2>1. Earned(r) /\ verdicts'[r] = verdicts[r]
    BY <1>2, <1>3 DEF TurnsInOrder
  <2>2. Heard(r) <=> r = "plaintiff"
    BY <1>1, <1>3, HeardFacts DEF Heard
  <2>3. Heard(r)' <=> r = "plaintiff"
    BY <1>3, HeardFacts DEF Heard
  <2> QED BY <2>1, <2>2, <2>3 DEF Earned
<1>4. verdicts'["plaintiff"] = verdicts["plaintiff"] \/ role = "plaintiff"
  BY <1>2 DEF Lawyers
<1> QED BY <1>1, <1>2, <1>3, <1>4 DEF TurnsInOrder, Completes, Before, Lawyers

-----------------------------------------------------------------------------
(* The lawyers' turns.                                                     *)

LEMMA TurnsKept ==
  ASSUME QuickTypeOK, TurnsInOrder, UNCHANGED <<active, verdicts>>,
         transcript'.arguments = transcript.arguments,
         clock.turns \subseteq clock'.turns, clock.cancelled => clock'.cancelled, fault => fault',
         \/ main'.at = main.at
         \/ main.at = "convene" /\ main'.at = "council"
         \/ main.at \notin Lawyers \cup {"await"} /\ main'.at \in {"ending", "closing", "over"}
  PROVE  TurnsInOrder'
<1>1. \A r \in Lawyers : Earned(r)'
  BY DEF TurnsInOrder, Earned, Heard
<1>2. /\ main'.at = "await" <=> main.at = "await"
      /\ \A r \in Lawyers : main'.at = r => main.at = r
  BY DEF Lawyers
<1> QED BY <1>1, <1>2 DEF TurnsInOrder, Lawyers

LEMMA OpenTurnUnheard ==
  ASSUME TurnsInOrder, NEW role \in Lawyers, Completes(role)
  PROVE  /\ transcript.arguments = Before(role) /\ verdicts[role] = <<>> /\ ~Heard(role)
         /\ main.at = "await"
<1>1. /\ transcript.arguments = Before(role) /\ verdicts[role] = <<>>
      /\ main.at = "await"
  BY DEF TurnsInOrder, Completes, Lawyers
<1>2. Len(<<>>) = 0 /\ Len(<<"plaintiff">>) = 1 /\ Len(<<"plaintiff", "defendant">>) = 2
  OBVIOUS
<1>3. Before(role) # Append(Before(role), role)
  BY <1>2, ArgumentFacts DEF Lawyers
<1> QED BY <1>1, <1>3, HeardFacts DEF Heard

LEMMA TurnStarts ==
  ASSUME QuickTypeOK, TurnsInOrder, NEW role \in Lawyers, StartTurn(role)
  PROVE  TurnsInOrder'
<1>1. main.at = role /\ active.role = "none" /\ transcript.arguments = Before(role)
      /\ verdicts[role] = <<>>
  BY DEF TurnsInOrder, StartTurn, Lawyers
<1>2. UNCHANGED <<verdicts, transcript, clock>> /\ (fault => fault')
  BY DEF StartTurn, courtVars
<1>3. \A r \in Lawyers : Earned(r)'
  BY <1>2 DEF TurnsInOrder, Earned, Heard
<1>4. CASE main' = [main EXCEPT !.at = "await"] /\ active'.role = role /\ ~active'.completed
  <2>1. main'.at = "await"
    BY <1>4 DEF QuickTypeOK
  <2> QED BY <1>1, <1>2, <1>3, <1>4, <2>1 DEF TurnsInOrder, Lawyers
<1>5. CASE main'.at = "ending" /\ active' = active
  BY <1>1, <1>2, <1>3, <1>5 DEF TurnsInOrder, Lawyers
<1>6. \/ main' = [main EXCEPT !.at = "await"] /\ active'.role = role /\ ~active'.completed
      \/ main'.at = "ending" /\ active' = active
  BY DEF StartTurn, Fail
<1> QED BY <1>4, <1>5, <1>6

LEMMA TurnFinishes ==
  ASSUME QuickTypeOK, TurnsInOrder, FinishTurn
  PROVE  TurnsInOrder'
<1>1. /\ active.role \in Lawyers /\ verdicts[active.role] # <<>>
      /\ UNCHANGED <<verdicts, transcript, clock, fault>> /\ active' = NoTurn /\ active'.role = "none"
  BY DEF FinishTurn, courtVars, TurnsInOrder, QuickTypeOK, NoTurn
<1>2. \A r \in Lawyers : Earned(r)'
  BY <1>1 DEF TurnsInOrder, Earned, Heard
<1>3. CASE Head(verdicts[active.role]) = "ok"
  <2>1. verdicts[active.role] = <<"ok">> /\ Heard(active.role)
    BY <1>1, <1>3 DEF TurnsInOrder, Earned
  <2>2. active.completed /\ transcript.arguments \in {Before(active.role), Append(Before(active.role), active.role)}
    BY <1>1, <2>1 DEF TurnsInOrder, QuickTypeOK
  <2>3. transcript.arguments = Append(Before(active.role), active.role)
    BY <1>1, <2>1, <2>2, HeardFacts DEF Heard
  <2>4. main'.at = IF active.role = "plaintiff" THEN "defendant" ELSE "convene"
    BY <1>3 DEF FinishTurn, QuickTypeOK
  <2>5. CASE active.role = "plaintiff"
    <3>1. transcript.arguments = Before("defendant") /\ verdicts["defendant"] = <<>>
      BY <2>3, <2>5, ArgumentFacts DEF TurnsInOrder
    <3> QED BY <1>1, <1>2, <2>4, <2>5, <3>1 DEF TurnsInOrder, Lawyers
  <2>6. CASE active.role = "defendant"
    <3>1. transcript.arguments = <<"plaintiff", "defendant">>
      BY <2>3, <2>6, ArgumentFacts
    <3> QED BY <1>1, <1>2, <2>4, <2>6, <3>1 DEF TurnsInOrder, Lawyers
  <2> QED BY <1>1, <2>5, <2>6 DEF Lawyers
<1>4. CASE Head(verdicts[active.role]) # "ok"
  <2>1. main'.at = "ending"
    BY <1>4 DEF FinishTurn, Fail
  <2> QED BY <1>1, <1>2, <2>1 DEF TurnsInOrder, Lawyers
<1> QED BY <1>3, <1>4

LEMMA CallbackSettles ==
  ASSUME QuickTypeOK, TurnsInOrder, FaultsExplain, NEW c \in callbacks.started, CallbackRuns(c)
  PROVE  TurnsInOrder'
<1>1. /\ c.role \in Lawyers /\ c.kind \in Verdicts /\ c.kind \in {"timeout", "cancelled"}
      /\ UNCHANGED <<main, clock, transcript, fault>>
  BY DEF QuickTypeOK, Callbacks, Verdicts, CallbackRuns, courtVars
<1>2. CASE Completes(c.role)
  <2>1. /\ active'.role = c.role /\ active'.completed
        /\ verdicts' = [verdicts EXCEPT ![c.role] = <<c.kind>>]
    BY <1>1, <1>2, CompletedTurn DEF CallbackRuns
  <2>2. transcript.arguments = Before(c.role) /\ ~Heard(c.role)
    BY <1>1, <1>2, OpenTurnUnheard
  <2>3. Earned(c.role)'
    <3>1. verdicts'[c.role] = <<c.kind>> /\ ~Heard(c.role)'
      BY <1>1, <2>1, <2>2 DEF QuickTypeOK, Heard
    <3>2. IF c.kind = "timeout" THEN c.role \in clock.turns ELSE clock.cancelled
      BY DEF FaultsExplain
    <3> QED BY <1>1, <3>1, <3>2 DEF Earned
  <2> QED BY <1>1, <1>2, <2>1, <2>2, <2>3, SettledKeeps
<1>3. CASE ~Completes(c.role)
  <2>1. UNCHANGED <<active, verdicts>>
    BY <1>3 DEF CallbackRuns, CompleteLawyerTurn
  <2> QED BY <1>1, <2>1, TurnsKept
<1> QED BY <1>2, <1>3

LEMMA ArgumentSettles ==
  ASSUME QuickTypeOK, TurnsInOrder, NEW role \in Lawyers, NEW io \in {"ok", "unwritten", "unlogged"},
         Completes(role), Argue(role, io), UNCHANGED <<main, clock>>
  PROVE  TurnsInOrder'
<1> DEFINE v == IF io = "ok" THEN "ok" ELSE "record"
<1>1. v \in Verdicts /\ CompleteLawyerTurn(role, v) /\ (fault => fault') /\ (v = "record" => fault')
  BY DEF Verdicts, Argue
<1>2. transcript'.arguments = IF io = "unwritten" THEN Before(role) ELSE Append(Before(role), role)
  BY OpenTurnUnheard DEF Argue, QuickTypeOK, Transcript
<1>3. v = "ok" => transcript'.arguments = Append(Before(role), role)
  BY <1>2
<1> HIDE DEF v
<1>4. /\ active'.role = role /\ active'.completed /\ verdicts' = [verdicts EXCEPT ![role] = <<v>>]
  BY <1>1, CompletedTurn
<1>5. v = "ok" => Heard(role)'
  BY <1>2, <1>3, HeardFacts DEF Heard
<1>6. v \in {"ok", "record"}
  BY DEF v
<1>7. Earned(role)'
  <2>1. verdicts'[role] = <<v>>
    BY <1>4 DEF QuickTypeOK
  <2> QED BY <1>1, <1>5, <1>6, <2>1 DEF Earned
<1> QED BY <1>1, <1>2, <1>4, <1>7, SettledKeeps

LEMMA RequestSettles ==
  ASSUME QuickTypeOK, AttemptsLast, TurnsInOrder, NEW role \in Lawyers, NEW opp \in Lawyers,
         NEW kind \in {"valid", "invalid", "fail"}, LawyerRequest(role, opp, kind)
  PROVE  TurnsInOrder'
<1>1. /\ Completes(role) /\ UNCHANGED <<main, clock>> /\ active.attempts >= 1
      /\ transcript.arguments = Before(role) /\ ~Heard(role)
  <2>1. Completes(role) /\ UNCHANGED <<main, clock>> /\ active.role # "none"
    BY DEF LawyerRequest, Admitted, Completes, Lawyers
  <2> QED BY <2>1, OpenTurnUnheard DEF AttemptsLast, Completes
<1>2. ASSUME NEW v \in {"timeout", "exhausted", "gave_up"}, UNCHANGED transcript, fault => fault',
             active'.role = role, active'.completed, verdicts' = [verdicts EXCEPT ![role] = <<v>>],
             IF v = "timeout" THEN role \in clock.turns ELSE fault'
      PROVE  TurnsInOrder'
  <2>1. verdicts'[role] = <<v>> /\ ~Heard(role)'
    BY <1>1, <1>2 DEF QuickTypeOK, Heard
  <2>2. Earned(role)'
    BY <1>1, <1>2, <2>1 DEF Earned
  <2>3. v \in Verdicts
    BY <1>2 DEF Verdicts
  <2> QED BY <1>1, <1>2, <2>2, <2>3, SettledKeeps
<1>3. CASE Late
  <2>1. /\ CompleteLawyerTurn(role, "timeout") /\ UNCHANGED <<transcript, fault>>
        /\ role \in clock.turns
    BY <1>1, <1>3 DEF LawyerRequest, Late, Completes
  <2>2. "timeout" \in Verdicts
    BY DEF Verdicts
  <2> QED BY <1>1, <1>2, <2>1, <2>2, CompletedTurn
<1>4. CASE ~Late /\ kind = "valid"
  <2>1. \E io \in {"ok", "unwritten", "unlogged"} : Argue(role, io)
    BY <1>4 DEF LawyerRequest
  <2> QED BY <1>1, <2>1, ArgumentSettles
<1>5. CASE ~Late /\ kind = "invalid" /\ active.attempts > 1
  <2>0. ~(kind = "valid") /\ ~(kind = "fail") /\ ~(active.attempts = 1)
    BY <1>5 DEF QuickTypeOK
  <2>1. active' = [active EXCEPT !.attempts = @ - 1] /\ UNCHANGED <<verdicts, transcript, fault>>
    BY <1>5, <2>0, Zenon DEF LawyerRequest
  <2>2. active'.role = active.role /\ active'.completed = active.completed
    BY <2>1 DEF QuickTypeOK
  <2>3. \A r \in Lawyers : Earned(r)'
    BY <1>1, <2>1 DEF TurnsInOrder, Earned, Heard
  <2> QED BY <1>1, <2>1, <2>2, <2>3 DEF TurnsInOrder
<1>6. CASE ~Late /\ kind = "invalid" /\ active.attempts = 1
  <2>1. /\ active' = [active EXCEPT !.attempts = 0, !.completed = TRUE] /\ fault'
        /\ verdicts' = [verdicts EXCEPT ![role] = Append(@, "exhausted")] /\ UNCHANGED transcript
    BY <1>6 DEF LawyerRequest
  <2>2. active'.role = role /\ active'.completed
    BY <1>1, <2>1 DEF QuickTypeOK, Completes
  <2>3. verdicts' = [verdicts EXCEPT ![role] = <<"exhausted">>]
    <3>1. verdicts[role] = <<>> /\ Append(<<>>, "exhausted") = <<"exhausted">>
      BY <1>1, OpenTurnUnheard
    <3> QED BY <2>1, <3>1, Zenon
  <2> QED BY <1>2, <2>1, <2>2, <2>3
<1>7. CASE ~Late /\ kind = "fail"
  <2>1. CompleteLawyerTurn(role, "gave_up") /\ fault' /\ UNCHANGED transcript
    BY <1>7 DEF LawyerRequest
  <2>2. "gave_up" \in Verdicts
    BY DEF Verdicts
  <2> QED BY <1>1, <1>2, <2>1, <2>2, CompletedTurn
<1>8. active.attempts > 1 \/ active.attempts = 1
  BY <1>1 DEF QuickTypeOK
<1> QED BY <1>3, <1>4, <1>5, <1>6, <1>7, <1>8

-----------------------------------------------------------------------------
(* Types, and attempts left.                                               *)

LawyerTurn == [role : Lawyers \cup {"none"}, completed : BOOLEAN, attempts : Nat]

\* What a step of a lawyer's turn touches, well typed: nobody is left asleep
\* unless nothing that a sleeper waits for has changed.
TurnStepOK ==
  /\ active' \in LawyerTurn
  /\ active'.role # "none" /\ ~active'.completed => active'.attempts >= 1
  /\ verdicts' \in [Lawyers -> Seq(Verdicts)]
  /\ version' \in Nat /\ waits' \in [Waiters -> Polls]
  /\ \/ \A w \in Waiters : waits'[w].at # "asleep"
     \/ /\ UNCHANGED <<version, waits>>
        /\ active'.role = active.role /\ active'.completed = active.completed

LEMMA CompletionTypes ==
  ASSUME QuickTypeOK, AttemptsLast, TurnsInOrder, NEW role \in Lawyers, NEW v \in Verdicts,
         CompleteLawyerTurn(role, v)
  PROVE  TurnStepOK
<1>1. CASE Completes(role)
  <2>1. /\ active' \in LawyerTurn /\ active'.completed /\ Announce
        /\ verdicts' = [verdicts EXCEPT ![role] = <<v>>]
    BY <1>1, CompletedTurn DEF LawyerTurn
  <2>2. verdicts' \in [Lawyers -> Seq(Verdicts)]
    <3>1. <<v>> \in Seq(Verdicts)
      OBVIOUS
    <3> QED BY <2>1, <3>1 DEF QuickTypeOK
  <2> QED BY <2>1, <2>2, AnnounceFacts DEF TurnStepOK
<1>2. CASE ~Completes(role)
  BY <1>2 DEF CompleteLawyerTurn, TurnStepOK, QuickTypeOK, LawyerTurn, AttemptsLast
<1> QED BY <1>1, <1>2

\* The effects of a request, whichever it is.
LEMMA RequestFacts ==
  ASSUME QuickTypeOK, AttemptsLast, TurnsInOrder, NEW role \in Lawyers, NEW opp \in Lawyers,
         NEW kind \in {"valid", "invalid", "fail"}, LawyerRequest(role, opp, kind)
  PROVE  /\ TurnStepOK
         /\ Completes(role) /\ fault' \in BOOLEAN /\ (fault => fault')
         /\ UNCHANGED <<main, callbacks, clock, council, terminal>>
         /\ \/ UNCHANGED <<transcript, written>>
            \/ /\ transcript' = [transcript EXCEPT !.arguments = Append(@, role)]
               /\ written' = transcript'
<1>1. /\ Completes(role) /\ active.attempts >= 1
      /\ UNCHANGED <<main, callbacks, clock, council, terminal>>
  <2>1. /\ Completes(role) /\ active.role # "none"
        /\ UNCHANGED <<main, callbacks, clock, council, terminal>>
    BY DEF LawyerRequest, Admitted, Completes, Lawyers
  <2> QED BY <2>1 DEF AttemptsLast, Completes
<1>2. "timeout" \in Verdicts /\ "gave_up" \in Verdicts /\ "ok" \in Verdicts
      /\ "record" \in Verdicts /\ "exhausted" \in Verdicts
  BY DEF Verdicts
<1>3. CASE Late
  <2>1. CompleteLawyerTurn(role, "timeout") /\ UNCHANGED <<transcript, written, fault>>
    BY <1>3 DEF LawyerRequest
  <2> QED BY <1>1, <1>2, <2>1, CompletionTypes DEF QuickTypeOK
<1>4. CASE ~Late /\ kind = "valid"
  <2>1. PICK io \in {"ok", "unwritten", "unlogged"} : Argue(role, io)
    BY <1>4 DEF LawyerRequest
  <2>2. /\ CompleteLawyerTurn(role, "ok") \/ CompleteLawyerTurn(role, "record")
        /\ fault' \in BOOLEAN /\ (fault => fault')
        /\ \/ UNCHANGED <<transcript, written>>
           \/ /\ transcript' = [transcript EXCEPT !.arguments = Append(@, role)]
              /\ written' = transcript'
    BY <2>1 DEF Argue, QuickTypeOK
  <2> QED BY <1>1, <1>2, <2>2, CompletionTypes
<1>5. CASE ~Late /\ kind = "invalid" /\ active.attempts > 1
  <2>1. ~(kind = "valid") /\ ~(kind = "fail") /\ ~(active.attempts = 1)
    BY <1>5 DEF QuickTypeOK
  <2>2. /\ active' = [active EXCEPT !.attempts = @ - 1]
        /\ UNCHANGED <<verdicts, version, waits, transcript, written, fault>>
    BY <1>5, <2>1, Zenon DEF LawyerRequest
  <2>3. /\ active' \in LawyerTurn /\ active'.attempts >= 1
        /\ active'.role = active.role /\ active'.completed = active.completed
    <3>1. active.attempts - 1 \in Nat /\ active.attempts - 1 >= 1 /\ active \in LawyerTurn
      BY <1>5 DEF QuickTypeOK, LawyerTurn
    <3> DEFINE n == active.attempts - 1
    <3>2. active' = [active EXCEPT !.attempts = n]
      BY <2>2
    <3> HIDE DEF n
    <3> QED BY <3>1, <3>2 DEF LawyerTurn, n
  <2> QED BY <1>1, <2>2, <2>3 DEF TurnStepOK, QuickTypeOK
<1>6. CASE ~Late /\ kind = "invalid" /\ active.attempts = 1
  <2>1. /\ active' = [active EXCEPT !.attempts = 0, !.completed = TRUE] /\ fault' = TRUE
        /\ verdicts' = [verdicts EXCEPT ![role] = Append(@, "exhausted")]
        /\ Announce /\ UNCHANGED <<transcript, written>>
    BY <1>6 DEF LawyerRequest
  <2>2. active' \in LawyerTurn /\ active'.completed
    BY <2>1 DEF QuickTypeOK, LawyerTurn
  <2>3. verdicts' \in [Lawyers -> Seq(Verdicts)]
    BY <1>2, <2>1 DEF QuickTypeOK
  <2> QED BY <1>1, <2>1, <2>2, <2>3, AnnounceFacts DEF TurnStepOK
<1>7. CASE ~Late /\ kind = "fail"
  <2>1. CompleteLawyerTurn(role, "gave_up") /\ fault' = TRUE /\ UNCHANGED <<transcript, written>>
    BY <1>7 DEF LawyerRequest
  <2> QED BY <1>1, <1>2, <2>1, CompletionTypes
<1>8. active.attempts > 1 \/ active.attempts = 1
  BY <1>1 DEF QuickTypeOK
<1> QED BY <1>3, <1>4, <1>5, <1>6, <1>7, <1>8

LEMMA ConfigFacts ==
  ASSUME QuickTypeOK
  PROVE  /\ cfg.CouncilSize \in Nat \ {0} /\ cfg.InvalidAttemptLimit \in Nat \ {0}
         /\ cfg.waiters \in SUBSET Lawyers /\ cfg.ParallelCouncil \in BOOLEAN
BY QuickAssumption DEF QuickTypeOK, Config

LEMMA StartTypes ==
  ASSUME QuickTypeOK, AttemptsLast, TurnsInOrder, NEW role \in Lawyers, StartTurn(role)
  PROVE  TurnStepOK /\ main' \in [at : Places, err : BOOLEAN] /\ fault' \in BOOLEAN
<1>1. PICK logged \in BOOLEAN :
        IF ~clock.cancelled /\ logged
        THEN /\ active' = [role |-> role, completed |-> FALSE, attempts |-> cfg.InvalidAttemptLimit]
             /\ main' = [main EXCEPT !.at = "await"]
             /\ Announce
             /\ UNCHANGED fault
        ELSE Fail /\ fault' = TRUE /\ UNCHANGED <<active, version, waits>>
  BY DEF StartTurn
<1>2. verdicts' = verdicts
  BY DEF StartTurn
<1>3. CASE ~clock.cancelled /\ logged
  <2>1. active' \in LawyerTurn /\ active'.attempts >= 1
    <3> DEFINE n == cfg.InvalidAttemptLimit
    <3>1. n \in Nat /\ n >= 1
      BY ConfigFacts
    <3>2. active' = [role |-> role, completed |-> FALSE, attempts |-> n]
      BY <1>1, <1>3
    <3> HIDE DEF n
    <3> QED BY <3>1, <3>2 DEF LawyerTurn
  <2>2. main' \in [at : Places, err : BOOLEAN]
    BY <1>1, <1>3 DEF QuickTypeOK, Places
  <2> QED BY <1>1, <1>2, <1>3, <2>1, <2>2, AnnounceFacts DEF TurnStepOK, QuickTypeOK
<1>4. CASE ~(~clock.cancelled /\ logged)
  <2>1. Fail /\ fault' = TRUE /\ UNCHANGED <<active, version, waits>>
    BY <1>1, <1>4
  <2>2. main' \in [at : Places, err : BOOLEAN]
    BY <2>1 DEF Fail, Places
  <2> QED BY <1>2, <2>1, <2>2 DEF TurnStepOK, QuickTypeOK, LawyerTurn, AttemptsLast
<1> QED BY <1>3, <1>4

-----------------------------------------------------------------------------
(* The council.                                                            *)

LEMMA CouncilFacts ==
  ASSUME QuickTypeOK
  PROVE  /\ cfg \in Config /\ council \in Hearing(cfg) /\ Members = 1 .. cfg.CouncilSize
         /\ council.outcome \in [Members -> Outcomes] /\ council.left \in [Members -> Nat]
         /\ council.tallied \in 0 .. cfg.CouncilSize /\ cfg.CouncilSize \in Nat
         /\ council.stopped \in BOOLEAN
<1>1. cfg \in Config /\ council \in Hearing(cfg)
  BY QuickAssumption DEF QuickTypeOK
<1> QED BY <1>1 DEF Hearing, Members, Config

LEMMA AnswerFacts ==
  ASSUME QuickTypeOK, AttemptsLast, NEW m \in Members,
         NEW answer \in Votes \cup {"invalid", "refused", "error"}, Answer(m, answer)
  PROVE  /\ council' \in Hearing(cfg) /\ council'.config = cfg
         /\ council'.tallied = council.tallied /\ council'.stopped = council.stopped
         /\ council'.outcome[m] = Outcome(m, answer) /\ council'.left[m] = council.left[m] - 1
         /\ \A n \in Members \ {m} : council'.outcome[n] = council.outcome[n]
                                     /\ council'.left[n] = council.left[n]
         /\ Outcome(m, answer) \in Outcomes /\ council.outcome[m] = "none"
         /\ Outcome(m, answer) = "none" => council.left[m] > 1
         /\ Outcome(m, answer) = "error" => Stopped \/ (answer = "error" /\ m \notin clock.members)
<1>1. council.outcome[m] = "none" /\ council.left[m] >= 1
  BY DEF Answer, Asked, AttemptsLast
<1>2. Outcome(m, answer) \in Outcomes
  BY DEF Outcome, Outcomes, Votes
<1>3. Outcome(m, answer) = "none" => council.left[m] > 1
  BY DEF Outcome, Votes
<1>4. Outcome(m, answer) = "error" => Stopped \/ (answer = "error" /\ m \notin clock.members)
  BY DEF Outcome, Votes
<1> DEFINE o == Outcome(m, answer)
           l == council.left[m] - 1
<1>5. council' = [council EXCEPT !.outcome[m] = o, !.left[m] = l]
  BY DEF Answer
<1>6. o \in Outcomes /\ l \in Nat
  <2>1. council.left[m] \in Nat
    BY CouncilFacts
  <2> QED BY <1>1, <1>2, <2>1
<1> HIDE DEF o, l
<1>7. /\ council' \in Hearing(cfg) /\ council'.config = cfg
      /\ council'.tallied = council.tallied /\ council'.stopped = council.stopped
      /\ council'.outcome = [council.outcome EXCEPT ![m] = o]
      /\ council'.left = [council.left EXCEPT ![m] = l]
  <2>1. PICK c : c = cfg
    OBVIOUS
  <2>2. /\ council \in Hearing(c) /\ m \in 1 .. c.CouncilSize
        /\ council.outcome \in [1 .. c.CouncilSize -> Outcomes]
        /\ council.left \in [1 .. c.CouncilSize -> Nat]
    BY <2>1, CouncilFacts
  <2>3. /\ council' \in Hearing(c) /\ council'.config = c
        /\ council'.tallied = council.tallied /\ council'.stopped = council.stopped
        /\ council'.outcome = [council.outcome EXCEPT ![m] = o]
        /\ council'.left = [council.left EXCEPT ![m] = l]
    BY <1>5, <1>6, <2>2 DEF Hearing
  <2> QED BY <2>1, <2>3
<1>8. /\ council'.outcome[m] = o /\ council'.left[m] = l
      /\ \A n \in Members \ {m} : council'.outcome[n] = council.outcome[n]
                                  /\ council'.left[n] = council.left[n]
  BY <1>7, CouncilFacts
<1> QED BY <1>1, <1>2, <1>3, <1>4, <1>7, <1>8 DEF o, l

LEMMA CollectFacts ==
  ASSUME QuickTypeOK, NEW m \in Members, Collect(m)
  PROVE  /\ council' \in Hearing(cfg) /\ council'.config = cfg /\ council'.tallied = council.tallied
         /\ council'.outcome = council.outcome /\ council'.left = council.left
         /\ council'.stopped => council.stopped \/ council.outcome[m] = "error"
<1> DEFINE b == council.stopped \/ council.outcome[m] = "error"
<1>1. council' = [council EXCEPT !.collected = @ \cup {m}, !.stopped = b] /\ b \in BOOLEAN
  BY DEF Collect
<1>2. b => council.stopped \/ council.outcome[m] = "error"
  OBVIOUS
<1> HIDE DEF b
<1>3. PICK c : c = cfg
  OBVIOUS
<1>4. council \in Hearing(c) /\ m \in 1 .. c.CouncilSize
  BY <1>3, CouncilFacts
<1>5. /\ council' \in Hearing(c) /\ council'.config = c /\ council'.tallied = council.tallied
      /\ council'.outcome = council.outcome /\ council'.left = council.left /\ council'.stopped = b
  BY <1>1, <1>4 DEF Hearing
<1> QED BY <1>2, <1>3, <1>5

LEMMA TallyFacts ==
  ASSUME QuickTypeOK, NEW n \in 0 .. cfg.CouncilSize, council' = [council EXCEPT !.tallied = n]
  PROVE  /\ council' \in Hearing(cfg) /\ council'.config = cfg /\ council'.tallied = n
         /\ council'.outcome = council.outcome /\ council'.left = council.left
         /\ council'.stopped = council.stopped
<1>1. PICK c : c = cfg
  OBVIOUS
<1>2. council \in Hearing(c) /\ n \in 0 .. c.CouncilSize
  BY <1>1, CouncilFacts
<1>3. /\ council' \in Hearing(c) /\ council'.config = c /\ council'.tallied = n
      /\ council'.outcome = council.outcome /\ council'.left = council.left
      /\ council'.stopped = council.stopped
  BY <1>2 DEF Hearing
<1> QED BY <1>1, <1>3

LEMMA SeatFacts ==
  ASSUME QuickTypeOK, SeatReady
  PROVE  /\ Seat \in Members /\ Seat = council.tallied + 1 /\ Seat \in 0 .. cfg.CouncilSize
         /\ main.at = "council" /\ council.outcome[Seat] # "none"
         /\ council.outcome[Seat] \in Outcomes
BY CouncilFacts DEF SeatReady, Seat, Members

\* An outcome that is recorded goes to the votes or to the failures.
LEMMA EntryFacts ==
  ASSUME QuickTypeOK, SeatReady, council.outcome[Seat] # "error"
  PROVE  /\ Entry(Seat) \in Transcript /\ Entry(Seat).arguments = transcript.arguments
         /\ \/ /\ council.outcome[Seat] \in Votes /\ Entry(Seat).failures = transcript.failures
               /\ Entry(Seat).votes =
                    Append(transcript.votes, [member |-> Seat, vote |-> council.outcome[Seat]])
            \/ /\ council.outcome[Seat] = "failed" /\ Entry(Seat).votes = transcript.votes
               /\ Entry(Seat).failures = Append(transcript.failures, Seat)
<1>1. Seat \in Nat
  BY SeatFacts, CouncilFacts
<1>2. transcript \in Transcript
  BY DEF QuickTypeOK
<1>3. council.outcome[Seat] \in Votes \/ council.outcome[Seat] = "failed"
  BY SeatFacts DEF Outcomes
<1>4. CASE council.outcome[Seat] \in Votes
  <2> DEFINE e == [member |-> Seat, vote |-> council.outcome[Seat]]
  <2>1. e \in [member : Nat, vote : Votes]
    BY <1>1, <1>4
  <2>2. Entry(Seat) = [transcript EXCEPT !.votes = Append(@, e)]
    BY <1>4 DEF Entry
  <2> DEFINE v == Append(transcript.votes, e)
  <2>4. v \in Seq([member : Nat, vote : Votes]) /\ Entry(Seat) = [transcript EXCEPT !.votes = v]
    BY <1>2, <2>1, <2>2 DEF Transcript
  <2> HIDE DEF e, v
  <2>3. /\ Entry(Seat) \in Transcript /\ Entry(Seat).arguments = transcript.arguments
        /\ Entry(Seat).failures = transcript.failures
        /\ Entry(Seat).votes = v
    BY <1>2, <2>4 DEF Transcript
  <2> QED BY <1>4, <2>3 DEF e, v
<1>5. CASE council.outcome[Seat] = "failed"
  <2>1. Entry(Seat) = [transcript EXCEPT !.failures = Append(@, Seat)]
    BY <1>5 DEF Entry, Votes
  <2> DEFINE f == Append(transcript.failures, Seat)
  <2>2. f \in Seq(Nat) /\ Entry(Seat) = [transcript EXCEPT !.failures = f]
    BY <1>1, <1>2, <2>1 DEF Transcript
  <2> HIDE DEF f
  <2>3. /\ Entry(Seat) \in Transcript /\ Entry(Seat).arguments = transcript.arguments
        /\ Entry(Seat).votes = transcript.votes /\ Entry(Seat).failures = f
    BY <1>2, <2>2 DEF Transcript
  <2> QED BY <1>5, <2>3 DEF f
<1> QED BY <1>3, <1>4, <1>5

-----------------------------------------------------------------------------
(* The invariant holds.                                                    *)

\* The steps by what they touch.
TurnStep ==
  \/ \E r \in Lawyers : StartTurn(r)
  \/ FinishTurn
  \/ \E c \in callbacks.started : CallbackRuns(c)
  \/ \E role, opp \in Lawyers, kind \in {"valid", "invalid", "fail"} :
       LawyerRequest(role, opp, kind)
HearingStep ==
  \/ Record \/ Skip
  \/ \E m \in Members : Collect(m)
  \/ Response
EndStep == Convene \/ Abandon \/ Adjourn \/ End \/ Close
QuietStep ==
  \/ \E kind \in {"timeout", "cancelled"} : CallbackStarts(kind)
  \/ \E w \in Waiters : WaitReturns(w) \/ \E a \in Lawyers \cup {"none"} : Wait(w, a)
  \/ TurnDeadlinePasses \/ Cancel \/ Over
  \/ \E m \in Members : MemberDeadlinePasses(m)
  \/ UNCHANGED vars

LEMMA StepKinds ==
  ASSUME [Next]_vars
  PROVE  TurnStep \/ HearingStep \/ EndStep \/ QuietStep
BY DEF Next, RunStep, Callback, Client, TurnStep, HearingStep, EndStep, QuietStep

MainType == [at : Places, err : BOOLEAN]

LEMMA MainFacts ==
  ASSUME QuickTypeOK
  PROVE  /\ main \in MainType /\ (Fail => main' \in MainType /\ main'.at = "ending" /\ main'.err)
         /\ \A p \in Places : [main EXCEPT !.at = p] \in MainType
                              /\ [main EXCEPT !.at = p].at = p /\ [main EXCEPT !.at = p].err = main.err
         /\ [main EXCEPT !.err = TRUE] \in MainType /\ [main EXCEPT !.err = TRUE].at = main.at
         /\ [main EXCEPT !.err = TRUE].err
<1>1. main \in MainType
  BY DEF QuickTypeOK, MainType
<1>2. Fail => main' \in MainType /\ main'.at = "ending" /\ main'.err
  BY DEF MainType, Fail, Places
<1>3. ASSUME NEW p \in Places
      PROVE  /\ [main EXCEPT !.at = p] \in MainType
             /\ [main EXCEPT !.at = p].at = p /\ [main EXCEPT !.at = p].err = main.err
  BY <1>1 DEF MainType
<1>4. /\ [main EXCEPT !.err = TRUE] \in MainType /\ [main EXCEPT !.err = TRUE].at = main.at
      /\ [main EXCEPT !.err = TRUE].err
  BY <1>1 DEF MainType
<1> QED BY <1>1, <1>2, <1>3, <1>4

LEMMA TurnStepTypes ==
  ASSUME QuickTypeOK, AttemptsLast, TurnsInOrder, TurnStep
  PROVE  /\ TurnStepOK /\ UNCHANGED <<clock, council, terminal>> /\ main' \in MainType
         /\ callbacks'.started = callbacks.started
         /\ callbacks' \in [started : SUBSET Callbacks, ran : SUBSET Callbacks]
         /\ fault' \in BOOLEAN /\ (fault => fault')
         /\ \/ UNCHANGED <<transcript, written>>
            \/ \E role \in Lawyers : /\ Completes(role) /\ main' = main /\ written' = transcript'
                                     /\ transcript' = [transcript EXCEPT !.arguments = Append(@, role)]
<1>1. ASSUME NEW r \in Lawyers, StartTurn(r)
      PROVE  /\ TurnStepOK /\ main' \in MainType /\ fault' \in BOOLEAN /\ (fault => fault')
             /\ UNCHANGED <<clock, council, terminal, callbacks, transcript, written>>
  BY <1>1, StartTypes DEF StartTurn, courtVars, MainType
<1>2. ASSUME FinishTurn
      PROVE  /\ TurnStepOK /\ main' \in MainType
             /\ UNCHANGED <<clock, council, terminal, callbacks, transcript, written, fault>>
  <2>1. active' \in LawyerTurn /\ active'.role = "none"
    BY <1>2 DEF FinishTurn, NoTurn, LawyerTurn
  <2>2. main' \in MainType
    BY <1>2, MainFacts DEF FinishTurn, Places, Lawyers
  <2>3. UNCHANGED <<verdicts, clock, council, terminal, callbacks, transcript, written, fault>>
    BY <1>2 DEF FinishTurn, courtVars
  <2> QED BY <1>2, <2>1, <2>2, <2>3, AnnounceFacts DEF TurnStepOK, FinishTurn, QuickTypeOK
<1>3. ASSUME NEW c \in callbacks.started, CallbackRuns(c)
      PROVE  /\ TurnStepOK /\ UNCHANGED <<main, clock, council, terminal, transcript, written, fault>>
             /\ callbacks'.started = callbacks.started
             /\ callbacks' \in [started : SUBSET Callbacks, ran : SUBSET Callbacks]
  <2>1. c.role \in Lawyers /\ c.kind \in Verdicts /\ c \in Callbacks
    BY DEF QuickTypeOK, Callbacks, Verdicts
  <2>2. UNCHANGED <<main, clock, council, terminal, transcript, written, fault>>
    BY <1>3 DEF CallbackRuns, courtVars
  <2>3. TurnStepOK
    BY <1>3, <2>1, CompletionTypes DEF CallbackRuns
  <2>4. /\ callbacks'.started = callbacks.started
        /\ callbacks' \in [started : SUBSET Callbacks, ran : SUBSET Callbacks]
    BY <1>3, <2>1 DEF CallbackRuns, QuickTypeOK
  <2> QED BY <2>2, <2>3, <2>4
<1>4. ASSUME NEW role \in Lawyers, NEW opp \in Lawyers, NEW kind \in {"valid", "invalid", "fail"},
             LawyerRequest(role, opp, kind)
      PROVE  /\ TurnStepOK /\ Completes(role) /\ fault' \in BOOLEAN /\ (fault => fault')
             /\ UNCHANGED <<main, callbacks, clock, council, terminal>>
             /\ \/ UNCHANGED <<transcript, written>>
                \/ /\ transcript' = [transcript EXCEPT !.arguments = Append(@, role)]
                   /\ written' = transcript'
  BY <1>4, RequestFacts
<1>5. main \in MainType /\ fault \in BOOLEAN
      /\ callbacks \in [started : SUBSET Callbacks, ran : SUBSET Callbacks]
  BY DEF QuickTypeOK, MainType
<1>6. CASE \E r \in Lawyers : StartTurn(r)
  BY <1>1, <1>5, <1>6
<1>7. CASE FinishTurn
  BY <1>2, <1>5, <1>7
<1>8. CASE \E c \in callbacks.started : CallbackRuns(c)
  BY <1>3, <1>5, <1>8
<1>9. CASE \E role, opp \in Lawyers, kind \in {"valid", "invalid", "fail"} :
             LawyerRequest(role, opp, kind)
  <2>1. PICK role \in Lawyers, opp \in Lawyers, kind \in {"valid", "invalid", "fail"} :
          LawyerRequest(role, opp, kind)
    BY <1>9
  <2> QED BY <1>4, <1>5, <2>1
<1> QED BY <1>6, <1>7, <1>8, <1>9 DEF TurnStep

LEMMA EndStepTypes ==
  ASSUME QuickTypeOK, EndStep
  PROVE  /\ UNCHANGED <<active, verdicts, callbacks, clock, transcript, written, council>>
         /\ main' \in MainType /\ fault' \in BOOLEAN /\ (fault => fault')
         /\ terminal' \in {"none", "done", "failed"}
         /\ version' \in Nat /\ waits' \in [Waiters -> Polls]
         /\ (\A w \in Waiters : waits'[w].at # "asleep") \/ UNCHANGED <<terminal, version, waits>>
<1>1. /\ UNCHANGED <<active, verdicts, callbacks, clock, transcript, written, council>>
      /\ Announce \/ UNCHANGED <<terminal, version, waits>>
      /\ fault' \in BOOLEAN /\ (fault => fault')
  BY DEF EndStep, Convene, Abandon, Adjourn, End, Close, courtVars, QuickTypeOK
<1>2. main' \in MainType
  <2>1. CASE Convene
    BY <2>1, MainFacts DEF Convene, Places
  <2>2. CASE Abandon
    BY <2>2, MainFacts DEF Abandon
  <2>3. CASE Adjourn
    BY <2>3, MainFacts DEF Adjourn, Places
  <2>4. CASE End
    BY <2>4, MainFacts DEF End, Places
  <2>5. CASE Close
    <3>1. PICK e : main' = [at |-> "over", err |-> e] /\ e \in BOOLEAN
      BY <2>5 DEF Close, QuickTypeOK
    <3> QED BY <3>1 DEF MainType, Places
  <2> QED BY <2>1, <2>2, <2>3, <2>4, <2>5 DEF EndStep
<1>3. terminal' \in {"none", "done", "failed"}
  BY DEF EndStep, Convene, Abandon, Adjourn, End, Close, Told, QuickTypeOK
<1> QED BY <1>1, <1>2, <1>3, AnnounceFacts DEF QuickTypeOK

LEMMA HearingStepTypes ==
  ASSUME QuickTypeOK, AttemptsLast, HearingStep
  PROVE  /\ UNCHANGED <<active, verdicts, callbacks, clock, version, terminal, waits>>
         /\ main' \in MainType /\ fault' \in BOOLEAN /\ (fault => fault')
         /\ council' \in Hearing(cfg) /\ council'.config = cfg
         /\ transcript' \in Transcript /\ transcript'.arguments = transcript.arguments
         /\ \A m \in Members : council'.outcome[m] = "none" => council'.left[m] >= 1
         /\ main.at = "council" /\ main'.at \in {"council", "ending"}
<1>1. /\ main \in MainType /\ fault \in BOOLEAN /\ transcript \in Transcript
      /\ council \in Hearing(cfg)
      /\ \A m \in Members : council.outcome[m] = "none" => council.left[m] >= 1
  BY DEF QuickTypeOK, MainType, AttemptsLast
<1>2. CASE Response
  <2>1. PICK m \in Members, answer \in Votes \cup {"invalid", "refused", "error"} :
          Answer(m, answer)
    BY <1>2 DEF Response
  <2>2. /\ UNCHANGED <<main, active, verdicts, callbacks, clock, transcript, version, terminal, waits>>
        /\ fault' \in BOOLEAN /\ (fault => fault') /\ main.at = "council"
    BY <1>1, <2>1 DEF Answer, Asked
  <2>3. \A n \in Members : council'.outcome[n] = "none" => council'.left[n] >= 1
    <3> TAKE n \in Members
    <3>1. council.left[n] \in Nat
      BY CouncilFacts
    <3>2. CASE n # m
      BY <1>1, <2>1, <3>2, AnswerFacts
    <3>3. CASE n = m
      <4>1. /\ council'.outcome[m] = Outcome(m, answer) /\ council'.left[m] = council.left[m] - 1
            /\ Outcome(m, answer) = "none" => council.left[m] > 1
        BY <2>1, AnswerFacts
      <4> QED BY <3>1, <3>3, <4>1
    <3> QED BY <3>2, <3>3
  <2> QED BY <1>1, <2>1, <2>2, <2>3, AnswerFacts
<1>3. CASE \E m \in Members : Collect(m)
  <2>1. PICK m \in Members : Collect(m)
    BY <1>3
  <2>2. /\ UNCHANGED <<main, active, verdicts, callbacks, clock, transcript, version, terminal, waits,
                       fault>>
        /\ main.at = "council"
    BY <2>1 DEF Collect
  <2> QED BY <1>1, <2>1, <2>2, CollectFacts
<1>4. CASE Skip
  <2>1. /\ UNCHANGED <<active, verdicts, callbacks, clock, transcript, version, terminal, waits, fault>>
        /\ SeatReady
        /\ \/ main' = [main EXCEPT !.err = TRUE] /\ council' = [council EXCEPT !.tallied = @ + 1]
           \/ Fail /\ council' = council
    BY <1>4 DEF Skip
  <2>2. main' \in MainType /\ main'.at \in {"council", "ending"} /\ main.at = "council"
    BY <2>1, MainFacts, SeatFacts
  <2>3. council' = council \/ council' = [council EXCEPT !.tallied = Seat]
    BY <2>1 DEF Seat
  <2>4. CASE council' = council
    BY <1>1, <2>1, <2>2, <2>4 DEF cfg
  <2>5. CASE council' = [council EXCEPT !.tallied = Seat]
    BY <1>1, <2>1, <2>2, <2>5, SeatFacts, TallyFacts
  <2> QED BY <2>3, <2>4, <2>5
<1>5. CASE Record
  <2>1. /\ UNCHANGED <<active, verdicts, callbacks, clock, version, terminal, waits>>
        /\ SeatReady /\ council.outcome[Seat] # "error"
        /\ fault' \in BOOLEAN /\ (fault => fault') /\ (main' = main \/ Fail)
        /\ transcript' = transcript \/ transcript' = Entry(Seat)
    BY <1>1, <1>5 DEF Record
  <2>2. main' \in MainType /\ main'.at \in {"council", "ending"} /\ main.at = "council"
    BY <2>1, MainFacts, SeatFacts
  <2>3. transcript' \in Transcript /\ transcript'.arguments = transcript.arguments
    BY <1>1, <2>1, EntryFacts
  <2>4. PICK io \in {"ok", "unwritten", "unlogged"} :
          council' = [council EXCEPT !.tallied = IF io = "unwritten" THEN @ ELSE @ + 1]
    BY <1>5 DEF Record
  <2>5. PICK n \in 0 .. cfg.CouncilSize : council' = [council EXCEPT !.tallied = n]
    BY <2>1, <2>4, SeatFacts, CouncilFacts
  <2>6. /\ council' \in Hearing(cfg) /\ council'.config = cfg
        /\ council'.outcome = council.outcome /\ council'.left = council.left
    BY <2>5, TallyFacts
  <2> QED BY <1>1, <2>1, <2>2, <2>3, <2>6
<1> QED BY <1>2, <1>3, <1>4, <1>5 DEF HearingStep

LEMMA QuietStepTypes ==
  ASSUME QuickTypeOK, TurnsInOrder, QuietStep
  PROVE  /\ UNCHANGED <<main, active, verdicts, transcript, written, council, version, terminal>>
         /\ callbacks' \in [started : SUBSET Callbacks, ran : SUBSET Callbacks]
         /\ clock' \in [turns : SUBSET Lawyers, members : SUBSET Nat, cancelled : BOOLEAN]
         /\ clock.turns \subseteq clock'.turns /\ (clock.cancelled => clock'.cancelled)
         /\ fault' \in BOOLEAN /\ (fault => fault') /\ waits' \in [Waiters -> Polls]
<1>1. UNCHANGED <<main, active, verdicts, transcript, written, council, version, terminal>>
  BY DEF QuietStep, CallbackStarts, WaitReturns, Wait, TurnDeadlinePasses, Cancel, Over,
         MemberDeadlinePasses, vars, courtVars
<1>2. CASE \E kind \in {"timeout", "cancelled"} : CallbackStarts(kind)
  <2>1. PICK kind \in {"timeout", "cancelled"} : CallbackStarts(kind)
    BY <1>2
  <2>0. active.role \in Lawyers
    BY <2>1 DEF CallbackStarts, QuickTypeOK, TurnsInOrder
  <2>2. [kind |-> kind, role |-> active.role] \in Callbacks
    BY <2>0 DEF Callbacks
  <2>3. callbacks' \in [started : SUBSET Callbacks, ran : SUBSET Callbacks]
    BY <2>1, <2>2 DEF CallbackStarts, QuickTypeOK
  <2> QED BY <1>1, <2>1, <2>3 DEF CallbackStarts, QuickTypeOK
<1>3. CASE \E w \in Waiters : WaitReturns(w) \/ \E a \in Lawyers \cup {"none"} : Wait(w, a)
  <2>1. PICK w \in Waiters : WaitReturns(w) \/ \E a \in Lawyers \cup {"none"} : Wait(w, a)
    BY <1>3
  <2>2. UNCHANGED <<callbacks, clock, fault>>
    BY <2>1 DEF WaitReturns, Wait
  <2>3. CASE WaitReturns(w)
    <3>1. [waits[w] EXCEPT !.at = "idle"] \in Polls
      BY <2>1 DEF QuickTypeOK, Polls
    <3>2. waits' = [waits EXCEPT ![w] = [waits[w] EXCEPT !.at = "idle"]]
      BY <2>3 DEF WaitReturns
    <3> QED BY <1>1, <2>2, <3>1, <3>2 DEF QuickTypeOK
  <2>4. ASSUME NEW a \in Lawyers \cup {"none"}, Wait(w, a) PROVE waits' \in [Waiters -> Polls]
    <3>1. [at |-> "asleep", base |-> version, after |-> a] \in Polls
      BY DEF QuickTypeOK, Polls
    <3> QED BY <2>4, <3>1 DEF Wait, QuickTypeOK
  <2> QED BY <1>1, <2>1, <2>2, <2>3, <2>4 DEF QuickTypeOK
<1>4. CASE TurnDeadlinePasses
  <2>1. active.role \in Lawyers
    BY <1>4 DEF TurnDeadlinePasses, QuickTypeOK, TurnsInOrder
  <2> QED BY <1>1, <1>4, <2>1 DEF TurnDeadlinePasses, QuickTypeOK, courtVars
<1>5. CASE Cancel
  BY <1>1, <1>5 DEF Cancel, QuickTypeOK
<1>6. CASE \E m \in Members : MemberDeadlinePasses(m)
  <2>1. PICK m \in Members : MemberDeadlinePasses(m)
    BY <1>6
  <2>2. m \in Nat
    BY CouncilFacts
  <2>3. clock' = [clock EXCEPT !.members = @ \cup {m}]
        /\ UNCHANGED <<callbacks, waits, fault>>
    BY <2>1 DEF MemberDeadlinePasses
  <2> QED BY <1>1, <2>2, <2>3 DEF QuickTypeOK
<1>7. CASE Over \/ UNCHANGED vars
  BY <1>7 DEF Over, vars, QuickTypeOK
<1> QED BY <1>2, <1>3, <1>4, <1>5, <1>6, <1>7 DEF QuietStep

LEMMA TypeNext ==
  ASSUME QuickTypeOK, AttemptsLast, TurnsInOrder, [Next]_vars
  PROVE  QuickTypeOK' /\ AttemptsLast'
<1>0. /\ transcript.arguments \in Seq(Lawyers) /\ transcript \in Transcript
      /\ clock \in [turns : SUBSET Lawyers, members : SUBSET Nat, cancelled : BOOLEAN]
  BY DEF QuickTypeOK, Transcript
<1>1. council' \in Hearing(cfg) /\ cfg' = cfg /\ Waiters' = Waiters /\ Members' = Members
  <2>1. council' \in Hearing(cfg) /\ council'.config = cfg
    BY StepKinds, TurnStepTypes, HearingStepTypes, EndStepTypes, QuietStepTypes, CouncilFacts DEF cfg
  <2> QED BY <2>1 DEF cfg, Waiters, Members
<1>2. CASE TurnStep
  <2>1. transcript' \in Transcript
    <3>1. CASE UNCHANGED transcript
      BY <1>0, <3>1
    <3>2. ASSUME NEW role \in Lawyers, transcript' = [transcript EXCEPT !.arguments = Append(@, role)]
          PROVE  transcript' \in Transcript
      <4> DEFINE s == Append(transcript.arguments, role)
      <4>1. s \in Seq(Lawyers) /\ transcript' = [transcript EXCEPT !.arguments = s]
        BY <1>0, <3>2
      <4> HIDE DEF s
      <4> QED BY <1>0, <4>1 DEF Transcript
    <3> QED BY <1>2, <3>1, <3>2, TurnStepTypes
  <2> QED BY <1>1, <1>2, <2>1, TurnStepTypes
          DEF QuickTypeOK, AttemptsLast, TurnStepOK, MainType, LawyerTurn
<1>3. CASE HearingStep
  BY <1>0, <1>1, <1>3, HearingStepTypes DEF QuickTypeOK, AttemptsLast, MainType
<1>4. CASE EndStep
  BY <1>0, <1>1, <1>4, EndStepTypes DEF QuickTypeOK, AttemptsLast, MainType
<1>5. CASE QuietStep
  BY <1>0, <1>1, <1>5, QuietStepTypes DEF QuickTypeOK, AttemptsLast, MainType
<1> QED BY <1>2, <1>3, <1>4, <1>5, StepKinds

LEMMA TurnsNext ==
  ASSUME QuickTypeOK, AttemptsLast, TurnsInOrder, FaultsExplain, SeatsTallied, [Next]_vars
  PROVE  TurnsInOrder'
<1>1. CASE TurnStep
  BY <1>1, TurnStarts, TurnFinishes, CallbackSettles, RequestSettles DEF TurnStep
<1>2. CASE HearingStep
  BY <1>2, HearingStepTypes, TurnsKept DEF Lawyers
<1>3. CASE EndStep
  <2>1. \/ main'.at = main.at
        \/ main.at = "convene" /\ main'.at = "council"
        \/ main.at \notin Lawyers \cup {"await"} /\ main'.at \in {"ending", "closing", "over"}
    BY <1>3 DEF EndStep, Convene, Abandon, Adjourn, End, Close, Fail, SeatReady, QuickTypeOK, Lawyers
  <2> QED BY <1>3, <2>1, EndStepTypes, TurnsKept
<1>4. CASE QuietStep
  BY <1>4, QuietStepTypes, TurnsKept
<1> QED BY <1>1, <1>2, <1>3, <1>4, StepKinds

LEMMA FaultsNext ==
  ASSUME QuickTypeOK, AttemptsLast, TurnsInOrder, FaultsExplain, SeatsTallied, [Next]_vars
  PROVE  FaultsExplain'
<1>0. /\ Members' = Members
      /\ clock.turns # {} \/ clock.cancelled \/ council.stopped \/ main.err => fault
      /\ \A m \in Members : council.outcome[m] = "error" => fault
      /\ \A c \in callbacks.started : IF c.kind = "timeout" THEN c.role \in clock.turns
                                                             ELSE clock.cancelled
      /\ terminal = "failed" => fault
  <2>1. council'.config = cfg
    BY StepKinds, TurnStepTypes, HearingStepTypes, EndStepTypes, QuietStepTypes DEF cfg
  <2> QED BY <2>1 DEF FaultsExplain, Members, cfg
<1>1. CASE TurnStep
  <2>1. main'.err => fault'
    <3>1. CASE \E r \in Lawyers : StartTurn(r)
      <4>1. main'.err => main.err \/ fault'
        BY <3>1, MainFacts DEF StartTurn, Places
      <4> QED BY <1>0, <1>1, <4>1, TurnStepTypes
    <3>2. CASE FinishTurn
      <4>1. CASE Head(verdicts[active.role]) = "ok"
        <5>1. main'.err = main.err
          <6>1. PICK p \in Places : main' = [main EXCEPT !.at = p]
            BY <3>2, <4>1 DEF FinishTurn, Places, Lawyers
          <6> QED BY <6>1, MainFacts
        <5> QED BY <1>0, <1>1, <5>1, TurnStepTypes
      <4>2. CASE Head(verdicts[active.role]) # "ok"
        <5>1. active.role \in Lawyers /\ verdicts[active.role] # <<>> /\ fault' = fault
          BY <3>2 DEF FinishTurn, TurnsInOrder, QuickTypeOK
        <5>2. Earned(active.role)
          BY <5>1 DEF TurnsInOrder
        <5>3. fault
          BY <1>0, <4>2, <5>1, <5>2 DEF Earned
        <5> QED BY <5>1, <5>3
      <4> QED BY <4>1, <4>2
    <3>3. CASE main' = main
      BY <1>0, <1>1, <3>3, TurnStepTypes
    <3> QED BY <1>1, <3>1, <3>2, <3>3, RequestFacts DEF TurnStep, CallbackRuns
  <2> QED BY <1>0, <1>1, <2>1, TurnStepTypes DEF FaultsExplain
<1>2. CASE HearingStep
  <2>1. (main'.err \/ council'.stopped => fault')
        /\ \A m \in Members : council'.outcome[m] = "error" => fault'
    <3>1. CASE Response
      <4>1. PICK m \in Members, answer \in Votes \cup {"invalid", "refused", "error"} :
              Answer(m, answer)
        BY <3>1 DEF Response
      <4>2. main' = main /\ (fault => fault')
            /\ (answer = "error" /\ m \notin clock.members => fault')
        BY <4>1 DEF Answer
      <4>3. council'.outcome[m] = "error" => fault'
        BY <1>0, <4>1, <4>2, AnswerFacts DEF Stopped
      <4>4. /\ council'.stopped = council.stopped
            /\ \A n \in Members \ {m} : council'.outcome[n] = council.outcome[n]
        BY <4>1, AnswerFacts
      <4> QED BY <1>0, <4>2, <4>3, <4>4
    <3>2. CASE \E m \in Members : Collect(m)
      <4>1. PICK m \in Members : Collect(m)
        BY <3>2
      <4> QED BY <1>0, <4>1, CollectFacts DEF Collect
    <3>3. CASE Skip
      <4>1. /\ council'.stopped = council.stopped /\ council'.outcome = council.outcome
            /\ fault' = fault /\ SeatReady /\ council.outcome[Seat] = "error"
        <5>1. /\ SeatReady /\ council.outcome[Seat] = "error" /\ fault' = fault
              /\ council' = council \/ council' = [council EXCEPT !.tallied = Seat]
          BY <3>3 DEF Skip, Seat
        <5> QED BY <5>1, SeatFacts, TallyFacts
      <4> QED BY <1>0, <4>1, SeatFacts
    <3>4. CASE Record
      <4>1. PICK io \in {"ok", "unwritten", "unlogged"} :
              /\ council' = [council EXCEPT !.tallied = IF io = "unwritten" THEN @ ELSE @ + 1]
              /\ IF io = "ok" THEN main' = main ELSE Fail
              /\ fault' = (fault \/ io # "ok")
        BY <3>4 DEF Record
      <4>2. PICK n \in 0 .. cfg.CouncilSize : council' = [council EXCEPT !.tallied = n]
        BY <3>4, <4>1, SeatFacts, CouncilFacts DEF Record
      <4>3. council'.stopped = council.stopped /\ council'.outcome = council.outcome
        BY <4>2, TallyFacts
      <4> QED BY <1>0, <4>1, <4>3
    <3> QED BY <1>2, <3>1, <3>2, <3>3, <3>4 DEF HearingStep
  <2> QED BY <1>0, <1>2, <2>1, HearingStepTypes DEF FaultsExplain
<1>3. CASE EndStep
  <2>1. (main'.err => fault') /\ (terminal' = "failed" => fault')
    <3>1. CASE Convene
      <4>1. PICK logged \in BOOLEAN :
              /\ IF logged THEN main' = [main EXCEPT !.at = "council"] ELSE Fail
              /\ fault' = (fault \/ ~logged)
        BY <3>1 DEF Convene
      <4>2. logged => main'.err = main.err
        BY <4>1, MainFacts DEF Places
      <4>3. terminal' = terminal
        BY <3>1 DEF Convene
      <4> QED BY <1>0, <4>1, <4>2, <4>3
    <3>2. CASE Abandon
      BY <1>0, <3>2 DEF Abandon
    <3>3. CASE Adjourn
      BY <1>0, <3>3, MainFacts DEF Adjourn, Places
    <3>4. CASE End
      BY <1>0, <3>4, MainFacts DEF End, Places, Told
    <3>5. CASE Close
      <4>1. PICK clean \in BOOLEAN :
              /\ main' = [at |-> "over", err |-> main.err \/ ~clean]
              /\ terminal' = Told(main.err \/ ~clean) /\ fault' = (fault \/ ~clean)
        BY <3>5 DEF Close
      <4>2. main'.err = (main.err \/ ~clean) /\ (terminal' = "failed" => main.err \/ ~clean)
        BY <4>1 DEF Told
      <4> QED BY <1>0, <4>1, <4>2
    <3> QED BY <1>3, <3>1, <3>2, <3>3, <3>4, <3>5 DEF EndStep
  <2> QED BY <1>0, <1>3, <2>1, EndStepTypes DEF FaultsExplain
<1>4. CASE QuietStep
  <2>1. /\ clock'.turns # {} \/ clock'.cancelled => fault'
        /\ \A c \in callbacks'.started : IF c.kind = "timeout" THEN c.role \in clock'.turns
                                                                ELSE clock'.cancelled
    <3>1. CASE \E kind \in {"timeout", "cancelled"} : CallbackStarts(kind)
      BY <1>0, <3>1 DEF CallbackStarts, QuickTypeOK
    <3>2. CASE TurnDeadlinePasses \/ Cancel
      BY <1>0, <3>2 DEF TurnDeadlinePasses, Cancel, QuickTypeOK
    <3>3. CASE \E m \in Members : MemberDeadlinePasses(m)
      BY <1>0, <3>3 DEF MemberDeadlinePasses, QuickTypeOK
    <3>4. CASE UNCHANGED <<clock, callbacks, fault>>
      BY <1>0, <3>4
    <3> QED BY <1>4, <3>1, <3>2, <3>3, <3>4 DEF QuietStep, WaitReturns, Wait, Over, vars
  <2> QED BY <1>0, <1>4, <2>1, QuietStepTypes DEF FaultsExplain
<1> QED BY <1>1, <1>2, <1>3, <1>4, StepKinds

BothHeard == transcript.arguments = <<"plaintiff", "defendant">>

\* The length of the record, and the seats it accounts for, at each step of the
\* council.
LEMMA TallySteps ==
  ASSUME QuickTypeOK, AttemptsLast, TurnsInOrder, HearingStep
  PROVE  \/ /\ transcript' = transcript /\ written' = written /\ main' = main
            /\ council'.tallied = council.tallied
            /\ \A m \in Members : council.outcome[m] # "none" =>
                                    council'.outcome[m] = council.outcome[m]
         \/ /\ SeatReady /\ council.outcome[Seat] # "error"
            /\ transcript' = Entry(Seat) /\ written' = transcript'
            /\ council'.tallied = Seat /\ council'.outcome = council.outcome
            /\ main'.err \/ main'.err = main.err
         \/ /\ transcript' = transcript /\ written' = written
            /\ SeatReady /\ council.outcome[Seat] = "error" /\ main'.err
            /\ council'.tallied \in {council.tallied, Seat} /\ council'.outcome = council.outcome
         \/ /\ transcript' = transcript /\ written' = written /\ main'.err
            /\ council'.tallied = council.tallied /\ council'.outcome = council.outcome
<1>1. CASE Response
  <2>1. PICK m \in Members, answer \in Votes \cup {"invalid", "refused", "error"} :
          Answer(m, answer)
    BY <1>1 DEF Response
  <2>2. transcript' = transcript /\ written' = written /\ main' = main
    BY <2>1 DEF Answer
  <2>3. /\ council'.tallied = council.tallied /\ council.outcome[m] = "none"
        /\ \A n \in Members \ {m} : council'.outcome[n] = council.outcome[n]
    BY <2>1, AnswerFacts
  <2> QED BY <2>2, <2>3
<1>2. CASE \E m \in Members : Collect(m)
  <2>1. PICK m \in Members : Collect(m)
    BY <1>2
  <2> QED BY <2>1, CollectFacts DEF Collect
<1>3. CASE Skip
  <2>1. /\ SeatReady /\ council.outcome[Seat] = "error" /\ UNCHANGED <<transcript, written>>
        /\ council' = council \/ council' = [council EXCEPT !.tallied = Seat]
        /\ Fail \/ main' = [main EXCEPT !.err = TRUE]
    BY <1>3 DEF Skip, Seat
  <2> QED BY <2>1, SeatFacts, TallyFacts, MainFacts
<1>4. CASE Record
  <2>1. PICK io \in {"ok", "unwritten", "unlogged"} :
          /\ IF io = "unwritten" THEN UNCHANGED <<transcript, written>>
                                 ELSE transcript' = Entry(Seat) /\ written' = Entry(Seat)
          /\ council' = [council EXCEPT !.tallied = IF io = "unwritten" THEN @ ELSE @ + 1]
          /\ IF io = "ok" THEN main' = main ELSE Fail
    BY <1>4 DEF Record
  <2>2. SeatReady /\ council.outcome[Seat] # "error"
    BY <1>4 DEF Record
  <2>3. CASE io = "unwritten"
    <3>1. council' = [council EXCEPT !.tallied = council.tallied]
      BY <2>1, <2>3
    <3> QED BY <2>1, <2>3, <3>1, CouncilFacts, TallyFacts, MainFacts
  <2>4. CASE io # "unwritten"
    <3>1. council' = [council EXCEPT !.tallied = Seat]
      BY <2>1, <2>4 DEF Seat
    <3>2. council'.tallied = Seat /\ council'.outcome = council.outcome
      BY <2>2, <3>1, SeatFacts, TallyFacts
    <3> QED BY <2>1, <2>2, <2>4, <3>2, MainFacts
  <2> QED BY <2>3, <2>4
<1> QED BY <1>1, <1>2, <1>3, <1>4 DEF HearingStep

LEMMA EndSteps ==
  ASSUME QuickTypeOK, TurnsInOrder, EndStep
  PROVE  /\ main'.err = main.err \/ main'.err
         /\ \/ main.at = "convene" /\ main'.at = "council" /\ terminal' = terminal
            \/ main'.at = "ending" /\ main'.err /\ terminal' = terminal
               /\ main.at \in {"convene", "council"}
            \/ /\ main.at = "council" /\ main'.at = "ending" /\ terminal' = terminal
               /\ council.tallied = cfg.CouncilSize
            \/ /\ main.at \in {"ending", "closing"} /\ main'.at \in {"closing", "over"}
               /\ terminal' = Told(main'.err)
<1>1. CASE Convene
  <2>1. PICK logged \in BOOLEAN : IF logged THEN main' = [main EXCEPT !.at = "council"] ELSE Fail
    BY <1>1 DEF Convene
  <2>2. main.at = "convene" /\ terminal' = terminal
    BY <1>1 DEF Convene
  <2> QED BY <2>1, <2>2, MainFacts DEF Places
<1>2. CASE Abandon
  BY <1>2, MainFacts DEF Abandon, SeatReady
<1>3. CASE Adjourn
  BY <1>3, MainFacts DEF Adjourn, Places
<1>4. CASE End
  <2>1. main.at = "ending" /\ terminal' = Told(main.err) /\ main' = [main EXCEPT !.at = "closing"]
    BY <1>4 DEF End
  <2> QED BY <2>1, MainFacts DEF Places
<1>5. CASE Close
  <2>1. PICK clean \in BOOLEAN :
          /\ main' = [at |-> "over", err |-> main.err \/ ~clean]
          /\ terminal' = Told(main.err \/ ~clean)
    BY <1>5 DEF Close
  <2>2. main.at = "closing" /\ main.err \in BOOLEAN
    BY <1>5 DEF Close, QuickTypeOK
  <2>3. main'.err = (main.err \/ ~clean) /\ main'.at = "over"
    BY <2>1
  <2> QED BY <2>1, <2>2, <2>3
<1> QED BY <1>1, <1>2, <1>3, <1>4, <1>5 DEF EndStep

LEMMA SeatsNext ==
  ASSUME QuickTypeOK, AttemptsLast, TurnsInOrder, FaultsExplain, SeatsTallied, [Next]_vars
  PROVE  SeatsTallied'
<1>0. /\ cfg' = cfg /\ council.tallied \in 0 .. cfg.CouncilSize /\ cfg.CouncilSize \in Nat
      /\ 1 .. council.tallied \subseteq Members
      /\ transcript.votes \in Seq([member : Nat, vote : Votes]) /\ transcript.failures \in Seq(Nat)
  <2>1. council'.config = cfg
    BY StepKinds, TurnStepTypes, HearingStepTypes, EndStepTypes, QuietStepTypes DEF cfg
  <2>2. council.tallied \in 0 .. cfg.CouncilSize /\ cfg.CouncilSize \in Nat
    BY CouncilFacts
  <2> QED BY <2>1, <2>2 DEF cfg, Members, QuickTypeOK, Transcript
<1>1. /\ \A m \in 1 .. council.tallied : council.outcome[m] # "none"
      /\ ~main.err => Len(transcript.votes) + Len(transcript.failures) = council.tallied
      /\ main.at \in {"ending", "closing", "over"} /\ ~main.err =>
           council.tallied = cfg.CouncilSize /\ BothHeard
      /\ terminal = "done" => main.at \in {"closing", "over"} /\ ~main.err
  BY DEF SeatsTallied, BothHeard
<1>2. CASE TurnStep
  <2>1. UNCHANGED <<council, terminal>> /\ transcript'.votes = transcript.votes
        /\ transcript'.failures = transcript.failures
    BY <1>2, TurnStepTypes DEF QuickTypeOK, Transcript
  <2>2. \/ main' = main /\ (transcript' = transcript \/ main.at = "await")
        \/ main.at \in {"plaintiff", "defendant", "await"} /\ main'.at # "ending" /\ main'.err = main.err
           /\ main'.at \notin {"closing", "over"}
        \/ main.at \in {"plaintiff", "defendant", "await"} /\ main'.err
    <3>1. CASE \E r \in Lawyers : StartTurn(r)
      <4>1. main.at \in {"plaintiff", "defendant"} /\ (Fail \/ main' = [main EXCEPT !.at = "await"])
        BY <3>1 DEF StartTurn, Lawyers
      <4> QED BY <4>1, MainFacts DEF Places
    <3>2. CASE FinishTurn
      <4>1. CASE Head(verdicts[active.role]) = "ok"
        <5>1. PICK p \in {"defendant", "convene"} : main' = [main EXCEPT !.at = p]
          BY <3>2, <4>1 DEF FinishTurn
        <5>2. main'.at = p /\ main'.err = main.err
          BY <5>1, MainFacts DEF Places, Lawyers
        <5> QED BY <3>2, <5>1, <5>2 DEF FinishTurn
      <4>2. CASE Head(verdicts[active.role]) # "ok"
        BY <3>2, <4>2, MainFacts DEF FinishTurn
      <4> QED BY <4>1, <4>2
    <3>3. CASE main' = main
      <4>1. transcript' = transcript \/ \E role \in Lawyers : Completes(role)
        BY <1>2, TurnStepTypes
      <4> QED BY <3>3, <4>1, OpenTurnUnheard
    <3> QED BY <1>2, <3>1, <3>2, <3>3, RequestFacts DEF TurnStep, CallbackRuns
  <2> QED BY <1>0, <1>1, <2>1, <2>2 DEF SeatsTallied, BothHeard
<1>3. CASE HearingStep
  <2>1. main.at = "council" /\ main'.at \in {"council", "ending"} /\ terminal' = terminal
        /\ terminal # "done"
    BY <1>1, <1>3, HearingStepTypes
  <2>2. main'.at = "ending" => main'.err \/ main' = main
    <3>1. CASE Skip
      BY <3>1, MainFacts, SeatFacts DEF Skip
    <3>2. CASE Record
      BY <3>2, MainFacts, SeatFacts DEF Record
    <3>3. CASE Response \/ \E m \in Members : Collect(m)
      BY <3>3 DEF Response, Answer, Collect
    <3> QED BY <1>3, <3>1, <3>2, <3>3 DEF HearingStep
  <2>3. CASE /\ transcript' = transcript /\ main' = main
             /\ council'.tallied = council.tallied
             /\ \A m \in Members : council.outcome[m] # "none" =>
                                     council'.outcome[m] = council.outcome[m]
    BY <1>0, <1>1, <2>1, <2>3 DEF SeatsTallied, BothHeard
  <2>4. CASE /\ SeatReady /\ council.outcome[Seat] # "error"
             /\ transcript' = Entry(Seat)
             /\ council'.tallied = Seat /\ council'.outcome = council.outcome
             /\ main'.err \/ main'.err = main.err
    <3> DEFINE a == Len(transcript.votes)   b == Len(transcript.failures)
               c == Len(transcript'.votes)  d == Len(transcript'.failures)
    <3>0. a \in Nat /\ b \in Nat /\ ((c = a + 1 /\ d = b) \/ (c = a /\ d = b + 1))
      <4> DEFINE e == [member |-> Seat, vote |-> council.outcome[Seat]]
      <4>1. Seat \in Nat
        BY <2>4, SeatFacts, CouncilFacts
      <4>4. Len(transcript.votes) \in Nat /\ Len(transcript.failures) \in Nat
        BY <1>0
      <4>2. CASE council.outcome[Seat] \in Votes /\ Entry(Seat).failures = transcript.failures
                 /\ Entry(Seat).votes = Append(transcript.votes, e)
        <5>1. e \in [member : Nat, vote : Votes]
          BY <4>1, <4>2
        <5> HIDE DEF e
        <5> DEFINE v == Append(transcript.votes, e)
        <5>2. Len(v) = Len(transcript.votes) + 1 /\ transcript'.votes = v
              /\ transcript'.failures = transcript.failures
          BY <1>0, <2>4, <4>2, <5>1, AppendProperties
        <5> HIDE DEF v
        <5> QED BY <4>4, <5>2
      <4>3. CASE Entry(Seat).votes = transcript.votes
                 /\ Entry(Seat).failures = Append(transcript.failures, Seat)
        <5> DEFINE f == Append(transcript.failures, Seat)
        <5>1. Len(f) = Len(transcript.failures) + 1 /\ transcript'.failures = f
              /\ transcript'.votes = transcript.votes
          BY <1>0, <2>4, <4>1, <4>3, AppendProperties
        <5> HIDE DEF f
        <5> QED BY <4>4, <5>1
      <4> QED BY <2>4, <4>2, <4>3, EntryFacts
    <3> HIDE DEF a, b, c, d
    <3>5. c + d = a + b + 1
      BY <3>0
    <3>1. Len(transcript'.votes) + Len(transcript'.failures) =
            Len(transcript.votes) + Len(transcript.failures) + 1
      BY <3>5 DEF a, b, c, d
    <3>2. \A m \in 1 .. council'.tallied : council'.outcome[m] # "none"
      BY <1>0, <1>1, <2>4, SeatFacts
    <3>3. ~main'.err => main'.at = "council"
      BY <2>1, <2>2
    <3> QED BY <1>0, <1>1, <2>1, <2>4, <3>1, <3>2, <3>3, SeatFacts DEF SeatsTallied
  <2>5. CASE /\ SeatReady /\ council.outcome[Seat] = "error" /\ main'.err
             /\ council'.tallied \in {council.tallied, Seat} /\ council'.outcome = council.outcome
    <3>1. \A m \in 1 .. council'.tallied : council'.outcome[m] # "none"
      BY <1>0, <1>1, <2>5, SeatFacts
    <3> QED BY <2>1, <2>5, <3>1 DEF SeatsTallied
  <2>6. CASE /\ main'.err /\ council'.tallied = council.tallied
             /\ council'.outcome = council.outcome
    BY <1>1, <2>1, <2>6 DEF SeatsTallied
  <2> QED BY <1>3, <2>3, <2>4, <2>5, <2>6, TallySteps
<1>4. CASE EndStep
  <2>1. UNCHANGED <<transcript, council>>
    BY <1>4, EndStepTypes
  <2>2. main.at = "council" => BothHeard
    BY DEF TurnsInOrder, BothHeard
  <2>3. main.at \in {"convene", "council"} => terminal # "done"
    BY <1>1
  <2> QED BY <1>0, <1>1, <1>4, <2>1, <2>2, <2>3, EndSteps DEF SeatsTallied, BothHeard, Told
<1>5. CASE QuietStep
  BY <1>0, <1>1, <1>5, QuietStepTypes DEF SeatsTallied, BothHeard
<1> QED BY <1>2, <1>3, <1>4, <1>5, StepKinds

Numbers(s) == [i \in DOMAIN s |-> s[i].member]
Elements(s) == {s[i] : i \in DOMAIN s}
VotesOf(outcome, n) ==
  {[member |-> m, vote |-> outcome[m]] : m \in {k \in 1 .. n : outcome[k] \in Votes}}
FailuresOf(outcome, n) == {m \in 1 .. n : outcome[m] = "failed"}

\* TalliedInOrder, for a record of its own.
Tallies(t, outcome, n) ==
  /\ Increasing(Numbers(t.votes)) /\ Increasing(t.failures)
  /\ Elements(t.votes) = VotesOf(outcome, n)
  /\ Elements(t.failures) = FailuresOf(outcome, n)

LEMMA TalliesMean ==
  TalliedInOrder <=> written = transcript /\ Tallies(transcript, council.outcome, council.tallied)
BY DEF TalliedInOrder, Tallies, Numbers, Elements, VotesOf, FailuresOf

LEMMA TalliesKept ==
  ASSUME NEW t, NEW o, NEW q, NEW n \in Nat, Tallies(t, o, n), \A m \in 1 .. n : q[m] = o[m]
  PROVE  Tallies(t, q, n) /\ (q[n + 1] = "error" => Tallies(t, q, n + 1))
<1>1. VotesOf(q, n) = VotesOf(o, n) /\ FailuresOf(q, n) = FailuresOf(o, n)
  BY DEF VotesOf, FailuresOf
<1>2. ASSUME q[n + 1] = "error"
      PROVE  VotesOf(q, n + 1) = VotesOf(q, n) /\ FailuresOf(q, n + 1) = FailuresOf(q, n)
  <2>1. 1 .. n + 1 = 1 .. n \cup {n + 1} /\ "error" \notin Votes /\ "error" # "failed"
    BY DEF Votes
  <2> QED BY <1>2, <2>1 DEF VotesOf, FailuresOf
<1> QED BY <1>1, <1>2 DEF Tallies

LEMMA ElementsAppend ==
  ASSUME NEW S, NEW s \in Seq(S), NEW e \in S
  PROVE  Elements(Append(s, e)) = Elements(s) \cup {e}
<1> DEFINE q == Append(s, e)
<1>1. /\ q \in Seq(S) /\ Len(q) = Len(s) + 1 /\ q[Len(s) + 1] = e /\ Len(s) \in Nat
      /\ \A i \in 1 .. Len(s) : q[i] = s[i]
  BY AppendProperties
<1>2. DOMAIN s = 1 .. Len(s) /\ DOMAIN q = 1 .. Len(s) + 1
  BY <1>1
<1> HIDE DEF q
<1>3. 1 .. Len(s) + 1 = 1 .. Len(s) \cup {Len(s) + 1}
  BY <1>1
<1>4. Elements(q) = Elements(s) \cup {e}
  BY <1>1, <1>2, <1>3 DEF Elements
<1> QED BY <1>4 DEF q

LEMMA RecordElements ==
  /\ \A s \in Seq([member : Nat, vote : Votes]), e \in [member : Nat, vote : Votes] :
       Elements(Append(s, e)) = Elements(s) \cup {e}
  /\ \A s \in Seq(Nat), e \in Nat : Elements(Append(s, e)) = Elements(s) \cup {e}
BY ElementsAppend

LEMMA IncreasingAppend ==
  ASSUME NEW s \in Seq(Nat), NEW e \in Nat, Increasing(s), \A x \in Elements(s) : x < e
  PROVE  Increasing(Append(s, e))
<1> DEFINE q == Append(s, e)
<1>1. /\ q \in Seq(Nat) /\ Len(q) = Len(s) + 1 /\ q[Len(s) + 1] = e /\ Len(s) \in Nat
      /\ \A i \in 1 .. Len(s) : q[i] = s[i]
  BY AppendProperties
<1>2. DOMAIN s = 1 .. Len(s) /\ DOMAIN q = 1 .. Len(s) + 1
  BY <1>1
<1> HIDE DEF q
<1>3. ASSUME NEW i \in DOMAIN q, NEW j \in DOMAIN q, i < j PROVE q[i] < q[j]
  <2>1. i \in 1 .. Len(s) /\ q[i] = s[i] /\ s[i] \in Elements(s)
    BY <1>1, <1>2, <1>3 DEF Elements
  <2>2. CASE j = Len(s) + 1
    BY <1>1, <2>1, <2>2
  <2>3. CASE j \in 1 .. Len(s)
    BY <1>1, <1>2, <1>3, <2>1, <2>3 DEF Increasing
  <2> QED BY <1>1, <1>2, <2>2, <2>3
<1>4. Increasing(q)
  BY <1>3 DEF Increasing
<1> QED BY <1>4 DEF q

LEMMA NumbersAppend ==
  ASSUME NEW s \in Seq([member : Nat, vote : Votes]), NEW e \in [member : Nat, vote : Votes]
  PROVE  /\ Numbers(s) \in Seq(Nat)
         /\ Numbers(Append(s, e)) = Append(Numbers(s), e.member)
         /\ Elements(Numbers(s)) = {x.member : x \in Elements(s)}
<1> DEFINE S == [member : Nat, vote : Votes]
           q == Append(s, e)
<1>1. /\ q \in Seq(S) /\ Len(q) = Len(s) + 1 /\ q[Len(s) + 1] = e /\ Len(s) \in Nat
      /\ \A i \in 1 .. Len(s) : q[i] = s[i]
  BY AppendProperties
<1>2. DOMAIN s = 1 .. Len(s) /\ DOMAIN q = 1 .. Len(s) + 1
  BY <1>1
<1>a. \A x \in S : x.member \in Nat
  OBVIOUS
<1>d. s \in Seq(S) /\ e \in S
  OBVIOUS
<1>b. \A i \in 1 .. Len(s) : s[i] \in S
  <2> HIDE DEF S
  <2> QED BY <1>d
<1> HIDE DEF q, S
<1>c. /\ \A i \in 1 .. Len(s) : s[i].member \in Nat
      /\ \A i \in 1 .. Len(s) + 1 : q[i].member \in Nat
  BY <1>1, <1>2, <1>a, <1>b
<1> DEFINE a == Numbers(s)  b == Numbers(q)
<1>3. a \in Seq(Nat) /\ Len(a) = Len(s) /\ \A i \in 1 .. Len(s) : a[i] = s[i].member
  BY <1>1, <1>2, <1>c DEF Numbers
<1>4. b \in Seq(Nat) /\ Len(b) = Len(s) + 1 /\ \A i \in 1 .. Len(s) + 1 : b[i] = q[i].member
  BY <1>1, <1>2, <1>c DEF Numbers
<1>5. e.member \in Nat
  OBVIOUS
<1>6. Elements(a) = {x.member : x \in Elements(s)}
  <2>1. DOMAIN a = 1 .. Len(s)
    BY <1>1, <1>3
  <2> HIDE DEF a
  <2>2. \A y : y \in Elements(a) <=> \E i \in 1 .. Len(s) : y = s[i].member
    BY <1>3, <2>1 DEF Elements
  <2>3. \A x : x \in Elements(s) <=> \E i \in 1 .. Len(s) : x = s[i]
    BY <1>2 DEF Elements
  <2> QED BY <2>2, <2>3
<1> HIDE DEF a, b
<1> DEFINE c == Append(a, e.member)
<1>7. /\ c \in Seq(Nat) /\ Len(c) = Len(a) + 1 /\ c[Len(a) + 1] = e.member
      /\ \A i \in 1 .. Len(a) : c[i] = a[i]
  BY <1>3, <1>5, AppendProperties
<1> HIDE DEF c
<1>8. \A i \in 1 .. Len(b) : b[i] = c[i]
  <2> TAKE i \in 1 .. Len(b)
  <2>1. CASE i = Len(s) + 1
    BY <1>1, <1>3, <1>4, <1>7, <2>1
  <2>2. CASE i \in 1 .. Len(s)
    BY <1>1, <1>3, <1>4, <1>7, <2>2
  <2> QED BY <1>1, <1>4, <2>1, <2>2
<1>9. b = c
  BY <1>3, <1>4, <1>7, <1>8, SeqEqual
<1> QED BY <1>3, <1>6, <1>9 DEF a, b, c, q

LEMMA EntryTallies ==
  ASSUME QuickTypeOK, SeatReady, council.outcome[Seat] # "error",
         Tallies(transcript, council.outcome, council.tallied)
  PROVE  Tallies(Entry(Seat), council.outcome, Seat)
<1>1. /\ council.tallied \in Nat /\ Seat = council.tallied + 1 /\ Seat \in Nat
      /\ 1 .. Seat = 1 .. council.tallied \cup {Seat} /\ Seat \notin 1 .. council.tallied
  BY SeatFacts, CouncilFacts
<1>2. /\ transcript.votes \in Seq([member : Nat, vote : Votes]) /\ transcript.failures \in Seq(Nat)
  BY DEF QuickTypeOK, Transcript
<1>3. /\ Increasing(Numbers(transcript.votes)) /\ Increasing(transcript.failures)
      /\ Elements(transcript.votes) = VotesOf(council.outcome, council.tallied)
      /\ Elements(transcript.failures) = FailuresOf(council.outcome, council.tallied)
  BY DEF Tallies
<1> DEFINE e == [member |-> Seat, vote |-> council.outcome[Seat]]
<1>4. CASE /\ council.outcome[Seat] \in Votes /\ Entry(Seat).failures = transcript.failures
           /\ Entry(Seat).votes = Append(transcript.votes, e)
  <2>1. e \in [member : Nat, vote : Votes] /\ e.member = Seat
    BY <1>1, <1>4
  <2>2. VotesOf(council.outcome, Seat) = VotesOf(council.outcome, council.tallied) \cup {e}
    BY <1>1, <1>4 DEF VotesOf
  <2>3. FailuresOf(council.outcome, Seat) = FailuresOf(council.outcome, council.tallied)
    BY <1>1, <1>4 DEF FailuresOf, Votes
  <2>4. \A x \in Elements(transcript.votes) : x.member < Seat
    BY <1>1, <1>3 DEF VotesOf
  <2> HIDE DEF e
  <2>5. Elements(Entry(Seat).votes) = VotesOf(council.outcome, Seat)
    <3>1. Elements(Append(transcript.votes, e)) = Elements(transcript.votes) \cup {e}
      BY <1>2, <2>1, RecordElements
    <3> QED BY <1>3, <1>4, <2>2, <3>1, Zenon
  <2>6. Increasing(Numbers(Entry(Seat).votes))
    <3>1. \A x \in Elements(Numbers(transcript.votes)) : x < Seat
      <4>1. Elements(Numbers(transcript.votes)) = {x.member : x \in Elements(transcript.votes)}
        BY <1>2, <2>1, NumbersAppend
      <4> QED BY <2>4, <4>1
    <3>2. Numbers(transcript.votes) \in Seq(Nat)
          /\ Numbers(Append(transcript.votes, e)) = Append(Numbers(transcript.votes), Seat)
      BY <1>2, <2>1, NumbersAppend
    <3> QED BY <1>1, <1>3, <1>4, <3>1, <3>2, IncreasingAppend
  <2> QED BY <1>3, <1>4, <2>3, <2>5, <2>6 DEF Tallies
<1>5. CASE /\ council.outcome[Seat] = "failed" /\ Entry(Seat).votes = transcript.votes
           /\ Entry(Seat).failures = Append(transcript.failures, Seat)
  <2>1. VotesOf(council.outcome, Seat) = VotesOf(council.outcome, council.tallied)
    <3>1. council.outcome[Seat] \notin Votes
      BY <1>5 DEF Votes
    <3> QED BY <1>1, <3>1 DEF VotesOf
  <2>2. FailuresOf(council.outcome, Seat) = FailuresOf(council.outcome, council.tallied) \cup {Seat}
    BY <1>1, <1>5 DEF FailuresOf
  <2>3. Elements(Entry(Seat).failures) = FailuresOf(council.outcome, Seat)
    <3>1. Elements(Append(transcript.failures, Seat)) = Elements(transcript.failures) \cup {Seat}
      BY <1>1, <1>2, RecordElements
    <3> QED BY <1>3, <1>5, <2>2, <3>1, Zenon
  <2>4. \A x \in Elements(transcript.failures) : x < Seat
    BY <1>1, <1>3 DEF FailuresOf
  <2>5. Increasing(Entry(Seat).failures)
    BY <1>1, <1>2, <1>3, <1>5, <2>4, IncreasingAppend
  <2> QED BY <1>3, <1>5, <2>1, <2>3, <2>5 DEF Tallies
<1> QED BY <1>4, <1>5, EntryFacts

LEMMA TallyNext ==
  ASSUME QuickTypeOK, AttemptsLast, TurnsInOrder, SeatsTallied, TalliedInOrder, [Next]_vars
  PROVE  TalliedInOrder'
<1>1. /\ written = transcript /\ Tallies(transcript, council.outcome, council.tallied)
      /\ council.tallied \in Nat /\ 1 .. council.tallied \subseteq Members
      /\ \A m \in 1 .. council.tallied : council.outcome[m] # "none"
  BY TalliesMean, CouncilFacts DEF SeatsTallied
<1>2. ASSUME written' = transcript', Tallies(transcript', council'.outcome, council'.tallied)
      PROVE  TalliedInOrder'
  BY <1>2 DEF TalliedInOrder, Tallies, Numbers, Elements, VotesOf, FailuresOf
<1>3. CASE TurnStep
  <2>1. /\ council' = council /\ written' = transcript'
        /\ transcript'.votes = transcript.votes /\ transcript'.failures = transcript.failures
    BY <1>1, <1>3, TurnStepTypes DEF QuickTypeOK, Transcript
  <2> QED BY <1>1, <1>2, <2>1 DEF Tallies
<1>4. CASE HearingStep
  <2>1. CASE /\ transcript' = transcript /\ written' = written
             /\ council'.tallied = council.tallied
             /\ \A m \in Members : council.outcome[m] # "none" =>
                                     council'.outcome[m] = council.outcome[m]
    <3>1. \A m \in 1 .. council.tallied : council'.outcome[m] = council.outcome[m]
      BY <1>1, <2>1
    <3> QED BY <1>1, <1>2, <2>1, <3>1, TalliesKept
  <2>2. CASE /\ SeatReady /\ council.outcome[Seat] # "error"
             /\ transcript' = Entry(Seat) /\ written' = transcript'
             /\ council'.tallied = Seat /\ council'.outcome = council.outcome
    BY <1>1, <1>2, <2>2, EntryTallies
  <2>3. CASE /\ transcript' = transcript /\ written' = written
             /\ SeatReady /\ council.outcome[Seat] = "error"
             /\ council'.tallied \in {council.tallied, Seat} /\ council'.outcome = council.outcome
    <3>1. Seat = council.tallied + 1
      BY <2>3, SeatFacts
    <3>2. Tallies(transcript, council.outcome, council.tallied + 1)
      BY <1>1, <2>3, <3>1, TalliesKept
    <3> QED BY <1>1, <1>2, <2>3, <3>1, <3>2
  <2>4. CASE /\ transcript' = transcript /\ written' = written
             /\ council'.tallied = council.tallied /\ council'.outcome = council.outcome
    BY <1>1, <1>2, <2>4
  <2> QED BY <1>4, <2>1, <2>2, <2>3, <2>4, TallySteps
<1>5. CASE EndStep \/ QuietStep
  BY <1>1, <1>2, <1>5, EndStepTypes, QuietStepTypes
<1> QED BY <1>3, <1>4, <1>5, StepKinds

LEMMA QuickInvInit == Init => QuickInv
<1> SUFFICES ASSUME Init PROVE QuickInv
  OBVIOUS
<1>1. PICK c \in Configs :
        /\ council = [config |-> c, outcome |-> [m \in 1 .. c.CouncilSize |-> "none"],
                      left |-> [m \in 1 .. c.CouncilSize |-> c.InvalidAttemptLimit],
                      collected |-> {}, tallied |-> 0, stopped |-> FALSE]
        /\ waits = [w \in c.waiters |-> [at |-> "idle", base |-> 0, after |-> "none"]]
  BY DEF Init
<1>2. /\ c.CouncilSize \in Nat \ {0} /\ c.InvalidAttemptLimit \in Nat \ {0} /\ cfg = c
      /\ Waiters = c.waiters /\ Members = 1 .. c.CouncilSize
  BY <1>1, QuickAssumption DEF Config, cfg, Waiters, Members
<1>3. council \in Hearing(c)
  <2> DEFINE o == [m \in 1 .. c.CouncilSize |-> "none"]
             l == [m \in 1 .. c.CouncilSize |-> c.InvalidAttemptLimit]
  <2>1. o \in [1 .. c.CouncilSize -> Outcomes] /\ l \in [1 .. c.CouncilSize -> Nat]
        /\ 0 \in 0 .. c.CouncilSize
    BY <1>2 DEF Outcomes
  <2> HIDE DEF o, l
  <2>2. council = [config |-> c, outcome |-> o, left |-> l, collected |-> {}, tallied |-> 0,
                   stopped |-> FALSE]
    BY <1>1 DEF o, l
  <2> QED BY <2>1, <2>2 DEF Hearing
<1>4. /\ council.tallied = 0 /\ council.stopped = FALSE
      /\ \A m \in Members : council.outcome[m] = "none" /\ council.left[m] >= 1
  BY <1>1, <1>2
<1>5. /\ main = [at |-> "plaintiff", err |-> FALSE] /\ active = NoTurn
      /\ verdicts = [r \in Lawyers |-> <<>>] /\ callbacks = [started |-> {}, ran |-> {}]
      /\ clock = [turns |-> {}, members |-> {}, cancelled |-> FALSE]
      /\ transcript = [arguments |-> <<>>, votes |-> <<>>, failures |-> <<>>]
      /\ written = transcript /\ version = 0 /\ terminal = "none" /\ fault = FALSE
  BY DEF Init
<1>6. QuickTypeOK
  <2>1. waits \in [Waiters -> Polls]
    BY <1>1, <1>2 DEF Polls
  <2>2. transcript \in Transcript /\ verdicts \in [Lawyers -> Seq(Verdicts)]
    BY <1>5 DEF Transcript
  <2>3. main \in MainType /\ active \in LawyerTurn
    BY <1>5 DEF MainType, Places, Lawyers, LawyerTurn, NoTurn
  <2> QED BY <1>2, <1>3, <1>5, <2>1, <2>2, <2>3 DEF QuickTypeOK, MainType, LawyerTurn
<1>7. AttemptsLast
  BY <1>4, <1>5 DEF AttemptsLast, NoTurn
<1>8. TurnsInOrder
  <2>1. transcript.arguments = <<>> /\ \A r \in Lawyers : verdicts[r] = <<>> /\ ~Heard(r)
    BY <1>5, AmongFacts DEF Heard
  <2>2. main.at = "plaintiff" /\ active.role = "none" /\ Before("plaintiff") = <<>>
    BY <1>5 DEF NoTurn, Before
  <2> QED BY <2>1, <2>2 DEF TurnsInOrder, Earned, Lawyers
<1>9. FaultsExplain
  BY <1>4, <1>5 DEF FaultsExplain
<1>10. SeatsTallied
  <2>1. Len(transcript.votes) = 0 /\ Len(transcript.failures) = 0 /\ main.at = "plaintiff"
    BY <1>5
  <2> QED BY <1>4, <1>5, <2>1 DEF SeatsTallied
<1>11. TalliedInOrder
  <2>1. /\ transcript.votes = <<>> /\ transcript.failures = <<>> /\ written = transcript
        /\ DOMAIN transcript.votes = {} /\ DOMAIN transcript.failures = {}
    BY <1>5
  <2>2. 1 .. council.tallied = {}
    BY <1>4
  <2>3. \A f : DOMAIN f = {} => Increasing(f)
    BY DEF Increasing
  <2> QED BY <2>1, <2>2, <2>3 DEF TalliedInOrder
<1> QED BY <1>6, <1>7, <1>8, <1>9, <1>10, <1>11 DEF QuickInv

LEMMA QuickInvNext == QuickInv /\ [Next]_vars => QuickInv'
BY TypeNext, TurnsNext, FaultsNext, SeatsNext, TallyNext DEF QuickInv

\* In every reachable state the hearing's parts agree: the lawyers' turns come
\* in order with at most one verdict each, the record holds what was tallied,
\* and every error has a fault behind it.
THEOREM HearingConsistent == Spec => []QuickInv
<1> QED BY QuickInvInit, QuickInvNext, PTL DEF Spec

\* A lawyer's turn gets one verdict, and one it has earned, whichever of a
\* handler, the timer and the cancelled context comes first (runLawyerTurn,
\* completeLawyerTurnLocked).
THEOREM LawyerTurnsSettledOnce == Spec => []TurnsSettledOnce
<1>1. QuickInv => TurnsSettledOnce
  <2> SUFFICES ASSUME QuickInv PROVE TurnsSettledOnce
    OBVIOUS
  <2>1. main.at \in {"convene", "council"} => transcript.arguments = <<"plaintiff", "defendant">>
    BY DEF QuickInv, TurnsInOrder
  <2>2. ASSUME NEW r \in Lawyers
        PROVE  /\ Len(verdicts[r]) <= 1
               /\ verdicts[r] = <<"timeout">> => r \in clock.turns
               /\ verdicts[r] = <<"cancelled">> => clock.cancelled
               /\ verdicts[r] = <<"ok">> => Heard(r)
               /\ Heard(r) => verdicts[r] \in {<<"ok">>, <<"record">>}
    <3>1. Earned(r)
      BY DEF QuickInv, TurnsInOrder
    <3> DEFINE one(v) == <<v>>
    <3>2. \/ verdicts[r] = <<>> /\ ~Heard(r)
          \/ verdicts[r] = one("timeout") /\ ~Heard(r) /\ r \in clock.turns
          \/ verdicts[r] = one("cancelled") /\ ~Heard(r) /\ clock.cancelled
          \/ verdicts[r] \in {one("exhausted"), one("gave_up")} /\ ~Heard(r)
          \/ verdicts[r] = one("record")
          \/ verdicts[r] = one("ok") /\ Heard(r)
      BY <3>1 DEF Earned
    <3>3. /\ \A v, w : one(v) = one(w) => v = w
          /\ \A v : one(v) # <<>> /\ Len(one(v)) = 1
          /\ Len(<<>>) = 0
      OBVIOUS
    <3> HIDE DEF one
    <3>4. Len(verdicts[r]) <= 1
      <4> DEFINE n == Len(verdicts[r])
      <4>1. n = 0 \/ n = 1
        BY <3>2, <3>3
      <4> HIDE DEF n
      <4>2. n <= 1
        BY <4>1
      <4> QED BY <4>2 DEF n
    <3>5. /\ verdicts[r] = one("timeout") => r \in clock.turns
          /\ verdicts[r] = one("cancelled") => clock.cancelled
          /\ verdicts[r] = one("ok") => Heard(r)
          /\ Heard(r) => verdicts[r] \in {one("ok"), one("record")}
      BY <3>2, <3>3
    <3> QED BY <3>4, <3>5 DEF one
  <2> QED BY <2>1, <2>2 DEF TurnsSettledOnce, Heard, Among
<1> QED BY <1>1, HearingConsistent, PTL

\* The record holds the outcomes of the tallied seats, each once and in roster
\* order, in whatever order parallel answers arrive (runCouncilParallel,
\* recordCouncilOutcome).
THEOREM RecordInRosterOrder == Spec => []TalliedInOrder
<1>1. QuickInv => TalliedInOrder
  BY DEF QuickInv
<1> QED BY <1>1, HearingConsistent, PTL

\* What the lawyers are told of the end is so: "done" after both arguments and a
\* full council, "failed" for a cause (setTerminal, resolutionFor).
THEOREM EndIsSound == Spec => []OutcomeIsSound
<1>1. QuickInv => OutcomeIsSound
  <2> SUFFICES ASSUME QuickInv PROVE OutcomeIsSound
    OBVIOUS
  <2>1. terminal = "failed" => fault
    BY DEF QuickInv, FaultsExplain
  <2>2. ASSUME terminal = "done" PROVE Resolution # "" /\ Len(transcript.arguments) = 2
    <3>1. /\ Len(transcript.votes) + Len(transcript.failures) = cfg.CouncilSize
          /\ transcript.arguments = <<"plaintiff", "defendant">>
      BY <2>2 DEF QuickInv, SeatsTallied
    <3>2. Resolution \in {"demonstrated", "not_demonstrated", "no_majority"}
      BY <3>1 DEF Resolution
    <3>3. Len(transcript.arguments) = 2
      BY <3>1
    <3>4. "" \notin {"demonstrated", "not_demonstrated", "no_majority"}
      BY Zenon
    <3> QED BY <3>2, <3>3, <3>4, Zenon
  <2> QED BY <2>1, <2>2, Zenon DEF OutcomeIsSound
<1> QED BY <1>1, HearingConsistent, PTL

\* No lawyer sleeps in /wait past a change: whatever it waits for is announced
\* under the lock, version first (setTerminal, completeLawyerTurnLocked, handleWait).
THEOREM NoLawyerOversleeps == Spec => []NoLostWakeup
<1>1. Init => NoLostWakeup
  BY DEF Init, NoLostWakeup, Waiters, cfg
<1>2. QuickInv /\ NoLostWakeup /\ [Next]_vars => NoLostWakeup'
  <2> SUFFICES ASSUME QuickInv, NoLostWakeup, [Next]_vars PROVE NoLostWakeup'
    OBVIOUS
  <2>1. QuickTypeOK /\ AttemptsLast /\ TurnsInOrder
    BY DEF QuickInv
  <2>2. Waiters' = Waiters
    BY <2>1, StepKinds, TurnStepTypes, HearingStepTypes, EndStepTypes, QuietStepTypes
    DEF Waiters, cfg
  <2>3. CASE \A w \in Waiters : waits'[w].at # "asleep"
    BY <2>2, <2>3 DEF NoLostWakeup
  <2>4. CASE /\ UNCHANGED <<version, waits, terminal>>
             /\ active'.role = active.role /\ active'.completed = active.completed
    BY <2>2, <2>4 DEF NoLostWakeup, Ready
  <2>5. CASE TurnStep
    BY <2>1, <2>3, <2>4, <2>5, TurnStepTypes DEF TurnStepOK
  <2>6. CASE HearingStep
    BY <2>1, <2>4, <2>6, HearingStepTypes
  <2>7. CASE EndStep
    BY <2>1, <2>3, <2>4, <2>7, EndStepTypes
  <2>8. CASE QuietStep
    <3>1. UNCHANGED <<active, version, terminal>>
      BY <2>1, <2>8, QuietStepTypes
    <3>2. CASE waits' = waits
      BY <2>4, <3>1, <3>2
    <3>3. ASSUME NEW w \in Waiters, WaitReturns(w) PROVE NoLostWakeup'
      <4>1. waits'[w].at = "idle" /\ \A u \in Waiters : u # w => waits'[u] = waits[u]
        BY <2>1, <3>3 DEF WaitReturns, QuickTypeOK, Polls
      <4> QED BY <2>2, <3>1, <4>1 DEF NoLostWakeup, Ready
    <3>4. ASSUME NEW w \in Waiters, NEW a \in Lawyers \cup {"none"}, Wait(w, a)
          PROVE  NoLostWakeup'
      <4>1. /\ waits'[w].base = version /\ waits'[w].after = a /\ ~Ready(w, version, a)
            /\ \A u \in Waiters : u # w => waits'[u] = waits[u]
        BY <2>1, <3>4 DEF Wait, QuickTypeOK
      <4> QED BY <2>2, <3>1, <4>1 DEF NoLostWakeup, Ready
    <3> QED
      BY <2>8, <3>2, <3>3, <3>4
      DEF QuietStep, CallbackStarts, TurnDeadlinePasses, Cancel, Over, MemberDeadlinePasses, vars
  <2> QED BY <2>5, <2>6, <2>7, <2>8, StepKinds
<1> QED BY <1>1, <1>2, HearingConsistent, PTL DEF Spec
=============================================================================
