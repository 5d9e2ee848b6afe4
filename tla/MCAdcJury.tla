------------------------------- MODULE MCAdcJury -------------------------------
EXTENDS AdcJury

SmallCase(jurors, minimum) ==
  [jurors |-> jurors, minimum |-> minimum, candidates |-> 0, questions |-> 0,
   disallowed |-> 0, causes |-> 0, strikes |-> 0, rounds |-> 1, skip |-> FALSE,
   spares |-> 0, idle |-> 0]

\* Selection: questions with one refusal allowed, then challenges and strikes.
Questioning == [SmallCase(1, 1) EXCEPT !.disallowed = 1, !.causes = 1]
Replacing   == [SmallCase(2, 1) EXCEPT !.disallowed = 1, !.spares = 1]
Twice       == [SmallCase(1, 1) EXCEPT !.questions = 2, !.disallowed = 2, !.spares = 1]
Closing     == [SmallCase(1, 1) EXCEPT !.causes = 1, !.spares = 1, !.idle = 1]
Striking    == [SmallCase(1, 1) EXCEPT !.causes = 1, !.strikes = 1, !.idle = 1]
Dawdling    == [SmallCase(1, 1) EXCEPT !.disallowed = 1, !.spares = 1, !.idle = 2]
Selections  == {Questioning, Replacing, Twice, Closing, Striking, Dawdling}

\* Deliberation: unanimous, a bare half (a round both sides carry), a majority.
Juries == {[SmallCase(3, 3) EXCEPT !.skip = TRUE, !.rounds = 3],
           [SmallCase(4, 2) EXCEPT !.skip = TRUE, !.rounds = 2]}

Trials == Selections \cup Juries
=============================================================================
