------------------------------ MODULE MCAdcRoleApi ------------------------------
EXTENDS AdcRoleApi

Party(seat) == [kind |-> "party", seat |-> seat]
Candidate(seat) == [kind |-> "candidate", seat |-> seat]
Vote(seat) == [kind |-> "vote", seat |-> seat]
Judge == [kind |-> "internal", seat |-> 0]

\* Two turns of one party, a juror questioned twice, the judge, then two votes.
Trial == <<Party(0), Party(0), Candidate(1), Candidate(1), Judge, Vote(1), Vote(2)>>

\* A run suffers one kind of trouble at most.
Troubles == {{"cancel"}, {"persist"}, {"server"}}
=============================================================================
