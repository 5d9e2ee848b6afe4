------------------------------ MODULE MCQuickCase ------------------------------
EXTENDS QuickCase

\* Three members, asked in turn or at once.
Hearings == [CouncilSize : {3}, RequiredVotes : {2}, InvalidAttemptLimit : {1},
             ParallelCouncil : BOOLEAN, waiters : {{}}]
\* One member with a second attempt; the plaintiff polls /wait.
Polled   == [CouncilSize : {1}, RequiredVotes : {1}, InvalidAttemptLimit : {2},
             ParallelCouncil : {FALSE}, waiters : {{"plaintiff"}}]
Runs == Hearings \cup Polled
=============================================================================
