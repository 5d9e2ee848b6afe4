---------------------------- MODULE ArbEvidenceRead ----------------------------
(***************************************************************************)
(* Evidence file reads of one role API (lawyerEvidenceDoResponse and       *)
(* councilEvidenceDoResponse).  A read reserves its bytes in the budget of *)
(* the turn it was admitted in, releases rc.mu while the file is read and  *)
(* verified, and takes the lock again to settle the reservation.  By then  *)
(* other reads have reserved, and the turn may have ended and another one, *)
(* with a budget of its own, have started.                                 *)
(*                                                                         *)
(* Turns are ArbRuntime's, reduced to their number and to whether they are *)
(* open.  Budgets are kept for ended turns too: a late read still points   *)
(* to the one it reserved in.                                              *)
(***************************************************************************)
EXTENDS Naturals, FiniteSets, FiniteSetsExt

CONSTANTS
  Readers,      \* requests that may be in flight at once
  MaxTurns,     \* bound: turns of the case
  MaxReadBytes, \* policy.max_evidence_read_bytes
  MaxReads,     \* policy.max_evidence_reads_per_opportunity
  MaxBytes      \* policy.max_evidence_read_bytes_per_opportunity

ASSUME ReadAssumption ==
  /\ IsFiniteSet(Readers)
  /\ MaxTurns \in Nat
  /\ MaxReadBytes \in Nat \ {0} /\ MaxReads \in Nat \ {0} /\ MaxBytes \in Nat
  /\ MaxReadBytes <= MaxBytes

VARIABLES
  active,  \* api.active: its number, and whether it is not completed
  budget,  \* evidenceReadBudget of each turn: reads and bytes taken
  reading, \* the reservation of each request in flight, or NoRead
  served   \* history: reads and bytes each turn's clients were given

readVars == <<active, budget, reading, served>>

Turns  == 1 .. MaxTurns
NoRead == [turn |-> 0, length |-> 0]
Tally  == [reads : Nat, bytes : Nat]
Zero   == [reads |-> 0, bytes |-> 0]

ReadInit ==
  /\ active = [number |-> 0, open |-> FALSE]
  /\ budget = [t \in Turns |-> Zero]
  /\ reading = [r \in Readers |-> NoRead]
  /\ served = [t \in Turns |-> Zero]

StartTurn ==
  /\ ~active.open /\ active.number < MaxTurns
  /\ active' = [number |-> active.number + 1, open |-> TRUE]
  /\ UNCHANGED <<budget, reading, served>>

\* The turn is answered, fails or expires while reads are in flight.
CloseTurn ==
  /\ active.open
  /\ active' = [active EXCEPT !.open = FALSE]
  /\ UNCHANGED <<budget, reading, served>>

\* reserveEvidenceReadLocked, under the lock: the whole length is taken.
Fits(b, length) ==
  /\ length \in 1 .. MaxReadBytes
  /\ b.reads < MaxReads
  /\ b.bytes + length <= MaxBytes

Reserved(b, length) == [reads |-> b.reads + 1, bytes |-> b.bytes + length]

Reserve(r, length) ==
  /\ active.open /\ reading[r] = NoRead
  /\ Fits(budget[active.number], length)
  /\ budget' = [budget EXCEPT ![active.number] = Reserved(@, length)]
  /\ reading' = [reading EXCEPT ![r] = [turn |-> active.number, length |-> length]]
  /\ UNCHANGED <<active, served>>

\* Mutant: any open turn will do.
ValidInAnyTurn(r) == active.open

\* revalidate...EvidenceTurnLocked: the turn the read was admitted in is still
\* the active one, and open.
Valid(r) == active.open /\ active.number = reading[r].turn

\* rollbackEvidenceReadLocked
RolledBack(b, length) == [reads |-> b.reads - 1, bytes |-> b.bytes - length]

\* Mutant: the bytes past the end of the file stay charged.
FinalizedWhole(b, length, n) == b

\* finalizeEvidenceReadLocked: the bytes past the end of the file are returned.
Finalized(b, length, n) == [b EXCEPT !.bytes = @ - (length - n)]

Settle(r, b) ==
  /\ budget' = [budget EXCEPT ![reading[r].turn] = b]
  /\ reading' = [reading EXCEPT ![r] = NoRead]

\* The file gave n bytes and the turn is still open.
Serve(r, n) ==
  /\ reading[r] # NoRead /\ Valid(r)
  /\ n \in 0 .. reading[r].length
  /\ Settle(r, Finalized(budget[reading[r].turn], reading[r].length, n))
  /\ served' = [served EXCEPT ![reading[r].turn] =
                  [reads |-> @.reads + 1, bytes |-> @.bytes + n]]
  /\ UNCHANGED active

\* The turn ended meanwhile: whatever the file gave is thrown away.
Discard(r) ==
  /\ reading[r] # NoRead /\ ~Valid(r)
  /\ Settle(r, RolledBack(budget[reading[r].turn], reading[r].length))
  /\ UNCHANGED <<active, served>>

\* The file could not be read or verified: the error ends the turn.
ReadFails(r) ==
  /\ reading[r] # NoRead /\ Valid(r)
  /\ Settle(r, RolledBack(budget[reading[r].turn], reading[r].length))
  /\ active' = [active EXCEPT !.open = FALSE]
  /\ UNCHANGED served

Done == ~active.open /\ active.number = MaxTurns /\ (\A r \in Readers : reading[r] = NoRead)
        /\ UNCHANGED readVars

ReadNext ==
  \/ StartTurn \/ CloseTurn \/ Done
  \/ \E r \in Readers :
       \/ \E length \in 1 .. MaxReadBytes : Reserve(r, length)
       \/ \E n \in 0 .. MaxReadBytes : Serve(r, n)
       \/ Discard(r) \/ ReadFails(r)

ReadSpec == ReadInit /\ [][ReadNext]_readVars

-----------------------------------------------------------------------------
InFlight(t) == {r \in Readers : reading[r].turn = t}

\* However many reads overlap and however late they settle, a turn's budget is
\* what its clients were given plus what reads in flight still hold, within the
\* policy's limits: nothing is lost to a short or discarded read, and none is
\* charged to another turn.
BudgetExact ==
  \A t \in Turns :
    /\ budget[t].reads = served[t].reads + Cardinality(InFlight(t))
    /\ budget[t].bytes =
         served[t].bytes + MapThenSumSet(LAMBDA r : reading[r].length, InFlight(t))
    /\ budget[t].reads <= MaxReads /\ budget[t].bytes <= MaxBytes

\* A read is answered only in the turn that admitted it: nothing is served
\* after that turn has ended.
ServedOnlyWhileOpen ==
  [][ \A t \in Turns : served'[t] # served[t] => active.open /\ active.number = t ]_readVars
=============================================================================
