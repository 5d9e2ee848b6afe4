---------------------------- MODULE MCArbCaseFiles ----------------------------
(* Two runs; the plaintiff has turns in two phases, the defendant between.   *)
EXTENDS ArbCaseFiles, TLC

Symmetry == Permutations(Runs)

Turns == << [role |-> "plaintiff", phase |-> "openings"],
            [role |-> "plaintiff", phase |-> "arguments"],
            [role |-> "defendant", phase |-> "arguments"],
            [role |-> "plaintiff", phase |-> "rebuttals"] >>
=============================================================================
