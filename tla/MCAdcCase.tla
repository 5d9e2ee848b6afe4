------------------------------ MODULE MCAdcCase ------------------------------
(* Each case uses some of the optional turns only, by stage: one that used *)
(* all of them would have millions of states.                              *)
EXTENDS AdcCase

Closing == {"propose_jury_instruction", "deliver_closing_argument"}

Case(jury, instructions, attached, moves) ==
  [jury |-> jury, defective |-> FALSE, instructions |-> instructions,
   attached |-> attached, moves |-> moves]

MCSetups == {
  \* Threshold motions, summary judgment, and the screen for jurisdiction.
  [Case(TRUE, TRUE, <<>>, {"file_rule12_motion", "oppose_rule12_motion", "reply_rule12_motion",
      "file_rule56_motion", "dismiss_for_lack_of_subject_matter_jurisdiction"})
    EXCEPT !.defective = TRUE],
  \* Discovery, with files produced and imported late.
  Case(TRUE, TRUE, <<"f1">>, {"produce_case_file", "file_rule37_motion", "file_rule56_motion"}),
  Case(TRUE, TRUE, <<>>, {"produce_case_file", "import_case_file", "file_rule37_motion",
      "submit_technical_report"}),
  \* A jury trial.
  Case(TRUE, TRUE, <<"f1", "f2">>, Closing \cup {"offer_exhibit", "object_jury_instruction"}),
  Case(TRUE, TRUE, <<"f1">>, Closing \cup {"record_opening_statement", "submit_trial_theory",
      "object_jury_instruction"}),
  \* A bench trial whose parties have the instruction tools, and one as generated.
  Case(FALSE, TRUE, <<"f1">>, Closing \cup {"import_case_file", "offer_exhibit"}),
  Case(FALSE, FALSE, <<>>, Closing)}

BenchSetups == {Case(FALSE, FALSE, <<>>, Closing)}
MCImports == {"late"}
=============================================================================
