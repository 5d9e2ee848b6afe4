----------------------------- MODULE MCArbRuntime -----------------------------
EXTENDS ArbRuntime

NoExhibits   == {<<>>}
SomeExhibits == {<<>>, <<"n1">>}

Plaintiff == [role |-> "plaintiff", member |-> 0]
Member(m) == [role |-> "council", member |-> m]

PlaintiffAndMember == {Plaintiff, Member(1)}
Nobody             == {}
=============================================================================
