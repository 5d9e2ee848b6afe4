------------------------------ MODULE MCArbCase ------------------------------
EXTENDS ArbCase

NoExhibits == {<<>>}
=============================================================================
