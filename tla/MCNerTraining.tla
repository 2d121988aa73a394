--------------------------- MODULE MCNerTraining ----------------------------
\* A sentence of two tokens and one of a single token
EXTENDS NerTraining

CONSTANTS x, y

MCNumTokens == [h \in {x, y} |-> IF h = x THEN 2 ELSE 1]

=============================================================================
