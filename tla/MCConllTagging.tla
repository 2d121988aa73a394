--------------------------- MODULE MCConllTagging ---------------------------
\* Sentences of up to three tokens and models with two tags
EXTENDS ConllTagging

MCSizes == 0 .. 3

=============================================================================
