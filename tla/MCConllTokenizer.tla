-------------------------- MODULE MCConllTokenizer --------------------------
\* Every text of up to three characters of every kind, longer ones of the
\* kinds that need a neighbour or two, and two files one after the other.
EXTENDS ConllTokenizer, TLC

Quotes == {Apostrophe, OpenQuote, CloseQuote}

Characters ==
  {<<b>> : b \in {"a", "A", "9", "'", " "} \cup Stops}
    \cup {<<"C2", "A0">>, <<"C2", "A9">>} \cup Quotes

MCBytes == UNION {Range(c) : c \in Characters}

Texts(characters, n) == {FlattenSeq(s) : s \in BoundedSeq(characters, n)}

MCCorpora ==
  {<<t>> : t \in Texts(Characters, 3)
                   \cup Texts({<<"a">>, Apostrophe, CloseQuote, OpenQuote}, 5)
                   \cup Texts({<<"a">>, <<"A">>, <<".">>, <<" ">>}, 5)}
    \cup {<<t, u>> : t, u \in Texts({<<"a">>, <<" ">>, <<".">>, Apostrophe}, 2)}

=============================================================================
