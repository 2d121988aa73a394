------------------------------ MODULE MCWordRep -------------------------------
(* Every corpus of at most five tokens over three words, every family of two     *)
(* hash functions into two slots, and queues of two words and three patterns.    *)
(* The words "ab", "#b" and "abaab", of which the last is longer than what is    *)
(* looked at, have patterns in common, whole short words and single letters.     *)
(* Of the hash functions of the set, one keeps all strings apart, one puts them  *)
(* into two places, one confuses strings.                                        *)
EXTENDS WordRep

MCWords == 1..3
MCRows == {0, 1}
MCColumns == {0, 1}
MCHashes == [MCRows -> [MCWords -> MCColumns]]
MCCorpora == BoundedSeq(MCWords, 5)

MCSpelling == 3 :> <<"#", "b">> @@ 2 :> <<"a", "b">> @@ 1 :> <<"a", "b", "a", "a", "b">>

Rank(x) == CHOOSE n \in 1..4 : <<"#", "*", "a", "b">>[n] = x

(* The strings of all patterns, the last one first ('#' and '*' come before      *)
(* letters).                                                                     *)
MCPartSpelling ==
    <<<<"b", "a", "a">>, <<"b", "a">>, <<"b", "*">>, <<"a", "b", "*">>, <<"a", "a", "b", "*">>,
      <<"a", "a">>, <<"*", "a", "b", "a">>, <<"*", "a", "b", "*">>, <<"*", "a", "b">>,
      <<"*", "a">>, <<"*", "#", "b", "*">>, <<"*", "#">>>>

MCParts == DOMAIN MCPartSpelling

(* No collision in the second row, and some in the first.                        *)
MCPartHashes ==
    {[r \in MCRows |-> [p \in MCParts |-> IF r = 0 THEN p % 2 ELSE (p \div k) % 2]] : k \in {1, 2, 4}}

Code(s) == FoldLeft(LAMBDA code, x : 5 * code + Rank(x), 0, s)

MCBuckets == 0..12
MCCrcs == {"apart", "crowded", "confused"}
MCBucketOf(c, s) ==
    IF c = "crowded" THEN Len(s) % 2 ELSE IF c = "apart" THEN (7 * Code(s)) % 13 ELSE Code(s) % 3
MCIdOf(c, s) == IF c = "confused" THEN (Code(s) \div 3) % 2 ELSE Code(s) + 1

MCQueries ==
    {<<"b", "a">>, <<"7", "a">>, <<"a", "b", "b">>, <<"7", "b">>, <<"b", "a", "b">>,
     <<"*", "7", "b", "*">>}
===============================================================================
