----------------------------- MODULE SubstringSet -----------------------------
(* The patterns of words: parts of them, with a star where the word begins or    *)
(* ends. basic_morph writes patterns into an approximate_substring_set, a hash   *)
(* table without the strings; find_substrings() tells which patterns a word has  *)
(* by moving a row of hashes over it. Writer and reader share no code, and agree *)
(* on a pattern only if they feed the same characters to the same hash.          *)
(*                                                                               *)
(* A hash is the sequence of characters it was fed. What crc32 makes of that, a  *)
(* place in the table and an id, is a choice among Crcs.                         *)
EXTENDS Integers, Sequences, SequencesExt, FiniteSetsExt

CONSTANTS
    Letters,          \* the characters of words, a star among them if texts have any
    Star,             \* '*'
    MaxPart,          \* characters of a pattern, 5 in populate_substr()'s caller
    MaxChars,         \* characters that are looked at, max_len - 1 = 49
    Buckets,          \* places of hash_table
    Crcs,             \* the hash functions to consider
    BucketOf(_, _),   \* hash & mask
    IdOf(_, _)        \* hash >> mask_bits

ASSUME SubstringAssumption ==
    /\ MaxPart \in Nat \ {0} /\ MaxChars \in Nat \ {0}
    /\ Buckets \subseteq Nat /\ \E mask \in Buckets : \A b \in Buckets : b <= mask
    /\ Crcs # {}

Shorter(m, n) == IF m < n THEN m ELSE n

EmptyTable == [b \in Buckets |-> 0]

-------------------------------------------------------------------------------
(* populate_substr(): l characters of the word w from its k-th on.               *)
Pattern(w, k, l) ==
    (IF k = 1 THEN <<Star>> ELSE <<>>) \o SubSeq(w, k, k + l - 1)
        \o (IF k + l - 1 = Len(w) THEN <<Star>> ELSE <<>>)

(* The patterns of a word in the order of get_most_common_substrings(), which    *)
(* passes over those of one character.                                           *)
PatternsOf(w) ==
    LET kept(p) == IF Len(p) > 1 THEN <<p>> ELSE <<>>
        from(k) == [l \in 1..Shorter(MaxPart, Len(w) - k + 1) |-> kept(Pattern(w, k, l))]
    IN  FlattenSeq([k \in 1..Len(w) |-> FlattenSeq(from(k))])

-------------------------------------------------------------------------------
(* add_substring()                                                               *)
Added(table, crc, p) == [table EXCEPT ![BucketOf(crc, p)] = IdOf(crc, p)]

InTable(table, crc, p) == table[BucketOf(crc, p)] = IdOf(crc, p)

(* One iteration of find_substrings(), the t-th, over the first n characters:    *)
(* hashes[0] goes on from the front of the word, hashes[j] is one character      *)
(* longer each time and moves on by one.                                         *)
Moved(hashes, w, n, t) ==
    [j \in 0..n |->
        IF j = 0 THEN Append(hashes[0], w[t])
        ELSE IF t + j - 1 <= n THEN Append(hashes[j], w[t + j - 1])
        ELSE hashes[j]]

LookedUpTooShort(hashes, n, t) ==
    {hashes[j] : j \in 0..(n - t)} \cup {Append(hashes[n - t], Star)}

(* What it looks up: the hashes it has moved, and the last of them with a star.  *)
LookedUp(hashes, n, t) ==
    {hashes[j] : j \in 0..(n - t + 1)} \cup {Append(hashes[n - t + 1], Star)}

(* The loop runs while the hashes are not longer than the longest pattern.       *)
StringsLookedUp(w, max_substr_len) ==
    LET n == Shorter(Len(w), MaxChars)
        start == [j \in 0..n |-> IF j = 0 THEN <<Star>> ELSE <<>>]
        hashes[t \in 0..n] == IF t = 0 THEN start ELSE Moved(hashes[t - 1], w, n, t)
    IN  UNION {LookedUp(hashes[t], n, t) : t \in 1..Shorter(n, max_substr_len)}

(* The strings that are in the table, or seem to be (a place that was never      *)
(* written has the id 0).                                                        *)
FindSubstrings(table, crc, max_substr_len, w) ==
    {BucketOf(crc, s) : s \in
        {s \in StringsLookedUp(w, max_substr_len) : InTable(table, crc, s)}}
===============================================================================
