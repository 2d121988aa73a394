------------------------------- MODULE WordRep --------------------------------
(* wordrep -e, the making of a total_word_feature_extractor, and its use:        *)
(*   count_words   the words of the corpus that occur most (module TopWords);    *)
(*   word_vects    a vector for each of them;                                    *)
(*   basic_morph   the patterns these words have most often, by the same two     *)
(*                 loops, put into an approximate_substring_set;                 *)
(*   cca_morph     a row of morph_trans for every pattern that a word hits.      *)
(* Afterwards the features of any word are asked for: those of a word of the     *)
(* dictionary were stored, all others are the sum of the rows its patterns hit.  *)
(* Vectors and rows are reduced to whether they exist and were assigned.         *)
EXTENDS TopWords, SubstringSet

CONSTANTS
    Spelling,       \* the string of each word
    PartSpelling,   \* the string of each pattern, numbered against their order
    PartHashes,     \* hash functions of the sketch of patterns
    MaxParts,       \* max_num_parts, 20000 in the code
    HalfWindow,     \* words on either side of the middle of a window, 4
    Digit,          \* '#', which stands for every digit
    Digits,         \* '0' to '9'
    Queries         \* words that the features are asked for

Parts == DOMAIN PartSpelling

ASSUME WordRepAssumption ==
    /\ Spelling \in [Words -> Seq(Letters)]
    /\ Digit \in Letters
    /\ Queries \subseteq Seq(Letters \cup Digits)
    /\ Parts \subseteq Nat
    /\ MaxParts \in Nat \ {0}
    /\ PartHashes # {} /\ PartHashes \subseteq [Rows -> [Parts -> Columns]]
    /\ \A c \in Crcs : \A s \in {PartSpelling[p] : p \in Parts} \cup {<<Digit>>} :
           BucketOf(c, s) \in Buckets
    /\ \A w \in Words : \A n \in 1..Len(PatternsOf(Spelling[w])) :
           \E p \in Parts : PartSpelling[p] = PatternsOf(Spelling[w])[n]

VARIABLES
    step,             \* the command that runs
    dictionary,       \* top_word_counts.dat
    vectors,          \* word_vects.dat: the words that have a vector
    partsHash, partsCounts, partsTotal, partsTruth,
    partsCorpus, partsPass, partsNext, partsBest, curParts, topParts,
    substrs,          \* the patterns, in the order they are added
    crc,              \* the hash function of the set
    table, maxSubstrLen,
    rows,             \* how many rows of morph_trans are assigned
    asked             \* the word last asked for, after convert_numbers()

morphVars == <<substrs, crc, table, maxSubstrLen, rows, asked>>
partsVars == <<partsHash, partsCounts, partsTotal, partsTruth, partsCorpus, partsPass, partsNext,
               partsBest, curParts, topParts>>
allVars == <<vars, step, dictionary, vectors, partsVars, morphVars>>

(* get_most_common_substrings(): TopWords over patterns.                         *)
P == INSTANCE TopWords
         WITH Items <- Parts, Hashes <- PartHashes, MaxTopWords <- MaxParts,
              Corpora <- Seq(Parts), hash <- partsHash, counts <- partsCounts,
              total <- partsTotal, truth <- partsTruth, corpus <- partsCorpus,
              pass <- partsPass, next <- partsNext, best <- partsBest,
              curWords <- curParts, topWords <- topParts

WordRepInit ==
    /\ Init
    /\ step = "count_words"
    /\ dictionary = {} /\ vectors = {}
    /\ P!SketchInit /\ partsHash = CHOOSE h \in PartHashes : TRUE
    /\ partsCorpus = <<>> /\ partsPass = "count" /\ partsNext = 1
    /\ partsBest = {} /\ curParts = {} /\ topParts = {}
    /\ substrs = <<>> /\ crc = CHOOSE c \in Crcs : TRUE
    /\ table = EmptyTable /\ maxSubstrLen = 0
    /\ rows = 0 /\ asked = <<>>

CountWords ==
    /\ step = "count_words"
    /\ Next
    /\ UNCHANGED <<step, dictionary, vectors, partsVars, morphVars>>

-------------------------------------------------------------------------------
(* get_average_context_window_vector_per_word(): a word gets a vector where it   *)
(* stands in the middle of a window.                                             *)
InTheMiddle == {corpus[n] : n \in (1 + HalfWindow)..(Len(corpus) - HalfWindow)}

(* A set in an order that has no ties.                                           *)
Sorted(S, Before(_, _)) ==
    CHOOSE s \in [1..Cardinality(S) -> S] : \A m, n \in DOMAIN s : m < n => Before(s[m], s[n])

(* The patterns of all words of the dictionary, a map in the order of strings.   *)
PartNumber(s) == CHOOSE p \in Parts : PartSpelling[p] = s

PartsOf(words) ==
    LET inOrder == Sorted(words, LAMBDA v, w : v > w)
        strings == FlattenSeq([n \in 1..Len(inOrder) |-> PatternsOf(Spelling[inOrder[n]])])
    IN  [n \in 1..Len(strings) |-> PartNumber(strings[n])]

(* word_vects runs over the corpus once more, and what remains are the files.    *)
WordVects ==
    /\ step = "count_words" /\ pass = "done"
    /\ InTheMiddle # {}
    /\ dictionary' = {t.word : t \in topWords}
    /\ vectors' = dictionary' \cap InTheMiddle
    /\ partsCorpus' = PartsOf(dictionary')
    /\ step' = "basic_morph"
    /\ corpus' = <<>> /\ next' = 1
    /\ best' = {} /\ curWords' = {} /\ topWords' = {}
    /\ counts' = [s \in Sketches |-> NoCounts]
    /\ total' = [s \in Sketches |-> 0]
    /\ truth' = [s \in Sketches |-> [w \in Words |-> 0]]
    /\ partsHash' \in PartHashes
    /\ UNCHANGED <<hash, pass>>
    /\ UNCHANGED <<partsCounts, partsTotal, partsTruth, partsPass, partsNext, partsBest,
                   curParts, topParts, morphVars>>

(* The corpus is shorter than a window: cca() is called without contexts, which  *)
(* it asserts not to happen; a build without assertions has no result either.    *)
WordVectsFails ==
    /\ step = "count_words" /\ pass = "done"
    /\ InTheMiddle = {}
    /\ step' = "abandoned"
    /\ UNCHANGED <<vars, dictionary, vectors, partsVars, morphVars>>

CountParts ==
    /\ step = "basic_morph"
    /\ P!Next
    /\ UNCHANGED <<vars, step, dictionary, vectors, morphVars>>

(* std::sort(substrs), and one character more.                                   *)
SortedByPattern ==
    Sorted(topParts, LAMBDA e, f : e.word > f.word)

SortedByHits ==
    Sorted(topParts, LAMBDA e, f : e.hits < f.hits \/ (e.hits = f.hits /\ e.word > f.word))

SortSubstrings ==
    /\ step = "basic_morph" /\ partsPass = "done"
    /\ substrs' = [n \in 1..Len(SortedByHits) |-> PartSpelling[SortedByHits[n].word]] \o <<<<Digit>>>>
    /\ crc' \in Crcs
    /\ step' = "add_substrings"
    /\ UNCHANGED <<vars, dictionary, vectors, partsVars, table, maxSubstrLen, rows, asked>>

AddSubstring ==
    /\ step = "add_substrings" /\ substrs # <<>>
    /\ table' = Added(table, crc, Head(substrs))
    /\ maxSubstrLen' = IF Len(Head(substrs)) > maxSubstrLen THEN Len(Head(substrs)) ELSE maxSubstrLen
    /\ substrs' = Tail(substrs)
    /\ UNCHANGED <<vars, step, dictionary, vectors, partsVars, crc, rows, asked>>

-------------------------------------------------------------------------------
HitsOf(w) == FindSubstrings(table, crc, maxSubstrLen, w)

LearnedRows == UNION {HitsOf(Spelling[w]) : w \in vectors}

CcaMorphOneRowLess ==
    /\ step = "add_substrings" /\ substrs = <<>>
    /\ LearnedRows # {}
    /\ rows' = Max(LearnedRows)
    /\ step' = "features"
    /\ UNCHANGED <<vars, dictionary, vectors, partsVars, substrs, crc, table, maxSubstrLen, asked>>

(* learn_morphological_dimension_reduction(): cca() makes rows up to the largest *)
(* id in its samples. The matrix is then enlarged to all ids, and nothing is     *)
(* assigned to the rows this adds. cca() asserts that there is something: built  *)
(* without assertions, it has the largest of no singular values to compute with. *)
CcaMorph ==
    /\ step = "add_substrings" /\ substrs = <<>>
    /\ LearnedRows # {}
    /\ rows' = Max(LearnedRows) + 1
    /\ step' = "features"
    /\ UNCHANGED <<vars, dictionary, vectors, partsVars, substrs, crc, table, maxSubstrLen, asked>>

(* No word with a vector hits a pattern: cca() is called without rows.           *)
CcaFails ==
    /\ step = "add_substrings" /\ substrs = <<>>
    /\ LearnedRows = {}
    /\ step' = "failed"
    /\ UNCHANGED <<vars, dictionary, vectors, partsVars, morphVars>>

(* convert_numbers()                                                             *)
Converted(w) == [n \in 1..Len(w) |-> IF w[n] \in Digits THEN Digit ELSE w[n]]

(* total_word_feature_extractor::get_feature_vector(), whose constructor has      *)
(* stored the features of every word with a vector: of others it sums the rows   *)
(* that the word hits.                                                           *)
RowsRead(w) == IF \E v \in vectors : Spelling[v] = w THEN {} ELSE HitsOf(w)

GetFeatureVector(w) ==
    /\ step = "features"
    /\ asked' = Converted(w)
    /\ UNCHANGED <<vars, step, dictionary, vectors, partsVars, substrs, crc, table, maxSubstrLen, rows>>

WordRepNext ==
    \/ CountWords \/ WordVects \/ WordVectsFails \/ CountParts \/ SortSubstrings \/ AddSubstring
    \/ CcaMorph \/ CcaFails
    \/ \E w \in Queries : GetFeatureVector(w)

WordRepSpec == WordRepInit /\ [][WordRepNext]_allVars
-------------------------------------------------------------------------------
(* Once all patterns are added.                                                  *)
SetIsComplete == step \in {"features", "failed"} \/ (step = "add_substrings" /\ substrs = <<>>)

Selected == {PartSpelling[e.word] : e \in topParts}

AskedFor == {Spelling[w] : w \in dictionary} \cup {Converted(w) : w \in Queries}

WholeWord(s) == Len(s) > 1 /\ s[1] = Star /\ s[Len(s)] = Star

(* A pattern that was selected, and was not displaced, is found in every word    *)
(* that has it and is not longer than what is looked at: the hashes that move    *)
(* over the word pass by every string populate_substr() can have made of it, but *)
(* for the whole word between two stars.                                         *)
SelectedPatternsAreFound ==
    SetIsComplete =>
        \A w \in AskedFor : Len(w) <= MaxChars =>
            \A s \in ToSet(PatternsOf(w)) \cap Selected :
                InTable(table, crc, s) /\ ~WholeWord(s) => BucketOf(crc, s) \in HitsOf(w)

(* "sort the substrings so the least frequently used ones come first" (           *)
(* basic_morph.cpp): where patterns share a place, the one that was seen most    *)
(* has it, if '#', which is added last, does not.                                *)
FrequentPatternsSurvive ==
    SetIsComplete =>
        \A e \in topParts :
            LET place(f) == BucketOf(crc, PartSpelling[f.word])
            IN  /\ place(e) # BucketOf(crc, <<Digit>>)
                /\ \A f \in topParts \ {e} : place(f) = place(e) => f.hits < e.hits
                => InTable(table, crc, PartSpelling[e.word])

(* Features come out of rows that were assigned, if no hash function confuses    *)
(* strings, every word of the dictionary has a vector and is not too long to be  *)
(* read to its end, one of them has a digit, and the word asked for has no star  *)
(* of its own. (The pattern *ab* of a whole dictionary word has a row that no    *)
(* word without stars hits, and none was there to assign it. Each condition can  *)
(* fail in the code, and then the features come out of uninitialized memory.)    *)
Confused ==
    \E w \in AskedFor : \E s \in StringsLookedUp(w, maxSubstrLen) :
        InTable(table, crc, s) /\ s \notin Selected \cup {<<Digit>>}

FeaturesAreLearned ==
    /\ step = "features"
    /\ vectors = dictionary
    /\ \A w \in dictionary : Len(Spelling[w]) <= MaxChars
    /\ \E w \in dictionary : Digit \in ToSet(Spelling[w])
    /\ Star \notin ToSet(asked)
    /\ ~Confused
    => \A b \in RowsRead(asked) : b < rows
===============================================================================
