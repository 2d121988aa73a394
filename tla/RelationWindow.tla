--------------------------- MODULE RelationWindow ---------------------------
(***************************************************************************)
(* What of a sentence a binary relation is computed from.  A client names  *)
(* two ranges of tokens.  On the way to extract_binary_relation() the      *)
(* Python wrapper and mitie_extract_binary_relation() may each crop the    *)
(* sentence around them and renumber the ranges, while a sentence a C,     *)
(* C++ or Java client trains with is stored whole.  Tokens stand for their *)
(* positions in the client's sentence, the most a feature can depend on.   *)
(***************************************************************************)
EXTENDS Integers

CONSTANTS
  Sizes,       \* lengths of the sentences clients pass in
  NoFeatures   \* model value: nothing computed yet

ASSUME SizesAssumption == Sizes \subseteq Nat

VARIABLES
  sentence,    \* the client's call: the size and the two ranges
  words,       \* the positions of the sentence that have been passed on
  arg1, arg2,  \* the two ranges, numbered from the first of words
  stage,       \* "client", "char**" (in the C API) or "vector" (in C++)
  features     \* where each feature of the relation comes from

windowVars == <<sentence, words, arg1, arg2, stage, features>>

\* A half open range of tokens
Span(a, b) == [first |-> a, second |-> b]

Least(a, b) == IF a <= b THEN a ELSE b

Greatest(a, b) == IF a >= b THEN a ELSE b

Back(r, k) == Span(r.first - k, r.second - k)

Size(w) == w.second - w.first

\* mitie_entities_overlap(), on ranges
EntitiesOverlap(r, s) ==
  Greatest(r.first, s.first) < Least(r.second, s.second)

\* The arguments a client may name in a sentence of n tokens: not empty, and
\* inside the sentence (_range_is_valid(), the assertions of the C API)
Args(n) == {r \in [first : 0 .. n, second : 0 .. n] : r.first < r.second}

-----------------------------------------------------------------------------
(* extract_binary_relation() *)

Before(r, win) == Span(IF r.first >= win THEN r.first - win ELSE 0, r.first)

After(r, win, n) ==
  Span(r.second, IF r.second + win <= n THEN r.second + win ELSE n)

Between(r, s) ==
  Span(Least(r.second, s.second), Greatest(r.first, s.first))

\* The ranges around a and b, a being the first, in n tokens
Around(a, b, n) ==
  [before |-> Before(a, 2), before2 |-> Before(a, 5),
   between |-> Between(a, b),
   after |-> After(b, 2, n), after2 |-> After(b, 5, n)]

\* What the features of two arguments in n tokens are computed from.  The
\* n-grams of arguments in the other order are hashed with another seed.
Windows(n, r1, r2) ==
  IF r1.first > r2.first
  THEN [seed |-> 100000, arg1 |-> r1, arg2 |-> r2, around |-> Around(r2, r1, n)]
  ELSE [seed |-> 0, arg1 |-> r1, arg2 |-> r2, around |-> Around(r1, r2, n)]

\* The same ranges as positions of the client's sentence
Located(w, base) ==
  [seed |-> w.seed,
   arg1 |-> Back(w.arg1, -base), arg2 |-> Back(w.arg2, -base),
   around |-> [k \in DOMAIN w.around |-> Back(w.around[k], -base)]]

\* Its DLIB_CASSERTs
InsideTokens(r, n) == r.first < r.second /\ r.second <= n

-----------------------------------------------------------------------------
(* Cropping *)

\* Mutant: the left margin is one token smaller than the largest window
MarginOfFour(r, s) ==
  LET begin == Least(r.first, s.first)
  IN  IF begin > 4 THEN begin - 4 ELSE 0

\* The first token kept: begin of both cropping functions
CropBegin(r, s) ==
  LET begin == Least(r.first, s.first)
  IN  IF begin > 5 THEN begin - 5 ELSE 0

\* Mutant: the end is that of the first argument
CropEndOfFirst(r, s, n) == Least(r.second + 5, n)

\* One past the last token kept: Python takes a minimum with len(tokens), C
\* stops at the NULL that ends the array
CropEnd(r, s, n) == Least(Greatest(r.second, s.second) + 5, n)

\* words, arg1 and arg2 after a crop
Crop ==
  LET begin == CropBegin(arg1, arg2)
      end == CropEnd(arg1, arg2, Size(words))
  IN  /\ words' = Span(words.first + begin, words.first + end)
      /\ arg1' = Back(arg1, begin)
      /\ arg2' = Back(arg2, begin)

-----------------------------------------------------------------------------
(* The ways of a relation *)

WindowInit ==
  \E n \in Sizes : \E r1, r2 \in Args(n) :
    /\ ~EntitiesOverlap(r1, r2)
    /\ sentence = [size |-> n, arg1 |-> r1, arg2 |-> r2]
    /\ words = Span(0, n)
    /\ arg1 = r1
    /\ arg2 = r2
    /\ stage = "client"
    /\ features = NoFeatures

\* A C client calls, or a Java or C++ one
CallDirectly ==
  /\ stage = "client"
  /\ stage' \in {"char**", "vector"}
  /\ UNCHANGED <<sentence, words, arg1, arg2, features>>

\* extract_binary_relation(), add_positive_binary_relation() and
\* add_negative_binary_relation() of mitie.py crop to _get_windowed_range()
CallFromPython ==
  /\ stage = "client"
  /\ Crop
  /\ stage' = "char**"
  /\ UNCHANGED <<sentence, features>>

\* mitie_extract_binary_relation() crops, once more for Python
CExtractRelation ==
  /\ stage = "char**"
  /\ ~EntitiesOverlap(arg1, arg2)
  /\ Crop
  /\ stage' = "vector"
  /\ UNCHANGED <<sentence, features>>

\* mitie_add_positive_binary_relation() and mitie_add_negative_... store all
\* the tokens they are given
CAddRelation ==
  /\ stage = "char**"
  /\ ~EntitiesOverlap(arg1, arg2)
  /\ stage' = "vector"
  /\ UNCHANGED <<sentence, words, arg1, arg2, features>>

\* extract_binary_relation(), called at once or by train()
ComputeFeatures ==
  /\ stage = "vector"
  /\ features = NoFeatures
  /\ InsideTokens(arg1, Size(words))
  /\ InsideTokens(arg2, Size(words))
  /\ features' = Located(Windows(Size(words), arg1, arg2), words.first)
  /\ UNCHANGED <<sentence, words, arg1, arg2, stage>>

WindowNext ==
  \/ CallDirectly
  \/ CallFromPython
  \/ CExtractRelation
  \/ CAddRelation
  \/ ComputeFeatures

WindowSpec == WindowInit /\ [][WindowNext]_windowVars

-----------------------------------------------------------------------------
(* Properties *)

\* The relation a call computes does not depend on the way it came: the
\* features of the cropped tokens are those of the whole sentence, so that
\* extraction through any interface meets what was trained through another.
CroppingChangesNoFeature ==
  features # NoFeatures =>
    features = Windows(sentence.size, sentence.arg1, sentence.arg2)

\* Cropping and renumbering, done twice, keep both arguments inside the tokens
\* passed on and naming the client's tokens, and never make two arguments
\* overlap: neither the DLIB_CASSERTs of extract_binary_relation() nor the
\* assertions of the C API can fail.
ArgumentsSurviveCropping ==
  /\ InsideTokens(arg1, Size(words))
  /\ InsideTokens(arg2, Size(words))
  /\ arg1.first >= 0 /\ arg2.first >= 0
  /\ Back(arg1, -words.first) = sentence.arg1
  /\ Back(arg2, -words.first) = sentence.arg2
  /\ ~EntitiesOverlap(arg1, arg2)

=============================================================================
