------------------------------ MODULE TopWords ------------------------------
(***************************************************************************)
(* get_top_word_counts() of wordrep: the most frequent words of a corpus   *)
(* too large to count exactly.  A first pass over the tokens feeds a       *)
(* count_min_sketch (module CountMinSketch), a second one keeps the words  *)
(* of the highest counts in a priority queue, next to the set of words     *)
(* that are in it.  get_most_common_substrings() of basic_morph has the    *)
(* same two loops.                                                         *)
(***************************************************************************)
EXTENDS CountMinSketch, Sequences, FiniteSets

CONSTANTS
  Corpora,      \* the sequences of words to consider
  MaxTopWords,  \* max_top_words, from 1 up (--count-words)
  WordCounts    \* the sketch of the words

\* The words, numbered against the order of their strings: 0 is the last one
Words == Items

ASSUME TopAssumption ==
  /\ Words \subseteq Nat
  /\ Corpora \subseteq Seq(Words)
  /\ MaxTopWords \in Nat \ {0}
  /\ WordCounts \in Sketches
  /\ 1 \in Amounts

VARIABLES
  corpus,    \* what the tokenizer delivers, again after reset()
  pass,      \* "count", "select" or "done"
  next,      \* the token the tokenizer delivers next
  best,      \* best_words: entries pushed at a token, with its hits then
  curWords,  \* cur_words
  topWords   \* top_words: the result

vars == <<sketchVars, corpus, pass, next, best, curWords, topWords>>

Hits(w) == GetCount(counts[WordCounts], hash, w)

-----------------------------------------------------------------------------
Init ==
  /\ SketchInit
  /\ corpus \in Corpora
  /\ pass = "count"
  /\ next = 1
  /\ best = {}
  /\ curWords = {}
  /\ topWords = {}

\* while (tok(token)) counts.increment(token)
CountToken ==
  /\ pass = "count"
  /\ next <= Len(corpus)
  /\ Increment(WordCounts, corpus[next], 1)
  /\ next' = next + 1
  /\ UNCHANGED <<corpus, pass, best, curWords, topWords>>

\* tok.reset()
StartSelecting ==
  /\ pass = "count"
  /\ next > Len(corpus)
  /\ pass' = "select"
  /\ next' = 1
  /\ UNCHANGED <<sketchVars, corpus, best, curWords, topWords>>

\* The order of std::pair(-hits, token): the queue's top has the fewest hits
\* and, among those, the last token
Above(e, f) == e.hits < f.hits \/ (e.hits = f.hits /\ e.word <= f.word)

Tops == {e \in best : \A f \in best : Above(e, f)}

\* Mutant: the queue grows by one too many
FullLate == Cardinality(best) > MaxTopWords

Full == Cardinality(best) >= MaxTopWords

\* hits > -best_words.top().first
Beats(w) == \E e \in Tops : Hits(w) > e.hits

Entry(w) == [word |-> w, hits |-> Hits(w), token |-> next]

\* cur_words.is_member(token): continue
SkipMember ==
  /\ pass = "select"
  /\ next <= Len(corpus)
  /\ corpus[next] \in curWords
  /\ next' = next + 1
  /\ UNCHANGED <<sketchVars, corpus, pass, best, curWords, topWords>>

SkipRare ==
  /\ pass = "select"
  /\ next <= Len(corpus)
  /\ corpus[next] \notin curWords
  /\ Full /\ ~Beats(corpus[next])
  /\ next' = next + 1
  /\ UNCHANGED <<sketchVars, corpus, pass, best, curWords, topWords>>

\* Mutant: cur_words is not told of the word
AddUnmarked ==
  /\ pass = "select"
  /\ next <= Len(corpus)
  /\ corpus[next] \notin curWords
  /\ ~Full
  /\ best' = best \cup {Entry(corpus[next])}
  /\ next' = next + 1
  /\ UNCHANGED <<sketchVars, corpus, pass, curWords, topWords>>

\* There is room in the queue (the loops of get_most_common_substrings() differ
\* in where the words come from only)
Add ==
  /\ pass = "select"
  /\ next <= Len(corpus)
  /\ corpus[next] \notin curWords
  /\ ~Full
  /\ best' = best \cup {Entry(corpus[next])}
  /\ curWords' = curWords \cup {corpus[next]}
  /\ next' = next + 1
  /\ UNCHANGED <<sketchVars, corpus, pass, topWords>>

\* Mutant: the queue is ordered by hits and its top is the best entry
ReplaceBest ==
  /\ pass = "select"
  /\ next <= Len(corpus)
  /\ corpus[next] \notin curWords
  /\ Full /\ Beats(corpus[next])
  /\ \E e \in best :
       /\ \A f \in best : f.hits <= e.hits
       /\ best' = (best \ {e}) \cup {Entry(corpus[next])}
       /\ curWords' = (curWords \ {e.word}) \cup {corpus[next]}
  /\ next' = next + 1
  /\ UNCHANGED <<sketchVars, corpus, pass, topWords>>

\* The queue is full and the word has more hits than its top
Replace ==
  /\ pass = "select"
  /\ next <= Len(corpus)
  /\ corpus[next] \notin curWords
  /\ Full /\ Beats(corpus[next])
  /\ \E e \in Tops :
       /\ best' = (best \ {e}) \cup {Entry(corpus[next])}
       /\ curWords' = (curWords \ {e.word}) \cup {corpus[next]}
  /\ next' = next + 1
  /\ UNCHANGED <<sketchVars, corpus, pass, topWords>>

\* The queue is emptied into the map top_words
Deliver ==
  /\ pass = "select"
  /\ next > Len(corpus)
  /\ pass' = "done"
  /\ topWords' = {[word |-> e.word, hits |-> e.hits] : e \in best}
  /\ UNCHANGED <<sketchVars, corpus, next, best, curWords>>

Next ==
  \/ CountToken
  \/ StartSelecting
  \/ SkipMember
  \/ SkipRare
  \/ Add
  \/ Replace
  \/ Deliver

Spec == Init /\ [][Next]_vars

-----------------------------------------------------------------------------
(* Properties *)

\* The tokens delivered so far in this pass
Seen == {corpus[n] : n \in 1 .. next - 1}

Occurrences(w, tokens) == Cardinality({n \in 1 .. tokens : corpus[n] = w})

\* While the second pass runs, the queue and cur_words hold the same words,
\* each once: a word is neither queued twice nor forgotten by one of the two,
\* although each step updates them separately.
QueueMatchesCurWords ==
  /\ {e.word : e \in best} = curWords
  /\ \A e, f \in best : e.word = f.word => e = f
  /\ Cardinality(best) <= MaxTopWords

\* At any point of the second pass the queue holds the best words seen so far:
\* every other word seen has at most the hits of any entry, and nothing is
\* left out while there is room.
BestSoFar ==
  pass # "count" =>
    \A w \in Seen \ curWords :
      /\ Full
      /\ \A e \in best : Hits(w) <= e.hits

\* The counts reported are never below the true ones, and when the sketch had
\* no collision among the words that occur, the words reported are the most
\* frequent ones with their exact counts.
TopWordsAreTheMostFrequent ==
  pass = "done" =>
    LET all == {corpus[n] : n \in 1 .. Len(corpus)}
        reported == {t.word : t \in topWords}
        exact == \A w \in all : Hits(w) = Occurrences(w, Len(corpus))
    IN  /\ \A t \in topWords : t.hits >= Occurrences(t.word, Len(corpus))
        /\ Cardinality(reported) =
             IF Cardinality(all) < MaxTopWords THEN Cardinality(all) ELSE MaxTopWords
        /\ exact => \A t \in topWords, w \in all \ reported :
             /\ t.hits = Occurrences(t.word, Len(corpus))
             /\ t.hits >= Occurrences(w, Len(corpus))

=============================================================================
