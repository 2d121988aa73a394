--------------------------- MODULE WordRepProofs ---------------------------
(***************************************************************************)
(* wordrep -e: the count-min sketch, the pass of get_top_word_counts()     *)
(* that takes the most frequent words with its help, and then what         *)
(* basic_morph makes of these words: the patterns it takes by the same     *)
(* pass, the approximate_substring_set it adds them to, how                *)
(* find_substrings() reads the set, and the rows cca_morph learns from it. *)
(***************************************************************************)
EXTENDS WordRep, SequenceTheorems, WellFoundedInduction, FunctionTheorems, FiniteSetTheorems, TLAPS

-----------------------------------------------------------------------------
(* The two bounds of the count-min sketch, for any number of items, rows   *)
(* and columns and any hash functions: counts are never too small, and     *)
(* they are exact where a row keeps the item apart.  Both hold of every    *)
(* single counter, which is what the inductive invariant says; get_count() *)
(* adds that its result is one of the counters, a least one.               *)

Counters == [Rows -> [Columns -> Nat]]

-----------------------------------------------------------------------------
\* A set of natural numbers that is not empty has a least element.
LEMMA LeastNatural ==
  ASSUME NEW T \in SUBSET Nat, T # {}
  PROVE  \E x \in T : \A y \in T : x <= y
<1>1. IsWellFoundedOn(OpToRel(<, Nat), Nat)
  BY NatLessThanWellFounded
<1>2. PICK x \in T : \A y \in T : ~(<<y, x>> \in OpToRel(<, Nat))
  BY <1>1, WFMin, Zenon
<1>3. \A u, v \in Nat : v < u => <<v, u>> \in OpToRel(<, Nat)
  BY DEF OpToRel
<1>4. \A y \in T : ~(y < x)
  BY <1>2, <1>3, Zenon
<1> QED
  BY <1>4

\* get_count() returns one of the item's counters, and none is smaller.
LEMMA GetCountIsLeast ==
  ASSUME NEW counter \in Counters, NEW h \in Hashes, NEW i \in Items
  PROVE  /\ \E r \in Rows : GetCount(counter, h, i) = counter[r][h[r][i]]
         /\ \A r \in Rows : GetCount(counter, h, i) <= counter[r][h[r][i]]
<1> DEFINE T == {counter[r][h[r][i]] : r \in Rows}
<1>1. h \in [Rows -> [Items -> Columns]]
  BY ShapeAssumption
<1>2. T \in SUBSET Nat /\ T # {}
  BY <1>1, ShapeAssumption DEF Counters
<1>3. PICK x \in T : \A y \in T : x =< y
  BY <1>2, LeastNatural
<1>4. Min(T) \in T /\ \A y \in T : Min(T) =< y
  BY <1>3 DEF Min
<1> QED
  BY <1>4 DEF GetCount

LEMMA IncrementedCounter ==
  ASSUME NEW counter \in Counters, NEW h \in [Rows -> [Items -> Columns]],
         NEW i \in Items, NEW amount \in Nat
  PROVE  /\ Incremented(counter, h, i, amount) \in Counters
         /\ \A r \in Rows, c \in Columns :
              Incremented(counter, h, i, amount)[r][c] =
                IF c = h[r][i] THEN counter[r][c] + amount ELSE counter[r][c]
BY DEF Incremented, Counters

LEMMA AbsorbedCounter ==
  ASSUME NEW counter \in Counters, NEW other \in Counters
  PROVE  /\ Absorbed(counter, other) \in Counters
         /\ \A r \in Rows, c \in Columns :
              Absorbed(counter, other)[r][c] = counter[r][c] + other[r][c]
BY DEF Absorbed, Counters

-----------------------------------------------------------------------------
(* The inductive invariant *)

SketchTypeOK ==
  /\ hash \in Hashes
  /\ counts \in [Sketches -> Counters]
  /\ total \in [Sketches -> Nat]
  /\ truth \in [Sketches -> [Items -> Nat]]

\* Row r keeps i apart from all the other items
Apart(r, i) == \A j \in Items \ {i} : hash[r][j] # hash[r][i]

CounterCovers ==
  \A s \in Sketches, r \in Rows, i \in Items :
    counts[s][r][hash[r][i]] >= truth[s][i]

CounterExact ==
  \A s \in Sketches, r \in Rows, i \in Items :
    Apart(r, i) => counts[s][r][hash[r][i]] = truth[s][i]

SketchInv == SketchTypeOK /\ CounterCovers /\ CounterExact

-----------------------------------------------------------------------------
LEMMA HashType == SketchTypeOK => hash \in [Rows -> [Items -> Columns]]
BY ShapeAssumption DEF SketchTypeOK

LEMMA SketchInvInit == SketchInit => SketchInv
<1> SUFFICES ASSUME SketchInit PROVE SketchInv
  OBVIOUS
<1>1. SketchTypeOK
  BY DEF SketchInit, SketchTypeOK, Counters, NoCounts
<1>2. \A s \in Sketches, r \in Rows, i \in Items :
        counts[s][r][hash[r][i]] = 0 /\ truth[s][i] = 0
  BY <1>1, HashType DEF SketchInit, NoCounts
<1> QED
  BY <1>1, <1>2 DEF SketchInv, CounterCovers, CounterExact

LEMMA IncrementKeeps ==
  ASSUME SketchInv, NEW s \in Sketches, NEW i \in Items,
         NEW amount \in Amounts, Increment(s, i, amount)
  PROVE  SketchInv'
<1>1. amount \in Nat
  BY AmountAssumption
<1>2. hash \in [Rows -> [Items -> Columns]] /\ hash' = hash
  BY HashType DEF SketchInv, Increment
<1>3. counts[s] \in Counters
  BY DEF SketchInv, SketchTypeOK
<1>4. /\ counts' = [counts EXCEPT ![s] = Incremented(counts[s], hash, i, amount)]
      /\ truth' = [truth EXCEPT ![s][i] = truth[s][i] + amount]
      /\ total' = [total EXCEPT ![s] = total[s] + amount]
  BY DEF Increment
<1>5. SketchTypeOK'
  <2>1. Incremented(counts[s], hash, i, amount) \in Counters
    BY <1>1, <1>2, <1>3, IncrementedCounter
  <2>2. truth[s][i] + amount \in Nat /\ total[s] + amount \in Nat
    BY <1>1 DEF SketchInv, SketchTypeOK
  <2>3. QED
    BY <1>2, <1>4, <2>1, <2>2 DEF SketchInv, SketchTypeOK
<1>6. ASSUME NEW u \in Sketches, NEW r \in Rows, NEW j \in Items
      PROVE  /\ counts'[u][r][hash[r][j]] =
                  IF u = s /\ hash[r][j] = hash[r][i]
                  THEN counts[u][r][hash[r][j]] + amount
                  ELSE counts[u][r][hash[r][j]]
             /\ truth'[u][j] = IF u = s /\ j = i THEN truth[u][j] + amount
                               ELSE truth[u][j]
  <2>1. hash[r][j] \in Columns
    BY <1>2
  <2>2. \A c \in Columns : Incremented(counts[s], hash, i, amount)[r][c] =
          IF c = hash[r][i] THEN counts[s][r][c] + amount ELSE counts[s][r][c]
    BY <1>1, <1>2, <1>3, IncrementedCounter
  <2>3. QED
    BY <1>4, <2>1, <2>2 DEF SketchInv, SketchTypeOK
<1>7. \A u \in Sketches, r \in Rows, j \in Items :
        counts[u][r][hash[r][j]] \in Nat /\ truth[u][j] \in Nat
  BY <1>2 DEF SketchInv, SketchTypeOK, Counters
<1>8. CounterCovers'
  BY <1>1, <1>2, <1>6, <1>7 DEF SketchInv, CounterCovers
<1>9. CounterExact'
  <2> SUFFICES ASSUME NEW u \in Sketches, NEW r \in Rows, NEW j \in Items,
                      Apart(r, j)
               PROVE  counts'[u][r][hash[r][j]] = truth'[u][j]
    BY <1>2 DEF CounterExact, Apart
  <2>1. counts[u][r][hash[r][j]] = truth[u][j]
    BY DEF SketchInv, CounterExact
  <2>2. j # i => hash[r][j] # hash[r][i]
    BY DEF Apart
  <2>3. QED
    BY <1>6, <2>1, <2>2
<1> QED
  BY <1>5, <1>8, <1>9 DEF SketchInv

LEMMA AbsorbKeeps ==
  ASSUME SketchInv, NEW s \in Sketches, NEW t \in Sketches, Absorb(s, t)
  PROVE  SketchInv'
<1>1. hash \in [Rows -> [Items -> Columns]] /\ hash' = hash
  BY HashType DEF SketchInv, Absorb
<1>2. counts[s] \in Counters /\ counts[t] \in Counters
  BY DEF SketchInv, SketchTypeOK
<1>3. /\ counts' = [counts EXCEPT ![s] = Absorbed(counts[s], counts[t])]
      /\ truth' = [truth EXCEPT ![s] =
                     [i \in Items |-> truth[s][i] + truth[t][i]]]
      /\ total' = [total EXCEPT ![s] = total[s] + total[t]]
  BY DEF Absorb
<1>4. SketchTypeOK'
  <2>1. Absorbed(counts[s], counts[t]) \in Counters
    BY <1>2, AbsorbedCounter
  <2>2. /\ [i \in Items |-> truth[s][i] + truth[t][i]] \in [Items -> Nat]
        /\ total[s] + total[t] \in Nat
    BY DEF SketchInv, SketchTypeOK
  <2>3. QED
    BY <1>1, <1>3, <2>1, <2>2 DEF SketchInv, SketchTypeOK
<1>5. ASSUME NEW u \in Sketches, NEW r \in Rows, NEW j \in Items
      PROVE  /\ counts'[u][r][hash[r][j]] =
                  IF u = s THEN counts[s][r][hash[r][j]] + counts[t][r][hash[r][j]]
                  ELSE counts[u][r][hash[r][j]]
             /\ truth'[u][j] = IF u = s THEN truth[s][j] + truth[t][j]
                               ELSE truth[u][j]
  <2>1. hash[r][j] \in Columns
    BY <1>1
  <2>2. \A c \in Columns : Absorbed(counts[s], counts[t])[r][c] =
          counts[s][r][c] + counts[t][r][c]
    BY <1>2, AbsorbedCounter
  <2>3. QED
    BY <1>3, <2>1, <2>2 DEF SketchInv, SketchTypeOK
<1>6. \A u \in Sketches, r \in Rows, j \in Items :
        counts[u][r][hash[r][j]] \in Nat /\ truth[u][j] \in Nat
  BY <1>1 DEF SketchInv, SketchTypeOK, Counters
<1>7. CounterCovers'
  BY <1>1, <1>5, <1>6 DEF SketchInv, CounterCovers
<1>8. CounterExact'
  <2> SUFFICES ASSUME NEW u \in Sketches, NEW r \in Rows, NEW j \in Items,
                      Apart(r, j)
               PROVE  counts'[u][r][hash[r][j]] = truth'[u][j]
    BY <1>1 DEF CounterExact, Apart
  <2>1. \A v \in Sketches : counts[v][r][hash[r][j]] = truth[v][j]
    BY DEF SketchInv, CounterExact
  <2>2. QED
    BY <1>5, <2>1
<1> QED
  BY <1>4, <1>7, <1>8 DEF SketchInv

LEMMA SketchInvStep == SketchInv /\ [SketchNext]_sketchVars => SketchInv'
<1> SUFFICES ASSUME SketchInv, [SketchNext]_sketchVars PROVE SketchInv'
  OBVIOUS
<1>1. ASSUME NEW s \in Sketches, SetCountsToZero(s)
      PROVE  SketchInv'
  <2>1. SketchTypeOK'
    BY <1>1 DEF SetCountsToZero, SketchInv, SketchTypeOK, Counters, NoCounts
  <2>2. \A u \in Sketches, r \in Rows, i \in Items :
          \/ counts'[u] = counts[u] /\ truth'[u] = truth[u]
          \/ counts'[u][r][hash[r][i]] = 0 /\ truth'[u][i] = 0
    BY <1>1, HashType DEF SetCountsToZero, SketchInv, SketchTypeOK, NoCounts
  <2>3. hash' = hash
    BY <1>1 DEF SetCountsToZero
  <2>4. CounterCovers'
    BY <2>2, <2>3 DEF SketchInv, CounterCovers
  <2>5. CounterExact'
    BY <2>2, <2>3 DEF SketchInv, CounterExact, Apart
  <2>6. QED
    BY <2>1, <2>4, <2>5 DEF SketchInv
<1>2. ASSUME NEW s \in Sketches, NEW t \in Sketches, Assign(s, t) \/ Swap(s, t)
      PROVE  SketchInv'
  <2>1. SketchTypeOK'
    BY <1>2 DEF Assign, Swap, SketchInv, SketchTypeOK
  <2>2. hash' = hash
    BY <1>2 DEF Assign, Swap
  <2>3. \A u \in Sketches : \E v \in Sketches :
          counts'[u] = counts[v] /\ truth'[u] = truth[v]
    BY <1>2 DEF Assign, Swap, SketchInv, SketchTypeOK
  <2>4. CounterCovers'
    BY <2>2, <2>3 DEF SketchInv, CounterCovers
  <2>5. CounterExact'
    BY <2>2, <2>3 DEF SketchInv, CounterExact, Apart
  <2>6. QED
    BY <2>1, <2>4, <2>5 DEF SketchInv
<1>3. CASE UNCHANGED sketchVars
  BY <1>3 DEF sketchVars, SketchInv, SketchTypeOK, CounterCovers, CounterExact, Apart
<1> QED
  BY <1>1, <1>2, <1>3, IncrementKeeps, AbsorbKeeps DEF SketchNext

LEMMA SketchBound == SketchInv => NeverUnderestimates
<1> SUFFICES ASSUME SketchInv, NEW s \in Sketches, NEW i \in Items
             PROVE  GetCount(counts[s], hash, i) >= truth[s][i]
  BY DEF NeverUnderestimates
<1>1. PICK r \in Rows : GetCount(counts[s], hash, i) = counts[s][r][hash[r][i]]
  BY GetCountIsLeast DEF SketchInv, SketchTypeOK
<1> QED
  BY <1>1 DEF SketchInv, CounterCovers

\* get_count() is at least the actual count, for any items, table and hash
\* functions, whatever was absorbed, copied, swapped and cleared.
THEOREM CountsNeverTooSmall == SketchSpec => []NeverUnderestimates
BY SketchBound, SketchInvInit, SketchInvStep, PTL DEF SketchSpec

\* An item that some row keeps apart from all the others is counted exactly.
THEOREM CountsExactWhenApart == SketchSpec => []ExactWithoutCollision
<1>1. SketchInv => ExactWithoutCollision
  <2> SUFFICES ASSUME SketchInv, NEW s \in Sketches, NEW i \in Items,
                      NEW r \in Rows, Apart(r, i)
               PROVE  GetCount(counts[s], hash, i) = truth[s][i]
    BY DEF ExactWithoutCollision, Apart
  <2>1. GetCount(counts[s], hash, i) <= counts[s][r][hash[r][i]]
    BY GetCountIsLeast DEF SketchInv, SketchTypeOK
  <2>2. counts[s][r][hash[r][i]] = truth[s][i]
    BY DEF SketchInv, CounterExact
  <2>3. PICK q \in Rows : GetCount(counts[s], hash, i) = counts[s][q][hash[q][i]]
    BY GetCountIsLeast DEF SketchInv, SketchTypeOK
  <2>4. counts[s][q][hash[q][i]] >= truth[s][i]
    BY DEF SketchInv, CounterCovers
  <2>5. counts[s][q][hash[q][i]] \in Nat /\ truth[s][i] \in Nat
    BY HashType DEF SketchInv, SketchTypeOK, Counters
  <2> QED
    BY <2>1, <2>2, <2>3, <2>4, <2>5
<1> QED
  BY <1>1, SketchInvInit, SketchInvStep, PTL DEF SketchSpec

-----------------------------------------------------------------------------
(* For every corpus, sketch and queue length, the second pass of           *)
(* get_top_word_counts() keeps the best words seen so far.  A word that    *)
(* was turned away or replaced is dominated by every entry, and stays so   *)
(* because the top of the queue only ever gives way to more hits; the      *)
(* hits of a word do not change while the sketch is only read.             *)

TopTypeOK ==
  /\ hash \in Hashes
  /\ corpus \in Seq(Words)
  /\ pass \in {"count", "select", "done"}
  /\ next \in 1 .. Len(corpus) + 1
  /\ counts \in [Sketches -> Counters]
  /\ best \subseteq [word : Words, hits : Nat, token : Nat]
  /\ IsFiniteSet(best)
  /\ curWords \subseteq Words

\* Nothing is queued before the counts are complete
CountsFirst == pass = "count" => best = {} /\ curWords = {}

\* Entries stay up to date, because the counts do not change any more
EntriesCurrent == \A e \in best : e.hits = Hits(e.word)

TopInv ==
  /\ TopTypeOK
  /\ CountsFirst
  /\ EntriesCurrent
  /\ QueueMatchesCurWords
  /\ BestSoFar

-----------------------------------------------------------------------------
LEMMA HitsType == TopTypeOK => \A w \in Words : Hits(w) \in Nat
<1> SUFFICES ASSUME TopTypeOK, NEW w \in Words PROVE Hits(w) \in Nat
  OBVIOUS
<1>1. PICK r \in Rows : Hits(w) = counts[WordCounts][r][hash[r][w]]
  BY TopAssumption, GetCountIsLeast DEF TopTypeOK, Hits, Words
<1>2. hash \in [Rows -> [Words -> Columns]]
  BY ShapeAssumption DEF TopTypeOK, Words
<1> QED
  BY <1>1, <1>2, TopAssumption DEF TopTypeOK, Counters

\* A queue that is not empty has a top.
LEMMA TopExists ==
  ASSUME TopTypeOK, best # {}
  PROVE  Tops # {}
<1>1. \A e \in best : e.hits \in Nat /\ e.word \in Nat
  BY TopAssumption DEF TopTypeOK
<1> DEFINE H == {e.hits : e \in best}
<1>2. PICK h \in H : \A g \in H : h <= g
  <2>1. H \in SUBSET Nat /\ H # {}
    BY <1>1
  <2>2. QED
    BY <2>1, LeastNatural
<1> DEFINE W == {e.word : e \in {f \in best : f.hits = h}}
<1>3. PICK w \in W : \A v \in W : w <= v
  <2>1. W \in SUBSET Nat /\ W # {}
    BY <1>1
  <2>2. QED
    BY <2>1, LeastNatural
<1>4. PICK e \in best : e.hits = h /\ e.word = w
  OBVIOUS
<1>5. ASSUME NEW f \in best
      PROVE  Above(e, f)
  <2>1. h <= f.hits /\ h \in Nat /\ f.hits \in Nat
    BY <1>1, <1>2
  <2>2. f.hits = h => w <= f.word
    BY <1>3
  <2>3. QED
    BY <1>4, <2>1, <2>2 DEF Above
<1> QED
  BY <1>4, <1>5 DEF Tops

LEMMA TopInvInit == Init => TopInv
<1> SUFFICES ASSUME Init PROVE TopInv
  OBVIOUS
<1>1. TopTypeOK
  BY TopAssumption, FS_EmptySet DEF Init, SketchInit, TopTypeOK, Counters, NoCounts
<1>2. Cardinality(best) = 0
  BY FS_EmptySet DEF Init
<1> QED
  BY <1>1, <1>2, TopAssumption
  DEF Init, TopInv, CountsFirst, EntriesCurrent, QueueMatchesCurWords, BestSoFar

-----------------------------------------------------------------------------
\* The tokens seen after one more
LEMMA SeenGrows ==
  ASSUME TopTypeOK, next <= Len(corpus), next' = next + 1, corpus' = corpus
  PROVE  /\ Seen' = Seen \cup {corpus[next]}
         /\ corpus[next] \in Words
         /\ next' \in 1 .. Len(corpus) + 1
<1>1. next \in Nat /\ next >= 1 /\ Len(corpus) \in Nat
  BY DEF TopTypeOK
<1>2. 1 .. next' - 1 = (1 .. next - 1) \cup {next}
  BY <1>1
<1>3. corpus[next] \in Words
  BY <1>1 DEF TopTypeOK
<1> QED
  BY <1>1, <1>2, <1>3 DEF Seen

LEMMA CountKeeps == TopInv /\ CountToken => TopInv'
<1> SUFFICES ASSUME TopInv, CountToken PROVE TopInv'
  OBVIOUS
<1>1. TopTypeOK'
  <2>1. corpus[next] \in Words /\ next' \in 1 .. Len(corpus) + 1
    BY SeenGrows DEF TopInv, CountToken
  <2>2. hash' = hash /\ counts' \in [Sketches -> Counters]
    <3>1. hash \in [Rows -> [Items -> Columns]]
      BY ShapeAssumption DEF TopInv, TopTypeOK
    <3>2. QED
      BY <2>1, <3>1, TopAssumption, IncrementedCounter
      DEF TopInv, TopTypeOK, CountToken, Increment, Words
  <2>3. QED
    BY <2>1, <2>2 DEF TopInv, TopTypeOK, CountToken
<1>2. pass' = "count" /\ best' = {} /\ curWords' = {} /\ best' = best
  BY DEF TopInv, CountsFirst, CountToken
<1> QED
  BY <1>1, <1>2 DEF TopInv, CountsFirst, EntriesCurrent, QueueMatchesCurWords,
                    BestSoFar, CountToken

LEMMA StartKeeps == TopInv /\ StartSelecting => TopInv'
<1> SUFFICES ASSUME TopInv, StartSelecting PROVE TopInv'
  OBVIOUS
<1>1. TopTypeOK'
  BY DEF TopInv, TopTypeOK, StartSelecting, sketchVars
<1>2. best' = {} /\ curWords' = {} /\ best' = best
  BY DEF TopInv, CountsFirst, StartSelecting
<1>3. Seen' = {}
  BY DEF Seen, StartSelecting
<1> QED
  BY <1>1, <1>2, <1>3
  DEF TopInv, CountsFirst, EntriesCurrent, QueueMatchesCurWords, BestSoFar,
      StartSelecting, sketchVars

\* Nothing but the position, the pass or the result changes
LEMMA UnchangedQueue ==
  ASSUME TopInv, UNCHANGED <<hash, corpus, counts, best, curWords>>
  PROVE  /\ EntriesCurrent' /\ QueueMatchesCurWords'
         /\ \A w : Hits(w)' = Hits(w)
         /\ Full' <=> Full
BY DEF TopInv, EntriesCurrent, QueueMatchesCurWords, Hits, Full

LEMMA SkipKeeps == TopInv /\ (SkipMember \/ SkipRare) => TopInv'
<1> SUFFICES ASSUME TopInv, SkipMember \/ SkipRare PROVE TopInv'
  OBVIOUS
<1>1. /\ UNCHANGED <<hash, corpus, pass, counts, best, curWords>>
      /\ pass = "select" /\ next <= Len(corpus) /\ next' = next + 1
  BY DEF SkipMember, SkipRare, sketchVars
<1>2. /\ Seen' = Seen \cup {corpus[next]} /\ corpus[next] \in Words
      /\ next' \in 1 .. Len(corpus) + 1
  BY <1>1, SeenGrows DEF TopInv
<1>3. TopTypeOK' /\ CountsFirst'
  BY <1>1, <1>2 DEF TopInv, TopTypeOK, CountsFirst
<1>4. corpus[next] \notin curWords =>
        Full /\ \A e \in best : Hits(corpus[next]) <= e.hits
  <2> SUFFICES ASSUME corpus[next] \notin curWords, NEW e \in best
               PROVE  Full /\ Hits(corpus[next]) <= e.hits
    BY DEF SkipMember, SkipRare
  <2>1. Full /\ ~Beats(corpus[next])
    BY DEF SkipMember, SkipRare
  <2>2. PICK t \in Tops : TRUE
    BY TopExists DEF TopInv
  <2>3. t \in best /\ Above(t, e) /\ ~(Hits(corpus[next]) > t.hits)
    BY <2>1, <2>2 DEF Beats, Tops
  <2>4. t.hits \in Nat /\ e.hits \in Nat /\ Hits(corpus[next]) \in Nat
    BY <1>2, <2>3, HitsType DEF TopInv, TopTypeOK
  <2> QED
    BY <2>1, <2>3, <2>4 DEF Above
<1>5. BestSoFar'
  <2> SUFFICES ASSUME NEW w \in Seen', w \notin curWords
               PROVE  Full /\ \A e \in best : Hits(w) <= e.hits
    BY <1>1, UnchangedQueue DEF BestSoFar
  <2>1. CASE w = corpus[next]
    BY <1>4, <2>1
  <2>2. CASE w \in Seen
    BY <1>1, <2>2 DEF TopInv, BestSoFar
  <2> QED
    BY <1>2, <2>1, <2>2
<1> QED
  BY <1>1, <1>3, <1>5, UnchangedQueue DEF TopInv

-----------------------------------------------------------------------------
\* What the two pushing steps have in common
LEMMA Pushed ==
  ASSUME TopInv, NEW kept \in SUBSET best,
         pass = "select", next <= Len(corpus), corpus[next] \notin curWords,
         best' = kept \cup {Entry(corpus[next])},
         curWords' = {e.word : e \in kept} \cup {corpus[next]},
         next' = next + 1,
         UNCHANGED <<hash, corpus, pass, counts>>,
         Cardinality(kept) + 1 <= MaxTopWords
  PROVE  /\ TopTypeOK' /\ CountsFirst' /\ EntriesCurrent'
         /\ QueueMatchesCurWords'
         /\ Cardinality(best') = Cardinality(kept) + 1
<1> DEFINE w == corpus[next]
<1>1. w \in Words /\ next' \in 1 .. Len(corpus) + 1 /\ next \in Nat
  BY SeenGrows DEF TopInv, TopTypeOK
<1>2. Entry(w) \in [word : Words, hits : Nat, token : Nat]
  BY <1>1, HitsType DEF TopInv, Entry
<1>3. IsFiniteSet(kept)
  BY FS_Subset DEF TopInv, TopTypeOK
<1>4. Entry(w) \notin kept /\ \A e \in kept : e.word # w
  BY DEF TopInv, QueueMatchesCurWords, Entry
<1>5. IsFiniteSet(best') /\ Cardinality(best') = Cardinality(kept) + 1
  BY <1>3, <1>4, FS_AddElement
<1>6. \A e \in kept : e.word \in Words
  BY DEF TopInv, TopTypeOK
<1>7. TopTypeOK'
  BY <1>1, <1>2, <1>5, <1>6 DEF TopInv, TopTypeOK
<1>8. Entry(w).hits = Hits(w) /\ Entry(w).word = w
  BY DEF Entry
<1>9. EntriesCurrent'
  BY <1>8 DEF TopInv, EntriesCurrent, Hits
<1>10. QueueMatchesCurWords'
  <2>1. {e.word : e \in best'} = curWords'
    BY <1>8
  <2>2. \A e, f \in best' : e.word = f.word => e = f
    BY <1>4, <1>8 DEF TopInv, QueueMatchesCurWords
  <2>3. QED
    BY <1>5, <2>1, <2>2 DEF QueueMatchesCurWords
<1> QED
  BY <1>5, <1>7, <1>9, <1>10 DEF CountsFirst

LEMMA AddKeeps == TopInv /\ Add => TopInv'
<1> SUFFICES ASSUME TopInv, Add PROVE TopInv'
  OBVIOUS
<1> DEFINE w == corpus[next]
<1>1. Cardinality(best) \in Nat /\ Cardinality(best) + 1 <= MaxTopWords
  BY FS_CardinalityType, TopAssumption DEF TopInv, TopTypeOK, Add, Full
<1>2. curWords' = {e.word : e \in best} \cup {w}
  BY DEF TopInv, QueueMatchesCurWords, Add
<1>3. TopTypeOK' /\ CountsFirst' /\ EntriesCurrent' /\ QueueMatchesCurWords'
  BY <1>1, <1>2, Pushed DEF Add, sketchVars
<1>4. BestSoFar'
  <2>1. Seen \ curWords = {}
    BY DEF TopInv, BestSoFar, Add
  <2>2. Seen' = Seen \cup {w}
    BY SeenGrows DEF TopInv, Add
  <2>3. Seen' \ curWords' = {}
    BY <2>1, <2>2 DEF Add
  <2>4. QED
    BY <2>3 DEF BestSoFar
<1> QED
  BY <1>3, <1>4 DEF TopInv

LEMMA ReplaceKeeps == TopInv /\ Replace => TopInv'
<1> SUFFICES ASSUME TopInv, Replace PROVE TopInv'
  OBVIOUS
<1> DEFINE w == corpus[next]
<1>1. PICK e \in Tops :
        /\ best' = (best \ {e}) \cup {Entry(w)}
        /\ curWords' = (curWords \ {e.word}) \cup {w}
  BY DEF Replace
<1>2. /\ UNCHANGED <<hash, corpus, pass, counts>> /\ pass = "select"
      /\ next <= Len(corpus) /\ next' = next + 1 /\ w \notin curWords
      /\ Full /\ Beats(w)
  BY DEF Replace, sketchVars
<1>3. e \in best /\ \A f \in best : Above(e, f)
  BY DEF Tops
<1>4. /\ \A f \in best : f.hits \in Nat
      /\ w \in Words /\ Hits(w) \in Nat
      /\ Seen' = Seen \cup {w}
  BY <1>2, SeenGrows, HitsType DEF TopInv, TopTypeOK
<1>5. \A f \in best : e.hits <= f.hits
  BY <1>3, <1>4 DEF Above
<1>6. Hits(w) > e.hits
  <2>1. PICK t \in Tops : Hits(w) > t.hits
    BY <1>2 DEF Beats
  <2>2. t \in best
    BY DEF Tops
  <2>3. QED
    BY <1>3, <1>4, <1>5, <2>1, <2>2
<1>7. IsFiniteSet(best) /\ Cardinality(best) \in Nat
      /\ Cardinality(best \ {e}) = Cardinality(best) - 1
  BY <1>3, FS_RemoveElement, FS_CardinalityType DEF TopInv, TopTypeOK
<1>8. Cardinality(best \ {e}) + 1 <= MaxTopWords
  BY <1>7 DEF TopInv, QueueMatchesCurWords
<1>9. curWords \ {e.word} = {f.word : f \in best \ {e}}
  BY <1>3 DEF TopInv, QueueMatchesCurWords
<1>10. /\ TopTypeOK' /\ CountsFirst' /\ EntriesCurrent' /\ QueueMatchesCurWords'
       /\ Cardinality(best') = Cardinality(best)
  <2> DEFINE kept == best \ {e}
  <2>1. /\ kept \in SUBSET best
        /\ best' = kept \cup {Entry(corpus[next])}
        /\ curWords' = {f.word : f \in kept} \cup {corpus[next]}
        /\ Cardinality(kept) + 1 <= MaxTopWords
        /\ Cardinality(kept) + 1 = Cardinality(best)
    BY <1>1, <1>7, <1>8, <1>9
  <2> HIDE DEF kept
  <2>2. QED
    BY <1>2, <2>1, Pushed
<1>11. Full'
  BY <1>2, <1>10 DEF Full
<1>12. BestSoFar'
  <2> SUFFICES ASSUME NEW v \in Seen', v \notin curWords', NEW f \in best'
               PROVE  Hits(v) <= f.hits
    BY <1>2, <1>11 DEF BestSoFar, Hits
  <2>1. v # w /\ v \in Seen
    BY <1>1, <1>4
  <2>2. f.hits \in Nat /\ e.hits <= f.hits
    <3>1. Entry(w).hits = Hits(w)
      BY DEF Entry
    <3>2. QED
      BY <1>1, <1>3, <1>4, <1>5, <1>6, <3>1
  <2>3. Hits(v) \in Nat /\ Hits(v) <= e.hits
    <3>1. CASE v = e.word
      BY <1>3, <1>4, <3>1 DEF TopInv, EntriesCurrent
    <3>2. CASE v # e.word
      <4>1. v \in Seen \ curWords
        BY <1>1, <2>1, <3>2
      <4>2. v \in Words
        BY <1>2 DEF TopInv, TopTypeOK, Seen
      <4>3. Hits(v) <= e.hits
        BY <1>2, <1>3, <4>1 DEF TopInv, BestSoFar
      <4>4. QED
        BY <4>2, <4>3, HitsType DEF TopInv
    <3>3. QED
      BY <3>1, <3>2
  <2> QED
    BY <1>3, <1>4, <2>2, <2>3
<1> QED
  BY <1>10, <1>12 DEF TopInv

LEMMA DeliverKeeps == TopInv /\ (Deliver \/ UNCHANGED vars) => TopInv'
<1> SUFFICES ASSUME TopInv, Deliver \/ UNCHANGED vars PROVE TopInv'
  OBVIOUS
<1>1. /\ UNCHANGED <<hash, corpus, next, counts, best, curWords>>
      /\ pass' = pass \/ (pass = "select" /\ pass' = "done")
  BY DEF Deliver, vars, sketchVars
<1>2. TopTypeOK' /\ CountsFirst'
  BY <1>1 DEF TopInv, TopTypeOK, CountsFirst
<1>3. BestSoFar'
  BY <1>1, UnchangedQueue DEF TopInv, BestSoFar, Seen
<1> QED
  BY <1>1, <1>2, <1>3, UnchangedQueue DEF TopInv

LEMMA TopInvariant == Spec => []TopInv
<1>1. TopInv /\ [Next]_vars => TopInv'
  BY CountKeeps, StartKeeps, SkipKeeps, AddKeeps, ReplaceKeeps, DeliverKeeps
  DEF Next
<1> QED
  BY <1>1, TopInvInit, PTL DEF Spec

\* For every corpus and any queue length, the queue and cur_words agree.
THEOREM QueueAndSetAgree == Spec => []QueueMatchesCurWords
<1>1. TopInv => QueueMatchesCurWords
  BY DEF TopInv
<1> QED
  BY <1>1, TopInvariant, PTL

\* For every corpus and any queue length, no word seen and not queued has more
\* hits than one that is.
THEOREM QueueHoldsTheBest == Spec => []BestSoFar
<1>1. TopInv => BestSoFar
  BY DEF TopInv
<1> QED
  BY <1>1, TopInvariant, PTL

\* The sketch of the words is only used as a sketch may be: what is proved of
\* every sketch holds of this one.
THEOREM WordsAreCountedByASketch == Spec => SketchSpec
<1>1. Init => SketchInit
  BY DEF Init
<1>2. TopInv /\ [Next]_vars => [SketchNext]_sketchVars
  <2>1. TopTypeOK /\ CountToken => SketchNext
    <3> SUFFICES ASSUME TopTypeOK, CountToken PROVE SketchNext
      OBVIOUS
    <3>1. corpus[next] \in Items
      BY DEF TopTypeOK, CountToken, Words
    <3> QED
      BY <3>1, TopAssumption DEF CountToken, SketchNext
  <2> QED
    BY <2>1 DEF TopInv, Next, StartSelecting, SkipMember, SkipRare, Add, Replace, Deliver, vars
<1> QED
  BY <1>1, <1>2, TopInvariant, PTL DEF Spec, SketchSpec

-----------------------------------------------------------------------------
(* What is delivered.  The true counts are those of the tokens counted so  *)
(* far, then those of the corpus; the queue that is delivered has seen all *)
(* of the corpus.                                                          *)

TrueCounts ==
  \A w \in Words :
    truth[WordCounts][w] = Occurrences(w, IF pass = "count" THEN next - 1 ELSE Len(corpus))

Delivered ==
  pass = "done" => /\ next = Len(corpus) + 1
                   /\ topWords = {[word |-> e.word, hits |-> e.hits] : e \in best}

QueuedWereSeen == curWords \subseteq Seen

LEMMA OneMoreOccurrence ==
  ASSUME TopTypeOK, next <= Len(corpus), NEW w \in Words
  PROVE  /\ Occurrences(w, next - 1) \in Nat
         /\ Occurrences(w, next) =
              Occurrences(w, next - 1) + (IF corpus[next] = w THEN 1 ELSE 0)
<1> DEFINE Before == {n \in 1 .. next - 1 : corpus[n] = w}
           Now == {n \in 1 .. next : corpus[n] = w}
<1>1. next \in Nat /\ next >= 1
  BY DEF TopTypeOK
<1>2. IsFiniteSet(Before) /\ Cardinality(Before) \in Nat
  <2>1. IsFiniteSet(1 .. next - 1)
    BY <1>1, FS_Interval
  <2>2. Before \subseteq 1 .. next - 1
    OBVIOUS
  <2>. QED BY <2>1, <2>2, FS_Subset, FS_CardinalityType
<1>3. 1 .. next = (1 .. next - 1) \cup {next} /\ next \notin Before
  BY <1>1
<1>4. Now = IF corpus[next] = w THEN Before \cup {next} ELSE Before
  BY <1>3
<1>5. /\ Occurrences(w, next - 1) = Cardinality(Before)
      /\ Occurrences(w, next) = Cardinality(Now)
  BY DEF Occurrences
<1>6. next \notin Before
  BY <1>3
<1> HIDE DEF Before, Now
<1>7. Cardinality(Before \cup {next}) = Cardinality(Before) + 1
  BY <1>2, <1>6, FS_AddElement
<1>8. corpus[next] = w => Occurrences(w, next) = Cardinality(Before \cup {next})
  BY <1>4, <1>5, Zenon
<1>9. corpus[next] # w => Occurrences(w, next) = Cardinality(Before)
  BY <1>4, <1>5, Zenon
<1>. QED BY <1>2, <1>5, <1>7, <1>8, <1>9

LEMMA SketchUnderTopWords == Spec => []SketchInv
BY WordsAreCountedByASketch, SketchInvInit, SketchInvStep, PTL DEF SketchSpec

LEMMA TrueCountsHold == Spec => [](TrueCounts /\ Delivered)
<1>1. Init => TrueCounts /\ Delivered
  <2> SUFFICES ASSUME Init, NEW w \in Words PROVE truth[WordCounts][w] = Occurrences(w, next - 1)
    BY DEF Init, TrueCounts, Delivered
  <2>1. {n \in 1 .. next - 1 : corpus[n] = w} = {}
    BY DEF Init
  <2>2. truth[WordCounts][w] = 0
    BY TopAssumption DEF Init, SketchInit, Words
  <2>. QED BY <2>1, <2>2, FS_EmptySet DEF Occurrences
<1>2. TopInv /\ SketchInv /\ TrueCounts /\ Delivered /\ [Next]_vars => (TrueCounts /\ Delivered)'
  <2> SUFFICES ASSUME TopInv, SketchInv, TrueCounts, Delivered, [Next]_vars
               PROVE  (TrueCounts /\ Delivered)'
    OBVIOUS
  <2>1. \A w, k : corpus' = corpus => Occurrences(w, k)' = Occurrences(w, k)
    BY DEF Occurrences
  <2>2. CASE CountToken
    <3>1. /\ pass = "count" /\ pass' = "count" /\ next' = next + 1 /\ corpus' = corpus
          /\ next <= Len(corpus) /\ next \in Nat
          /\ truth' = [truth EXCEPT ![WordCounts][corpus[next]] = @ + 1]
      BY <2>2 DEF CountToken, Increment, TopInv, TopTypeOK
    <3>2. truth[WordCounts] \in [Words -> Nat]
      BY TopAssumption DEF SketchInv, SketchTypeOK, Words
    <3>3. ASSUME NEW w \in Words
          PROVE  truth'[WordCounts][w] = Occurrences(w, next)
      <4>1. truth[WordCounts][w] = Occurrences(w, next - 1)
        BY <3>1 DEF TrueCounts
      <4>2. truth'[WordCounts][w] =
              truth[WordCounts][w] + (IF corpus[next] = w THEN 1 ELSE 0)
        BY <3>1, <3>2, TopAssumption DEF SketchInv, SketchTypeOK
      <4>. QED BY <3>1, <4>1, <4>2, OneMoreOccurrence DEF TopInv
    <3>4. next' - 1 = next
      BY <3>1
    <3>5. TrueCounts'
      BY <2>1, <3>1, <3>3, <3>4 DEF TrueCounts
    <3>. QED BY <3>1, <3>5 DEF Delivered
  <2>3. CASE StartSelecting
    <3>1. /\ pass = "count" /\ pass' = "select" /\ UNCHANGED <<corpus, truth>>
          /\ next > Len(corpus)
      BY <2>3 DEF StartSelecting, sketchVars
    <3>2. next - 1 = Len(corpus)
      BY <3>1 DEF TopInv, TopTypeOK
    <3>. QED BY <2>1, <3>1, <3>2 DEF TrueCounts, Delivered
  <2>4. CASE SkipMember \/ SkipRare \/ Add \/ Replace
    <3>1. pass = "select" /\ pass' = "select" /\ UNCHANGED <<corpus, truth>>
      BY <2>4 DEF SkipMember, SkipRare, Add, Replace, sketchVars
    <3>. QED BY <2>1, <3>1 DEF TrueCounts, Delivered
  <2>5. CASE Deliver
    <3>1. pass = "select" /\ pass' = "done" /\ UNCHANGED <<corpus, truth, next, best>>
      BY <2>5 DEF Deliver, sketchVars
    <3>2. next = Len(corpus) + 1
      BY <2>5 DEF Deliver, TopInv, TopTypeOK
    <3>. QED BY <2>1, <2>5, <3>1, <3>2 DEF TrueCounts, Delivered, Deliver
  <2>6. CASE UNCHANGED vars
    BY <2>1, <2>6 DEF vars, sketchVars, TrueCounts, Delivered
  <2>. QED BY <2>2, <2>3, <2>4, <2>5, <2>6 DEF Next
<1>. QED BY <1>1, <1>2, SketchUnderTopWords, TopInvariant, PTL DEF Spec

LEMMA QueuedWereSeenHolds == Spec => []QueuedWereSeen
<1>1. Init => QueuedWereSeen
  BY DEF Init, QueuedWereSeen
<1>2. TopInv /\ QueuedWereSeen /\ [Next]_vars => QueuedWereSeen'
  <2> SUFFICES ASSUME TopInv, QueuedWereSeen, [Next]_vars PROVE QueuedWereSeen'
    OBVIOUS
  <2>1. CASE CountToken \/ StartSelecting
    BY <2>1 DEF TopInv, CountsFirst, CountToken, StartSelecting, QueuedWereSeen
  <2>2. CASE SkipMember \/ SkipRare \/ Add \/ Replace
    <3>1. /\ next <= Len(corpus) /\ next' = next + 1 /\ corpus' = corpus
          /\ curWords' \subseteq curWords \cup {corpus[next]}
      BY <2>2 DEF SkipMember, SkipRare, Add, Replace
    <3>2. Seen' = Seen \cup {corpus[next]}
      BY <3>1, SeenGrows DEF TopInv
    <3>. QED BY <3>1, <3>2 DEF QueuedWereSeen
  <2>3. CASE Deliver \/ UNCHANGED vars
    BY <2>3 DEF Deliver, vars, QueuedWereSeen, Seen
  <2>. QED BY <2>1, <2>2, <2>3 DEF Next
<1>. QED BY <1>1, <1>2, TopInvariant, PTL DEF Spec

LEMMA CorpusIsFinite ==
  ASSUME corpus \in Seq(Words)
  PROVE  IsFiniteSet({corpus[n] : n \in 1 .. Len(corpus)})
<1> DEFINE all == {corpus[n] : n \in 1 .. Len(corpus)}
           Token == [n \in 1 .. Len(corpus) |-> corpus[n]]
<1>1. Token \in Surjection(1 .. Len(corpus), all)
  BY Fun_IsSurj
<1>2. IsFiniteSet(1 .. Len(corpus))
  BY FS_Interval
<1>. QED BY <1>1, <1>2, FS_Surjection

\* As many words are queued as there are entries.
LEMMA OneWordPerEntry ==
  ASSUME TopTypeOK, QueueMatchesCurWords
  PROVE  IsFiniteSet(curWords) /\ Cardinality(curWords) = Cardinality(best)
<1> DEFINE WordOf == [e \in best |-> e.word]
<1>1. WordOf \in Bijection(best, curWords)
  <2>1. WordOf \in [best -> curWords] /\ \A w \in curWords : \E e \in best : WordOf[e] = w
    BY DEF QueueMatchesCurWords
  <2>2. \A e, f \in best : WordOf[e] = WordOf[f] => e = f
    BY DEF QueueMatchesCurWords
  <2>. QED BY <2>1, <2>2, Fun_IsBij
<1>2. ExistsBijection(best, curWords)
  BY <1>1 DEF ExistsBijection
<1>. QED BY <1>2, FS_Bijection DEF TopTypeOK

\* However large the corpus and the queue, get_top_word_counts() reports as
\* many words as there are, or as fit, with counts that are never too small;
\* and if the counts of all words are exact, it reports the most frequent.
THEOREM MostFrequentWords == Spec => []TopWordsAreTheMostFrequent
<1> DEFINE all == {corpus[n] : n \in 1 .. Len(corpus)}
           reported == {t.word : t \in topWords}
<1>1. ASSUME TopInv, SketchInv, TrueCounts, Delivered, QueuedWereSeen, pass = "done"
      PROVE  TopWordsAreTheMostFrequent
  <2>1. /\ Seen = all /\ Len(corpus) \in Nat
        /\ topWords = {[word |-> e.word, hits |-> e.hits] : e \in best}
    BY <1>1 DEF Seen, Delivered, TopInv, TopTypeOK
  <2>2. all \subseteq Words
    BY <1>1 DEF TopInv, TopTypeOK
  <2>3. \A t \in topWords : t.word \in Words /\ t.hits = Hits(t.word)
    BY <1>1, <2>1 DEF TopInv, TopTypeOK, EntriesCurrent
  <2>4. reported = curWords
    <3>1. \A e \in best : [word |-> e.word, hits |-> e.hits].word = e.word
      OBVIOUS
    <3>2. reported = {e.word : e \in best}
      <4> HIDE DEF all
      <4>1. ASSUME NEW w PROVE w \in reported <=> \E e \in best : w = e.word
        BY <2>1, <3>1
      <4> HIDE DEF reported
      <4>. QED BY <4>1
    <3>. QED BY <1>1, <3>2 DEF TopInv, QueueMatchesCurWords
  <2>5. \A w \in Words : /\ truth[WordCounts][w] = Occurrences(w, Len(corpus))
                         /\ truth[WordCounts][w] \in Nat /\ Hits(w) \in Nat
                         /\ Hits(w) >= truth[WordCounts][w]
    BY <1>1, HitsType, TopAssumption, SketchBound
       DEF TrueCounts, TopInv, SketchInv, SketchTypeOK, Hits, Words, NeverUnderestimates
  <2>6. \A t \in topWords : t.hits >= Occurrences(t.word, Len(corpus))
    BY <2>3, <2>5
  <2>7. \A w \in all \ reported : Full /\ \A t \in topWords : Hits(w) <= t.hits
    BY <1>1, <2>1, <2>4 DEF TopInv, BestSoFar
  <2>8. /\ IsFiniteSet(reported) /\ Cardinality(reported) \in Nat
        /\ Cardinality(reported) = Cardinality(best) /\ Cardinality(best) <= MaxTopWords
    BY <1>1, <2>4, OneWordPerEntry, FS_CardinalityType DEF TopInv, QueueMatchesCurWords
  <2>9. IsFiniteSet(all) /\ Cardinality(all) \in Nat
    BY <1>1, CorpusIsFinite, FS_CardinalityType DEF TopInv, TopTypeOK
  <2>10. reported \subseteq all
    BY <1>1, <2>1, <2>4 DEF QueuedWereSeen
  <2>11. Cardinality(reported) =
           IF Cardinality(all) < MaxTopWords THEN Cardinality(all) ELSE MaxTopWords
    <3> HIDE DEF all, reported
    <3>1. CASE all = reported
      BY <2>8, <3>1, TopAssumption
    <3>2. CASE all # reported
      <4>1. Full
        BY <2>7, <2>10, <3>2
      <4>2. Cardinality(reported) = MaxTopWords
        BY <2>8, <4>1, TopAssumption DEF Full
      <4>3. Cardinality(reported) <= Cardinality(all)
        BY <2>9, <2>10, FS_Subset
      <4>. QED BY <2>8, <2>9, <4>2, <4>3, TopAssumption
    <3>. QED BY <3>1, <3>2
  <2>12. ASSUME \A w \in all : Hits(w) = Occurrences(w, Len(corpus)),
                NEW t \in topWords, NEW w \in all \ reported
         PROVE  /\ t.hits = Occurrences(t.word, Len(corpus))
                /\ t.hits >= Occurrences(w, Len(corpus))
    <3>1. t.word \in all
      BY <2>10
    <3> HIDE DEF all, reported
    <3>2. /\ t.hits = Occurrences(t.word, Len(corpus)) /\ t.hits \in Nat
          /\ Hits(w) = Occurrences(w, Len(corpus)) /\ Hits(w) \in Nat
      BY <2>2, <2>3, <2>5, <2>12, <3>1
    <3>3. Hits(w) <= t.hits
      BY <2>7
    <3>. QED BY <3>2, <3>3
  <2>. QED BY <2>6, <2>11, <2>12 DEF TopWordsAreTheMostFrequent
<1>2. TopInv /\ SketchInv /\ TrueCounts /\ Delivered /\ QueuedWereSeen
        => TopWordsAreTheMostFrequent
  BY <1>1 DEF TopWordsAreTheMostFrequent
<1>. QED
  BY <1>2, TopInvariant, SketchUnderTopWords, TrueCountsHold, QueuedWereSeenHolds, PTL

-----------------------------------------------------------------------------
(* Concatenated sequences *)

Flattened(ss, f, k) == IF k = 1 THEN ss[k] ELSE f[k - 1] \o ss[k]

Flattens(ss, f, k) == f = [n \in 1 .. k |-> Flattened(ss, f, n)]

\* The recursive function of FlattenSeq exists up to every place
LEMMA FlattenExists ==
  ASSUME NEW ss
  PROVE  \A k \in Nat : \E f : Flattens(ss, f, k)
<1> DEFINE T == {n \in Nat : ~\E f : Flattens(ss, f, n)}
<1>1. SUFFICES ASSUME T # {} PROVE FALSE
  BY <1>1
<1>2. PICK n \in T : \A m \in T : n <= m
  BY <1>1, LeastNatural
<1>3. CASE n = 0
  <2> DEFINE f == [m \in 1 .. 0 |-> <<>>]
  <2>1. f = [m \in 1 .. 0 |-> Flattened(ss, f, m)]
    OBVIOUS
  <2>. QED BY <1>2, <1>3, <2>1 DEF Flattens
<1>4. CASE n # 0
  <2>1. n \in Nat /\ n - 1 \in Nat /\ ~(n <= n - 1)
    BY <1>2, <1>4
  <2>2. PICK f : Flattens(ss, f, n - 1)
    BY <1>2, <2>1
  <2> DEFINE g == [m \in 1 .. n |-> IF m = n THEN Flattened(ss, f, n) ELSE f[m]]
  <2>3. \A m \in 1 .. n - 1 : f[m] = Flattened(ss, f, m) /\ g[m] = f[m]
    BY <2>1, <2>2 DEF Flattens
  <2>4. g[n] = Flattened(ss, f, n) /\ g = [m \in 1 .. n |-> g[m]]
    BY <2>1
  <2> HIDE DEF g
  <2>5. ASSUME NEW m \in 1 .. n PROVE g[m] = Flattened(ss, g, m)
    <3>1. m # 1 => m - 1 \in 1 .. n - 1
      BY <2>1
    <3>2. Flattened(ss, f, m) = Flattened(ss, g, m)
      BY <2>3, <3>1 DEF Flattened
    <3>3. m = n \/ m \in 1 .. n - 1
      BY <2>1
    <3>. QED BY <2>3, <2>4, <3>2, <3>3
  <2>6. Flattens(ss, g, n)
    BY <2>4, <2>5 DEF Flattens
  <2>. QED BY <1>2, <2>6
<1>. QED BY <1>3, <1>4

\* What a concatenation holds comes from one of its parts
LEMMA InEither ==
  ASSUME NEW S, NEW a \in Seq(S), NEW b \in Seq(S)
  PROVE  \A n \in 1 .. Len(a \o b) :
           \/ \E m \in 1 .. Len(a) : (a \o b)[n] = a[m]
           \/ \E m \in 1 .. Len(b) : (a \o b)[n] = b[m]
<1> TAKE n \in 1 .. Len(a \o b)
<1> DEFINE c == a \o b
<1>1. /\ Len(c) = Len(a) + Len(b)
      /\ \A i \in 1 .. Len(a) + Len(b) : c[i] =
           IF i <= Len(a) THEN a[i] ELSE b[i - Len(a)]
  BY ConcatProperties
<1>2. Len(a) \in Nat /\ Len(b) \in Nat /\ n \in 1 .. Len(c)
  OBVIOUS
<1> HIDE DEF c
<1>3. n \in 1 .. Len(a) + Len(b) /\ n \in Int /\ 1 <= n /\ n <= Len(a) + Len(b)
  BY <1>1, <1>2
<1>4. CASE n <= Len(a)
  <2>1. n \in 1 .. Len(a)
    BY <1>2, <1>3, <1>4
  <2>. QED BY <1>1, <1>3, <1>4, <2>1 DEF c
<1>5. CASE ~(n <= Len(a))
  <2>1. n - Len(a) \in 1 .. Len(b)
    BY <1>2, <1>3, <1>5
  <2>. QED BY <1>1, <1>3, <1>5, <2>1 DEF c
<1>. QED BY <1>4, <1>5

\* What is in the first k parts together is in one of them
Partial(S, ss, f, k) ==
  /\ f[k] \in Seq(S)
  /\ \A n \in 1 .. Len(f[k]) : \E j \in 1 .. k : \E m \in 1 .. Len(ss[j]) : f[k][n] = ss[j][m]

\* One more sequence is appended to what was flattened so far
LEMMA OneMorePartial ==
  ASSUME NEW S, NEW f, NEW ss, NEW k \in Nat, Partial(S, ss, f, k - 1), ss[k] \in Seq(S),
         f[k] = f[k - 1] \o ss[k], k - 1 \in Nat
  PROVE  Partial(S, ss, f, k)
<1>1. PICK x : x = f[k - 1]
  OBVIOUS
<1>2. PICK y : y = ss[k]
  OBVIOUS
<1>3. PICK z : z = f[k]
  OBVIOUS
<1>4. x \in Seq(S) /\ y \in Seq(S) /\ z = x \o y
  BY <1>1, <1>2, <1>3 DEF Partial
<1>5. z \in Seq(S)
  BY <1>4, ConcatProperties
<1>6. \A n \in 1 .. Len(x \o y) :
        \/ \E m \in 1 .. Len(x) : (x \o y)[n] = x[m]
        \/ \E m \in 1 .. Len(y) : (x \o y)[n] = y[m]
  BY <1>4, InEither
<1>7. \A n \in 1 .. Len(z) :
        \/ \E m \in 1 .. Len(x) : z[n] = x[m]
        \/ \E m \in 1 .. Len(y) : z[n] = y[m]
  BY <1>4, <1>6
<1>8. /\ f[k] \in Seq(S)
      /\ \A n \in 1 .. Len(f[k]) :
           \/ \E m \in 1 .. Len(f[k - 1]) : f[k][n] = f[k - 1][m]
           \/ \E m \in 1 .. Len(ss[k]) : f[k][n] = ss[k][m]
  BY <1>1, <1>2, <1>3, <1>5, <1>7
<1>9. ASSUME NEW n \in 1 .. Len(f[k])
      PROVE  \E j \in 1 .. k : \E m \in 1 .. Len(ss[j]) : f[k][n] = ss[j][m]
  <2>1. CASE \E m \in 1 .. Len(f[k - 1]) : f[k][n] = f[k - 1][m]
    <3>1. PICK m \in 1 .. Len(f[k - 1]) : f[k][n] = f[k - 1][m]
      BY <2>1
    <3>2. PICK j \in 1 .. k - 1 : \E i \in 1 .. Len(ss[j]) : f[k - 1][m] = ss[j][i]
      BY <3>1 DEF Partial
    <3>3. j \in 1 .. k
      OBVIOUS
    <3>. QED BY <3>1, <3>2, <3>3
  <2>2. CASE \E m \in 1 .. Len(ss[k]) : f[k][n] = ss[k][m]
    <3>1. k \in 1 .. k
      OBVIOUS
    <3>. QED BY <2>2, <3>1
  <2>. QED BY <1>8, <2>1, <2>2
<1>. QED BY <1>8, <1>9 DEF Partial

FromOneOf(S, ss, r) ==
  /\ r \in Seq(S)
  /\ \A n \in 1 .. Len(r) : \E k \in 1 .. Len(ss) : \E m \in 1 .. Len(ss[k]) : r[n] = ss[k][m]

\* Everything in a flattened sequence comes from one of its sequences
LEMMA FlattenSeqRange ==
  ASSUME NEW S, NEW ss \in Seq(Seq(S))
  PROVE  /\ FlattenSeq(ss) \in Seq(S)
         /\ \A n \in 1 .. Len(FlattenSeq(ss)) :
              \E k \in 1 .. Len(ss) : \E m \in 1 .. Len(ss[k]) : FlattenSeq(ss)[n] = ss[k][m]
<1>1. CASE Len(ss) = 0
  <2>1. FlattenSeq(ss) = ss /\ ss = <<>>
    BY <1>1 DEF FlattenSeq
  <2>. QED BY <2>1
<1>2. CASE Len(ss) # 0
  <2> DEFINE f == CHOOSE f : Flattens(ss, f, Len(ss))
             T == {k \in Nat : k \in 1 .. Len(ss) /\ ~Partial(S, ss, f, k)}
  <2>1. Len(ss) \in Nat /\ Len(ss) \in 1 .. Len(ss)
    BY <1>2
  <2>2. Flattens(ss, f, Len(ss))
    BY <2>1, FlattenExists
  <2>3. FlattenSeq(ss) = f[Len(ss)]
    BY <1>2, Zenon DEF FlattenSeq, Flattens, Flattened
  <2>4. \A k \in 1 .. Len(ss) : f[k] = Flattened(ss, f, k)
    BY <2>1, <2>2 DEF Flattens
  <2> HIDE DEF f
  <2>5. ASSUME NEW k \in T, \A m \in T : k <= m PROVE FALSE
    <3>1. k \in 1 .. Len(ss) /\ k \in Nat /\ ss[k] \in Seq(S) /\ ~Partial(S, ss, f, k)
      OBVIOUS
    <3>2. CASE k = 1
      <4>1. f[1] = ss[1]
        BY <2>4, <3>1, <3>2 DEF Flattened
      <4>. QED BY <3>1, <3>2, <4>1 DEF Partial
    <3>3. CASE k # 1
      <4>1. k - 1 \in 1 .. Len(ss) /\ k - 1 \in Nat /\ ~(k <= k - 1)
        BY <2>1, <3>1, <3>3
      <4>2. Partial(S, ss, f, k - 1)
        BY <2>5, <4>1
      <4>3. f[k] = f[k - 1] \o ss[k]
        BY <2>4, <3>1, <3>3 DEF Flattened
      <4>. QED BY <3>1, <4>1, <4>2, <4>3, OneMorePartial
    <3>. QED BY <3>2, <3>3
  <2>6. T = {}
    <3>1. T \in SUBSET Nat
      OBVIOUS
    <3>. QED BY <2>5, <3>1, LeastNatural
  <2>7. Partial(S, ss, f, Len(ss))
    BY <2>1, <2>6
  <2>8. FromOneOf(S, ss, f[Len(ss)])
    BY <2>7 DEF Partial, FromOneOf
  <2>9. FromOneOf(S, ss, FlattenSeq(ss))
    BY <2>3, <2>8, Zenon
  <2>. QED BY <2>9, Zenon DEF FromOneOf
<1>. QED BY <1>1, <1>2

-----------------------------------------------------------------------------
(* The patterns of a word *)

\* A pattern is a string of letters and stars, not shorter than its part of the word
LEMMA PatternTypes ==
  ASSUME NEW T, NEW w \in Seq(T), NEW k \in 1 .. Len(w), NEW l \in 1 .. Len(w) - k + 1
  PROVE  /\ Pattern(w, k, l) \in Seq(T \cup {Star})
         /\ SubSeq(w, k, k + l - 1) \in Seq(T \cup {Star})
         /\ Len(SubSeq(w, k, k + l - 1)) = l
         /\ Len(Pattern(w, k, l)) \in Nat /\ l <= Len(Pattern(w, k, l))
<1> DEFINE S == T \cup {Star}
           a == IF k = 1 THEN <<Star>> ELSE <<>>
           b == SubSeq(w, k, k + l - 1)
           c == IF k + l - 1 = Len(w) THEN <<Star>> ELSE <<>>
<1>1. Len(w) \in Nat /\ k \in Int /\ k + l - 1 \in Int /\ k <= k + l - 1
  OBVIOUS
<1>2. \A i \in k .. k + l - 1 : w[i] \in S
  <2>1. \A i \in k .. k + l - 1 : i \in 1 .. Len(w)
    BY <1>1
  <2>. QED BY <2>1
<1>3. b \in Seq(S) /\ Len(b) = (k + l - 1) - k + 1
  BY <1>1, <1>2, SubSeqProperties
<1>4. Len(b) = l
  BY <1>1, <1>3
<1>5. a \in Seq(S) /\ c \in Seq(S) /\ Len(a) \in Nat /\ Len(c) \in Nat
  OBVIOUS
<1> HIDE DEF a, b, c
<1>6. a \o b \in Seq(S) /\ Len(a \o b) = Len(a) + Len(b)
  BY <1>3, <1>5, ConcatProperties
<1>7. a \o b \o c \in Seq(S) /\ Len(a \o b \o c) = Len(a \o b) + Len(c)
  BY <1>5, <1>6, ConcatProperties
<1>8. Pattern(w, k, l) = a \o b \o c
  BY DEF Pattern, a, b, c
<1>9. Len(a \o b \o c) \in Nat /\ l <= Len(a \o b \o c)
  BY <1>4, <1>5, <1>6, <1>7
<1>. QED BY <1>3, <1>4, <1>7, <1>8, <1>9 DEF b

\* The shorter length is one of the two, and exceeds neither
LEMMA ShorterBounds ==
  ASSUME NEW m \in Int, NEW n \in Int
  PROVE  Shorter(m, n) \in Int /\ Shorter(m, n) <= m /\ Shorter(m, n) <= n
BY DEF Shorter

\* Every pattern of a word is populate_substr() of a place and a length in it
LEMMA PatternsOfRange ==
  ASSUME NEW T, NEW w \in Seq(T)
  PROVE  /\ PatternsOf(w) \in Seq(Seq(T \cup {Star}))
         /\ \A n \in 1 .. Len(PatternsOf(w)) :
              \E k \in 1 .. Len(w) : \E l \in 1 .. Len(w) - k + 1 :
                PatternsOf(w)[n] = Pattern(w, k, l) /\ Len(Pattern(w, k, l)) > 1
<1> DEFINE S == Seq(T \cup {Star})
           Many(k) == Shorter(MaxPart, Len(w) - k + 1)
           kept(p) == IF Len(p) > 1 THEN <<p>> ELSE <<>>
           from(k) == [l \in 1 .. Many(k) |-> kept(Pattern(w, k, l))]
           all == [k \in 1 .. Len(w) |-> FlattenSeq(from(k))]
<1>1. Len(w) \in Nat
  OBVIOUS
<1>2. ASSUME NEW k \in 1 .. Len(w)
      PROVE  /\ FlattenSeq(from(k)) \in Seq(S)
             /\ \A n \in 1 .. Len(FlattenSeq(from(k))) :
                  \E l \in 1 .. Len(w) - k + 1 :
                    FlattenSeq(from(k))[n] = Pattern(w, k, l) /\ Len(Pattern(w, k, l)) > 1
  <2>1. k \in Int /\ k <= Len(w) /\ MaxPart \in Nat
    BY SubstringAssumption
  <2>2. Many(k) \in Nat /\ Many(k) <= Len(w) - k + 1
    BY <1>1, <2>1 DEF Shorter
  <2>3. \A l \in 1 .. Many(k) : l \in 1 .. Len(w) - k + 1
    <3> HIDE DEF Many
    <3>. QED BY <1>1, <2>1, <2>2
  <2>4. \A l \in 1 .. Many(k) : Pattern(w, k, l) \in S
    <3> HIDE DEF Many
    <3>. QED BY <2>3, PatternTypes
  <2>5. from(k) \in Seq(Seq(S)) /\ Len(from(k)) = Many(k)
    <3> HIDE DEF Many, S
    <3>1. \A p \in S : kept(p) \in Seq(S)
      OBVIOUS
    <3>2. \A l \in 1 .. Many(k) : kept(Pattern(w, k, l)) \in Seq(S)
      BY <2>4, <3>1
    <3> HIDE DEF kept
    <3>. QED BY <2>2, <3>2
  <2>6. /\ FlattenSeq(from(k)) \in Seq(S)
        /\ \A n \in 1 .. Len(FlattenSeq(from(k))) :
             \E l \in 1 .. Many(k) : \E m \in 1 .. Len(from(k)[l]) :
               FlattenSeq(from(k))[n] = from(k)[l][m]
    <3> HIDE DEF S, from, Many
    <3>1. from(k) \in Seq(Seq(S)) /\ Len(from(k)) = Many(k)
      BY <2>5
    <3>2. /\ FlattenSeq(from(k)) \in Seq(S)
          /\ \A n \in 1 .. Len(FlattenSeq(from(k))) :
               \E l \in 1 .. Len(from(k)) : \E m \in 1 .. Len(from(k)[l]) :
                 FlattenSeq(from(k))[n] = from(k)[l][m]
      BY <3>1, FlattenSeqRange, Zenon
    <3>. QED BY <3>1, <3>2, Zenon
  <2>7. ASSUME NEW n \in 1 .. Len(FlattenSeq(from(k)))
        PROVE  \E l \in 1 .. Len(w) - k + 1 :
                 FlattenSeq(from(k))[n] = Pattern(w, k, l) /\ Len(Pattern(w, k, l)) > 1
    <3>1. PICK l \in 1 .. Many(k) : \E m \in 1 .. Len(from(k)[l]) :
                 FlattenSeq(from(k))[n] = from(k)[l][m]
      BY <2>6
    <3>2. PICK m \in 1 .. Len(from(k)[l]) : FlattenSeq(from(k))[n] = from(k)[l][m]
      BY <3>1
    <3>3. from(k)[l] = kept(Pattern(w, k, l))
      OBVIOUS
    <3>4. Len(Pattern(w, k, l)) > 1 /\ from(k)[l][m] = Pattern(w, k, l)
      BY <3>3
    <3>. QED BY <2>3, <3>2, <3>4
  <2>. QED BY <2>6, <2>7
<1>3. all \in Seq(Seq(S)) /\ Len(all) = Len(w)
  BY <1>1, <1>2
<1>4. PatternsOf(w) = FlattenSeq(all)
  BY DEF PatternsOf
<1>5. /\ FlattenSeq(all) \in Seq(S)
      /\ \A n \in 1 .. Len(FlattenSeq(all)) :
           \E k \in 1 .. Len(w) : \E m \in 1 .. Len(all[k]) : FlattenSeq(all)[n] = all[k][m]
  <2> HIDE DEF S, all
  <2>1. all \in Seq(Seq(S)) /\ Len(all) = Len(w)
    BY <1>3
  <2>2. /\ FlattenSeq(all) \in Seq(S)
        /\ \A n \in 1 .. Len(FlattenSeq(all)) :
             \E k \in 1 .. Len(all) : \E m \in 1 .. Len(all[k]) : FlattenSeq(all)[n] = all[k][m]
    BY <2>1, FlattenSeqRange, Zenon
  <2>. QED BY <2>1, <2>2, Zenon
<1>6. \A k \in 1 .. Len(w) : all[k] = FlattenSeq(from(k))
  OBVIOUS
<1>7. ASSUME NEW n \in 1 .. Len(PatternsOf(w))
      PROVE  \E k \in 1 .. Len(w) : \E l \in 1 .. Len(w) - k + 1 :
               PatternsOf(w)[n] = Pattern(w, k, l) /\ Len(Pattern(w, k, l)) > 1
  <2> HIDE DEF all, from
  <2>1. PICK k \in 1 .. Len(w) : \E m \in 1 .. Len(all[k]) : FlattenSeq(all)[n] = all[k][m]
    BY <1>4, <1>5
  <2>2. PICK m \in 1 .. Len(FlattenSeq(from(k))) :
               FlattenSeq(all)[n] = FlattenSeq(from(k))[m]
    BY <1>6, <2>1
  <2>. QED BY <1>2, <1>4, <2>2
<1> HIDE DEF all, from
<1>. QED BY <1>4, <1>5, <1>7

-----------------------------------------------------------------------------
(* The row of hashes that find_substrings() moves over a word *)

\* Before iteration t + 1: the front of the word, and a window from every place
\* of which there are t characters more
RowOf(w, n, h, t) ==
  /\ h[0] = <<Star>> \o SubSeq(w, 1, t)
  /\ \A j \in 1 .. n : t + j - 1 <= n => h[j] = SubSeq(w, j, t + j - 1)

\* A window is one character longer for the next character of the word
LEMMA OneLonger ==
  ASSUME NEW T, NEW w \in Seq(T), NEW j \in 1 .. Len(w), NEW e \in j .. Len(w)
  PROVE  /\ Append(SubSeq(w, j, e - 1), w[e]) = SubSeq(w, j, e)
         /\ SubSeq(w, j, e - 1) \in Seq(T)
<1>1. w[e] \in T
  OBVIOUS
<1>2. SubSeq(w, j, e - 1) \in Seq(T)
  <2>1. \A i \in j .. e - 1 : i \in 1 .. Len(w)
    OBVIOUS
  <2>2. \A i \in j .. e - 1 : w[i] \in T
    BY <2>1
  <2>3. j \in Int /\ e - 1 \in Int
    OBVIOUS
  <2>. QED BY <2>2, <2>3, SubSeqProperties
<1>3. SubSeq(w, j, e) = SubSeq(w, j, e - 1) \o <<w[e]>>
  BY SubSeqRecursiveSecond
<1>4. Append(SubSeq(w, j, e - 1), w[e]) = SubSeq(w, j, e - 1) \o <<w[e]>>
  BY <1>1, <1>2, AppendIsConcat
<1>. QED BY <1>2, <1>3, <1>4

\* And so is the front of the word, behind its star
LEMMA FrontOneLonger ==
  ASSUME NEW T, NEW w \in Seq(T), NEW t \in 1 .. Len(w)
  PROVE  Append(<<Star>> \o SubSeq(w, 1, t - 1), w[t]) = <<Star>> \o SubSeq(w, 1, t)
<1> DEFINE S == T \cup {Star}
           a == <<Star>>
           b == SubSeq(w, 1, t - 1)
           c == <<w[t]>>
<1>1. w \in Seq(S) /\ 1 \in 1 .. Len(w) /\ t \in 1 .. Len(w)
  OBVIOUS
<1>2. w[t] \in S /\ a \in Seq(S) /\ c \in Seq(S)
  BY <1>1
<1>3. Append(b, w[t]) = SubSeq(w, 1, t) /\ b \in Seq(S)
  BY <1>1, OneLonger
<1>4. Append(b, w[t]) = b \o c
  BY <1>2, <1>3, AppendIsConcat
<1>5. a \o b \in Seq(S)
  BY <1>2, <1>3, ConcatProperties
<1>6. Append(a \o b, w[t]) = (a \o b) \o c
  BY <1>2, <1>5, AppendIsConcat
<1> HIDE DEF a, b, c, S
<1>7. (a \o b) \o c = a \o (b \o c)
  BY <1>2, <1>3, ConcatAssociative
<1>8. b \o c = SubSeq(w, 1, t)
  BY <1>3, <1>4, Zenon
<1>9. Append(a \o b, w[t]) = a \o SubSeq(w, 1, t)
  BY <1>6, <1>7, <1>8, Zenon
<1>. QED BY <1>9, Zenon DEF a, b

\* One iteration moves the row of hashes on by one character
LEMMA RowMoves ==
  ASSUME NEW T, NEW w \in Seq(T), NEW n \in Nat, n <= Len(w), NEW t \in 1 .. n, NEW h,
         RowOf(w, n, h, t - 1)
  PROVE  RowOf(w, n, Moved(h, w, n, t), t)
<1> DEFINE g == Moved(h, w, n, t)
<1>1. Len(w) \in Nat /\ t \in 1 .. Len(w)
  OBVIOUS
<1>2. g[0] = Append(h[0], w[t])
  BY DEF Moved
<1>3. g[0] = <<Star>> \o SubSeq(w, 1, t)
  BY <1>1, <1>2, FrontOneLonger DEF RowOf
<1>4. ASSUME NEW j \in 1 .. n, t + j - 1 <= n
      PROVE  g[j] = SubSeq(w, j, t + j - 1)
  <2>1. j \in 0 .. n /\ j # 0
    OBVIOUS
  <2>2. g[j] = Append(h[j], w[t + j - 1])
    BY <1>4, <2>1 DEF Moved
  <2>3. /\ (t - 1) + j - 1 <= n /\ (t - 1) + j - 1 = (t + j - 1) - 1
        /\ j \in 1 .. Len(w) /\ t + j - 1 \in j .. Len(w)
    BY <1>1, <1>4
  <2>4. h[j] = SubSeq(w, j, (t - 1) + j - 1)
    BY <2>3 DEF RowOf
  <2>5. Append(SubSeq(w, j, (t + j - 1) - 1), w[t + j - 1]) = SubSeq(w, j, t + j - 1)
    BY <2>3, OneLonger
  <2>. QED BY <2>2, <2>3, <2>4, <2>5
<1>. QED BY <1>3, <1>4 DEF RowOf

FirstRow(n) == [j \in 0 .. n |-> IF j = 0 THEN <<Star>> ELSE <<>>]

HashRow(w, n, f, t) == IF t = 0 THEN FirstRow(n) ELSE Moved(f[t - 1], w, n, t)

HashRows(w, n, f, k) == f = [t \in 0 .. k |-> HashRow(w, n, f, t)]

\* The recursive function of the rows exists up to every iteration
LEMMA HashRowsExist ==
  ASSUME NEW w, NEW len
  PROVE  \A k \in Nat : \E f : HashRows(w, len, f, k)
<1> DEFINE T == {n \in Nat : ~\E f : HashRows(w, len, f, n)}
<1>1. SUFFICES ASSUME T # {} PROVE FALSE
  BY <1>1
<1>2. PICK n \in T : \A m \in T : n <= m
  BY <1>1, LeastNatural
<1>3. CASE n = 0
  <2> DEFINE f == [m \in 0 .. 0 |-> FirstRow(len)]
  <2>1. \A m \in 0 .. 0 : HashRow(w, len, f, m) = FirstRow(len)
    BY DEF HashRow
  <2>2. HashRows(w, len, f, 0)
    BY <2>1 DEF HashRows
  <2>. QED BY <1>2, <1>3, <2>2
<1>4. CASE n # 0
  <2>1. n \in Nat /\ n - 1 \in Nat /\ ~(n <= n - 1)
    BY <1>2, <1>4
  <2>2. PICK f : HashRows(w, len, f, n - 1)
    BY <1>2, <2>1
  <2> DEFINE g == [m \in 0 .. n |-> IF m = n THEN HashRow(w, len, f, n) ELSE f[m]]
  <2>3. \A m \in 0 .. n - 1 : f[m] = HashRow(w, len, f, m) /\ g[m] = f[m]
    BY <2>1, <2>2 DEF HashRows
  <2>4. g[n] = HashRow(w, len, f, n) /\ g = [m \in 0 .. n |-> g[m]]
    BY <2>1
  <2> HIDE DEF g
  <2>5. ASSUME NEW m \in 0 .. n PROVE g[m] = HashRow(w, len, g, m)
    <3>1. m # 0 => m - 1 \in 0 .. n - 1
      BY <2>1
    <3>2. HashRow(w, len, f, m) = HashRow(w, len, g, m)
      BY <2>3, <3>1 DEF HashRow
    <3>3. m = n \/ m \in 0 .. n - 1
      BY <2>1
    <3>. QED BY <2>3, <2>4, <3>2, <3>3
  <2>6. HashRows(w, len, g, n)
    BY <2>4, <2>5 DEF HashRows
  <2>. QED BY <1>2, <2>6
<1>. QED BY <1>3, <1>4

\* After t iterations, the row holds the front and the windows of t characters
LEMMA RowsOfWord ==
  ASSUME NEW T, NEW w \in Seq(T), NEW n \in Nat, n <= Len(w), NEW f, HashRows(w, n, f, n)
  PROVE  \A t \in 0 .. n : RowOf(w, n, f[t], t)
<1> DEFINE Bad == {t \in Nat : t <= n /\ ~RowOf(w, n, f[t], t)}
<1>1. \A t \in 0 .. n : f[t] = HashRow(w, n, f, t)
  BY DEF HashRows
<1>2. SUFFICES ASSUME Bad # {} PROVE FALSE
  BY <1>2
<1>3. PICK t \in Bad : \A m \in Bad : t <= m
  <2>1. Bad \in SUBSET Nat
    OBVIOUS
  <2>. QED BY <1>2, <2>1, LeastNatural
<1>4. t \in Nat /\ t \in 0 .. n /\ ~RowOf(w, n, f[t], t)
  BY <1>3
<1>5. CASE t = 0
  <2>1. f[0] = FirstRow(n)
    BY <1>1, <1>4, <1>5 DEF HashRow
  <2>2. SubSeq(w, 1, 0) = <<>> /\ \A j \in 1 .. n : SubSeq(w, j, 0 + j - 1) = <<>>
    <3>1. \A j \in 1 .. n : j \in Int /\ 0 + j - 1 \in Int /\ 0 + j - 1 < j
      OBVIOUS
    <3>. QED BY <3>1, SubSeqEmpty
  <2>3. <<Star>> \o <<>> = <<Star>>
    BY ConcatEmptySeq
  <2>4. RowOf(w, n, f[0], 0)
    BY <2>1, <2>2, <2>3 DEF RowOf, FirstRow
  <2>. QED BY <1>4, <1>5, <2>4
<1>6. CASE t # 0
  <2>1. t - 1 \in Nat /\ t - 1 <= n /\ ~(t <= t - 1) /\ t \in 1 .. n
    BY <1>4, <1>6
  <2>2. RowOf(w, n, f[t - 1], t - 1)
    BY <1>3, <2>1
  <2>3. f[t] = Moved(f[t - 1], w, n, t)
    BY <1>1, <1>4, <1>6 DEF HashRow
  <2>. QED BY <1>4, <2>1, <2>2, <2>3, RowMoves
<1>. QED BY <1>5, <1>6

\* What iteration t looks up
StringsAt(w, n, t) ==
  {<<Star>> \o SubSeq(w, 1, t)} \cup {SubSeq(w, j, t + j - 1) : j \in 1 .. n - t + 1}
    \cup {Append(SubSeq(w, n - t + 1, n), Star)}

\* What an iteration looks up, said of the word and no longer of the row
LEMMA StringsOfRow ==
  ASSUME NEW w, NEW n \in Nat, NEW t \in 1 .. n, NEW h, RowOf(w, n, h, t)
  PROVE  LookedUp(h, n, t) = StringsAt(w, n, t)
<1>1. n - t + 1 \in 1 .. n /\ t + (n - t + 1) - 1 = n
  OBVIOUS
<1>2. h[n - t + 1] = SubSeq(w, n - t + 1, n)
  BY <1>1 DEF RowOf
<1>3. \A j \in 1 .. n - t + 1 : j \in 1 .. n /\ t + j - 1 <= n
  OBVIOUS
<1>4. \A j \in 1 .. n - t + 1 : h[j] = SubSeq(w, j, t + j - 1)
  BY <1>3 DEF RowOf
<1>5. 0 .. n - t + 1 = {0} \cup (1 .. n - t + 1)
  BY <1>1
<1>6. h[0] = <<Star>> \o SubSeq(w, 1, t)
  BY DEF RowOf
<1>7. {h[j] : j \in 0 .. n - t + 1}
        = {<<Star>> \o SubSeq(w, 1, t)} \cup {SubSeq(w, j, t + j - 1) : j \in 1 .. n - t + 1}
  BY <1>4, <1>5, <1>6
<1>. QED BY <1>2, <1>7 DEF LookedUp, StringsAt

\* All that is looked up for a word
LEMMA AllLookedUp ==
  ASSUME NEW T, NEW w \in Seq(T), NEW max \in Nat
  PROVE  LET n == Shorter(Len(w), MaxChars)
         IN  StringsLookedUp(w, max) = UNION {StringsAt(w, n, t) : t \in 1 .. Shorter(n, max)}
<1> DEFINE n == Shorter(Len(w), MaxChars)
           f == CHOOSE f : HashRows(w, n, f, n)
<1>1. n \in Nat /\ n <= Len(w)
  BY SubstringAssumption DEF Shorter
<1>2. HashRows(w, n, f, n)
  <2> HIDE DEF n
  <2>. QED BY <1>1, HashRowsExist
<1>3. StringsLookedUp(w, max) = UNION {LookedUp(f[t], n, t) : t \in 1 .. Shorter(n, max)}
  BY Zenon DEF StringsLookedUp, HashRows, HashRow, FirstRow
<1> HIDE DEF f, n
<1>4. \A t \in 1 .. Shorter(n, max) : t \in 0 .. n /\ t \in 1 .. n
  BY <1>1 DEF Shorter
<1>5. \A t \in 0 .. n : RowOf(w, n, f[t], t)
  BY <1>1, <1>2, RowsOfWord
<1>6. \A t \in 1 .. Shorter(n, max) : LookedUp(f[t], n, t) = StringsAt(w, n, t)
  BY <1>1, <1>4, <1>5, StringsOfRow
<1>7. StringsLookedUp(w, max) = UNION {StringsAt(w, n, t) : t \in 1 .. Shorter(n, max)}
  BY <1>3, <1>6
<1>. QED BY <1>7 DEF n

\* A word that is read to its end
LEMMA ReadToItsEnd ==
  ASSUME NEW T, NEW w \in Seq(T), Len(w) <= MaxChars, NEW max \in Nat,
         NEW t \in 1 .. Len(w), t <= max
  PROVE  StringsAt(w, Len(w), t) \subseteq StringsLookedUp(w, max)
<1>1. Shorter(Len(w), MaxChars) = Len(w)
  BY SubstringAssumption DEF Shorter
<1>2. t \in 1 .. Shorter(Len(w), max)
  BY DEF Shorter
<1>3. StringsLookedUp(w, max)
        = UNION {StringsAt(w, Len(w), u) : u \in 1 .. Shorter(Len(w), max)}
  BY <1>1, AllLookedUp
<1>. QED BY <1>2, <1>3

\* The characters of a sequence between two others
LEMMA Enclosed ==
  ASSUME NEW S, NEW a \in Seq(S), NEW b \in Seq(S), NEW c \in Seq(S)
  PROVE  /\ a \o b \o c \in Seq(S)
         /\ Len(a \o b \o c) = Len(a) + Len(b) + Len(c)
         /\ a = <<>> /\ c = <<>> => a \o b \o c = b
         /\ a = <<>> => a \o b \o c = b \o c
         /\ c = <<>> => a \o b \o c = a \o b
<1>1. a \o b \in Seq(S) /\ Len(a \o b) = Len(a) + Len(b)
  BY ConcatProperties
<1>2. (a \o b) \o c \in Seq(S) /\ Len((a \o b) \o c) = Len(a \o b) + Len(c)
  BY <1>1, ConcatProperties
<1>3. <<>> \o b = b
  BY ConcatEmptySeq
<1>4. (a \o b) \o <<>> = a \o b
  BY <1>1, ConcatEmptySeq
<1>. QED BY <1>1, <1>2, <1>3, <1>4

\* The pattern from the first place to the last has both stars
LEMMA WholeWordPattern ==
  ASSUME NEW T, NEW w \in Seq(T), NEW l, l = Len(w), 1 \in 1 .. Len(w)
  PROVE  WholeWord(Pattern(w, 1, l))
<1> DEFINE S == T \cup {Star}
           a == <<Star>>
           b == SubSeq(w, 1, l)
<1>1. Len(w) \in Nat /\ l \in Nat /\ 1 + l - 1 = l /\ l > 0
  OBVIOUS
<1>2. w \in Seq(S) /\ b = w
  BY SubSeqFull
<1>3. a \in Seq(S) /\ Len(a) = 1 /\ a[1] = Star
  OBVIOUS
<1>4. Pattern(w, 1, l) = a \o b \o a
  BY <1>1 DEF Pattern
<1> HIDE DEF a, b, S
<1>5. /\ a \o b \in Seq(S) /\ Len(a \o b) = 1 + l
      /\ \A i \in 1 .. Len(a) + Len(b) : (a \o b)[i] = IF i <= Len(a) THEN a[i] ELSE b[i - Len(a)]
  <2>1. b \in Seq(S) /\ Len(b) = l
    BY <1>2
  <2>2. /\ a \o b \in Seq(S) /\ Len(a \o b) = Len(a) + Len(b)
        /\ \A i \in 1 .. Len(a) + Len(b) :
             (a \o b)[i] = IF i <= Len(a) THEN a[i] ELSE b[i - Len(a)]
    BY <1>3, <2>1, ConcatProperties
  <2>. QED BY <1>3, <2>1, <2>2
<1>6. Len(b) = l
  BY <1>2
<1>7. 1 \in 1 .. Len(a) + Len(b) /\ 1 <= Len(a)
  BY <1>1, <1>3, <1>6
<1>8. (a \o b)[1] = Star
  BY <1>3, <1>5, <1>7
<1> DEFINE d == a \o b
           e == d \o a
<1>9. d \in Seq(S) /\ Len(d) = 1 + l /\ d[1] = Star
  BY <1>5, <1>8
<1> HIDE DEF d
<1>10. /\ Len(e) = 2 + l
       /\ \A i \in 1 .. Len(d) + Len(a) : e[i] = IF i <= Len(d) THEN d[i] ELSE a[i - Len(d)]
  <2>1. /\ Len(e) = Len(d) + Len(a)
        /\ \A i \in 1 .. Len(d) + Len(a) : e[i] = IF i <= Len(d) THEN d[i] ELSE a[i - Len(d)]
    BY <1>3, <1>9, ConcatProperties
  <2>. QED BY <1>1, <1>3, <1>9, <2>1
<1>11. /\ 1 \in 1 .. Len(d) + Len(a) /\ 1 <= Len(d)
       /\ 2 + l \in 1 .. Len(d) + Len(a) /\ ~(2 + l <= Len(d)) /\ 2 + l - Len(d) = 1
  BY <1>1, <1>3, <1>9
<1>12. e[1] = Star
  BY <1>9, <1>10, <1>11
<1>13. e[2 + l] = Star
  BY <1>3, <1>10, <1>11
<1>14. Len(e) > 1
  BY <1>1, <1>10
<1>15. Pattern(w, 1, l) = e
  BY <1>4 DEF d, e
<1> HIDE DEF e
<1>. QED BY <1>10, <1>12, <1>13, <1>14, <1>15 DEF WholeWord

\* What populate_substr() made of a part of a word, find_substrings() comes by
LEMMA PatternIsLookedUp ==
  ASSUME NEW T, NEW w \in Seq(T), Len(w) <= MaxChars, NEW max \in Nat,
         NEW k \in 1 .. Len(w), NEW l \in 1 .. Len(w) - k + 1,
         Len(Pattern(w, k, l)) <= max, ~WholeWord(Pattern(w, k, l))
  PROVE  Pattern(w, k, l) \in StringsLookedUp(w, max)
<1> DEFINE S == T \cup {Star}
           n == Len(w)
           b == SubSeq(w, k, k + l - 1)
<1>1. n \in Nat /\ k \in Nat /\ l \in Nat /\ l \in 1 .. n
  OBVIOUS
<1>2. b \in Seq(S) /\ Len(Pattern(w, k, l)) \in Nat /\ l <= Len(Pattern(w, k, l))
  BY PatternTypes
<1>3. l <= max
  BY <1>1, <1>2
<1>4. StringsAt(w, n, l) \subseteq StringsLookedUp(w, max)
  BY <1>1, <1>3, ReadToItsEnd
<1>5. <<Star>> \in Seq(S) /\ <<>> \in Seq(S)
  OBVIOUS
<1>6. CASE k = 1 /\ k + l - 1 # n
  <2>1. Pattern(w, k, l) = <<Star>> \o SubSeq(w, 1, l)
    <3>1. k + l - 1 = l
      BY <1>1, <1>6
    <3>2. Pattern(w, k, l) = <<Star>> \o b \o <<>>
      BY <1>6 DEF Pattern
    <3>. QED BY <1>2, <1>5, <1>6, <3>1, <3>2, Enclosed
  <2>. QED BY <1>4, <2>1 DEF StringsAt
<1>7. CASE k # 1 /\ k + l - 1 # n
  <2>1. Pattern(w, k, l) = b
    <3>1. Pattern(w, k, l) = <<>> \o b \o <<>>
      BY <1>7 DEF Pattern
    <3>. QED BY <1>2, <1>5, <3>1, Enclosed
  <2>2. k \in 1 .. n - l + 1 /\ k + l - 1 = l + k - 1
    BY <1>1, <1>7
  <2>. QED BY <1>4, <2>1, <2>2 DEF StringsAt
<1>8. CASE k # 1 /\ k + l - 1 = n
  <2>1. Pattern(w, k, l) = b \o <<Star>>
    <3>1. Pattern(w, k, l) = <<>> \o b \o <<Star>>
      BY <1>8 DEF Pattern
    <3>. QED BY <1>2, <1>5, <3>1, Enclosed
  <2>2. Append(b, Star) = b \o <<Star>>
    BY <1>2, AppendIsConcat
  <2>3. n - l + 1 = k
    BY <1>1, <1>8
  <2>4. Append(SubSeq(w, n - l + 1, n), Star) = Pattern(w, k, l)
    BY <1>8, <2>1, <2>2, <2>3
  <2>. QED BY <1>4, <2>4 DEF StringsAt
<1>9. CASE k = 1 /\ k + l - 1 = n
  <2>1. l = Len(w) /\ 1 \in 1 .. Len(w)
    BY <1>1, <1>9
  <2>2. WholeWord(Pattern(w, 1, l))
    BY <2>1, WholeWordPattern
  <2>. QED BY <1>9, <2>2
<1>. QED BY <1>6, <1>7, <1>8, <1>9

\* Single characters are looked up, among them '#'
LEMMA CharacterIsLookedUp ==
  ASSUME NEW T, NEW w \in Seq(T), Len(w) <= MaxChars, NEW max \in Nat, 1 <= max,
         NEW j \in 1 .. Len(w)
  PROVE  <<w[j]>> \in StringsLookedUp(w, max)
<1>1. Len(w) \in Nat /\ 1 \in 1 .. Len(w) /\ j \in 1 .. Len(w) - 1 + 1 /\ 1 + j - 1 = j
  OBVIOUS
<1>2. StringsAt(w, Len(w), 1) \subseteq StringsLookedUp(w, max)
  BY <1>1, ReadToItsEnd
<1>3. SubSeq(w, j, j) = <<w[j]>>
  <2>1. j \in j .. Len(w) /\ j \in Int /\ j - 1 \in Int /\ j - 1 < j
    OBVIOUS
  <2>2. SubSeq(w, j, j - 1) = <<>>
    BY <2>1, SubSeqEmpty
  <2>3. SubSeq(w, j, j) = SubSeq(w, j, j - 1) \o <<w[j]>>
    BY <2>1, SubSeqRecursiveSecond
  <2>4. <<>> \o <<w[j]>> = <<w[j]>>
    <3>1. <<w[j]>> \in Seq(T)
      OBVIOUS
    <3>. QED BY <3>1, ConcatEmptySeq
  <2>. QED BY <2>2, <2>3, <2>4
<1>. QED BY <1>1, <1>2, <1>3 DEF StringsAt

\* Nothing is looked up of no characters
LEMMA NothingIsLookedUp ==
  ASSUME NEW max \in Nat, NEW w \in Seq(Letters), Len(w) = 0
  PROVE  StringsLookedUp(w, max) = {}
<1>1. Shorter(Len(w), MaxChars) = 0 /\ Shorter(0, max) = 0
  BY SubstringAssumption DEF Shorter
<1>2. StringsLookedUp(w, max)
        = UNION {StringsAt(w, Shorter(Len(w), MaxChars), t) :
                   t \in 1 .. Shorter(Shorter(Len(w), MaxChars), max)}
  BY AllLookedUp
<1>3. 1 .. Shorter(Shorter(Len(w), MaxChars), max) = {}
  BY <1>1
<1>. QED BY <1>2, <1>3

\* No whole word between two stars is looked up, of a word without stars of its own
LEMMA NoWholeWordIsLookedUp ==
  ASSUME NEW T, NEW w \in Seq(T), Star \notin ToSet(w), NEW max \in Nat,
         NEW s \in StringsLookedUp(w, max)
  PROVE  ~WholeWord(s)
<1> DEFINE S == T \cup {Star}
           n == Shorter(Len(w), MaxChars)
<1>1. n \in Nat /\ n <= Len(w)
  BY SubstringAssumption DEF Shorter
<1>2. PICK t \in 1 .. Shorter(n, max) : s \in StringsAt(w, n, t)
  BY AllLookedUp
<1> HIDE DEF n
<1>3. t \in Nat /\ 1 <= t /\ t <= n
  BY <1>1 DEF Shorter
<1>4. Len(w) \in Nat /\ \A i \in 1 .. Len(w) : w[i] \in T /\ w[i] # Star
  BY DEF ToSet
<1>5. CASE s = <<Star>> \o SubSeq(w, 1, t)
  <2> DEFINE b == SubSeq(w, 1, t)
  <2>1. \A i \in 1 .. t : i \in 1 .. Len(w)
    BY <1>1, <1>3, <1>4
  <2>2. b \in Seq(S) /\ Len(b) = t /\ \A i \in 1 .. t : b[i] = w[i]
    <3>1. \A i \in 1 .. t : w[i] \in S
      BY <1>4, <2>1
    <3>2. 1 \in Int /\ t \in Int /\ 1 <= t /\ t - 1 + 1 = t
      BY <1>3
    <3>3. /\ b \in Seq(S) /\ Len(b) = t - 1 + 1
          /\ \A i \in 1 .. t - 1 + 1 : b[i] = w[1 + i - 1]
      BY <3>1, <3>2, SubSeqProperties
    <3>. QED BY <3>2, <3>3
  <2> HIDE DEF b
  <2>3. <<Star>> \in Seq(S) /\ Len(<<Star>>) = 1
    OBVIOUS
  <2>4. /\ Len(s) = 1 + t
        /\ \A i \in 1 .. 1 + t : s[i] = IF i <= 1 THEN <<Star>>[i] ELSE b[i - 1]
    BY <1>5, <2>2, <2>3, ConcatProperties DEF b
  <2>5. 1 + t \in 1 .. 1 + t /\ ~(1 + t <= 1) /\ (1 + t) - 1 = t /\ t \in 1 .. t
    BY <1>3
  <2>6. s[1 + t] = w[t] /\ w[t] # Star
    BY <1>4, <2>1, <2>2, <2>4, <2>5
  <2>. QED BY <2>4, <2>6 DEF WholeWord
<1>6. ASSUME NEW j \in 1 .. n - t + 1, s = SubSeq(w, j, t + j - 1)
      PROVE  ~WholeWord(s)
  <2>1. \A i \in j .. t + j - 1 : i \in 1 .. Len(w)
    BY <1>1, <1>3, <1>4
  <2>2. j \in Int /\ t + j - 1 \in Int /\ j <= t + j - 1 /\ 1 \in 1 .. (t + j - 1) - j + 1
    BY <1>1, <1>3
  <2>3. \A i \in j .. t + j - 1 : w[i] \in T
    BY <1>4, <2>1
  <2>4. s[1] = w[j + 1 - 1]
    BY <1>6, <2>2, <2>3, SubSeqProperties
  <2>5. j + 1 - 1 = j /\ j \in 1 .. Len(w)
    BY <2>1, <2>2
  <2>. QED BY <1>4, <2>4, <2>5 DEF WholeWord
<1>7. CASE s = Append(SubSeq(w, n - t + 1, n), Star)
  <2> DEFINE j == n - t + 1
             b == SubSeq(w, j, n)
  <2>1. \A i \in j .. n : i \in 1 .. Len(w)
    BY <1>1, <1>3, <1>4
  <2>2. j \in Int /\ n \in Int /\ j <= n /\ 1 \in 1 .. n - j + 1 /\ j + 1 - 1 = j /\ j \in j .. n
    BY <1>1, <1>3
  <2>3. \A i \in j .. n : w[i] \in S
    BY <1>4, <2>1
  <2> HIDE DEF j
  <2>4. b \in Seq(S) /\ Len(b) = n - j + 1 /\ b[1] = w[j]
    BY <2>2, <2>3, SubSeqProperties
  <2>5. Star \in S /\ 1 \in 1 .. Len(b)
    BY <2>2, <2>4
  <2> HIDE DEF b, S
  <2>6. Append(b, Star)[1] = b[1]
    BY <2>4, <2>5, AppendProperties
  <2>7. s = Append(b, Star)
    BY <1>7 DEF b, j
  <2>8. w[j] # Star
    BY <1>4, <2>1, <2>2
  <2>. QED BY <2>4, <2>6, <2>7, <2>8 DEF WholeWord
<1>. QED BY <1>2, <1>5, <1>6, <1>7 DEF StringsAt

-----------------------------------------------------------------------------
(* Sorting *)

\* R puts the elements of S in an order
Orders(R, S) ==
  /\ \A x \in S : <<x, x>> \notin R
  /\ \A x, y \in S : x # y => <<x, y>> \in R \/ <<y, x>> \in R
  /\ \A x, y, z \in S : <<x, y>> \in R /\ <<y, z>> \in R => <<x, z>> \in R

\* Every finite set can be put into an order that has no ties
LEMMA SortExists ==
  ASSUME NEW S, IsFiniteSet(S), NEW R, Orders(R, S)
  PROVE  \E s \in [1 .. Cardinality(S) -> S] :
           \A m, n \in 1 .. Cardinality(S) : m < n => <<s[m], s[n]>> \in R
<1> DEFINE N == Cardinality(S)
           Below(x) == {y \in S : <<y, x>> \in R}
           rank == [x \in S |-> Cardinality(Below(x)) + 1]
<1>1. N \in Nat /\ IsFiniteSet(1 .. N) /\ Cardinality(1 .. N) = N
  <2>1. N \in Nat
    BY FS_CardinalityType
  <2> HIDE DEF N
  <2>2. 1 \in Int /\ N \in Int
    BY <2>1
  <2>3. IsFiniteSet(1 .. N) /\ Cardinality(1 .. N) = IF 1 > N THEN 0 ELSE N - 1 + 1
    BY <2>2, FS_Interval
  <2>. QED BY <2>1, <2>3
<1>2. ASSUME NEW x \in S
      PROVE  IsFiniteSet(Below(x)) /\ Cardinality(Below(x)) \in Nat /\ Cardinality(Below(x)) < N
  <2>1. Below(x) \in SUBSET S /\ x \notin Below(x)
    BY DEF Orders
  <2>2. IsFiniteSet(Below(x)) /\ Cardinality(Below(x)) <= N
        /\ (N = Cardinality(Below(x)) => S = Below(x))
    BY <2>1, FS_Subset
  <2>3. Cardinality(Below(x)) \in Nat
    BY <2>2, FS_CardinalityType
  <2>4. Cardinality(Below(x)) # N
    BY <2>1, <2>2
  <2> HIDE DEF Below, N
  <2>. QED BY <1>1, <2>2, <2>3, <2>4
<1>3. ASSUME NEW x \in S, NEW y \in S, <<x, y>> \in R
      PROVE  Cardinality(Below(x)) < Cardinality(Below(y))
  <2>1. Below(x) \in SUBSET Below(y) /\ x \in Below(y) /\ x \notin Below(x)
    BY <1>3 DEF Orders
  <2>2. /\ Cardinality(Below(x)) <= Cardinality(Below(y))
        /\ Cardinality(Below(y)) = Cardinality(Below(x)) => Below(y) = Below(x)
    BY <1>2, <2>1, FS_Subset
  <2>3. Cardinality(Below(x)) # Cardinality(Below(y))
    BY <2>1, <2>2
  <2>4. Cardinality(Below(x)) \in Nat /\ Cardinality(Below(y)) \in Nat
    BY <1>2
  <2> HIDE DEF Below
  <2>. QED BY <2>2, <2>3, <2>4
<1> HIDE DEF N, Below
<1>4. rank \in [S -> 1 .. N]
  BY <1>1, <1>2
<1>5. \A x, y \in S : <<x, y>> \in R => rank[x] < rank[y]
  BY <1>2, <1>3
<1>6. \A x \in S : rank[x] \in 1 .. N
  BY <1>4
<1> HIDE DEF rank
<1>7. \A x, y \in S : rank[x] = rank[y] => x = y
  <2>1. ASSUME NEW x \in S, NEW y \in S, rank[x] = rank[y], x # y
        PROVE  FALSE
    <3>1. rank[x] < rank[y] \/ rank[y] < rank[x]
      BY <1>5, <2>1 DEF Orders
    <3>2. rank[x] \in Int /\ rank[y] \in Int
      BY <1>1, <1>6
    <3>. QED BY <2>1, <3>1, <3>2
  <2>. QED BY <2>1
<1>8. rank \in Injection(S, 1 .. N)
  BY <1>4, <1>7, Fun_IsInj
<1>9. rank \in Surjection(S, 1 .. N)
  BY <1>1, <1>8, FS_Injection DEF N
<1>10. \A n \in 1 .. N : \E x \in S : rank[x] = n
  BY <1>9, Fun_SurjectionProperties
<1> DEFINE s == [n \in 1 .. N |-> CHOOSE x \in S : rank[x] = n]
<1>11. \A n \in 1 .. N : s[n] \in S /\ rank[s[n]] = n
  BY <1>10
<1>12. s \in [1 .. N -> S]
  BY <1>11
<1> HIDE DEF s
<1>13. ASSUME NEW m \in 1 .. N, NEW n \in 1 .. N, m < n
       PROVE  <<s[m], s[n]>> \in R
  <2>1. s[m] \in S /\ s[n] \in S /\ rank[s[m]] = m /\ rank[s[n]] = n
    BY <1>11
  <2>2. s[m] # s[n]
    BY <1>13, <2>1
  <2>3. <<s[n], s[m]>> \notin R
    BY <1>5, <1>13, <2>1
  <2>. QED BY <2>1, <2>2, <2>3 DEF Orders
<1>. QED BY <1>12, <1>13 DEF N

\* Nothing is left out
LEMMA SortIsComplete ==
  ASSUME NEW S, IsFiniteSet(S), NEW s \in [1 .. Cardinality(S) -> S],
         \A m, n \in 1 .. Cardinality(S) : m < n => s[m] # s[n]
  PROVE  \A x \in S : \E m \in 1 .. Cardinality(S) : s[m] = x
<1> DEFINE N == Cardinality(S)
<1>1. N \in Nat
  BY FS_CardinalityType
<1>2. IsFiniteSet(1 .. N) /\ Cardinality(1 .. N) = N
  <2> HIDE DEF N
  <2>1. 1 \in Int /\ N \in Int
    BY <1>1
  <2>2. IsFiniteSet(1 .. N) /\ Cardinality(1 .. N) = IF 1 > N THEN 0 ELSE N - 1 + 1
    BY <2>1, FS_Interval
  <2>. QED BY <1>1, <2>2
<1>3. \A m, n \in 1 .. N : s[m] = s[n] => m = n
  <2>1. ASSUME NEW m \in 1 .. N, NEW n \in 1 .. N, s[m] = s[n], m # n
        PROVE  FALSE
    <3>1. m < n \/ n < m
      BY <1>1, <2>1
    <3>. QED BY <2>1, <3>1
  <2>. QED BY <2>1
<1>4. s \in Injection(1 .. N, S)
  BY <1>3, Fun_IsInj
<1>5. s \in Surjection(1 .. N, S)
  BY <1>2, <1>4, FS_Injection
<1>6. \A x \in S : \E m \in 1 .. N : s[m] = x
  <2> HIDE DEF N
  <2>. QED BY <1>5 DEF Surjection
<1>. QED BY <1>6

-----------------------------------------------------------------------------
(* The patterns of the dictionary, and the second use of the two loops *)

\* A set made from a finite one, element by element, is finite
LEMMA ImageIsFinite ==
  ASSUME NEW S, IsFiniteSet(S), NEW f, NEW T, T = {f[x] : x \in S}
  PROVE  IsFiniteSet(T)
<1> DEFINE g == [x \in S |-> f[x]]
<1>1. g \in Surjection(S, T)
  <2>1. g \in [S -> T] /\ \A t \in T : \E x \in S : g[x] = t
    OBVIOUS
  <2> HIDE DEF g
  <2>. QED BY <2>1, Fun_IsSurj
<1>. QED BY <1>1, FS_Surjection

\* The pattern is one of a word of the dictionary
FromDictionary(p) ==
  \E w \in dictionary : \E n \in 1 .. Len(PatternsOf(Spelling[w])) :
    PartSpelling[p] = PatternsOf(Spelling[w])[n]

PartsOfWords(words, seq) ==
  /\ seq \in Seq(Parts)
  /\ \A k \in 1 .. Len(seq) : \E w \in words : \E n \in 1 .. Len(PatternsOf(Spelling[w])) :
       PartSpelling[seq[k]] = PatternsOf(Spelling[w])[n]

\* A pattern of the strings is found by its number
LEMMA PartNumberIsRight ==
  ASSUME NEW w \in Words, NEW n \in 1 .. Len(PatternsOf(Spelling[w]))
  PROVE  /\ PartNumber(PatternsOf(Spelling[w])[n]) \in Parts
         /\ PartSpelling[PartNumber(PatternsOf(Spelling[w])[n])] = PatternsOf(Spelling[w])[n]
BY WordRepAssumption DEF PartNumber

\* A finite set of words has all its words in its order
LEMMA WordsAreSorted ==
  ASSUME NEW words, words \subseteq Words, IsFiniteSet(words)
  PROVE  Sorted(words, LAMBDA v, w : v > w) \in [1 .. Cardinality(words) -> words]
<1> DEFINE R == {p \in words \X words : p[1] > p[2]}
<1>1. \A x, y \in words : <<x, y>> \in R <=> x > y
  OBVIOUS
<1>2. \A x \in words : x \in Nat
  BY TopAssumption
<1> HIDE DEF R
<1>3. Orders(R, words)
  BY <1>1, <1>2 DEF Orders
<1>4. \E s \in [1 .. Cardinality(words) -> words] :
        \A m, n \in 1 .. Cardinality(words) : m < n => <<s[m], s[n]>> \in R
  BY <1>3, SortExists
<1>5. \E s \in [1 .. Cardinality(words) -> words] :
        \A m, n \in DOMAIN s : m < n => s[m] > s[n]
  <2>1. PICK s \in [1 .. Cardinality(words) -> words] :
        \A m, n \in 1 .. Cardinality(words) : m < n => <<s[m], s[n]>> \in R
    BY <1>4
  <2>2. \A m, n \in DOMAIN s : m < n => s[m] > s[n]
    BY <1>1, <2>1
  <2>. QED BY <2>2
<1>. QED BY <1>5, Zenon DEF Sorted

\* The corpus of the second use are patterns of the words of the dictionary
LEMMA PartsOfTheDictionary ==
  ASSUME NEW words, words \subseteq Words, IsFiniteSet(words)
  PROVE  PartsOfWords(words, PartsOf(words))
<1> DEFINE S == Seq(Letters \cup {Star})
           inOrder == Sorted(words, LAMBDA v, w : v > w)
           patterns == [n \in 1 .. Len(inOrder) |-> PatternsOf(Spelling[inOrder[n]])]
           strings == FlattenSeq(patterns)
<1>1. inOrder \in [1 .. Cardinality(words) -> words] /\ Cardinality(words) \in Nat
  BY WordsAreSorted, FS_CardinalityType
<1>2. PartsOf(words) = [n \in 1 .. Len(strings) |-> PartNumber(strings[n])]
  BY DEF PartsOf
<1> HIDE DEF inOrder
<1>3. Len(inOrder) = Cardinality(words)
  BY <1>1
<1>4. \A n \in 1 .. Len(inOrder) : inOrder[n] \in words /\ inOrder[n] \in Words
  BY <1>1, <1>3
<1>5. \A w \in Words : Spelling[w] \in Seq(Letters) /\ PatternsOf(Spelling[w]) \in Seq(S)
  BY WordRepAssumption, PatternsOfRange
<1>6. patterns \in Seq(Seq(S)) /\ Len(patterns) = Len(inOrder)
  BY <1>1, <1>3, <1>4, <1>5
<1>7. \A k \in 1 .. Len(inOrder) : patterns[k] = PatternsOf(Spelling[inOrder[k]])
  OBVIOUS
<1> HIDE DEF patterns, S
<1>8. /\ strings \in Seq(S)
      /\ \A n \in 1 .. Len(strings) :
           \E k \in 1 .. Len(patterns) : \E m \in 1 .. Len(patterns[k]) :
             strings[n] = patterns[k][m]
  BY <1>6, FlattenSeqRange
<1> HIDE DEF strings
<1>9. Len(strings) \in Nat
  BY <1>8
<1>10. ASSUME NEW n \in 1 .. Len(strings)
       PROVE  /\ PartNumber(strings[n]) \in Parts
              /\ \E w \in words : \E m \in 1 .. Len(PatternsOf(Spelling[w])) :
                   PartSpelling[PartNumber(strings[n])] = PatternsOf(Spelling[w])[m]
  <2>1. PICK k \in 1 .. Len(inOrder) : \E m \in 1 .. Len(patterns[k]) :
               strings[n] = patterns[k][m]
    BY <1>6, <1>8
  <2>2. PICK m \in 1 .. Len(PatternsOf(Spelling[inOrder[k]])) :
               strings[n] = PatternsOf(Spelling[inOrder[k]])[m]
    BY <1>7, <2>1
  <2>3. inOrder[k] \in words /\ inOrder[k] \in Words
    BY <1>4
  <2>4. /\ PartNumber(strings[n]) \in Parts
        /\ PartSpelling[PartNumber(strings[n])] = PatternsOf(Spelling[inOrder[k]])[m]
    BY <2>2, <2>3, PartNumberIsRight
  <2>. QED BY <2>3, <2>4
<1>11. PartsOf(words) \in Seq(Parts) /\ Len(PartsOf(words)) = Len(strings)
  BY <1>2, <1>9, <1>10
<1>12. \A n \in 1 .. Len(strings) : PartsOf(words)[n] = PartNumber(strings[n])
  BY <1>2
<1>. QED BY <1>10, <1>11, <1>12 DEF PartsOfWords

-----------------------------------------------------------------------------
PartsInv ==
  /\ partsHash \in PartHashes
  /\ PartsOfWords(dictionary, partsCorpus)
  /\ partsNext \in Nat \ {0}
  /\ partsCounts \in [Sketches -> [Rows -> [Columns -> Nat]]]
  /\ partsBest \subseteq [word : Parts, hits : Nat, token : Nat] /\ IsFiniteSet(partsBest)
  /\ topParts \subseteq [word : Parts, hits : Nat] /\ IsFiniteSet(topParts)
  /\ \A e \in partsBest \cup topParts : FromDictionary(e.word)
  /\ step = "count_words" => partsBest = {} /\ topParts = {}

\* get_count() of a pattern is a number
LEMMA PartHits ==
  ASSUME PartsInv, NEW p \in Parts
  PROVE  P!Hits(p) \in Nat
<1>1. PICK r \in Rows :
        GetCount(partsCounts[WordCounts], partsHash, p) = partsCounts[WordCounts][r][partsHash[r][p]]
  <2>1. partsCounts[WordCounts] \in [Rows -> [Columns -> Nat]]
        /\ partsHash \in [Rows -> [Parts -> Columns]]
    BY TopAssumption, WordRepAssumption DEF PartsInv
  <2> DEFINE N == {partsCounts[WordCounts][r][partsHash[r][p]] : r \in Rows}
  <2>2. N \in SUBSET Nat /\ N # {}
    BY <2>1, ShapeAssumption
  <2>3. PICK n \in N : \A m \in N : n <= m
    BY <2>2, LeastNatural
  <2>4. Min(N) \in N
    BY <2>3, Zenon DEF Min
  <2>. QED BY <2>4 DEF GetCount
<1>2. P!Hits(p) = GetCount(partsCounts[WordCounts], partsHash, p)
  BY DEF P!Hits, P!GetCount, GetCount, P!Min, Min
<1>3. partsHash[r][p] \in Columns
  BY WordRepAssumption DEF PartsInv
<1>. QED BY <1>1, <1>2, <1>3, TopAssumption DEF PartsInv

\* What the second pass takes next is a pattern of the dictionary
LEMMA PartEntry ==
  ASSUME PartsInv, partsNext <= Len(partsCorpus)
  PROVE  /\ partsCorpus[partsNext] \in Parts
         /\ P!Entry(partsCorpus[partsNext]) \in [word : Parts, hits : Nat, token : Nat]
         /\ FromDictionary(P!Entry(partsCorpus[partsNext]).word)
<1>1. partsCorpus \in Seq(Parts) /\ partsNext \in Nat /\ partsNext # 0
  BY DEF PartsInv, PartsOfWords
<1>2. partsNext \in 1 .. Len(partsCorpus)
  BY <1>1
<1>3. partsCorpus[partsNext] \in Parts
  BY <1>1, <1>2
<1>4. P!Hits(partsCorpus[partsNext]) \in Nat
  BY <1>3, PartHits
<1>5. FromDictionary(partsCorpus[partsNext])
  BY <1>2 DEF PartsInv, PartsOfWords, FromDictionary
<1>. QED BY <1>1, <1>3, <1>4, <1>5 DEF P!Entry

\* The words, too: what is delivered is a finite set of words
DictInv ==
  /\ TopInv
  /\ topWords \subseteq [word : Words, hits : Nat] /\ IsFiniteSet(topWords)
  /\ dictionary \subseteq Words
  /\ vectors \subseteq dictionary

\* Nothing is counted and nothing is delivered in the beginning
LEMMA WordRepInvInit == WordRepInit => DictInv /\ PartsInv
<1> SUFFICES ASSUME WordRepInit PROVE DictInv /\ PartsInv
  OBVIOUS
<1>1. TopInv
  BY TopInvInit DEF WordRepInit
<1>2. IsFiniteSet({})
  BY FS_EmptySet
<1>3. DictInv
  BY <1>1, <1>2 DEF WordRepInit, Init, DictInv
<1>4. partsHash \in PartHashes
  BY WordRepAssumption DEF WordRepInit
<1>5. PartsOfWords(dictionary, partsCorpus)
  BY DEF WordRepInit, PartsOfWords
<1>6. partsCounts \in [Sketches -> [Rows -> [Columns -> Nat]]]
  BY DEF WordRepInit, P!SketchInit, P!NoCounts
<1>. QED BY <1>2, <1>3, <1>4, <1>5, <1>6 DEF WordRepInit, PartsInv

\* count_words delivers a finite set of words
LEMMA TopWordsStep ==
  ASSUME TopInv, topWords \subseteq [word : Words, hits : Nat], IsFiniteSet(topWords), [Next]_vars
  PROVE  TopInv' /\ topWords' \subseteq [word : Words, hits : Nat] /\ IsFiniteSet(topWords')
<1>1. TopInv'
  BY CountKeeps, StartKeeps, SkipKeeps, AddKeeps, ReplaceKeeps, DeliverKeeps DEF Next
<1>2. CASE Deliver
  <2> DEFINE f == [e \in best |-> [word |-> e.word, hits |-> e.hits]]
  <2>1. topWords' = {f[e] : e \in best}
    BY <1>2 DEF Deliver
  <2>2. \A e \in best : e.word \in Words /\ e.hits \in Nat
    BY DEF TopInv, TopTypeOK
  <2>3. topWords' \subseteq [word : Words, hits : Nat]
    BY <2>1, <2>2
  <2> HIDE DEF f
  <2>4. IsFiniteSet(best)
    BY DEF TopInv, TopTypeOK
  <2>5. IsFiniteSet(topWords')
    BY <2>1, <2>4, ImageIsFinite
  <2>. QED BY <1>1, <2>3, <2>5
<1>3. CASE ~Deliver
  <2>1. topWords' = topWords
    BY <1>3 DEF Next, vars, CountToken, StartSelecting, SkipMember, SkipRare, Add, Replace
  <2>. QED BY <1>1, <2>1
<1>. QED BY <1>2, <1>3

\* The dictionary is a finite set of words, and begins the second use
LEMMA WordVectsKeeps ==
  ASSUME DictInv, PartsInv, WordVects
  PROVE  DictInv' /\ PartsInv'
<1>1. dictionary' \subseteq Words /\ IsFiniteSet(dictionary')
  <2> DEFINE f == [t \in topWords |-> t.word]
  <2>1. dictionary' = {f[t] : t \in topWords}
    BY DEF WordVects
  <2>2. dictionary' \subseteq Words
    BY DEF WordVects, DictInv
  <2> HIDE DEF f
  <2>. QED BY <2>1, <2>2, ImageIsFinite DEF DictInv
<1>2. IsFiniteSet({}) /\ Cardinality({}) = 0
  BY FS_EmptySet
<1>3. TopInv'
  <2>1. TopTypeOK'
    <3>1. counts' \in [Sketches -> Counters]
      BY DEF WordVects, Counters, NoCounts
    <3>2. hash' \in Hashes /\ pass' = "done"
      BY DEF WordVects, DictInv, TopInv, TopTypeOK
    <3>3. corpus' \in Seq(Words) /\ next' \in 1 .. Len(corpus') + 1
      BY DEF WordVects
    <3>4. best' = {} /\ curWords' = {}
      BY DEF WordVects
    <3>. QED BY <1>2, <3>1, <3>2, <3>3, <3>4 DEF TopTypeOK
  <2>2. CountsFirst' /\ EntriesCurrent'
    BY DEF WordVects, CountsFirst, EntriesCurrent
  <2>3. QueueMatchesCurWords'
    BY <1>2, TopAssumption DEF WordVects, QueueMatchesCurWords
  <2>4. BestSoFar'
    BY DEF WordVects, BestSoFar, Seen
  <2>. QED BY <2>1, <2>2, <2>3, <2>4 DEF TopInv
<1>4. DictInv'
  BY <1>1, <1>2, <1>3 DEF WordVects, DictInv
<1>5. PartsOfWords(dictionary', partsCorpus')
  <2>1. PartsOfWords(dictionary', PartsOf(dictionary'))
    BY <1>1, PartsOfTheDictionary
  <2>. QED BY <2>1 DEF WordVects
<1>6. partsBest = {} /\ topParts = {}
  BY DEF WordVects, PartsInv
<1>7. /\ partsHash' \in PartHashes /\ step' = "basic_morph"
      /\ UNCHANGED <<partsCounts, partsNext, partsBest, topParts>>
  BY DEF WordVects
<1>8. PartsInv'
  BY <1>5, <1>6, <1>7 DEF PartsInv
<1>. QED BY <1>4, <1>8

\* What the two loops do to the patterns
LEMMA CountPartsKeeps ==
  ASSUME PartsInv, CountParts
  PROVE  PartsInv'
<1>1. UNCHANGED <<step, dictionary, Spelling>> /\ step = "basic_morph" /\ P!Next
  BY DEF CountParts
<1>2. \A p : FromDictionary(p)' <=> FromDictionary(p)
  BY <1>1 DEF FromDictionary
<1>3. CASE P!CountToken
  <2>1. /\ partsNext <= Len(partsCorpus) /\ partsNext' = partsNext + 1
        /\ P!Increment(WordCounts, partsCorpus[partsNext], 1)
        /\ UNCHANGED <<partsCorpus, partsPass, partsBest, curParts, topParts>>
    BY <1>3 DEF P!CountToken
  <2>2. partsCorpus[partsNext] \in Parts
    BY <2>1, PartEntry
  <2>3. partsHash \in [Rows -> [Parts -> Columns]]
    BY WordRepAssumption DEF PartsInv
  <2>4. /\ partsCounts' = [partsCounts EXCEPT ![WordCounts] =
               [r \in Rows |->
                 [partsCounts[WordCounts][r] EXCEPT ![partsHash[r][partsCorpus[partsNext]]] = @ + 1]]]
        /\ UNCHANGED partsHash
    BY <2>1 DEF P!Increment, P!Incremented
  <2>5. \A r \in Rows : partsCounts[WordCounts][r] \in [Columns -> Nat]
    BY TopAssumption DEF PartsInv
  <2>6. [r \in Rows |->
          [partsCounts[WordCounts][r] EXCEPT ![partsHash[r][partsCorpus[partsNext]]] = @ + 1]]
            \in [Rows -> [Columns -> Nat]]
    BY <2>2, <2>3, <2>5
  <2>7. partsCounts' \in [Sketches -> [Rows -> [Columns -> Nat]]]
    BY <2>4, <2>6 DEF PartsInv
  <2>. QED BY <1>1, <1>2, <2>1, <2>4, <2>7 DEF PartsInv
<1>4. CASE P!StartSelecting
  BY <1>1, <1>2, <1>4 DEF P!StartSelecting, P!sketchVars, PartsInv
<1>5. CASE P!SkipMember \/ P!SkipRare
  BY <1>1, <1>2, <1>5 DEF P!SkipMember, P!SkipRare, P!sketchVars, PartsInv
<1>6. CASE P!Add \/ P!Replace
  <2> DEFINE new == P!Entry(partsCorpus[partsNext])
  <2>1. /\ partsNext <= Len(partsCorpus) /\ partsNext' = partsNext + 1
        /\ UNCHANGED <<partsHash, partsCounts, partsCorpus, topParts>>
        /\ \E old : partsBest' = (partsBest \ old) \cup {new}
    <3>1. CASE P!Add
      <4>1. partsBest' = (partsBest \ {}) \cup {new}
        BY <3>1 DEF P!Add
      <4>. QED BY <3>1, <4>1 DEF P!Add, P!sketchVars
    <3>2. CASE P!Replace
      <4>1. \E e \in P!Tops : partsBest' = (partsBest \ {e}) \cup {new}
        BY <3>2 DEF P!Replace
      <4>. QED BY <3>2, <4>1 DEF P!Replace, P!sketchVars
    <3>. QED BY <1>6, <3>1, <3>2
  <2>2. new \in [word : Parts, hits : Nat, token : Nat] /\ FromDictionary(new.word)
    BY <2>1, PartEntry
  <2> HIDE DEF new
  <2>3. PICK old : partsBest' = (partsBest \ old) \cup {new}
    BY <2>1
  <2>4. IsFiniteSet(partsBest')
    <3>1. IsFiniteSet(partsBest \ old)
      <4>1. partsBest \ old \in SUBSET partsBest /\ IsFiniteSet(partsBest)
        BY DEF PartsInv
      <4>. QED BY <4>1, FS_Subset
    <3>. QED BY <2>3, <3>1, FS_AddElement
  <2>5. partsBest' \subseteq [word : Parts, hits : Nat, token : Nat]
    BY <2>2, <2>3 DEF PartsInv
  <2>6. \A e \in partsBest' \cup topParts : FromDictionary(e.word)
    BY <2>2, <2>3 DEF PartsInv
  <2>. QED BY <1>1, <1>2, <2>1, <2>4, <2>5, <2>6 DEF PartsInv
<1>7. CASE P!Deliver
  <2> DEFINE f == [e \in partsBest |-> [word |-> e.word, hits |-> e.hits]]
  <2>1. topParts' = {f[e] : e \in partsBest}
    BY <1>7 DEF P!Deliver
  <2>2. \A e \in partsBest : e.word \in Parts /\ e.hits \in Nat /\ FromDictionary(e.word)
    BY DEF PartsInv
  <2>3. topParts' \subseteq [word : Parts, hits : Nat] /\ \A e \in topParts' : FromDictionary(e.word)
    BY <2>1, <2>2
  <2> HIDE DEF f
  <2>4. IsFiniteSet(topParts')
    BY <2>1, ImageIsFinite DEF PartsInv
  <2>5. UNCHANGED <<partsHash, partsCounts, partsCorpus, partsNext, partsBest>>
    BY <1>7 DEF P!Deliver, P!sketchVars
  <2>. QED BY <1>1, <1>2, <2>2, <2>3, <2>4, <2>5 DEF PartsInv
<1>. QED BY <1>1, <1>3, <1>4, <1>5, <1>6, <1>7 DEF P!Next

\* What follows basic_morph leaves words and patterns as they are
LEMMA OtherStepsKeepParts ==
  ASSUME DictInv, PartsInv,
         UNCHANGED <<vars, dictionary, vectors, partsVars>>, step' # "count_words" \/ step' = step
  PROVE  DictInv' /\ PartsInv'
<1>1. TopInv'
  BY DeliverKeeps DEF DictInv
<1>2. topWords' = topWords
  BY DEF vars
<1>3. DictInv'
  BY <1>1, <1>2 DEF DictInv
<1>4. \A p : FromDictionary(p)' <=> FromDictionary(p)
  BY DEF FromDictionary
<1>. QED BY <1>3, <1>4 DEF PartsInv, partsVars

-----------------------------------------------------------------------------
(* The patterns in the order they are added *)

AllStrings ==
  [n \in 1 .. Len(SortedByHits) |-> PartSpelling[SortedByHits[n].word]] \o <<<<Digit>>>>

\* Every selected pattern has its place in the order, none before one seen more rarely
LEMMA HitsAreSorted ==
  ASSUME PartsInv
  PROVE  /\ Cardinality(topParts) \in Nat
         /\ SortedByHits \in [1 .. Cardinality(topParts) -> topParts]
         /\ \A m, n \in 1 .. Cardinality(topParts) : m < n =>
              SortedByHits[m] # SortedByHits[n] /\ SortedByHits[m].hits <= SortedByHits[n].hits
         /\ \A e \in topParts : \E m \in 1 .. Cardinality(topParts) : SortedByHits[m] = e
<1> DEFINE N == Cardinality(topParts)
           Less(e, f) == e.hits < f.hits \/ (e.hits = f.hits /\ e.word > f.word)
           R == {p \in topParts \X topParts : Less(p[1], p[2])}
<1>1. \A e \in topParts :
        /\ e.word \in Nat /\ e.hits \in Nat
        /\ e = [word |-> e.word, hits |-> e.hits]
  <2>1. topParts \subseteq [word : Parts, hits : Nat] /\ Parts \subseteq Nat
    BY WordRepAssumption DEF PartsInv
  <2>2. ASSUME NEW e \in [word : Parts, hits : Nat]
        PROVE  e.word \in Parts /\ e.hits \in Nat /\ e = [word |-> e.word, hits |-> e.hits]
    OBVIOUS
  <2> HIDE DEF N, Less, R
  <2>. QED BY <2>1, <2>2
<1>2. IsFiniteSet(topParts) /\ N \in Nat
  BY FS_CardinalityType DEF PartsInv
<1>3. \A x, y \in topParts : <<x, y>> \in R <=> Less(x, y)
  OBVIOUS
<1> HIDE DEF R, N
<1>4. Orders(R, topParts)
  <2>1. \A x \in topParts : <<x, x>> \notin R
    BY <1>1, <1>3
  <2>2. \A x, y \in topParts : x # y => <<x, y>> \in R \/ <<y, x>> \in R
    <3>1. ASSUME NEW x \in topParts, NEW y \in topParts, x # y
          PROVE  Less(x, y) \/ Less(y, x)
      <4>1. x.word # y.word \/ x.hits # y.hits
        BY <1>1, <3>1
      <4>. QED BY <1>1, <4>1
    <3>. QED BY <1>3, <3>1
  <2>3. \A x, y, z \in topParts : <<x, y>> \in R /\ <<y, z>> \in R => <<x, z>> \in R
    BY <1>1, <1>3
  <2>. QED BY <2>1, <2>2, <2>3 DEF Orders
<1>5. PICK s \in [1 .. N -> topParts] : \A m, n \in 1 .. N : m < n => <<s[m], s[n]>> \in R
  BY <1>2, <1>4, SortExists DEF N
<1>6. \A m, n \in DOMAIN s : m < n => Less(s[m], s[n])
  BY <1>3, <1>5
<1>7. /\ SortedByHits \in [1 .. N -> topParts]
      /\ \A m, n \in DOMAIN SortedByHits : m < n => Less(SortedByHits[m], SortedByHits[n])
  <2>1. \E t \in [1 .. Cardinality(topParts) -> topParts] :
          \A m, n \in DOMAIN t : m < n =>
            t[m].hits < t[n].hits \/ (t[m].hits = t[n].hits /\ t[m].word > t[n].word)
    BY <1>6 DEF N
  <2>. QED BY <2>1, Zenon DEF SortedByHits, Sorted, N
<1>8. ASSUME NEW m \in 1 .. N, NEW n \in 1 .. N, m < n
      PROVE  SortedByHits[m] # SortedByHits[n] /\ SortedByHits[m].hits <= SortedByHits[n].hits
  <2>1. Less(SortedByHits[m], SortedByHits[n]) /\ SortedByHits[m] \in topParts
        /\ SortedByHits[n] \in topParts
    BY <1>7, <1>8
  <2>. QED BY <1>1, <2>1
<1>9. \A e \in topParts : \E m \in 1 .. N : SortedByHits[m] = e
  BY <1>2, <1>7, <1>8, SortIsComplete DEF N
<1>. QED BY <1>2, <1>7, <1>8, <1>9 DEF N

Strings == Seq(Letters \cup {Star})

\* Every selected pattern has a spelling and a place
LEMMA SelectedSpelling ==
  ASSUME DictInv, PartsInv, NEW e \in topParts
  PROVE  /\ PartSpelling[e.word] \in Strings
         /\ \E w \in dictionary : \E n \in 1 .. Len(PatternsOf(Spelling[w])) :
              PartSpelling[e.word] = PatternsOf(Spelling[w])[n]
         /\ \A c \in Crcs : BucketOf(c, PartSpelling[e.word]) \in Buckets
<1>1. e.word \in Parts /\ FromDictionary(e.word)
  BY DEF PartsInv
<1>2. PICK w \in dictionary : \E n \in 1 .. Len(PatternsOf(Spelling[w])) :
         PartSpelling[e.word] = PatternsOf(Spelling[w])[n]
  BY <1>1 DEF FromDictionary
<1>3. Spelling[w] \in Seq(Letters)
  BY WordRepAssumption DEF DictInv
<1>4. PatternsOf(Spelling[w]) \in Seq(Strings)
  BY <1>3, PatternsOfRange DEF Strings
<1>5. PartSpelling[e.word] \in Strings
  <2> HIDE DEF Strings
  <2>. QED BY <1>2, <1>4
<1>. QED BY <1>1, <1>2, <1>5, WordRepAssumption

\* The strings that are added are those of the patterns in that order, and last #
LEMMA AllStringsAre ==
  ASSUME DictInv, PartsInv
  PROVE  LET N == Cardinality(topParts)
         IN  /\ AllStrings \in Seq(Strings) /\ N \in Nat /\ Len(AllStrings) = N + 1
             /\ \A n \in 1 .. N : AllStrings[n] = PartSpelling[SortedByHits[n].word]
             /\ AllStrings[N + 1] = <<Digit>>
             /\ \A n \in 1 .. N + 1 : \A c \in Crcs : BucketOf(c, AllStrings[n]) \in Buckets
<1> DEFINE N == Cardinality(topParts)
           a == [n \in 1 .. Len(SortedByHits) |-> PartSpelling[SortedByHits[n].word]]
           b == <<<<Digit>>>>
<1>1. /\ N \in Nat /\ SortedByHits \in [1 .. N -> topParts]
  BY HitsAreSorted
<1> HIDE DEF N
<1>2. Len(SortedByHits) = N
  BY <1>1
<1>3. \A n \in 1 .. N : SortedByHits[n] \in topParts
  BY <1>1
<1>4. \A n \in 1 .. N : PartSpelling[SortedByHits[n].word] \in Strings
  BY <1>3, SelectedSpelling
<1>5. a \in Seq(Strings) /\ Len(a) = N /\ \A n \in 1 .. N : a[n] = PartSpelling[SortedByHits[n].word]
  <2> HIDE DEF Strings
  <2>. QED BY <1>1, <1>2, <1>4
<1>6. b \in Seq(Strings) /\ Len(b) = 1 /\ b[1] = <<Digit>>
  <2>1. <<Digit>> \in Strings
    BY WordRepAssumption DEF Strings
  <2> HIDE DEF Strings
  <2>. QED BY <2>1
<1>7. AllStrings = a \o b
  BY DEF AllStrings
<1> HIDE DEF a, b, Strings
<1>8. /\ a \o b \in Seq(Strings) /\ Len(a \o b) = Len(a) + Len(b)
      /\ \A i \in 1 .. Len(a) + Len(b) : (a \o b)[i] = IF i <= Len(a) THEN a[i] ELSE b[i - Len(a)]
  BY <1>5, <1>6, ConcatProperties
<1>9. AllStrings \in Seq(Strings) /\ Len(AllStrings) = N + 1
  BY <1>5, <1>6, <1>7, <1>8
<1>10. ASSUME NEW n \in 1 .. N
       PROVE  AllStrings[n] = PartSpelling[SortedByHits[n].word]
  <2>1. n \in 1 .. Len(a) + Len(b) /\ n <= Len(a)
    BY <1>1, <1>5, <1>6
  <2>. QED BY <1>5, <1>7, <1>8, <2>1
<1>11. AllStrings[N + 1] = <<Digit>>
  <2>1. N + 1 \in 1 .. Len(a) + Len(b) /\ ~(N + 1 <= Len(a)) /\ N + 1 - Len(a) = 1
    BY <1>1, <1>5, <1>6
  <2>. QED BY <1>6, <1>7, <1>8, <2>1
<1>12. ASSUME NEW n \in 1 .. N + 1, NEW c \in Crcs
       PROVE  BucketOf(c, AllStrings[n]) \in Buckets
  <2>1. CASE n = N + 1
    BY <1>11, <2>1, WordRepAssumption
  <2>2. CASE n # N + 1
    <3>1. n \in 1 .. N
      BY <1>1, <2>2
    <3>. QED BY <1>3, <1>10, <3>1, SelectedSpelling
  <2>. QED BY <2>1, <2>2
<1>. QED BY <1>1, <1>9, <1>10, <1>11, <1>12 DEF N

-----------------------------------------------------------------------------
(* Adding them *)

\* The first done strings are in the table, but for those that were displaced
AddedUpTo(done) ==
  /\ substrs = SubSeq(AllStrings, done + 1, Len(AllStrings))
  /\ \A m \in 1 .. done :
       /\ Len(AllStrings[m]) <= maxSubstrLen
       /\ \/ InTable(table, crc, AllStrings[m])
          \/ \E n \in m + 1 .. done : BucketOf(crc, AllStrings[n]) = BucketOf(crc, AllStrings[m])

Adding == step \in {"add_substrings", "features", "failed"}

MorphInv ==
  /\ step \in {"count_words", "abandoned", "basic_morph", "add_substrings", "features", "failed"}
  /\ crc \in Crcs
  /\ maxSubstrLen \in Nat
  /\ table = [b \in Buckets |-> table[b]]
  /\ Adding => \E done \in 0 .. Len(AllStrings) : AddedUpTo(done)
  /\ step \in {"features", "failed"} => substrs = <<>>

\* When none is left to add, all were added
LEMMA EverythingIsAdded ==
  ASSUME DictInv, PartsInv, MorphInv, Adding, substrs = <<>>
  PROVE  AddedUpTo(Len(AllStrings))
<1>1. PICK done \in 0 .. Len(AllStrings) : AddedUpTo(done)
  BY DEF MorphInv
<1>2. AllStrings \in Seq(Strings) /\ Len(AllStrings) \in Nat
  BY AllStringsAre
<1>3. CASE done < Len(AllStrings)
  <2>1. done + 1 \in Int /\ done + 1 <= Len(AllStrings) /\ Len(AllStrings) \in Int
    BY <1>2, <1>3
  <2>2. \A i \in done + 1 .. Len(AllStrings) : AllStrings[i] \in Strings
    <3>1. \A i \in done + 1 .. Len(AllStrings) : i \in 1 .. Len(AllStrings)
      BY <1>2
    <3> HIDE DEF Strings
    <3>. QED BY <1>2, <3>1
  <2>3. substrs = SubSeq(AllStrings, done + 1, Len(AllStrings))
    BY <1>1 DEF AddedUpTo
  <2>4. Len(substrs) = Len(AllStrings) - (done + 1) + 1
    <3> HIDE DEF Strings, AllStrings
    <3>1. Len(SubSeq(AllStrings, done + 1, Len(AllStrings)))
            = IF done + 1 <= Len(AllStrings) THEN Len(AllStrings) - (done + 1) + 1 ELSE 0
      BY <2>1, <2>2, SubSeqProperties, Zenon
    <3>. QED BY <2>1, <2>3, <3>1
  <2>5. Len(substrs) = 0
    BY EmptySeq
  <2>. QED BY <1>2, <1>3, <2>4, <2>5
<1>4. CASE ~(done < Len(AllStrings))
  <2>1. done = Len(AllStrings)
    BY <1>2, <1>4
  <2>. QED BY <1>1, <2>1
<1>. QED BY <1>3, <1>4

\* Which rows there are, and what was asked for
AskedInv ==
  /\ step = "features" => LearnedRows # {} /\ rows = Max(LearnedRows) + 1
  /\ asked # <<>> => step = "features" /\ \E w \in Queries : asked = Converted(w)

\* The strings depend on the selected patterns alone
LEMMA SameStrings ==
  ASSUME topParts' = topParts
  PROVE  AllStrings' = AllStrings
<1>1. SortedByHits' = SortedByHits
  BY DEF SortedByHits, Sorted
<1>. QED BY <1>1 DEF AllStrings

\* In the beginning there are no patterns, and no features were asked for
LEMMA MorphInvInit == WordRepInit => MorphInv /\ AskedInv
<1> SUFFICES ASSUME WordRepInit PROVE MorphInv /\ AskedInv
  OBVIOUS
<1>1. crc \in Crcs
  BY SubstringAssumption DEF WordRepInit
<1>2. table = [b \in Buckets |-> table[b]]
  BY DEF WordRepInit, EmptyTable
<1>. QED BY <1>1, <1>2 DEF WordRepInit, MorphInv, AskedInv, Adding

\* Before the patterns are sorted nothing is said about them
LEMMA EarlyKeepsMorph ==
  ASSUME MorphInv, AskedInv, ~Adding, UNCHANGED morphVars,
         step' \in {"count_words", "abandoned", "basic_morph"}
  PROVE  MorphInv' /\ AskedInv'
<1>1. asked = <<>>
  BY DEF AskedInv, Adding
<1>. QED BY <1>1 DEF MorphInv, AskedInv, Adding, morphVars

\* After the sort, no string is added yet
LEMMA SortKeepsMorph ==
  ASSUME DictInv, PartsInv, MorphInv, AskedInv, SortSubstrings
  PROVE  MorphInv' /\ AskedInv'
<1>1. /\ step = "basic_morph" /\ step' = "add_substrings" /\ crc' \in Crcs
      /\ UNCHANGED <<topParts, table, maxSubstrLen, asked>> /\ substrs' = AllStrings
  BY DEF SortSubstrings, AllStrings, partsVars
<1>2. AllStrings' = AllStrings
  BY <1>1, SameStrings
<1>3. AllStrings \in Seq(Strings) /\ Len(AllStrings) \in Nat /\ 0 \in 0 .. Len(AllStrings)
  BY AllStringsAre
<1>4. SubSeq(AllStrings, 1, Len(AllStrings)) = AllStrings
  BY <1>3, SubSeqFull
<1>5. AddedUpTo(0)'
  BY <1>1, <1>2, <1>3, <1>4 DEF AddedUpTo
<1>6. MorphInv'
  BY <1>1, <1>2, <1>3, <1>5 DEF MorphInv
<1>. QED BY <1>1, <1>6 DEF AskedInv

\* The next string is added, and takes its place from whatever had it
LEMMA AddKeepsMorph ==
  ASSUME DictInv, PartsInv, MorphInv, AskedInv, AddSubstring
  PROVE  MorphInv' /\ AskedInv'
<1>1. /\ step = "add_substrings" /\ substrs # <<>>
      /\ UNCHANGED <<step, topParts, crc, asked>>
      /\ table' = Added(table, crc, Head(substrs))
      /\ maxSubstrLen' = IF Len(Head(substrs)) > maxSubstrLen THEN Len(Head(substrs)) ELSE maxSubstrLen
      /\ substrs' = Tail(substrs)
  BY DEF AddSubstring, partsVars
<1>2. AllStrings' = AllStrings
  BY <1>1, SameStrings
<1>3. AllStrings \in Seq(Strings) /\ Len(AllStrings) \in Nat
  BY AllStringsAre
<1>4. PICK done \in 0 .. Len(AllStrings) : AddedUpTo(done)
  BY <1>1 DEF MorphInv, Adding
<1>5. done \in Nat /\ done < Len(AllStrings)
  <2>1. done = Len(AllStrings) => substrs = <<>>
    <3>1. done = Len(AllStrings)
            => done + 1 \in Int /\ Len(AllStrings) \in Int /\ Len(AllStrings) < done + 1
      BY <1>3
    <3>. QED BY <1>4, <3>1, SubSeqEmpty DEF AddedUpTo
  <2>. QED BY <1>1, <1>3, <2>1
<1> DEFINE s == AllStrings[done + 1]
<1>6. Head(substrs) = s /\ Tail(substrs) = SubSeq(AllStrings, done + 2, Len(AllStrings))
  <2>1. /\ done + 1 \in 1 .. Len(AllStrings) /\ Len(AllStrings) \in done + 1 .. Len(AllStrings)
        /\ (done + 1) + 1 = done + 2
    BY <1>3, <1>5
  <2>2. substrs = SubSeq(AllStrings, done + 1, Len(AllStrings))
    BY <1>4 DEF AddedUpTo
  <2>. QED BY <1>3, <2>1, <2>2, HeadTailOfSubSeq
<1>7. s \in Strings /\ Len(s) \in Nat /\ BucketOf(crc, s) \in Buckets
  <2>1. done + 1 \in 1 .. Len(AllStrings)
    BY <1>3, <1>5
  <2>2. s \in Strings
    <3> HIDE DEF Strings
    <3>. QED BY <1>3, <2>1
  <2>3. Len(s) \in Nat
    BY <2>2 DEF Strings
  <2>4. BucketOf(crc, s) \in Buckets
    <3>1. Len(AllStrings) = Cardinality(topParts) + 1
      BY AllStringsAre
    <3>2. \A n \in 1 .. Cardinality(topParts) + 1 : \A c \in Crcs :
            BucketOf(c, AllStrings[n]) \in Buckets
      BY AllStringsAre
    <3>. QED BY <2>1, <3>1, <3>2 DEF MorphInv
  <2>. QED BY <2>2, <2>3, <2>4
<1> HIDE DEF s
<1>8. /\ table' = [table EXCEPT ![BucketOf(crc, s)] = IdOf(crc, s)]
      /\ table = [b \in Buckets |-> table[b]]
  BY <1>1, <1>6 DEF Added, MorphInv
<1>9. /\ table' = [b \in Buckets |-> table'[b]]
      /\ table'[BucketOf(crc, s)] = IdOf(crc, s)
      /\ \A b \in Buckets : b # BucketOf(crc, s) => table'[b] = table[b]
  BY <1>7, <1>8
<1>10. maxSubstrLen' \in Nat /\ maxSubstrLen <= maxSubstrLen' /\ Len(s) <= maxSubstrLen'
  BY <1>1, <1>6, <1>7 DEF MorphInv
<1>11. ASSUME NEW m \in 1 .. done + 1
       PROVE  /\ Len(AllStrings[m]) <= maxSubstrLen'
              /\ \/ InTable(table', crc, AllStrings[m])
                 \/ \E n \in m + 1 .. done + 1 : BucketOf(crc, AllStrings[n]) = BucketOf(crc, AllStrings[m])
  <2>1. CASE m = done + 1
    BY <1>9, <1>10, <2>1 DEF InTable, s
  <2>2. CASE m # done + 1
    <3>1. m \in 1 .. done /\ m \in 1 .. Len(AllStrings) /\ m \in Nat
      BY <1>3, <1>5, <2>2
    <3>2. /\ Len(AllStrings[m]) <= maxSubstrLen
          /\ \/ InTable(table, crc, AllStrings[m])
             \/ \E n \in m + 1 .. done : BucketOf(crc, AllStrings[n]) = BucketOf(crc, AllStrings[m])
      BY <1>4, <3>1 DEF AddedUpTo
    <3>3. Len(AllStrings[m]) <= maxSubstrLen'
      <4>1. AllStrings[m] \in Strings
        <5> HIDE DEF Strings
        <5>. QED BY <1>3, <3>1
      <4>2. Len(AllStrings[m]) \in Nat /\ maxSubstrLen \in Nat
        BY <4>1 DEF Strings, MorphInv
      <4>. QED BY <1>10, <3>2, <4>2
    <3>4. BucketOf(crc, AllStrings[m]) \in Buckets
      <4>1. Len(AllStrings) = Cardinality(topParts) + 1
        BY AllStringsAre
      <4>2. \A n \in 1 .. Cardinality(topParts) + 1 : \A c \in Crcs :
              BucketOf(c, AllStrings[n]) \in Buckets
        BY AllStringsAre
      <4>. QED BY <3>1, <4>1, <4>2 DEF MorphInv
    <3>5. CASE BucketOf(crc, AllStrings[m]) = BucketOf(crc, s)
      <4>1. done + 1 \in m + 1 .. done + 1
        BY <1>5, <3>1
      <4>. QED BY <3>3, <3>5, <4>1 DEF s
    <3>6. CASE InTable(table, crc, AllStrings[m]) /\ BucketOf(crc, AllStrings[m]) # BucketOf(crc, s)
      BY <1>9, <3>3, <3>4, <3>6 DEF InTable
    <3>7. CASE \E n \in m + 1 .. done : BucketOf(crc, AllStrings[n]) = BucketOf(crc, AllStrings[m])
      <4>1. PICK n \in m + 1 .. done : BucketOf(crc, AllStrings[n]) = BucketOf(crc, AllStrings[m])
        BY <3>7
      <4>2. n \in m + 1 .. done + 1
        BY <1>5, <3>1
      <4>. QED BY <3>3, <4>1, <4>2
    <3>. QED BY <3>2, <3>5, <3>6, <3>7
  <2>. QED BY <2>1, <2>2
<1>12. AddedUpTo(done + 1)'
  <2>1. substrs' = SubSeq(AllStrings, (done + 1) + 1, Len(AllStrings))
    BY <1>1, <1>5, <1>6
  <2>. QED BY <1>1, <1>2, <1>11, <2>1 DEF AddedUpTo
<1>13. done + 1 \in 0 .. Len(AllStrings)
  BY <1>3, <1>5
<1>14. MorphInv'
  BY <1>1, <1>2, <1>9, <1>10, <1>12, <1>13 DEF MorphInv
<1>15. AskedInv'
  BY <1>1 DEF AskedInv
<1>. QED BY <1>14, <1>15

\* Afterwards the set is only read
LEMMA ReadingKeepsMorph ==
  ASSUME MorphInv, Adding, Adding', UNCHANGED <<topParts, substrs, crc, table, maxSubstrLen>>,
         step' \in {"features", "failed"} => substrs = <<>>
  PROVE  MorphInv'
<1>1. AllStrings' = AllStrings
  BY SameStrings
<1>2. \A done : AddedUpTo(done) <=> AddedUpTo(done)'
  BY <1>1 DEF AddedUpTo
<1>. QED BY <1>1, <1>2 DEF MorphInv, Adding

\* Features are read from the set as it was when the rows were learned
LEMMA FeaturesKeepMorph ==
  ASSUME MorphInv, AskedInv, CcaMorph \/ CcaFails \/ \E w \in Queries : GetFeatureVector(w)
  PROVE  MorphInv' /\ AskedInv'
<1>1. CASE CcaMorph
  <2>1. /\ step = "add_substrings" /\ step' = "features" /\ substrs = <<>>
        /\ UNCHANGED <<topParts, substrs, crc, table, maxSubstrLen, asked, vectors>>
        /\ LearnedRows # {} /\ rows' = Max(LearnedRows) + 1
    BY <1>1 DEF CcaMorph, partsVars
  <2>2. LearnedRows' = LearnedRows
    BY <2>1 DEF LearnedRows, HitsOf
  <2>3. asked = <<>>
    BY <2>1 DEF AskedInv
  <2>. QED BY <2>1, <2>2, <2>3, ReadingKeepsMorph DEF Adding, AskedInv
<1>2. CASE CcaFails
  <2>1. /\ step = "add_substrings" /\ step' = "failed" /\ substrs = <<>>
        /\ UNCHANGED <<topParts, substrs, crc, table, maxSubstrLen, asked>>
    BY <1>2 DEF CcaFails, partsVars, morphVars
  <2>. QED BY <2>1, ReadingKeepsMorph DEF Adding, AskedInv
<1>3. CASE \E w \in Queries : GetFeatureVector(w)
  <2>1. PICK w \in Queries : GetFeatureVector(w)
    BY <1>3
  <2>2. /\ step = "features"
        /\ asked' = Converted(w)
        /\ UNCHANGED <<step, topParts, substrs, crc, table, maxSubstrLen, vectors, rows>>
    BY <2>1 DEF GetFeatureVector, partsVars
  <2>3. LearnedRows' = LearnedRows
    BY <2>2 DEF LearnedRows, HitsOf
  <2>4. AskedInv'
    BY <2>2, <2>3 DEF AskedInv
  <2>5. substrs = <<>>
    BY <2>2 DEF MorphInv
  <2>6. MorphInv'
    BY <2>2, <2>5, ReadingKeepsMorph DEF Adding
  <2>. QED BY <2>4, <2>6
<1>. QED BY <1>1, <1>2, <1>3

WordRepInv == DictInv /\ PartsInv /\ MorphInv /\ AskedInv

\* Every step of wordrep -e keeps the four parts of the invariant
LEMMA WordRepStep == WordRepInv /\ [WordRepNext]_allVars => WordRepInv'
<1> SUFFICES ASSUME WordRepInv, [WordRepNext]_allVars PROVE WordRepInv'
  OBVIOUS
<1> USE DEF WordRepInv
<1>1. CASE CountWords
  <2>1. /\ step = "count_words" /\ Next
        /\ UNCHANGED <<step, dictionary, vectors, partsVars, morphVars>>
    BY <1>1 DEF CountWords
  <2>2. TopInv' /\ topWords' \subseteq [word : Words, hits : Nat] /\ IsFiniteSet(topWords')
    BY <2>1, TopWordsStep DEF DictInv
  <2>3. DictInv'
    BY <2>1, <2>2 DEF DictInv
  <2>4. PartsInv'
    BY <2>1 DEF PartsInv, partsVars, FromDictionary
  <2>. QED BY <2>1, <2>3, <2>4, EarlyKeepsMorph DEF Adding
<1>2. CASE WordVects
  <2>1. step = "count_words" /\ step' = "basic_morph" /\ UNCHANGED morphVars
    BY <1>2 DEF WordVects
  <2>. QED BY <1>2, <2>1, WordVectsKeeps, EarlyKeepsMorph DEF Adding
<1>8. CASE WordVectsFails
  <2>1. step = "count_words" /\ step' = "abandoned"
        /\ UNCHANGED <<vars, dictionary, vectors, partsVars, morphVars>>
    BY <1>8 DEF WordVectsFails
  <2>2. DictInv' /\ PartsInv'
    <3>1. TopInv'
      BY <2>1, DeliverKeeps DEF DictInv
    <3>. QED BY <2>1, <3>1 DEF DictInv, PartsInv, vars, partsVars, FromDictionary
  <2>. QED BY <2>1, <2>2, EarlyKeepsMorph DEF Adding
<1>3. CASE CountParts
  <2>1. step = "basic_morph" /\ UNCHANGED <<vars, step, dictionary, vectors, morphVars>>
    BY <1>3 DEF CountParts
  <2>2. DictInv'
    <3>1. TopInv'
      BY <2>1, DeliverKeeps DEF DictInv
    <3>. QED BY <2>1, <3>1 DEF DictInv, vars
  <2>. QED BY <1>3, <2>1, <2>2, CountPartsKeeps, EarlyKeepsMorph DEF Adding
<1>4. CASE SortSubstrings
  <2>1. UNCHANGED <<vars, dictionary, vectors, partsVars>> /\ step' = "add_substrings"
    BY <1>4 DEF SortSubstrings
  <2>. QED BY <1>4, <2>1, OtherStepsKeepParts, SortKeepsMorph
<1>5. CASE AddSubstring
  <2>1. UNCHANGED <<vars, dictionary, vectors, partsVars>> /\ step' = step
    BY <1>5 DEF AddSubstring
  <2>. QED BY <1>5, <2>1, OtherStepsKeepParts, AddKeepsMorph
<1>6. CASE CcaMorph \/ CcaFails \/ \E w \in Queries : GetFeatureVector(w)
  <2>1. UNCHANGED <<vars, dictionary, vectors, partsVars>> /\ step' # "count_words"
    BY <1>6 DEF CcaMorph, CcaFails, GetFeatureVector
  <2>. QED BY <1>6, <2>1, OtherStepsKeepParts, FeaturesKeepMorph
<1>7. CASE UNCHANGED allVars
  <2>1. UNCHANGED <<vars, step, dictionary, vectors, partsVars, morphVars>>
    BY <1>7 DEF allVars
  <2>2. DictInv' /\ PartsInv'
    BY <2>1, OtherStepsKeepParts
  <2>3. MorphInv' /\ AskedInv'
    <3>1. AllStrings' = AllStrings /\ LearnedRows' = LearnedRows
      <4>1. topParts' = topParts
        BY <2>1 DEF partsVars
      <4>2. LearnedRows' = LearnedRows
        BY <2>1 DEF LearnedRows, HitsOf, morphVars
      <4>. QED BY <4>1, <4>2, SameStrings
    <3>2. \A done : AddedUpTo(done) <=> AddedUpTo(done)'
      BY <2>1, <3>1 DEF AddedUpTo, morphVars
    <3>. QED BY <2>1, <3>1, <3>2 DEF MorphInv, AskedInv, Adding, morphVars
  <2>. QED BY <2>2, <2>3
<1>. QED BY <1>1, <1>2, <1>3, <1>4, <1>5, <1>6, <1>7, <1>8 DEF WordRepNext

\* The inductive invariant of wordrep -e
LEMMA WordRepInvariant == WordRepSpec => []WordRepInv
<1>1. WordRepInit => WordRepInv
  BY WordRepInvInit, MorphInvInit DEF WordRepInv
<1>. QED BY <1>1, WordRepStep, PTL DEF WordRepSpec

-----------------------------------------------------------------------------
(* What the set promises once it is complete *)

\* convert_numbers() leaves letters, which a pattern can be made of
LEMMA AskedForAreWords ==
  ASSUME DictInv
  PROVE  AskedFor \subseteq Seq(Letters)
<1>1. \A w \in dictionary : Spelling[w] \in Seq(Letters)
  BY WordRepAssumption DEF DictInv
<1>2. ASSUME NEW w \in Queries
      PROVE  Converted(w) \in Seq(Letters)
  <2>1. w \in Seq(Letters \cup Digits) /\ Digit \in Letters
    BY WordRepAssumption
  <2>2. \A n \in 1 .. Len(w) : w[n] \in Letters \cup Digits
    BY <2>1
  <2>3. \A n \in 1 .. Len(w) : (IF w[n] \in Digits THEN Digit ELSE w[n]) \in Letters
    BY <2>1, <2>2
  <2>. QED BY <2>1, <2>3 DEF Converted
<1>. QED BY <1>1, <1>2 DEF AskedFor

\* Every selected pattern has its turn, and '#' the last
LEMMA CompleteSet ==
  ASSUME WordRepInv, SetIsComplete
  PROVE  /\ AddedUpTo(Len(AllStrings)) /\ Len(AllStrings) = Cardinality(topParts) + 1
         /\ Cardinality(topParts) \in Nat
         /\ \A e \in topParts : Len(PartSpelling[e.word]) <= maxSubstrLen
         /\ 1 <= maxSubstrLen
<1>1. AddedUpTo(Len(AllStrings))
  <2>1. Adding /\ substrs = <<>>
    BY DEF WordRepInv, MorphInv, SetIsComplete, Adding
  <2>. QED BY <2>1, EverythingIsAdded DEF WordRepInv
<1>2. /\ Len(AllStrings) = Cardinality(topParts) + 1 /\ Cardinality(topParts) \in Nat
      /\ \A n \in 1 .. Cardinality(topParts) : AllStrings[n] = PartSpelling[SortedByHits[n].word]
      /\ AllStrings[Cardinality(topParts) + 1] = <<Digit>>
  BY AllStringsAre DEF WordRepInv
<1> DEFINE N == Cardinality(topParts)
<1> HIDE DEF N
<1>3. \A m \in 1 .. N + 1 : Len(AllStrings[m]) <= maxSubstrLen
  BY <1>1, <1>2 DEF AddedUpTo, N
<1>4. ASSUME NEW e \in topParts
      PROVE  Len(PartSpelling[e.word]) <= maxSubstrLen
  <2>1. PICK m \in 1 .. N : SortedByHits[m] = e
    BY HitsAreSorted DEF WordRepInv, N
  <2>2. m \in 1 .. N + 1 /\ AllStrings[m] = PartSpelling[e.word]
    BY <1>2, <2>1 DEF N
  <2>. QED BY <1>3, <2>2
<1>5. 1 <= maxSubstrLen
  <2>1. N + 1 \in 1 .. N + 1 /\ AllStrings[N + 1] = <<Digit>>
    BY <1>2 DEF N
  <2>2. Len(<<Digit>>) = 1
    OBVIOUS
  <2>. QED BY <1>3, <2>1, <2>2
<1>. QED BY <1>1, <1>2, <1>4, <1>5

\* What is in the table is found in every word that has it
LEMMA FoundInWord ==
  ASSUME MorphInv, NEW w \in Seq(Letters), Len(w) <= MaxChars, NEW s \in ToSet(PatternsOf(w)),
         Len(s) <= maxSubstrLen, InTable(table, crc, s), ~WholeWord(s)
  PROVE  BucketOf(crc, s) \in HitsOf(w)
<1>1. PICK n \in 1 .. Len(PatternsOf(w)) : s = PatternsOf(w)[n]
  <2>1. PatternsOf(w) \in Seq(Seq(Letters \cup {Star}))
    BY PatternsOfRange
  <2>2. DOMAIN PatternsOf(w) = 1 .. Len(PatternsOf(w))
    <3> HIDE DEF PatternsOf
    <3>. QED BY <2>1
  <2>. QED BY <2>2 DEF ToSet
<1>2. PICK k \in 1 .. Len(w) : \E l \in 1 .. Len(w) - k + 1 : s = Pattern(w, k, l)
  BY <1>1, PatternsOfRange
<1>3. PICK l \in 1 .. Len(w) - k + 1 : s = Pattern(w, k, l)
  BY <1>2
<1>4. s \in StringsLookedUp(w, maxSubstrLen)
  <2>1. maxSubstrLen \in Nat
    BY DEF MorphInv
  <2>. QED BY <1>3, <2>1, PatternIsLookedUp
<1>. QED BY <1>4 DEF HitsOf, FindSubstrings

\* The invariant has what the first property says
LEMMA PatternsAreFound == WordRepInv => SelectedPatternsAreFound
<1> SUFFICES ASSUME WordRepInv, SetIsComplete,
                    NEW w \in AskedFor, Len(w) <= MaxChars,
                    NEW s \in ToSet(PatternsOf(w)) \cap Selected,
                    InTable(table, crc, s), ~WholeWord(s)
             PROVE  BucketOf(crc, s) \in HitsOf(w)
  BY DEF SelectedPatternsAreFound
<1>1. w \in Seq(Letters)
  BY AskedForAreWords DEF WordRepInv
<1>2. Len(s) <= maxSubstrLen
  BY CompleteSet DEF Selected
<1>. QED BY <1>1, <1>2, FoundInWord DEF WordRepInv

-----------------------------------------------------------------------------
(* Who has a place that patterns share *)

\* No later string has the place of the one that was seen most
LEMMA FrequentSurvives == WordRepInv => FrequentPatternsSurvive
<1> DEFINE place(f) == BucketOf(crc, PartSpelling[f.word])
<1> SUFFICES ASSUME WordRepInv, SetIsComplete, NEW e \in topParts,
                    place(e) # BucketOf(crc, <<Digit>>),
                    \A f \in topParts \ {e} : place(f) = place(e) => f.hits < e.hits
             PROVE  InTable(table, crc, PartSpelling[e.word])
  BY DEF FrequentPatternsSurvive
<1> DEFINE N == Cardinality(topParts)
<1>1. /\ N \in Nat /\ Len(AllStrings) = N + 1 /\ AddedUpTo(N + 1)
      /\ \A n \in 1 .. N : AllStrings[n] = PartSpelling[SortedByHits[n].word]
      /\ AllStrings[N + 1] = <<Digit>>
  BY CompleteSet, AllStringsAre DEF WordRepInv
<1>2. /\ SortedByHits \in [1 .. N -> topParts]
      /\ \A m, n \in 1 .. N : m < n =>
           SortedByHits[m] # SortedByHits[n] /\ SortedByHits[m].hits <= SortedByHits[n].hits
      /\ \E m \in 1 .. N : SortedByHits[m] = e
  BY HitsAreSorted DEF WordRepInv
<1> HIDE DEF N
<1>3. PICK m \in 1 .. N : SortedByHits[m] = e
  BY <1>2
<1>4. m \in 1 .. N + 1 /\ AllStrings[m] = PartSpelling[e.word]
  BY <1>1, <1>3
<1>5. ASSUME NEW n \in m + 1 .. N + 1, BucketOf(crc, AllStrings[n]) = BucketOf(crc, AllStrings[m])
      PROVE  FALSE
  <2>1. CASE n = N + 1
    BY <1>1, <1>4, <1>5, <2>1
  <2>2. CASE n # N + 1
    <3>1. n \in 1 .. N /\ m < n
      BY <1>1, <2>2
    <3>2. PICK f \in topParts : f = SortedByHits[n]
      BY <1>2, <3>1
    <3>3. f # e /\ e.hits <= f.hits
      BY <1>2, <1>3, <3>1, <3>2
    <3>4. place(f) = place(e)
      BY <1>1, <1>4, <1>5, <3>1, <3>2
    <3>5. f.hits < e.hits
      BY <3>3, <3>4
    <3>6. e.hits \in Nat /\ f.hits \in Nat
      BY DEF WordRepInv, PartsInv
    <3>. QED BY <3>3, <3>5, <3>6
  <2>. QED BY <2>1, <2>2
<1>6. \/ InTable(table, crc, AllStrings[m])
      \/ \E n \in m + 1 .. N + 1 : BucketOf(crc, AllStrings[n]) = BucketOf(crc, AllStrings[m])
  BY <1>1, <1>4 DEF AddedUpTo
<1>. QED BY <1>4, <1>5, <1>6

-----------------------------------------------------------------------------
(* Which rows of morph_trans are read *)

\* A bounded set of numbers has its largest element for Max
LEMMA LargestIsMax ==
  ASSUME NEW S \in SUBSET Nat, NEW bound \in Nat, \A x \in S : x <= bound, NEW b \in S
  PROVE  Max(S) \in Nat /\ b <= Max(S)
<1> DEFINE T == {bound - x : x \in S}
<1>1. T \in SUBSET Nat /\ T # {}
  <2>1. \A x \in S : x \in Nat /\ bound - x \in Nat
    OBVIOUS
  <2>. QED BY <2>1
<1>2. PICK t \in T : \A u \in T : t <= u
  BY <1>1, LeastNatural
<1>3. PICK x \in S : t = bound - x
  BY <1>2
<1>4. \A y \in S : x >= y
  <2>1. ASSUME NEW y \in S PROVE x >= y
    <3>1. bound - x <= bound - y
      BY <1>2, <1>3
    <3>2. x \in Nat /\ y \in Nat
      OBVIOUS
    <3>. QED BY <3>1, <3>2
  <2>. QED BY <2>1
<1>5. Max(S) \in S /\ \A y \in S : Max(S) >= y
  BY <1>4, Zenon DEF Max
<1>6. Max(S) \in Nat /\ b \in Nat /\ Max(S) >= b
  BY <1>5
<1>. QED BY <1>6

\* A string that is looked up and hits has a place of its own
LEMMA HitHasPlace ==
  ASSUME WordRepInv, ~Confused, NEW w \in AskedFor, NEW b \in HitsOf(w)
  PROVE  \E s \in Selected \cup {<<Digit>>} :
           /\ b = BucketOf(crc, s) /\ b \in Buckets
           /\ s \in StringsLookedUp(w, maxSubstrLen) /\ InTable(table, crc, s)
<1>1. PICK s \in StringsLookedUp(w, maxSubstrLen) : InTable(table, crc, s) /\ b = BucketOf(crc, s)
  BY DEF HitsOf, FindSubstrings
<1>2. s \in Selected \cup {<<Digit>>}
  BY <1>1 DEF Confused
<1>3. crc \in Crcs
  BY DEF WordRepInv, MorphInv
<1>4. BucketOf(crc, s) \in Buckets
  <2>1. CASE s = <<Digit>>
    BY <1>3, <2>1, WordRepAssumption
  <2>2. CASE s \in Selected
    BY <1>3, <2>2, SelectedSpelling DEF Selected, WordRepInv
  <2>. QED BY <1>2, <2>1, <2>2
<1>. QED BY <1>1, <1>2, <1>4

\* Without confusion, what hits in any word was learned from one of the dictionary
LEMMA RowsAreAssigned == WordRepInv => FeaturesAreLearned
<1> SUFFICES ASSUME WordRepInv, vectors = dictionary,
                    \A w \in dictionary : Len(Spelling[w]) <= MaxChars,
                    \E w \in dictionary : Digit \in ToSet(Spelling[w]),
                    Star \notin ToSet(asked), ~Confused, step = "features", NEW b \in RowsRead(asked)
             PROVE  b < rows
  BY DEF FeaturesAreLearned
<1>0. b \in HitsOf(asked)
  BY DEF RowsRead
<1>1. PICK w \in Queries : asked = Converted(w)
  <2>1. maxSubstrLen \in Nat
    BY DEF WordRepInv, MorphInv
  <2>2. ASSUME asked = <<>> PROVE FALSE
    <3>1. asked \in Seq(Letters) /\ Len(asked) = 0
      BY <2>2
    <3>2. StringsLookedUp(asked, maxSubstrLen) = {}
      BY <2>1, <3>1, NothingIsLookedUp
    <3>. QED BY <1>0, <3>2 DEF HitsOf, FindSubstrings
  <2>. QED BY <2>2 DEF WordRepInv, AskedInv
<1>2. step = "features" /\ LearnedRows # {} /\ rows = Max(LearnedRows) + 1
  BY DEF WordRepInv, AskedInv
<1>3. SetIsComplete /\ maxSubstrLen \in Nat
  BY <1>2 DEF SetIsComplete, WordRepInv, MorphInv
<1>4. Converted(w) \in AskedFor /\ Converted(w) \in Seq(Letters) /\ Star \notin ToSet(Converted(w))
  BY <1>1, AskedForAreWords DEF AskedFor, WordRepInv
<1>5. PICK s \in Selected \cup {<<Digit>>} :
        /\ b = BucketOf(crc, s) /\ s \in StringsLookedUp(Converted(w), maxSubstrLen)
        /\ InTable(table, crc, s)
  BY <1>0, <1>1, <1>4, HitHasPlace
<1>6. \A v \in dictionary : Spelling[v] \in Seq(Letters) /\ Spelling[v] \in AskedFor
  BY WordRepAssumption DEF WordRepInv, DictInv, AskedFor
<1>7. b \in LearnedRows
  <2>1. CASE s = <<Digit>>
    <3>1. PICK v \in dictionary : Digit \in ToSet(Spelling[v])
      OBVIOUS
    <3>2. PICK j \in 1 .. Len(Spelling[v]) : Spelling[v][j] = Digit
      BY <1>6, <3>1 DEF ToSet
    <3>3. <<Digit>> \in StringsLookedUp(Spelling[v], maxSubstrLen)
      BY <1>3, <1>6, <3>2, CompleteSet, CharacterIsLookedUp
    <3>4. b \in HitsOf(Spelling[v])
      BY <1>5, <2>1, <3>3 DEF HitsOf, FindSubstrings
    <3>. QED BY <3>4 DEF LearnedRows
  <2>2. CASE s \in Selected
    <3>1. PICK e \in topParts : s = PartSpelling[e.word]
      BY <2>2 DEF Selected
    <3>2. PICK v \in dictionary : \E n \in 1 .. Len(PatternsOf(Spelling[v])) :
             s = PatternsOf(Spelling[v])[n]
      BY <3>1, SelectedSpelling DEF WordRepInv
    <3>3. s \in ToSet(PatternsOf(Spelling[v]))
      <4>1. PatternsOf(Spelling[v]) \in Seq(Seq(Letters \cup {Star}))
        BY <1>6, PatternsOfRange
      <4>2. DOMAIN PatternsOf(Spelling[v]) = 1 .. Len(PatternsOf(Spelling[v]))
        BY <4>1
      <4>. QED BY <3>2, <4>2 DEF ToSet
    <3>4. ~WholeWord(s)
      BY <1>3, <1>4, <1>5, NoWholeWordIsLookedUp
    <3>5. Len(s) <= maxSubstrLen
      BY <1>3, <3>1, CompleteSet
    <3>6. b \in HitsOf(Spelling[v])
      BY <1>5, <1>6, <3>3, <3>4, <3>5, FoundInWord DEF WordRepInv
    <3>. QED BY <3>6 DEF LearnedRows
  <2>. QED BY <1>5, <2>1, <2>2
<1>8. LearnedRows \in SUBSET Buckets
  BY <1>6, HitHasPlace DEF LearnedRows
<1>9. PICK mask \in Buckets : \A x \in Buckets : x <= mask
  BY SubstringAssumption
<1>10. LearnedRows \in SUBSET Nat /\ mask \in Nat /\ \A x \in LearnedRows : x <= mask
  BY <1>8, <1>9, SubstringAssumption
<1>11. Max(LearnedRows) \in Nat /\ b <= Max(LearnedRows) /\ b \in Nat
  BY <1>7, <1>10, LargestIsMax
<1>. QED BY <1>2, <1>11

-----------------------------------------------------------------------------
\* find_substrings() passes by every pattern that populate_substr() makes of a word
\* it reads to its end, but the whole word between stars: a selected pattern that
\* was not displaced from the table is found in every such word, whatever the hash
\* functions are.
THEOREM PatternsFound == WordRepSpec => []SelectedPatternsAreFound
BY WordRepInvariant, PatternsAreFound, PTL

\* basic_morph adds the patterns in the order of their counts, so that of those which
\* share a place the one seen most is there in the end, if '#' does not take it.
THEOREM FrequentKept == WordRepSpec => []FrequentPatternsSurvive
BY WordRepInvariant, FrequentSurvives, PTL

\* Under the conditions FeaturesAreLearned names, get_feature_vector() sums only rows
\* of morph_trans that cca() has assigned.
THEOREM OnlyLearnedRows == WordRepSpec => []FeaturesAreLearned
BY WordRepInvariant, RowsAreAssigned, PTL
=============================================================================
