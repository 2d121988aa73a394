--------------------------- MODULE CountMinSketch ---------------------------
(***************************************************************************)
(* count_min_sketch: approximate counts of any number of items in a table  *)
(* of counters, one row per hash function.  Several sketches of one shape  *)
(* live side by side, are incremented, copied, cleared and absorbed into   *)
(* each other; what was really counted is kept next to them as a history.  *)
(***************************************************************************)
EXTENDS SketchTable

CONSTANTS
  Sketches,  \* the sketch objects, all of one shape
  Amounts    \* amounts by which a client increments

ASSUME AmountAssumption == Amounts \subseteq Nat

VARIABLES
  hash,    \* hash[r][i]: dlib::hash(i, r) % nc, chosen once
  counts,  \* counts[s][r][c]
  total,   \* total_count of every sketch
  truth    \* history: truth[s][i], the increments of i in s

sketchVars == <<hash, counts, total, truth>>

-----------------------------------------------------------------------------
SketchInit ==
  /\ hash \in Hashes
  /\ counts = [s \in Sketches |-> NoCounts]
  /\ total = [s \in Sketches |-> 0]
  /\ truth = [s \in Sketches |-> [i \in Items |-> 0]]

Increment(s, i, amount) ==
  /\ counts' = [counts EXCEPT ![s] = Incremented(@, hash, i, amount)]
  /\ total' = [total EXCEPT ![s] = @ + amount]
  /\ truth' = [truth EXCEPT ![s][i] = @ + amount]
  /\ UNCHANGED hash

SetCountsToZero(s) ==
  /\ counts' = [counts EXCEPT ![s] = NoCounts]
  /\ total' = [total EXCEPT ![s] = 0]
  /\ truth' = [truth EXCEPT ![s] = [i \in Items |-> 0]]
  /\ UNCHANGED hash

\* absorb(), also of the sketch itself
Absorb(s, t) ==
  /\ total' = [total EXCEPT ![s] = @ + total[t]]
  /\ counts' = [counts EXCEPT ![s] = Absorbed(@, counts[t])]
  /\ truth' = [truth EXCEPT ![s] = [i \in Items |-> @[i] + truth[t][i]]]
  /\ UNCHANGED hash

\* The copy constructor and operator=
Assign(s, t) ==
  /\ counts' = [counts EXCEPT ![s] = counts[t]]
  /\ total' = [total EXCEPT ![s] = total[t]]
  /\ truth' = [truth EXCEPT ![s] = truth[t]]
  /\ UNCHANGED hash

Swap(s, t) ==
  /\ counts' = [counts EXCEPT ![s] = counts[t], ![t] = counts[s]]
  /\ total' = [total EXCEPT ![s] = total[t], ![t] = total[s]]
  /\ truth' = [truth EXCEPT ![s] = truth[t], ![t] = truth[s]]
  /\ UNCHANGED hash

SketchNext ==
  \/ \E s \in Sketches, i \in Items, amount \in Amounts : Increment(s, i, amount)
  \/ \E s \in Sketches : SetCountsToZero(s)
  \/ \E s, t \in Sketches : Absorb(s, t) \/ Assign(s, t) \/ Swap(s, t)

SketchSpec == SketchInit /\ [][SketchNext]_sketchVars

-----------------------------------------------------------------------------
(* Properties *)

\* "This count is approximate, however, it is always at least as large as the
\* actual count for this item" (get_count()), whatever was absorbed, copied
\* and cleared in between.
NeverUnderestimates ==
  \A s \in Sketches, i \in Items : GetCount(counts[s], hash, i) >= truth[s][i]

\* The count of an item that shares its slot with no other in some row is
\* exact: only collisions in every row can inflate a count.
ExactWithoutCollision ==
  \A s \in Sketches, i \in Items :
    (\E r \in Rows : \A j \in Items \ {i} : hash[r][j] # hash[r][i]) =>
      GetCount(counts[s], hash, i) = truth[s][i]

=============================================================================
