---------------------------- MODULE SketchTable ----------------------------
(***************************************************************************)
(* The table of a count_min_sketch: one row of counters per hash function, *)
(* and what the operations of the class do to it.  Counters are 64 bits    *)
(* wide and count the tokens of files: they do not wrap.                   *)
(***************************************************************************)
EXTENDS Integers, FiniteSetsExt

CONSTANTS
  Items,     \* what is counted
  Rows,      \* the hash functions, 8 in the code
  Columns,   \* the slots of a row, hash_table_size in the code
  Hashes     \* the families of hash functions to consider: h[r][i] stands
             \* for dlib::hash(i, r) % nc

ASSUME ShapeAssumption ==
  /\ Rows # {}
  /\ Hashes \subseteq [Rows -> [Items -> Columns]]

NoCounts == [r \in Rows |-> [c \in Columns |-> 0]]

\* Mutant: the counter is overwritten
IncrementedByOverwriting(table, h, i, amount) ==
  [r \in Rows |-> [table[r] EXCEPT ![h[r][i]] = amount]]

Incremented(table, h, i, amount) ==
  [r \in Rows |-> [table[r] EXCEPT ![h[r][i]] = @ + amount]]

\* Mutant: the largest of the counters is returned
GetCountLargest(table, h, i) == Max({table[r][h[r][i]] : r \in Rows})

GetCount(table, h, i) == Min({table[r][h[r][i]] : r \in Rows})

Absorbed(table, other) ==
  [r \in Rows |-> [c \in Columns |-> table[r][c] + other[r][c]]]

=============================================================================
