---------------------------- MODULE ConllLabels -----------------------------
(***************************************************************************)
(* The labels of a CoNLL sentence and the conversions between its two      *)
(* codes: BIO, where B only separates a chunk from a chunk of its kind to  *)
(* its left, and BILOU, where every chunk shows both its ends.  Both       *)
(* conversions overwrite the labels from left to right while they look at  *)
(* a left neighbour already converted and a right one not yet converted.   *)
(*                                                                         *)
(* A label constant such as B_PER is a record of its position letter and   *)
(* its kind; token numbers start at 1.                                     *)
(***************************************************************************)
EXTENDS Integers

CONSTANTS
  Kinds,      \* PER, LOC, ORG, MISC
  NotEntity,  \* the kind of the label O
  Sizes       \* lengths of the sentences considered

ASSUME KindAssumption == NotEntity \notin Kinds

ASSUME SizeAssumption == Sizes \subseteq Nat

VARIABLES
  original,  \* the labels as they were read
  labels,    \* the vector the conversions work on
  phase,     \* the code it is in, or the conversion under way
  i          \* the loop index of that conversion

vars == <<original, labels, phase, i>>

-----------------------------------------------------------------------------
(* Labels and chunks *)

O == [pos |-> "O", kind |-> NotEntity]

BIOLabels == [pos : {"B", "I"}, kind : Kinds] \cup {O}

BILOULabels == [pos : {"B", "I", "L", "U"}, kind : Kinds] \cup {O}

\* to_B(), to_I(), to_L(), to_U()
To(pos, label) == [pos |-> pos, kind |-> label.kind]

\* last, cur and next; O stands for what is beyond either end
At(l, j) == IF j \in DOMAIN l THEN l[j] ELSE O

\* The inner loop of convert_sentence() goes on to token j
Continues(l, j) ==
  At(l, j).pos = "I" /\ At(l, j - 1) # O /\ At(l, j - 1).kind = At(l, j).kind

\* The chunks convert_sentence() finds in BIO labels
Chunks(l) ==
  {c \in [first : DOMAIN l, last : DOMAIN l, kind : Kinds] :
     /\ c.first <= c.last
     /\ l[c.first].kind = c.kind
     /\ ~Continues(l, c.first)
     /\ \A j \in c.first + 1 .. c.last : Continues(l, j)
     /\ ~Continues(l, c.last + 1)}

-----------------------------------------------------------------------------
(* The conversions *)

Start ==
  /\ labels = original
  /\ phase = "BIO"
  /\ i = 1

\* A sentence of a file: parse_conll_data() takes the labels O, B-* and I-* only.
Init ==
  /\ original \in UNION {[1 .. n -> BIOLabels] : n \in Sizes}
  /\ Start

\* Mutant: the left neighbour is not looked at
ToBILOULeftBlind(last, cur, next) ==
  IF cur = O THEN O
  ELSE IF next = To("I", cur) THEN cur
  ELSE IF cur.pos = "B" THEN To("U", cur)
  ELSE To("L", cur)

\* The body of the loop of convert_from_BIO_to_BILOU()
ToBILOU(last, cur, next) ==
  IF cur = O THEN O
  ELSE IF cur.pos = "B" THEN
         IF next # To("I", cur) THEN To("U", cur) ELSE cur
  ELSE IF last = cur \/ last = To("B", cur) THEN
         IF next = cur THEN cur ELSE To("L", cur)
  ELSE   IF next = cur THEN To("B", cur) ELSE To("U", cur)

\* Mutant: a chunk of one token is never separated from its left neighbour
ToBIOUnseparated(last, cur) ==
  IF cur.pos = "U" THEN To("I", cur)
  ELSE IF cur.pos = "B" THEN
         IF last # To("I", cur) /\ last # To("B", cur) THEN To("I", cur) ELSE cur
  ELSE IF cur.pos = "L" THEN To("I", cur)
  ELSE cur

\* The body of the loop of convert_from_BILOU_to_BIO()
ToBIO(last, cur) ==
  IF cur.pos \in {"U", "B"} THEN
    IF last # To("I", cur) /\ last # To("B", cur) THEN To("I", cur) ELSE To("B", cur)
  ELSE IF cur.pos = "L" THEN To("I", cur)
  ELSE cur

\* A call of either conversion, for one of the sentences it is given
Call(before, during) ==
  /\ phase = before
  /\ phase' = during
  /\ i' = 1
  /\ UNCHANGED <<original, labels>>

\* One iteration that leaves label `new'
Iterate(during, new) ==
  /\ phase = during
  /\ i \in DOMAIN labels
  /\ labels' = [labels EXCEPT ![i] = new]
  /\ i' = i + 1
  /\ UNCHANGED <<original, phase>>

Return(during, after) ==
  /\ phase = during
  /\ i \notin DOMAIN labels
  /\ phase' = after
  /\ UNCHANGED <<original, labels, i>>

ConvertToBILOU ==
  \/ Call("BIO", "toBILOU")
  \/ Iterate("toBILOU", ToBILOU(At(labels, i - 1), At(labels, i), At(labels, i + 1)))
  \/ Return("toBILOU", "BILOU")

ConvertToBIO ==
  \/ Call("BILOU", "toBIO")
  \/ Iterate("toBIO", ToBIO(At(labels, i - 1), At(labels, i)))
  \/ Return("toBIO", "BIO")

Next == ConvertToBILOU \/ ConvertToBIO

Spec == Init /\ [][Next]_vars

-----------------------------------------------------------------------------
(* Properties *)

Phases == {"BIO", "toBILOU", "BILOU", "toBIO"}

\* The vector keeps its length, and holds labels of the code it is in.
TypeOK ==
  /\ \E n \in Sizes : /\ original \in [1 .. n -> BIOLabels]
                      /\ labels \in [1 .. n -> BILOULabels]
                      /\ i \in 1 .. n + 1
  /\ phase \in Phases
  /\ phase = "BIO" => \A j \in DOMAIN labels : labels[j] \in BIOLabels

\* However often the labels go to BILOU and back, convert_sentence() finds
\* the chunks it would have found in the file.
ChunksSurvive ==
  phase = "BIO" => Chunks(labels) = Chunks(original)

\* In BILOU the chunks can be read off without any look at the neighbours:
\* from a B to its L, or a U.
BILOUShowsChunks ==
  phase = "BILOU" =>
    {c \in [first : DOMAIN labels, last : DOMAIN labels, kind : Kinds] :
       \/ c.first = c.last /\ labels[c.first] = [pos |-> "U", kind |-> c.kind]
       \/ /\ c.first < c.last
          /\ labels[c.first] = [pos |-> "B", kind |-> c.kind]
          /\ \A j \in c.first + 1 .. c.last - 1 : labels[j] = [pos |-> "I", kind |-> c.kind]
          /\ labels[c.last] = [pos |-> "L", kind |-> c.kind]} = Chunks(original)

=============================================================================
