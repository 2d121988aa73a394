--------------------------- MODULE ConllFileProofs ---------------------------
(***************************************************************************)
(* Proofs about ConllLabels and ConllFile, for any kinds, for sentences of *)
(* every length and for files of any lines.                                *)
(*                                                                         *)
(* The chunks of a sentence are determined token by token: by its kind,    *)
(* and by whether it continues the chunk of its left neighbour.  The       *)
(* invariant says how each token, by its place relative to the loop index, *)
(* encodes these two facts of the original.  Then there are the recursive  *)
(* functions: convert_sentence() finds these chunks, and a printed file    *)
(* has each sentence in its place, where the reader finds it again.        *)
(***************************************************************************)
EXTENDS ConllFile, SequenceTheorems, WellFoundedInduction, TLAPS

\* Token j may continue a chunk at all: its left neighbour has its kind
Joined(j) ==
  /\ j - 1 \in DOMAIN original
  /\ original[j] # O /\ original[j - 1] # O
  /\ original[j - 1].kind = original[j].kind

\* Token j encodes what it needs to in BIO: I where it continues a chunk,
\* B where it could and does not, and either elsewhere
BIOEncodes(j) ==
  /\ labels[j].pos \in {"B", "I"}
  /\ Joined(j) => (labels[j].pos = "I" <=> Continues(original, j))

\* Token j encodes what it needs to in BILOU
BILOUEncodes(j) ==
  labels[j].pos = IF Continues(original, j)
                  THEN IF Continues(original, j + 1) THEN "I" ELSE "L"
                  ELSE IF Continues(original, j + 1) THEN "B" ELSE "U"

\* Token j keeps its kind, and O remains O
KeepsKind(j) ==
  /\ labels[j] = O <=> original[j] = O
  /\ labels[j].kind = original[j].kind

InBIO(j) ==
  \/ phase = "BIO"
  \/ phase = "toBILOU" /\ j >= i
  \/ phase = "toBIO" /\ j < i

Encoded ==
  \A j \in DOMAIN original :
    /\ KeepsKind(j)
    /\ original[j] # O => IF InBIO(j) THEN BIOEncodes(j) ELSE BILOUEncodes(j)

IndexOK ==
  \E n \in Nat :
    /\ original \in [1 .. n -> BIOLabels]
    /\ labels \in [1 .. n -> BILOULabels]
    /\ i \in 1 .. n + 1
    /\ phase \in {"BIO", "BILOU"} => i = 1 \/ i = n + 1

Inv == IndexOK /\ phase \in Phases /\ Encoded

-----------------------------------------------------------------------------
(* Facts about labels *)

LEMMA LabelFacts ==
  ASSUME NEW label \in BILOULabels
  PROVE  /\ label = O <=> label.pos = "O"
         /\ label = O <=> label.kind = NotEntity
         /\ label # O => label.pos \in {"B", "I", "L", "U"} /\ label.kind \in Kinds
         /\ label = [pos |-> label.pos, kind |-> label.kind]
BY KindAssumption DEF BILOULabels, O

LEMMA BIOIsBILOU == BIOLabels \subseteq BILOULabels
BY DEF BIOLabels, BILOULabels

\* In the original, continuing is being joined to the left and labelled I
LEMMA ContinuesIsJoined ==
  ASSUME NEW n \in Nat, original \in [1 .. n -> BIOLabels], NEW j \in 1 .. n
  PROVE  Continues(original, j) <=> Joined(j) /\ original[j].pos = "I"
<1>1. original[j] \in BILOULabels
  BY BIOIsBILOU
<1>2. At(original, j) = original[j] /\ At(original, 0) = O
  BY DEF At
<1>3. CASE j - 1 \in 1 .. n
  BY <1>1, <1>2, <1>3, LabelFacts DEF At, Continues, Joined
<1>4. CASE j - 1 \notin 1 .. n
  BY <1>2, <1>4 DEF At, Continues, Joined
<1>. QED BY <1>3, <1>4

LEMMA NothingContinuesBeyond ==
  ASSUME NEW n \in Nat, original \in [1 .. n -> BIOLabels]
  PROVE  ~Continues(original, n + 1)
BY DEF Continues, At, O

-----------------------------------------------------------------------------
(* What the two neighbours tell a conversion that has come to token i *)

LEMMA Typing ==
  ASSUME Inv
  PROVE  \E n \in Nat :
           /\ original \in [1 .. n -> BIOLabels] /\ labels \in [1 .. n -> BILOULabels]
           /\ DOMAIN original = 1 .. n /\ DOMAIN labels = 1 .. n
           /\ i \in 1 .. n + 1
           /\ phase \in {"BIO", "BILOU"} => i = 1 \/ i = n + 1
BY SizeAssumption DEF Inv, IndexOK

\* Towards BILOU, the left neighbour shows that the chunk goes on
LEMMA LeftWhileToBILOU ==
  ASSUME Inv, phase = "toBILOU", i \in DOMAIN labels, original[i] # O
  PROVE  LET last == At(labels, i - 1)
         IN  (last = To("I", labels[i]) \/ last = To("B", labels[i]))
               <=> Continues(original, i)
<1>1. PICK n \in Nat :
        /\ original \in [1 .. n -> BIOLabels] /\ labels \in [1 .. n -> BILOULabels]
        /\ DOMAIN original = 1 .. n /\ DOMAIN labels = 1 .. n /\ i \in 1 .. n + 1
  BY Typing
<1>2. labels[i].kind = original[i].kind /\ labels[i].kind # NotEntity
  BY <1>1, LabelFacts DEF Inv, Encoded, KeepsKind
<1>3. Continues(original, i) <=> Joined(i) /\ original[i].pos = "I"
  BY <1>1, ContinuesIsJoined
<1>4. CASE i - 1 \in 1 .. n
  <2>1. /\ At(labels, i - 1) = labels[i - 1]
        /\ labels[i - 1] \in BILOULabels /\ original[i - 1] \in BILOULabels
    BY <1>1, <1>4, BIOIsBILOU DEF At
  <2>2. /\ labels[i - 1].kind = original[i - 1].kind
        /\ labels[i - 1] = O <=> original[i - 1] = O
        /\ original[i - 1] # O => BILOUEncodes(i - 1)
    BY <1>1, <1>4 DEF Inv, Encoded, KeepsKind, InBIO
  <2>3. (i - 1) + 1 = i
    BY <1>1
  <2>4. original[i - 1] # O =>
          (labels[i - 1].pos \in {"I", "B"} <=> Continues(original, i))
    BY <2>2, <2>3 DEF BILOUEncodes
  <2>5. labels[i - 1] = [pos |-> labels[i - 1].pos, kind |-> labels[i - 1].kind]
    BY <2>1, LabelFacts
  <2>6. original[i - 1] = O <=> original[i - 1].kind = NotEntity
    BY <2>1, LabelFacts
  <2>. QED BY <1>1, <1>2, <1>3, <1>4, <2>1, <2>2, <2>4, <2>5, <2>6 DEF To, Joined
<1>5. CASE i - 1 \notin 1 .. n
  BY <1>1, <1>2, <1>3, <1>5 DEF At, To, O, Joined
<1>. QED BY <1>4, <1>5

\* Towards BILOU, the right neighbour is still in BIO
LEMMA RightWhileToBILOU ==
  ASSUME Inv, phase = "toBILOU", i \in DOMAIN labels, original[i] # O
  PROVE  At(labels, i + 1) = To("I", labels[i]) <=> Continues(original, i + 1)
<1>1. PICK n \in Nat :
        /\ original \in [1 .. n -> BIOLabels] /\ labels \in [1 .. n -> BILOULabels]
        /\ DOMAIN original = 1 .. n /\ DOMAIN labels = 1 .. n /\ i \in 1 .. n + 1
  BY Typing
<1>2. labels[i].kind = original[i].kind /\ labels[i].kind # NotEntity
  BY <1>1, LabelFacts DEF Inv, Encoded, KeepsKind
<1>3. (i + 1) - 1 = i
  BY <1>1
<1>4. CASE i + 1 \in 1 .. n
  <2>1. /\ At(labels, i + 1) = labels[i + 1]
        /\ labels[i + 1] \in BILOULabels /\ original[i + 1] \in BILOULabels
    BY <1>1, <1>4, BIOIsBILOU DEF At
  <2>2. /\ labels[i + 1].kind = original[i + 1].kind
        /\ labels[i + 1] = O <=> original[i + 1] = O
        /\ original[i + 1] # O => BIOEncodes(i + 1)
    BY <1>1, <1>4 DEF Inv, Encoded, KeepsKind, InBIO
  <2>3. Continues(original, i + 1) <=> Joined(i + 1) /\ original[i + 1].pos = "I"
    BY <1>1, <1>4, ContinuesIsJoined
  <2>4. Joined(i + 1) <=> /\ original[i + 1] # O
                          /\ original[i].kind = original[i + 1].kind
    BY <1>1, <1>3 DEF Joined
  <2>5. labels[i + 1] = [pos |-> labels[i + 1].pos, kind |-> labels[i + 1].kind]
    BY <2>1, LabelFacts
  <2>6. original[i + 1] = O <=> original[i + 1].kind = NotEntity
    BY <2>1, LabelFacts
  <2>. QED BY <1>2, <2>1, <2>2, <2>3, <2>4, <2>5, <2>6 DEF To, BIOEncodes
<1>5. CASE i + 1 \notin 1 .. n
  <2>1. i + 1 = n + 1
    BY <1>1, <1>5
  <2>. QED BY <1>1, <1>2, <1>5, <2>1, NothingContinuesBeyond DEF At, To, O
<1>. QED BY <1>4, <1>5

\* Towards BIO, the left neighbour is back in BIO: it only shows its kind
LEMMA LeftWhileToBIO ==
  ASSUME Inv, phase = "toBIO", i \in DOMAIN labels, original[i] # O
  PROVE  LET last == At(labels, i - 1)
         IN  (last = To("I", labels[i]) \/ last = To("B", labels[i])) <=> Joined(i)
<1>1. PICK n \in Nat :
        /\ original \in [1 .. n -> BIOLabels] /\ labels \in [1 .. n -> BILOULabels]
        /\ DOMAIN original = 1 .. n /\ DOMAIN labels = 1 .. n /\ i \in 1 .. n + 1
  BY Typing
<1>2. labels[i].kind = original[i].kind /\ labels[i].kind # NotEntity
  BY <1>1, LabelFacts DEF Inv, Encoded, KeepsKind
<1>4. CASE i - 1 \in 1 .. n
  <2>1. /\ At(labels, i - 1) = labels[i - 1]
        /\ labels[i - 1] \in BILOULabels /\ original[i - 1] \in BILOULabels
    BY <1>1, <1>4, BIOIsBILOU DEF At
  <2>2. /\ labels[i - 1].kind = original[i - 1].kind
        /\ labels[i - 1] = O <=> original[i - 1] = O
        /\ original[i - 1] # O => BIOEncodes(i - 1)
    BY <1>1, <1>4 DEF Inv, Encoded, KeepsKind, InBIO
  <2>5. labels[i - 1] = [pos |-> labels[i - 1].pos, kind |-> labels[i - 1].kind]
    BY <2>1, LabelFacts
  <2>6. original[i - 1] = O <=> original[i - 1].kind = NotEntity
    BY <2>1, LabelFacts
  <2>. QED BY <1>1, <1>2, <1>4, <2>1, <2>2, <2>5, <2>6 DEF To, Joined, BIOEncodes
<1>5. CASE i - 1 \notin 1 .. n
  BY <1>1, <1>2, <1>5 DEF At, To, O, Joined
<1>. QED BY <1>4, <1>5

-----------------------------------------------------------------------------
(* One iteration of each loop *)

LEMMA BILOUIteration ==
  ASSUME Inv, phase = "toBILOU", i \in DOMAIN labels,
         NEW new, new = ToBILOU(At(labels, i - 1), At(labels, i), At(labels, i + 1))
  PROVE  /\ new \in BILOULabels
         /\ new = O <=> original[i] = O
         /\ new.kind = original[i].kind
         /\ original[i] # O =>
              new.pos = IF Continues(original, i)
                        THEN IF Continues(original, i + 1) THEN "I" ELSE "L"
                        ELSE IF Continues(original, i + 1) THEN "B" ELSE "U"
<1>1. PICK n \in Nat :
        /\ original \in [1 .. n -> BIOLabels] /\ labels \in [1 .. n -> BILOULabels]
        /\ DOMAIN original = 1 .. n /\ DOMAIN labels = 1 .. n /\ i \in 1 .. n + 1
  BY Typing
<1> DEFINE cur == labels[i]
<1>2. At(labels, i) = cur /\ cur \in BILOULabels
  BY <1>1 DEF At
<1>3. /\ cur.kind = original[i].kind
      /\ cur = O <=> original[i] = O
      /\ original[i] # O => BIOEncodes(i)
  BY <1>1 DEF Inv, Encoded, KeepsKind, InBIO
<1>4. cur = [pos |-> cur.pos, kind |-> cur.kind]
  BY <1>2, LabelFacts
<1>5. CASE original[i] = O
  BY <1>2, <1>3, <1>5 DEF ToBILOU
<1>6. CASE original[i] # O
  <2>1. cur # O /\ cur.kind \in Kinds /\ cur.pos \in {"B", "I"}
    BY <1>2, <1>3, <1>6, LabelFacts DEF BIOEncodes
  <2>2. Continues(original, i) => Joined(i) /\ cur.pos = "I"
    BY <1>1, <1>3, <1>6, ContinuesIsJoined DEF BIOEncodes
  <2>3. (At(labels, i - 1) = To("I", cur) \/ At(labels, i - 1) = To("B", cur))
          <=> Continues(original, i)
    BY <1>6, LeftWhileToBILOU
  <2>4. At(labels, i + 1) = To("I", cur) <=> Continues(original, i + 1)
    BY <1>6, RightWhileToBILOU
  <2>5. CASE cur.pos = "B"
    <3>1. new = IF Continues(original, i + 1) THEN cur ELSE To("U", cur)
      BY <1>2, <2>1, <2>4, <2>5 DEF ToBILOU
    <3>2. ~Continues(original, i)
      BY <2>2, <2>5
    <3>. QED BY <1>2, <1>3, <1>6, <2>1, <2>5, <3>1, <3>2 DEF To, BILOULabels, O
  <2>6. CASE cur.pos = "I"
    <3>1. cur = To("I", cur)
      BY <1>4, <2>6 DEF To
    <3>2. new = IF Continues(original, i)
                THEN IF Continues(original, i + 1) THEN cur ELSE To("L", cur)
                ELSE IF Continues(original, i + 1) THEN To("B", cur) ELSE To("U", cur)
      <4>1. cur.pos # "B"
        BY <2>6
      <4>2. (At(labels, i - 1) = cur \/ At(labels, i - 1) = To("B", cur))
              <=> Continues(original, i)
        BY <2>3, <3>1
      <4>3. At(labels, i + 1) = cur <=> Continues(original, i + 1)
        BY <2>4, <3>1
      <4>. QED BY <1>2, <2>1, <4>1, <4>2, <4>3 DEF ToBILOU
    <3>. QED BY <1>2, <1>3, <1>6, <2>1, <2>6, <3>2 DEF To, BILOULabels, O
  <2>. QED BY <2>1, <2>5, <2>6
<1>. QED BY <1>5, <1>6

LEMMA BIOIteration ==
  ASSUME Inv, phase = "toBIO", i \in DOMAIN labels,
         NEW new, new = ToBIO(At(labels, i - 1), At(labels, i))
  PROVE  /\ new \in BIOLabels
         /\ new = O <=> original[i] = O
         /\ new.kind = original[i].kind
         /\ original[i] # O => /\ new.pos \in {"B", "I"}
                               /\ Joined(i) => (new.pos = "I" <=> Continues(original, i))
<1>1. PICK n \in Nat :
        /\ original \in [1 .. n -> BIOLabels] /\ labels \in [1 .. n -> BILOULabels]
        /\ DOMAIN original = 1 .. n /\ DOMAIN labels = 1 .. n /\ i \in 1 .. n + 1
  BY Typing
<1> DEFINE cur == labels[i]
<1>2. At(labels, i) = cur /\ cur \in BILOULabels
  BY <1>1 DEF At
<1>3. /\ cur.kind = original[i].kind
      /\ cur = O <=> original[i] = O
      /\ original[i] # O => BILOUEncodes(i)
  BY <1>1 DEF Inv, Encoded, KeepsKind, InBIO
<1>5. CASE original[i] = O
  BY <1>2, <1>3, <1>5 DEF ToBIO, O, BIOLabels
<1>6. CASE original[i] # O
  <2>1. cur # O /\ cur.kind \in Kinds /\ cur.pos \in {"B", "I", "L", "U"}
    BY <1>2, <1>3, <1>6, LabelFacts
  <2>2. cur.pos \in {"I", "L"} <=> Continues(original, i)
    BY <1>3, <1>6 DEF BILOUEncodes
  <2>3. (At(labels, i - 1) = To("I", cur) \/ At(labels, i - 1) = To("B", cur)) <=> Joined(i)
    BY <1>6, LeftWhileToBIO
  <2>4. new = IF cur.pos \in {"U", "B"} /\ Joined(i) THEN To("B", cur)
              ELSE IF cur.pos = "I" THEN cur ELSE To("I", cur)
    BY <1>2, <2>1, <2>3 DEF ToBIO
  <2>5. cur = [pos |-> cur.pos, kind |-> cur.kind]
    BY <1>2, LabelFacts
  <2>6. /\ new = [pos |-> new.pos, kind |-> cur.kind]
        /\ new.pos = IF cur.pos \in {"U", "B"} /\ Joined(i) THEN "B" ELSE "I"
    BY <2>1, <2>4, <2>5 DEF To
  <2>. QED BY <1>3, <1>6, <2>1, <2>2, <2>6 DEF O, BIOLabels
<1>. QED BY <1>5, <1>6

-----------------------------------------------------------------------------
(* The invariant *)

\* Labels as they were read, before any conversion
Started == original \in Seq(BIOLabels) /\ Start

LEMMA StartedInv == Started => Inv
<1> SUFFICES ASSUME Started PROVE Inv
  OBVIOUS
<1> DEFINE n == Len(original)
<1>1. original \in [1 .. n -> BIOLabels]
  BY DEF Started
<1>2. n \in Nat /\ labels = original /\ phase = "BIO" /\ i = 1
  BY DEF Started, Start
<1> HIDE DEF n
<1>3. IndexOK
  BY <1>1, <1>2, BIOIsBILOU DEF IndexOK
<1>4. ASSUME NEW j \in DOMAIN original
      PROVE  KeepsKind(j) /\ (original[j] # O => BIOEncodes(j))
  <2>1. j \in 1 .. n /\ original[j] \in BIOLabels
    BY <1>1, <1>4
  <2>2. original[j] # O => original[j].pos \in {"B", "I"}
    BY <2>1 DEF BIOLabels
  <2>3. Joined(j) => (original[j].pos = "I" <=> Continues(original, j))
    BY <1>1, <1>2, <2>1, ContinuesIsJoined
  <2>. QED BY <1>2, <2>2, <2>3 DEF KeepsKind, BIOEncodes
<1>. QED BY <1>2, <1>3, <1>4 DEF Inv, Phases, Encoded, InBIO

LEMMA InitInv == Init => Inv
<1> SUFFICES ASSUME Init PROVE Inv
  OBVIOUS
<1>1. PICK n \in Sizes : original \in [1 .. n -> BIOLabels]
  BY DEF Init
<1>2. n \in Nat /\ Start
  BY SizeAssumption DEF Init
<1>3. original \in Seq(BIOLabels)
  BY <1>1, <1>2
<1>. QED BY <1>2, <1>3, StartedInv DEF Started

\* Calls and returns move no label, and no token changes sides
LEMMA QuietKeepsInv ==
  ASSUME Inv, UNCHANGED <<original, labels>>, IndexOK', phase' \in Phases,
         \A j \in DOMAIN original : InBIO(j)' <=> InBIO(j)
  PROVE  Inv'
BY DEF Inv, Encoded, KeepsKind, BIOEncodes, BILOUEncodes, Joined, Continues, At, O

\* An iteration that writes what the next code requires of token i
LEMMA IterationKeepsInv ==
  ASSUME Inv, NEW during \in {"toBILOU", "toBIO"}, NEW new \in BILOULabels,
         Iterate(during, new),
         new = O <=> original[i] = O, new.kind = original[i].kind,
         original[i] # O =>
           IF during = "toBIO"
           THEN /\ new.pos \in {"B", "I"}
                /\ Joined(i) => (new.pos = "I" <=> Continues(original, i))
           ELSE new.pos = IF Continues(original, i)
                          THEN IF Continues(original, i + 1) THEN "I" ELSE "L"
                          ELSE IF Continues(original, i + 1) THEN "B" ELSE "U"
  PROVE  Inv'
<1>1. PICK n \in Nat :
        /\ original \in [1 .. n -> BIOLabels] /\ labels \in [1 .. n -> BILOULabels]
        /\ DOMAIN original = 1 .. n /\ DOMAIN labels = 1 .. n
        /\ i \in 1 .. n + 1
  BY Typing
<1>2. /\ phase = during /\ phase' = during /\ i \in 1 .. n
      /\ labels' = [labels EXCEPT ![i] = new] /\ i' = i + 1 /\ original' = original
  BY <1>1 DEF Iterate
<1>3. IndexOK'
  <2>1. labels' \in [1 .. n -> BILOULabels] /\ i' \in 1 .. n + 1
    BY <1>1, <1>2
  <2>2. ~(phase' \in {"BIO", "BILOU"})
    BY <1>2
  <2>. QED BY <1>1, <1>2, <2>1, <2>2 DEF IndexOK
<1>4. ASSUME NEW j \in 1 .. n
      PROVE  /\ KeepsKind(j)'
             /\ original'[j] # O => IF InBIO(j)' THEN BIOEncodes(j)' ELSE BILOUEncodes(j)'
  <2>1. CASE j = i
    <3>1. labels'[j] = new
      BY <1>1, <1>2, <2>1
    <3>2. InBIO(j)' <=> during = "toBIO"
      BY <1>1, <1>2, <2>1 DEF InBIO
    <3>3. KeepsKind(j)'
      BY <1>2, <2>1, <3>1 DEF KeepsKind, O
    <3>4. CASE during = "toBIO"
      BY <1>2, <2>1, <3>1, <3>2, <3>3, <3>4 DEF BIOEncodes, Joined, Continues, At, O
    <3>5. CASE during = "toBILOU"
      BY <1>2, <2>1, <3>1, <3>2, <3>3, <3>5 DEF BILOUEncodes, Continues, At, O
    <3>. QED BY <3>4, <3>5
  <2>2. CASE j # i
    <3>1. labels'[j] = labels[j]
      BY <1>1, <1>2, <2>2
    <3>2. InBIO(j)' <=> InBIO(j)
      BY <1>1, <1>2, <2>2 DEF InBIO
    <3>3. KeepsKind(j) /\ (original[j] # O => IF InBIO(j) THEN BIOEncodes(j) ELSE BILOUEncodes(j))
      BY <1>1 DEF Inv, Encoded
    <3>. QED
      BY <1>2, <3>1, <3>2, <3>3
         DEF KeepsKind, BIOEncodes, BILOUEncodes, Joined, Continues, At, O
  <2>. QED BY <2>1, <2>2
<1>. QED BY <1>1, <1>2, <1>3, <1>4 DEF Inv, Encoded, Phases

LEMMA StepInv == Inv /\ [Next]_vars => Inv'
<1> SUFFICES ASSUME Inv, [Next]_vars PROVE Inv'
  OBVIOUS
<1>1. PICK n \in Nat :
        /\ original \in [1 .. n -> BIOLabels] /\ labels \in [1 .. n -> BILOULabels]
        /\ DOMAIN original = 1 .. n /\ DOMAIN labels = 1 .. n
        /\ i \in 1 .. n + 1
        /\ phase \in {"BIO", "BILOU"} => i = 1 \/ i = n + 1
  BY Typing
<1>2. CASE Call("BIO", "toBILOU")
  <2>1. phase = "BIO" /\ phase' = "toBILOU" /\ i' = 1 /\ UNCHANGED <<original, labels>>
    BY <1>2 DEF Call
  <2>. QED BY <1>1, <2>1, QuietKeepsInv DEF IndexOK, Phases, InBIO
<1>3. CASE Call("BILOU", "toBIO")
  <2>1. phase = "BILOU" /\ phase' = "toBIO" /\ i' = 1 /\ UNCHANGED <<original, labels>>
    BY <1>3 DEF Call
  <2>. QED BY <1>1, <2>1, QuietKeepsInv DEF IndexOK, Phases, InBIO
<1>4. CASE Return("toBILOU", "BILOU")
  <2>1. /\ phase = "toBILOU" /\ phase' = "BILOU" /\ i = n + 1
        /\ UNCHANGED <<original, labels, i>>
    BY <1>1, <1>4 DEF Return
  <2>. QED BY <1>1, <2>1, QuietKeepsInv DEF IndexOK, Phases, InBIO
<1>5. CASE Return("toBIO", "BIO")
  <2>1. /\ phase = "toBIO" /\ phase' = "BIO" /\ i = n + 1
        /\ UNCHANGED <<original, labels, i>>
    BY <1>1, <1>5 DEF Return
  <2>. QED BY <1>1, <2>1, QuietKeepsInv DEF IndexOK, Phases, InBIO
<1> DEFINE bilou == ToBILOU(At(labels, i - 1), At(labels, i), At(labels, i + 1))
           bio == ToBIO(At(labels, i - 1), At(labels, i))
<1>6. CASE Iterate("toBILOU", bilou)
  <2>1. phase = "toBILOU" /\ i \in DOMAIN labels
    BY <1>6 DEF Iterate
  <2>2. /\ bilou \in BILOULabels
        /\ bilou = O <=> original[i] = O
        /\ bilou.kind = original[i].kind
        /\ original[i] # O =>
             bilou.pos = IF Continues(original, i)
                         THEN IF Continues(original, i + 1) THEN "I" ELSE "L"
                         ELSE IF Continues(original, i + 1) THEN "B" ELSE "U"
    BY <2>1, BILOUIteration
  <2> HIDE DEF bilou
  <2>. QED BY <1>6, <2>2, IterationKeepsInv
<1>7. CASE Iterate("toBIO", bio)
  <2>1. phase = "toBIO" /\ i \in DOMAIN labels
    BY <1>7 DEF Iterate
  <2>2. /\ bio \in BIOLabels
        /\ bio = O <=> original[i] = O
        /\ bio.kind = original[i].kind
        /\ original[i] # O =>
             /\ bio.pos \in {"B", "I"}
             /\ Joined(i) => (bio.pos = "I" <=> Continues(original, i))
    BY <2>1, BIOIteration
  <2>3. bio \in BILOULabels
    BY <2>2, BIOIsBILOU
  <2> HIDE DEF bio
  <2>. QED BY <1>7, <2>2, <2>3, IterationKeepsInv
<1>8. CASE UNCHANGED vars
  <2>1. UNCHANGED <<original, labels, phase, i>>
    BY <1>8 DEF vars
  <2>2. IndexOK' /\ phase' \in Phases
    BY <2>1 DEF Inv, IndexOK
  <2>. QED BY <2>1, <2>2, QuietKeepsInv DEF InBIO
<1>. QED
  BY <1>2, <1>3, <1>4, <1>5, <1>6, <1>7, <1>8 DEF Next, ConvertToBILOU, ConvertToBIO

LEMMA Invariance == Spec => []Inv
BY InitInv, StepInv, PTL DEF Spec

-----------------------------------------------------------------------------
(* What the invariant gives *)

\* The conversions keep the length of the vector and leave it in the code
\* they promise.
THEOREM TypeCorrect == Spec => []TypeOK
<1> DEFINE SizeOK == \E n \in Sizes : DOMAIN original = 1 .. n
<1>1. Inv /\ SizeOK => TypeOK
  <2> SUFFICES ASSUME Inv, SizeOK PROVE TypeOK
    OBVIOUS
  <2>1. PICK n \in Nat :
          /\ original \in [1 .. n -> BIOLabels] /\ labels \in [1 .. n -> BILOULabels]
          /\ DOMAIN original = 1 .. n /\ DOMAIN labels = 1 .. n
          /\ i \in 1 .. n + 1
    BY Typing
  <2>2. ASSUME phase = "BIO", NEW j \in DOMAIN labels
        PROVE  labels[j] \in BIOLabels
    <3>1. labels[j] # O => labels[j].pos \in {"B", "I"}
      BY <2>1, <2>2 DEF Inv, Encoded, InBIO, KeepsKind, BIOEncodes
    <3>2. labels[j] \in BILOULabels
      BY <2>1, <2>2
    <3>. QED BY <3>1, <3>2 DEF BILOULabels, BIOLabels
  <2>3. n \in Sizes
    <3>1. PICK m \in Sizes : 1 .. m = 1 .. n
      BY <2>1
    <3>. QED BY <2>1, <3>1, SizeAssumption
  <2>. QED BY <2>1, <2>2, <2>3 DEF TypeOK, Inv
<1>2. Init => SizeOK
  BY DEF Init
<1>3. SizeOK /\ [Next]_vars => SizeOK'
  BY DEF Next, ConvertToBILOU, ConvertToBIO, Call, Iterate, Return, vars
<1> HIDE DEF SizeOK
<1>. QED BY <1>1, <1>2, <1>3, Invariance, PTL DEF Spec

\* Token by token, labels in BIO say what the original says
LEMMA BIOAgrees ==
  ASSUME Inv, phase = "BIO", NEW j \in Nat
  PROVE  Continues(labels, j) <=> Continues(original, j)
<1>1. PICK n \in Nat :
        /\ original \in [1 .. n -> BIOLabels] /\ labels \in [1 .. n -> BILOULabels]
        /\ DOMAIN original = 1 .. n /\ DOMAIN labels = 1 .. n
  BY Typing
<1>2. CASE j \in 1 .. n
  <2>1. /\ labels[j].kind = original[j].kind
        /\ labels[j] = O <=> original[j] = O
        /\ original[j] # O => BIOEncodes(j)
    BY <1>1, <1>2 DEF Inv, Encoded, KeepsKind, InBIO
  <2>2. Continues(original, j) <=> Joined(j) /\ original[j].pos = "I"
    BY <1>1, <1>2, ContinuesIsJoined
  <2>3. j - 1 \in 1 .. n => /\ labels[j - 1].kind = original[j - 1].kind
                            /\ labels[j - 1] = O <=> original[j - 1] = O
    BY <1>1 DEF Inv, Encoded, KeepsKind
  <2>4. Continues(labels, j) <=> Joined(j) /\ labels[j].pos = "I"
    <3>1. At(labels, j) = labels[j]
      BY <1>1, <1>2 DEF At
    <3>2. labels[j].pos = "I" => labels[j] # O
      BY DEF O
    <3>3. CASE j - 1 \in 1 .. n
      BY <1>1, <2>1, <2>3, <3>1, <3>2, <3>3 DEF Continues, Joined, At
    <3>4. CASE j - 1 \notin 1 .. n
      BY <1>1, <3>4 DEF Continues, Joined, At
    <3>. QED BY <3>3, <3>4
  <2>. QED BY <2>1, <2>2, <2>4 DEF BIOEncodes, Joined
<1>3. CASE j \notin 1 .. n
  BY <1>1, <1>3 DEF Continues, At, O
<1>. QED BY <1>2, <1>3

LEMMA InvKeepsChunks == Inv => ChunksSurvive
<1> SUFFICES ASSUME Inv, phase = "BIO" PROVE Chunks(labels) = Chunks(original)
  BY DEF ChunksSurvive
<1>1. PICK n \in Nat : DOMAIN original = 1 .. n /\ DOMAIN labels = 1 .. n
  BY Typing
<1>2. \A j \in 1 .. n : labels[j].kind = original[j].kind
  BY <1>1 DEF Inv, Encoded, KeepsKind
<1>3. \A j \in Nat : Continues(labels, j) <=> Continues(original, j)
  BY BIOAgrees
<1>4. ASSUME NEW c \in [first : 1 .. n, last : 1 .. n, kind : Kinds]
      PROVE  /\ c.first \in Nat /\ c.last + 1 \in Nat
             /\ \A j \in c.first + 1 .. c.last : j \in Nat
             /\ labels[c.first].kind = original[c.first].kind
  BY <1>2
<1>. QED BY <1>1, <1>3, <1>4 DEF Chunks

\* For sentences of every length, the chunks convert_sentence() finds survive
\* any number of conversions to BILOU and back.
THEOREM ConversionsKeepChunks == Spec => []ChunksSurvive
BY InvKeepsChunks, Invariance, PTL

\* A chunk of the original is of one kind, its first token's: otherwise there
\* is a first token of another kind, but it continues its left neighbour's.
LEMMA OneKind ==
  ASSUME NEW n \in Nat, original \in [1 .. n -> BIOLabels],
         NEW f \in 1 .. n, NEW l \in 1 .. n, original[f] # O,
         \A j \in f + 1 .. l : Continues(original, j)
  PROVE  \A j \in f .. l : original[j].kind = original[f].kind
<1> DEFINE Other == {j \in f .. l : original[j].kind # original[f].kind}
<1>1. SUFFICES ASSUME Other # {} PROVE FALSE
  BY <1>1
<1>2. PICK j \in Other : \A k \in Other : ~(<<k, j>> \in OpToRel(<, Nat))
  <2>1. Other \subseteq Nat
    OBVIOUS
  <2>. QED BY <1>1, <2>1, NatLessThanWellFounded, WFMin
<1>3. j # f /\ j \in f + 1 .. l /\ j - 1 \in f .. l
  OBVIOUS
<1>4. original[j - 1].kind = original[j].kind
  BY <1>3 DEF Continues, At
<1>5. j - 1 \in Other
  BY <1>3, <1>4
<1>6. <<j - 1, j>> \in OpToRel(<, Nat)
  BY <1>3, <1>5 DEF OpToRel
<1>. QED BY <1>2, <1>5, <1>6

LEMMA InvShowsChunks == Inv => BILOUShowsChunks
<1> DEFINE Shown(c) ==
      \/ c.first = c.last /\ labels[c.first] = [pos |-> "U", kind |-> c.kind]
      \/ /\ c.first < c.last
         /\ labels[c.first] = [pos |-> "B", kind |-> c.kind]
         /\ \A j \in c.first + 1 .. c.last - 1 : labels[j] = [pos |-> "I", kind |-> c.kind]
         /\ labels[c.last] = [pos |-> "L", kind |-> c.kind]
    Chunk(c) ==
      /\ c.first <= c.last
      /\ original[c.first].kind = c.kind
      /\ ~Continues(original, c.first)
      /\ \A j \in c.first + 1 .. c.last : Continues(original, j)
      /\ ~Continues(original, c.last + 1)
<1>1. ASSUME Inv, phase = "BILOU",
             NEW c \in [first : DOMAIN labels, last : DOMAIN labels, kind : Kinds]
      PROVE  Shown(c) <=> Chunk(c)
  <2>1. PICK n \in Nat :
          /\ original \in [1 .. n -> BIOLabels] /\ labels \in [1 .. n -> BILOULabels]
          /\ DOMAIN original = 1 .. n /\ DOMAIN labels = 1 .. n
    BY <1>1, Typing
  <2>2. /\ c.first \in 1 .. n /\ c.last \in 1 .. n /\ c.kind \in Kinds
        /\ c.kind # NotEntity
    BY <1>1, <2>1, KindAssumption
  <2>3. ASSUME NEW j \in 1 .. n
        PROVE  /\ labels[j] = [pos |-> labels[j].pos, kind |-> original[j].kind]
               /\ original[j].kind # NotEntity =>
                    labels[j].pos = IF Continues(original, j)
                                    THEN IF Continues(original, j + 1) THEN "I" ELSE "L"
                                    ELSE IF Continues(original, j + 1) THEN "B" ELSE "U"
    <3>1. labels[j] \in BILOULabels /\ original[j] \in BILOULabels
      BY <2>1, BIOIsBILOU
    <3>. QED
      BY <1>1, <2>1, <3>1, LabelFacts DEF Inv, Encoded, KeepsKind, InBIO, BILOUEncodes
  <2>4. ASSUME NEW j \in 1 .. n, NEW p, labels[j] = [pos |-> p, kind |-> c.kind]
        PROVE  /\ original[j].kind = c.kind
               /\ p = IF Continues(original, j)
                      THEN IF Continues(original, j + 1) THEN "I" ELSE "L"
                      ELSE IF Continues(original, j + 1) THEN "B" ELSE "U"
    <3>1. [pos |-> labels[j].pos, kind |-> original[j].kind] = [pos |-> p, kind |-> c.kind]
      BY <2>3, <2>4
    <3>2. original[j].kind = c.kind
      BY <3>1
    <3>3. labels[j].pos = p
      BY <3>1
    <3>. QED BY <2>2, <2>3, <3>2, <3>3
  <2>5. ASSUME Shown(c) PROVE Chunk(c)
    <3>1. CASE c.first = c.last /\ labels[c.first] = [pos |-> "U", kind |-> c.kind]
      BY <2>2, <2>4, <3>1
    <3>2. CASE /\ c.first < c.last
               /\ labels[c.first] = [pos |-> "B", kind |-> c.kind]
               /\ \A j \in c.first + 1 .. c.last - 1 : labels[j] = [pos |-> "I", kind |-> c.kind]
               /\ labels[c.last] = [pos |-> "L", kind |-> c.kind]
      <4>1. original[c.first].kind = c.kind /\ ~Continues(original, c.first)
        BY <2>2, <2>4, <3>2
      <4>2. Continues(original, c.last) /\ ~Continues(original, c.last + 1)
        BY <2>2, <2>4, <3>2
      <4>3. ASSUME NEW j \in c.first + 1 .. c.last - 1 PROVE Continues(original, j)
        <5>1. j \in 1 .. n
          BY <2>2
        <5>. QED BY <2>4, <3>2, <5>1
      <4>4. \A j \in c.first + 1 .. c.last : j = c.last \/ j \in c.first + 1 .. c.last - 1
        BY <2>2
      <4>5. \A j \in c.first + 1 .. c.last : Continues(original, j)
        BY <4>2, <4>3, <4>4
      <4>6. c.first <= c.last
        BY <2>2, <3>2
      <4>. QED BY <4>1, <4>2, <4>5, <4>6
    <3>. QED BY <2>5, <3>1, <3>2
  <2>6. ASSUME Chunk(c) PROVE Shown(c)
    <3>1. original[c.first] # O
      BY <2>2, <2>6 DEF O
    <3>2. \A j \in c.first .. c.last : original[j].kind = c.kind
      BY <2>1, <2>2, <2>6, <3>1, OneKind, ZenonT(60)
    <3>3. ASSUME NEW j \in c.first .. c.last
          PROVE  labels[j] = [pos |-> IF Continues(original, j)
                                      THEN IF Continues(original, j + 1) THEN "I" ELSE "L"
                                      ELSE IF Continues(original, j + 1) THEN "B" ELSE "U",
                              kind |-> c.kind]
      <4>1. j \in 1 .. n
        BY <2>2
      <4>. QED BY <2>2, <2>3, <3>2, <4>1
    <3>4. CASE c.first = c.last
      BY <2>2, <2>6, <3>3, <3>4
    <3>5. CASE c.first < c.last
      <4>1. labels[c.first] = [pos |-> "B", kind |-> c.kind]
        <5>1. Continues(original, c.first + 1) /\ ~Continues(original, c.first)
          BY <2>2, <2>6, <3>5
        <5>2. c.first \in c.first .. c.last
          BY <2>2, <3>5
        <5>. QED BY <3>3, <5>1, <5>2
      <4>2. labels[c.last] = [pos |-> "L", kind |-> c.kind]
        <5>1. Continues(original, c.last) /\ ~Continues(original, c.last + 1)
          BY <2>2, <2>6, <3>5
        <5>2. c.last \in c.first .. c.last
          BY <2>2, <3>5
        <5>. QED BY <3>3, <5>1, <5>2
      <4>3. ASSUME NEW j \in c.first + 1 .. c.last - 1
            PROVE  labels[j] = [pos |-> "I", kind |-> c.kind]
        <5>1. Continues(original, j) /\ Continues(original, j + 1)
          BY <2>2, <2>6
        <5>. QED BY <2>2, <3>3, <5>1
      <4>. QED BY <3>5, <4>1, <4>2, <4>3
    <3>. QED BY <2>2, <2>6, <3>4, <3>5
  <2>. QED BY <2>5, <2>6
<1> SUFFICES ASSUME Inv, phase = "BILOU" PROVE BILOUShowsChunks
  BY DEF BILOUShowsChunks
<1>2. DOMAIN labels = DOMAIN original
  BY Typing
<1>3. \A c \in [first : DOMAIN labels, last : DOMAIN labels, kind : Kinds] :
        Shown(c) <=> Chunk(c)
  BY <1>1
<1>. QED BY <1>2, <1>3 DEF BILOUShowsChunks, Chunks

\* For sentences of every length, BILOU shows the chunks of the file.
THEOREM BILOUIsReadable == Spec => []BILOUShowsChunks
BY InvShowsChunks, Invariance, PTL

-----------------------------------------------------------------------------
(* The sentences of a file: convert_sentence(), which goes on behind the    *)
(* chunk it has found, finds what Chunks() says of every place.             *)

\* A set of natural numbers that is not empty has a least element.
LEMMA LeastNatural ==
  ASSUME NEW T \in SUBSET Nat, T # {}
  PROVE  \E x \in T : \A y \in T : x <= y
<1>1. IsWellFoundedOn(OpToRel(<, Nat), Nat)
  BY NatLessThanWellFounded
<1>2. PICK x \in T : \A y \in T : ~(<<y, x>> \in OpToRel(<, Nat))
  BY <1>1, WFMin, Zenon
<1>3. \A u, v \in Nat : v < u => <<v, u>> \in OpToRel(<, Nat)
  BY DEF OpToRel
<1>4. \A y \in T : ~(y < x)
  BY <1>2, <1>3, Zenon
<1>. QED BY <1>4

\* The loop of convert_sentence() ends, at the last token that continues
LEMMA ChunkEnds ==
  ASSUME NEW l \in Seq(BIOLabels), NEW j \in 1 .. Len(l)
  PROVE  /\ EndOfChunk(l, j) \in j .. Len(l)
         /\ \A m \in j + 1 .. EndOfChunk(l, j) : l[m] = To("I", l[j])
         /\ EndOfChunk(l, j) < Len(l) => l[EndOfChunk(l, j) + 1] # To("I", l[j])
<1> DEFINE T == {k \in j .. Len(l) : k < Len(l) => l[k + 1] # To("I", l[j])}
           Ends(k) == /\ \A m \in (j + 1) .. k : l[m] = To("I", l[j])
                      /\ k < Len(l) => l[k + 1] # To("I", l[j])
<1>1. Len(l) \in T /\ T \in SUBSET Nat
  OBVIOUS
<1>2. PICK k \in T : \A m \in T : k <= m
  BY <1>1, LeastNatural
<1>3. ASSUME NEW m \in (j + 1) .. k PROVE l[m] = To("I", l[j])
  <2>1. m - 1 \in j .. Len(l) /\ m - 1 < k /\ m - 1 < Len(l) /\ (m - 1) + 1 = m
    BY <1>2
  <2>2. ~(m - 1 \in T)
    BY <1>1, <1>2, <2>1
  <2>. QED BY <2>1, <2>2
<1>4. k \in j .. Len(l) /\ Ends(k)
  BY <1>2, <1>3
<1> HIDE DEF T
<1>5. EndOfChunk(l, j) = CHOOSE x \in j .. Len(l) : Ends(x)
  BY DEF EndOfChunk
<1> HIDE DEF Ends
<1>6. EndOfChunk(l, j) \in j .. Len(l) /\ Ends(EndOfChunk(l, j))
  BY Zenon, <1>4, <1>5
<1>. QED BY <1>6 DEF Ends

\* The tokens up to there continue the chunk, and the next one does not.
LEMMA EndsWhereItContinues ==
  ASSUME NEW l \in Seq(BIOLabels), NEW j \in 1 .. Len(l), l[j] # O
  PROVE  /\ \A m \in j + 1 .. EndOfChunk(l, j) : Continues(l, m)
         /\ ~Continues(l, EndOfChunk(l, j) + 1)
<1> DEFINE k == EndOfChunk(l, j)
<1>1. /\ k \in j .. Len(l) /\ \A m \in j + 1 .. k : l[m] = To("I", l[j])
      /\ k < Len(l) => l[k + 1] # To("I", l[j])
  BY ChunkEnds
<1> HIDE DEF k
<1>2. l[j] \in BILOULabels /\ l[j].kind \in Kinds
  BY BIOIsBILOU, LabelFacts
<1>3. To("I", l[j]) # O /\ To("I", l[j]).kind = l[j].kind /\ To("I", l[j]).pos = "I"
  BY <1>2, KindAssumption DEF To, O
<1>4. \A m \in j .. k : l[m] # O /\ l[m].kind = l[j].kind /\ At(l, m) = l[m]
  BY <1>1, <1>3 DEF At
<1>5. ASSUME NEW m \in j + 1 .. k PROVE Continues(l, m)
  <2>1. m \in j .. k /\ m - 1 \in j .. k /\ l[m].pos = "I"
    BY <1>1, <1>3
  <2>. QED BY <1>4, <2>1 DEF Continues
<1>6. ~Continues(l, k + 1)
  <2>1. CASE k < Len(l)
    <3>1. /\ k + 1 \in 1 .. Len(l) /\ l[k + 1] \in BIOLabels /\ At(l, k + 1) = l[k + 1]
          /\ k \in j .. k /\ (k + 1) - 1 = k
      BY <1>1, <2>1 DEF At
    <3>2. l[k + 1].pos = "I" /\ l[k + 1].kind = l[j].kind => l[k + 1] = To("I", l[j])
      BY <3>1, BIOIsBILOU, LabelFacts DEF To
    <3>. QED BY <1>1, <1>4, <2>1, <3>1, <3>2 DEF Continues
  <2>2. CASE k = Len(l)
    BY <1>1, <2>2 DEF Continues, At, O
  <2>. QED BY <1>1, <2>1, <2>2
<1>. QED BY <1>5, <1>6 DEF k

FirstChunk(l, j) == [first |-> j, last |-> EndOfChunk(l, j), kind |-> l[j].kind]

ChunksFrom(l, j) == {c \in Chunks(l) : c.first >= j}

\* What is found at token j, which continues nothing, and behind it
LEMMA ChunkFound ==
  ASSUME NEW l \in Seq(BIOLabels), NEW j \in 1 .. Len(l), ~Continues(l, j), l[j] # O
  PROVE  ChunksFrom(l, j) = {FirstChunk(l, j)} \cup ChunksFrom(l, EndOfChunk(l, j) + 1)
<1> DEFINE k == EndOfChunk(l, j)
           a == FirstChunk(l, j)
<1>1. /\ k \in j .. Len(l) /\ \A m \in j + 1 .. k : Continues(l, m)
      /\ ~Continues(l, k + 1)
  BY ChunkEnds, EndsWhereItContinues
<1>2. l[j].kind \in Kinds
  BY BIOIsBILOU, LabelFacts
<1>3. a = [first |-> j, last |-> k, kind |-> l[j].kind]
  BY DEF FirstChunk
<1> HIDE DEF k, a
<1>4. a \in Chunks(l) /\ a.first = j
  BY <1>1, <1>2, <1>3 DEF Chunks
<1>5. ASSUME NEW c \in Chunks(l), c.first >= j PROVE c = a \/ c.first >= k + 1
  <2>1. /\ c \in [first : 1 .. Len(l), last : 1 .. Len(l), kind : Kinds]
        /\ c.first <= c.last /\ l[c.first].kind = c.kind /\ ~Continues(l, c.first)
        /\ \A m \in c.first + 1 .. c.last : Continues(l, m)
        /\ ~Continues(l, c.last + 1)
    BY DEF Chunks
  <2>2. c.first = j \/ c.first >= k + 1
    BY <1>1, <1>5, <2>1
  <2>3. CASE c.first = j
    <3>1. ~(c.last < k)
      <4>1. c.last < k => c.last + 1 \in j + 1 .. k
        BY <1>1, <2>1, <2>3
      <4>. QED BY <1>1, <2>1, <4>1
    <3>2. ~(k < c.last)
      <4>1. k < c.last => k + 1 \in c.first + 1 .. c.last
        BY <1>1, <2>1, <2>3
      <4>. QED BY <1>1, <2>1, <4>1
    <3>3. c.last = k /\ c.kind = l[j].kind
      BY <1>1, <2>1, <2>3, <3>1, <3>2
    <3>. QED BY <1>3, <2>1, <2>3, <3>3
  <2>. QED BY <2>2, <2>3
<1>6. ASSUME NEW c \in Chunks(l), c.first >= k + 1 PROVE c.first >= j
  BY <1>1, <1>6 DEF Chunks
<1>. QED BY <1>4, <1>5, <1>6 DEF ChunksFrom, k, a

LEMMA NoChunkFound ==
  ASSUME NEW l \in Seq(BIOLabels), NEW j \in 1 .. Len(l), l[j] = O
  PROVE  ChunksFrom(l, j) = ChunksFrom(l, j + 1) /\ ~Continues(l, j + 1)
<1>1. ASSUME NEW c \in Chunks(l) PROVE c.first \in 1 .. Len(l) /\ c.first # j
  <2>1. c.first \in 1 .. Len(l) /\ l[c.first].kind = c.kind /\ c.kind \in Kinds
    BY DEF Chunks
  <2>. QED BY <2>1, KindAssumption DEF O
<1>2. \A c \in Chunks(l) : c.first >= j <=> c.first >= j + 1
  BY <1>1
<1>3. ~Continues(l, j + 1)
  BY DEF Continues, At
<1>. QED BY <1>2, <1>3 DEF ChunksFrom

\* The recursion of convert_sentence() from token j on
Found(l, f, m) ==
  IF m > Len(l) THEN {}
  ELSE IF l[m] = O THEN f[m + 1]
  ELSE {FirstChunk(l, m)} \cup f[EndOfChunk(l, m) + 1]

Finds(l, f, j) == f = [m \in j .. Len(l) + 1 |-> Found(l, f, m)]

LEMMA FoundLater ==
  ASSUME NEW l \in Seq(BIOLabels), NEW f, NEW g, NEW m \in 1 .. Len(l) + 1,
         \A k \in m + 1 .. Len(l) + 1 : f[k] = g[k]
  PROVE  Found(l, f, m) = Found(l, g, m)
<1>1. CASE m > Len(l)
  BY <1>1 DEF Found
<1>2. CASE ~(m > Len(l))
  <2>1. m \in 1 .. Len(l)
    BY <1>2
  <2>2. EndOfChunk(l, m) \in m .. Len(l)
    BY <2>1, ChunkEnds
  <2>3. m + 1 \in m + 1 .. Len(l) + 1 /\ EndOfChunk(l, m) + 1 \in m + 1 .. Len(l) + 1
    BY <2>1, <2>2
  <2>. QED BY <1>2, <2>3 DEF Found
<1>. QED BY <1>1, <1>2

LEMMA FinderGoesOn ==
  ASSUME NEW l \in Seq(BIOLabels), NEW j \in 1 .. Len(l), NEW f, Finds(l, f, j + 1)
  PROVE  \E g : Finds(l, g, j)
<1> DEFINE g == [m \in j .. Len(l) + 1 |-> IF m = j THEN Found(l, f, j) ELSE f[m]]
<1>1. \A k \in j + 1 .. Len(l) + 1 : f[k] = g[k] /\ f[k] = Found(l, f, k)
  <2>1. \A k \in j + 1 .. Len(l) + 1 : f[k] = Found(l, f, k)
    BY DEF Finds
  <2>2. \A k \in j + 1 .. Len(l) + 1 : k \in j .. Len(l) + 1 /\ k # j
    OBVIOUS
  <2>. QED BY <2>1, <2>2
<1>2. g[j] = Found(l, f, j)
  OBVIOUS
<1>3. \A m \in j .. Len(l) + 1 : g[m] = IF m = j THEN Found(l, f, j) ELSE f[m]
  OBVIOUS
<1>4. DOMAIN g = j .. Len(l) + 1 /\ g = [m \in j .. Len(l) + 1 |-> g[m]]
  OBVIOUS
<1> HIDE DEF g
<1>5. ASSUME NEW m \in j .. Len(l) + 1 PROVE g[m] = Found(l, g, m)
  <2>1. g[m] = Found(l, f, m)
    BY <1>1, <1>2
  <2>2. \A k \in m + 1 .. Len(l) + 1 : f[k] = g[k]
    BY <1>1
  <2>3. m \in 1 .. Len(l) + 1
    OBVIOUS
  <2>4. Found(l, f, m) = Found(l, g, m)
    BY <2>2, <2>3, FoundLater
  <2>. QED BY <2>1, <2>4
<1>6. Finds(l, g, j)
  BY <1>4, <1>5 DEF Finds
<1>. QED BY <1>6

LEMMA FinderExists ==
  ASSUME NEW l \in Seq(BIOLabels)
  PROVE  \E f : Finds(l, f, 1)
<1> DEFINE T == {n \in Nat : n <= Len(l) /\ ~\E f : Finds(l, f, Len(l) + 1 - n)}
<1>1. SUFFICES ASSUME T # {} PROVE FALSE
  <2>1. Len(l) \in Nat /\ Len(l) + 1 - Len(l) = 1
    OBVIOUS
  <2>. QED BY <1>1, <2>1
<1>2. PICK n \in T : \A m \in T : n <= m
  BY <1>1, LeastNatural
<1>3. CASE n = 0
  <2> DEFINE f == [m \in Len(l) + 1 .. Len(l) + 1 |-> {}]
  <2>1. \A m \in Len(l) + 1 .. Len(l) + 1 : Found(l, f, m) = {}
    BY DEF Found
  <2>2. Finds(l, f, Len(l) + 1)
    BY <2>1 DEF Finds
  <2>. QED BY <1>2, <1>3, <2>2
<1>4. CASE n # 0
  <2> DEFINE j == Len(l) + 1 - n
  <2>1. /\ n - 1 \in Nat /\ ~(n <= n - 1) /\ n - 1 <= Len(l) /\ j \in 1 .. Len(l)
        /\ Len(l) + 1 - (n - 1) = j + 1
    BY <1>2, <1>4
  <2>2. \E f : Finds(l, f, j + 1)
    BY <1>2, <2>1
  <2>3. \E g : Finds(l, g, j)
    BY <2>1, <2>2, FinderGoesOn
  <2>. QED BY <1>2, <2>3
<1>. QED BY <1>3, <1>4

LEMMA FinderFinds ==
  ASSUME NEW l \in Seq(BIOLabels), NEW f, Finds(l, f, 1)
  PROVE  f[1] = Chunks(l)
<1> DEFINE Right(j) == j = Len(l) + 1 \/ ~Continues(l, j) => f[j] = ChunksFrom(l, j)
           T == {n \in Nat : n <= Len(l) /\ ~Right(Len(l) + 1 - n)}
<1>1. ASSUME T # {} PROVE FALSE
  <2>1. PICK n \in T : \A m \in T : n <= m
    BY <1>1, LeastNatural
  <2> DEFINE j == Len(l) + 1 - n
  <2>2. n \in 0 .. Len(l) /\ j \in 1 .. Len(l) + 1 /\ ~Right(j)
    BY <2>1
  <2>3. ASSUME NEW k \in j + 1 .. Len(l) + 1 PROVE Right(k)
    <3>1. /\ Len(l) + 1 - k \in Nat /\ Len(l) + 1 - k < n /\ Len(l) + 1 - k <= Len(l)
          /\ Len(l) + 1 - (Len(l) + 1 - k) = k
      BY <2>2
    <3>2. ~(Len(l) + 1 - k \in T)
      BY <2>1, <2>2, <3>1
    <3>. QED BY <3>1, <3>2
  <2>4. f[j] = Found(l, f, j)
    BY <2>2 DEF Finds
  <2>5. j = Len(l) + 1 \/ ~Continues(l, j)
    BY <2>2
  <2>6. f[j] # ChunksFrom(l, j)
    BY <2>2
  <2> HIDE DEF j
  <2>7. CASE j > Len(l)
    <3>1. f[j] = {}
      BY <2>4, <2>7 DEF Found
    <3>2. \A c \in Chunks(l) : ~(c.first >= j)
      BY <2>2, <2>7 DEF Chunks
    <3>. QED BY <2>6, <3>1, <3>2 DEF ChunksFrom
  <2>8. CASE ~(j > Len(l)) /\ l[j] = O
    <3>1. j \in 1 .. Len(l) /\ j + 1 \in j + 1 .. Len(l) + 1
      BY <2>2, <2>8
    <3>2. f[j] = f[j + 1]
      BY <2>4, <2>8 DEF Found
    <3>3. ChunksFrom(l, j) = ChunksFrom(l, j + 1) /\ ~Continues(l, j + 1)
      BY <2>8, <3>1, NoChunkFound
    <3>4. f[j + 1] = ChunksFrom(l, j + 1)
      BY <2>3, <3>1, <3>3
    <3>. QED BY <2>6, <3>2, <3>3, <3>4
  <2>9. CASE ~(j > Len(l)) /\ l[j] # O
    <3> DEFINE k == EndOfChunk(l, j)
    <3>1. j \in 1 .. Len(l)
      BY <2>2, <2>9
    <3>2. k \in j .. Len(l) /\ ~Continues(l, k + 1)
      BY <2>9, <3>1, ChunkEnds, EndsWhereItContinues
    <3>3. f[j] = {FirstChunk(l, j)} \cup f[k + 1]
      BY <2>4, <2>9 DEF Found
    <3> HIDE DEF k
    <3>4. k + 1 \in j + 1 .. Len(l) + 1
      BY <3>1, <3>2
    <3>5. f[k + 1] = ChunksFrom(l, k + 1)
      BY <2>3, <3>2, <3>4
    <3>6. ~Continues(l, j)
      BY <2>5, <3>1
    <3>7. ChunksFrom(l, j) = {FirstChunk(l, j)} \cup ChunksFrom(l, k + 1)
      BY <2>9, <3>1, <3>6, ChunkFound DEF k
    <3>. QED BY <2>6, <3>3, <3>5, <3>7
  <2>. QED BY <2>7, <2>8, <2>9
<1>2. Right(1)
  <2>1. Len(l) \in Nat /\ Len(l) <= Len(l) /\ Len(l) + 1 - Len(l) = 1
    OBVIOUS
  <2>. QED BY <1>1, <2>1
<1>3. ~Continues(l, 1)
  BY DEF Continues, At
<1>4. ChunksFrom(l, 1) = Chunks(l)
  BY DEF ChunksFrom, Chunks
<1>. QED BY <1>2, <1>3, <1>4

\* convert_sentence() finds the chunks of a sentence.
LEMMA ConvertSentenceFindsChunks ==
  ASSUME NEW l \in Seq(BIOLabels)
  PROVE  ConvertSentence(l) = Chunks(l)
<1>1. PICK g : Finds(l, g, 1)
  BY FinderExists
<1> DEFINE f == CHOOSE f : Finds(l, f, 1)
<1>2. Finds(l, f, 1)
  BY Zenon, <1>1
<1>3. ConvertSentence(l) = f[1]
  BY Zenon DEF ConvertSentence, Finds, Found, FirstChunk
<1> HIDE DEF f
<1>. QED BY <1>2, <1>3, FinderFinds

-----------------------------------------------------------------------------
(* The file that print_conll_data() writes: sentence by sentence, where     *)
(* each starts and ends.                                                    *)

LineType == [columns : Nat, label : BILOULabels]

Sentences == Seq(Seq(BILOULabels))

Tokens(s) == [n \in 1 .. Len(s) |-> TokenLine(s[n])]

\* The lines of the first k sentences
Printed(ss, f, k) ==
  IF k = 0 THEN <<>> ELSE f[k - 1] \o Tokens(ss[k]) \o <<EmptyLine>>

Prints(ss, f, k) == f = [n \in 0 .. k |-> Printed(ss, f, n)]

\* Sentence n of the first k ends in line at[n], with the empty one.
LaidOut(lines, ss, at, columns, k) ==
  /\ lines \in Seq(LineType) /\ Len(lines) = at[k] /\ at[0] = 0
  /\ \A n \in 1 .. k :
       /\ at[n - 1] \in Nat /\ at[n] \in Nat
       /\ at[n] = at[n - 1] + Len(ss[n]) + 1 /\ at[n] <= at[k]
       /\ lines[at[n]] = EmptyLine
       /\ \A j \in 1 .. Len(ss[n]) :
            lines[at[n - 1] + j] = [columns |-> columns, label |-> ss[n][j]]
  /\ \A n \in 1 .. Len(lines) : lines[n] = EmptyLine \/ lines[n].columns = columns

LEMMA LineTypes ==
  /\ EmptyLine \in LineType /\ EmptyLine.columns = 0
  /\ \A label \in BILOULabels :
       /\ TokenLine(label) \in LineType /\ TokenLine(label).columns = 4
       /\ TwoLabels(label) \in LineType /\ TwoLabels(label).columns = 5
       /\ TokenLine(label).label = label
BY DEF EmptyLine, TokenLine, TwoLabels, LineType, BILOULabels

LEMMA PrinterExists ==
  ASSUME NEW ss
  PROVE  \A k \in Nat : \E f : Prints(ss, f, k)
<1> DEFINE T == {n \in Nat : ~\E f : Prints(ss, f, n)}
<1>1. SUFFICES ASSUME T # {} PROVE FALSE
  BY <1>1
<1>2. PICK n \in T : \A m \in T : n <= m
  BY <1>1, LeastNatural
<1>3. CASE n = 0
  <2> DEFINE f == [m \in 0 .. 0 |-> <<>>]
  <2>1. \A m \in 0 .. 0 : Printed(ss, f, m) = <<>>
    BY DEF Printed
  <2>2. Prints(ss, f, 0)
    BY <2>1 DEF Prints
  <2>. QED BY <1>2, <1>3, <2>2
<1>4. CASE n # 0
  <2>1. n \in Nat /\ n - 1 \in Nat /\ ~(n <= n - 1)
    BY <1>2, <1>4
  <2>2. PICK f : Prints(ss, f, n - 1)
    BY <1>2, <2>1
  <2> DEFINE g == [m \in 0 .. n |-> IF m = n THEN Printed(ss, f, n) ELSE f[m]]
  <2>3. \A m \in 0 .. n - 1 : f[m] = Printed(ss, f, m) /\ g[m] = f[m]
    BY <2>1, <2>2 DEF Prints
  <2>4. g[n] = Printed(ss, f, n) /\ g = [m \in 0 .. n |-> g[m]]
    BY <2>1
  <2> HIDE DEF g
  <2>5. ASSUME NEW m \in 0 .. n PROVE g[m] = Printed(ss, g, m)
    <3>1. m # 0 => m - 1 \in 0 .. n - 1
      BY <2>1
    <3>2. Printed(ss, f, m) = Printed(ss, g, m)
      BY <2>3, <3>1 DEF Printed
    <3>3. m = n \/ m \in 0 .. n - 1
      BY <2>1
    <3>. QED BY <2>3, <2>4, <3>2, <3>3
  <2>6. Prints(ss, g, n)
    BY <2>4, <2>5 DEF Prints
  <2>. QED BY <1>2, <2>6
<1>. QED BY <1>3, <1>4

\* The lines of one more sentence
LEMMA SentencePrinted ==
  ASSUME NEW a \in Seq(LineType), NEW s \in Seq(BILOULabels)
  PROVE  LET b == a \o Tokens(s) \o <<EmptyLine>>
         IN  /\ b \in Seq(LineType) /\ Len(b) = Len(a) + Len(s) + 1
             /\ \A n \in 1 .. Len(a) : b[n] = a[n]
             /\ \A j \in 1 .. Len(s) : b[Len(a) + j] = TokenLine(s[j])
             /\ b[Len(a) + Len(s) + 1] = EmptyLine
<1> DEFINE t == Tokens(s)
           e == <<EmptyLine>>
<1>1. \A j \in 1 .. Len(s) : s[j] \in BILOULabels /\ TokenLine(s[j]) \in LineType
  BY LineTypes
<1>2. t \in Seq(LineType) /\ Len(t) = Len(s) /\ \A j \in 1 .. Len(s) : t[j] = TokenLine(s[j])
  BY <1>1 DEF Tokens
<1>3. e \in Seq(LineType) /\ Len(e) = 1 /\ e[1] = EmptyLine
  BY LineTypes
<1> HIDE DEF t, e
<1>4. /\ a \o t \in Seq(LineType) /\ Len(a \o t) = Len(a) + Len(s)
      /\ \A n \in 1 .. Len(a) : (a \o t)[n] = a[n]
      /\ \A j \in 1 .. Len(s) : (a \o t)[Len(a) + j] = TokenLine(s[j])
  BY <1>2
<1> DEFINE u == a \o t
<1> HIDE DEF u
<1>5. /\ u \o e \in Seq(LineType) /\ Len(u \o e) = Len(u) + 1
      /\ \A n \in 1 .. Len(u) : (u \o e)[n] = u[n]
      /\ (u \o e)[Len(u) + 1] = EmptyLine
  <2>1. u \in Seq(LineType)
    BY <1>4 DEF u
  <2>2. /\ u \o e \in Seq(LineType) /\ Len(u \o e) = Len(u) + Len(e)
        /\ \A n \in 1 .. Len(u) + Len(e) :
             (u \o e)[n] = IF n <= Len(u) THEN u[n] ELSE e[n - Len(u)]
    BY <1>3, <2>1, ConcatProperties
  <2> DEFINE w == u \o e
  <2> HIDE DEF w
  <2>3. /\ w \in Seq(LineType) /\ Len(w) = Len(u) + 1 /\ Len(u) \in Nat
        /\ \A n \in 1 .. Len(u) + 1 : w[n] = IF n <= Len(u) THEN u[n] ELSE e[n - Len(u)]
    BY <1>3, <2>1, <2>2 DEF w
  <2>4. w[Len(u) + 1] = e[1] /\ \A n \in 1 .. Len(u) : w[n] = u[n]
    BY <2>3
  <2>. QED BY <1>3, <2>3, <2>4 DEF w
<1>6. Len(a) + Len(s) = Len(u)
  BY <1>4 DEF u
<1>7. \A n \in 1 .. Len(a) : n \in 1 .. Len(u)
  BY <1>6
<1>8. \A j \in 1 .. Len(s) : Len(a) + j \in 1 .. Len(u)
  BY <1>6
<1>9. Len(a) \in Nat /\ Len(s) \in Nat
  OBVIOUS
<1> DEFINE b == u \o e
<1> HIDE DEF b
<1>10. b \in Seq(LineType) /\ Len(b) = Len(a) + Len(s) + 1
  BY <1>5, <1>6 DEF b
<1>11. \A n \in 1 .. Len(a) : b[n] = a[n]
  BY <1>4, <1>5, <1>7 DEF b, u
<1>12. \A j \in 1 .. Len(s) : b[Len(a) + j] = TokenLine(s[j])
  BY <1>4, <1>5, <1>8 DEF b, u
<1>13. b[Len(a) + Len(s) + 1] = EmptyLine
  BY <1>5, <1>6 DEF b
<1>. QED BY <1>10, <1>11, <1>12, <1>13 DEF b, u, t, e

LEMMA OneSentenceMore ==
  ASSUME NEW ss \in Sentences, NEW k \in 0 .. Len(ss) - 1, NEW a, NEW at,
         LaidOut(a, ss, at, 4, k), \A n \in 0 .. k : at[n] \in Nat,
         at[k + 1] = at[k] + Len(ss[k + 1]) + 1
  PROVE  LaidOut(a \o Tokens(ss[k + 1]) \o <<EmptyLine>>, ss, at, 4, k + 1)
<1> DEFINE s == ss[k + 1]
           b == a \o Tokens(s) \o <<EmptyLine>>
<1>1. s \in Seq(BILOULabels) /\ Len(s) \in Nat
  BY DEF Sentences
<1>2. a \in Seq(LineType) /\ Len(a) = at[k] /\ at[0] = 0 /\ at[k] \in Nat
  BY DEF LaidOut
<1> HIDE DEF s
<1>3. /\ b \in Seq(LineType) /\ Len(b) = Len(a) + Len(s) + 1
      /\ \A n \in 1 .. Len(a) : b[n] = a[n]
      /\ \A j \in 1 .. Len(s) : b[Len(a) + j] = TokenLine(s[j])
      /\ b[Len(a) + Len(s) + 1] = EmptyLine
  BY <1>1, <1>2, SentencePrinted
<1> HIDE DEF b
<1>4. at[k + 1] = at[k] + Len(s) + 1 /\ Len(b) = at[k + 1]
  BY <1>2, <1>3 DEF s
<1>5. ASSUME NEW n \in 1 .. k + 1
      PROVE  /\ at[n - 1] \in Nat /\ at[n] \in Nat
             /\ at[n] = at[n - 1] + Len(ss[n]) + 1 /\ at[n] <= at[k + 1]
             /\ b[at[n]] = EmptyLine
             /\ \A j \in 1 .. Len(ss[n]) :
                  b[at[n - 1] + j] = [columns |-> 4, label |-> ss[n][j]]
  <2>1. CASE n \in 1 .. k
    <3>1. /\ at[n - 1] \in Nat /\ at[n] \in Nat
          /\ at[n] = at[n - 1] + Len(ss[n]) + 1 /\ at[n] <= at[k]
          /\ a[at[n]] = EmptyLine
          /\ \A j \in 1 .. Len(ss[n]) :
               a[at[n - 1] + j] = [columns |-> 4, label |-> ss[n][j]]
      BY <2>1 DEF LaidOut
    <3>2. Len(ss[n]) \in Nat
      BY DEF Sentences
    <3> DEFINE size == Len(ss[n])
               before == at[n - 1]
    <3>3. /\ at[n] = before + size + 1 /\ before \in Nat /\ size \in Nat /\ at[n] <= at[k]
          /\ at[k] = Len(a) /\ at[k + 1] = at[k] + Len(s) + 1
      BY <1>2, <1>4, <3>1, <3>2
    <3> HIDE DEF size, before
    <3>4. at[n] \in 1 .. Len(a) /\ at[n] <= at[k + 1]
      BY <1>1, <1>2, <3>3
    <3>5. \A j \in 1 .. size : before + j \in 1 .. Len(a)
      BY <1>2, <3>3
    <3>6. \A j \in 1 .. Len(ss[n]) : at[n - 1] + j \in 1 .. Len(a)
      BY <3>5 DEF size, before
    <3>7. b[at[n]] = EmptyLine
      BY <1>3, <3>1, <3>4
    <3>8. \A j \in 1 .. Len(ss[n]) :
            b[at[n - 1] + j] = [columns |-> 4, label |-> ss[n][j]]
      BY <1>3, <3>1, <3>6
    <3>. QED BY <3>1, <3>4, <3>7, <3>8
  <2>2. CASE n = k + 1
    <3>1. n - 1 = k /\ ss[n] = s /\ at[n] \in Nat
      BY <1>1, <1>2, <1>4, <2>2 DEF s
    <3>2. at[k + 1] = Len(a) + Len(s) + 1
      BY <1>2, <1>4
    <3>3. \A j \in 1 .. Len(s) : b[at[k] + j] = [columns |-> 4, label |-> s[j]]
      BY <1>2, <1>3 DEF TokenLine
    <3>4. b[at[k + 1]] = EmptyLine /\ at[k + 1] <= at[k + 1]
      BY <1>1, <1>2, <1>3, <3>2
    <3>. QED BY <1>2, <1>4, <2>2, <3>1, <3>3, <3>4
  <2>. QED BY <2>1, <2>2
<1>6. ASSUME NEW n \in 1 .. Len(b) PROVE b[n] = EmptyLine \/ b[n].columns = 4
  <2>1. CASE n \in 1 .. Len(a)
    BY <1>3, <2>1 DEF LaidOut
  <2>2. CASE n = Len(a) + Len(s) + 1
    BY <1>3, <2>2
  <2>3. CASE n - Len(a) \in 1 .. Len(s)
    <3>1. Len(a) + (n - Len(a)) = n /\ s[n - Len(a)] \in BILOULabels
      BY <1>1, <1>2, <2>3
    <3>2. b[n] = TokenLine(s[n - Len(a)])
      BY <1>3, <2>3, <3>1
    <3>. QED BY <3>1, <3>2, LineTypes
  <2>4. n \in 1 .. Len(a) \/ n = Len(a) + Len(s) + 1 \/ n - Len(a) \in 1 .. Len(s)
    <3>1. Len(a) \in Nat /\ Len(s) \in Nat /\ Len(b) = Len(a) + Len(s) + 1
      BY <1>1, <1>2, <1>3
    <3>. QED BY <3>1
  <2>. QED BY <2>1, <2>2, <2>3, <2>4
<1>. QED BY <1>2, <1>3, <1>4, <1>5, <1>6 DEF LaidOut, b, s

\* What print_conll_data() writes is laid out so.
LEMMA LinesAreLaidOut ==
  ASSUME NEW ss \in Sentences
  PROVE  \E at : LaidOut(Lines(ss), ss, at, 4, Len(ss))
<1> DEFINE f == CHOOSE f : Prints(ss, f, Len(ss))
           at == [n \in 0 .. Len(ss) |-> Len(f[n])]
           T == {n \in Nat : n <= Len(ss) /\ ~LaidOut(f[n], ss, at, 4, n)}
<1>1. Len(ss) \in Nat
  BY DEF Sentences
<1>2. Prints(ss, f, Len(ss))
  <2>1. \E g : Prints(ss, g, Len(ss))
    BY <1>1, PrinterExists
  <2>. QED BY Zenon, <2>1
<1>3. Lines(ss) = f[Len(ss)]
  BY Zenon DEF Lines, Prints, Printed, Tokens
<1> HIDE DEF f
<1>4. \A n \in 0 .. Len(ss) : f[n] = Printed(ss, f, n) /\ at[n] = Len(f[n])
  BY <1>2 DEF Prints
<1> HIDE DEF at
<1>5. ASSUME T # {} PROVE FALSE
  <2>1. PICK n \in T : \A m \in T : n <= m
    BY <1>5, LeastNatural
  <2>2. CASE n = 0
    <3>1. f[0] = <<>> /\ at[0] = 0
      BY <1>1, <1>4 DEF Printed
    <3>2. LaidOut(<<>>, ss, at, 4, 0)
      BY <3>1 DEF LaidOut
    <3>. QED BY <2>1, <2>2, <3>1, <3>2
  <2>3. CASE n # 0
    <3> DEFINE k == n - 1
    <3>1. /\ k \in Nat /\ k <= Len(ss) /\ ~(n <= k) /\ k \in 0 .. Len(ss) - 1
          /\ n \in 0 .. Len(ss) /\ n = k + 1
      BY <1>1, <2>1, <2>3
    <3> HIDE DEF k
    <3>2. \A m \in 0 .. k : LaidOut(f[m], ss, at, 4, m)
      <4>1. \A m \in 0 .. k : m \in Nat /\ m <= Len(ss) /\ ~(n <= m)
        BY <1>1, <3>1
      <4>. QED BY <2>1, <4>1
    <3>3. \A m \in 0 .. k : f[m] \in Seq(LineType) /\ at[m] \in Nat
      BY <3>2 DEF LaidOut
    <3>4. f[n] = f[k] \o Tokens(ss[k + 1]) \o <<EmptyLine>>
      <4>1. f[n] = Printed(ss, f, n) /\ n - 1 = k
        BY <1>4, <3>1
      <4>. QED BY <2>3, <3>1, <4>1 DEF Printed
    <3>5. at[k + 1] = at[k] + Len(ss[k + 1]) + 1
      <4>1. k \in 0 .. k /\ k \in 0 .. Len(ss)
        BY <3>1
      <4>2. f[k] \in Seq(LineType) /\ ss[k + 1] \in Seq(BILOULabels)
        BY <3>1, <3>3, <4>1 DEF Sentences
      <4>3. Len(f[k] \o Tokens(ss[k + 1]) \o <<EmptyLine>>) = Len(f[k]) + Len(ss[k + 1]) + 1
        BY <4>2, SentencePrinted
      <4>. QED BY <1>4, <3>1, <3>4, <4>1, <4>3
    <3>6. LaidOut(f[k], ss, at, 4, k)
      BY <3>1, <3>2
    <3>7. LaidOut(f[n], ss, at, 4, n)
      BY <3>1, <3>3, <3>4, <3>5, <3>6, OneSentenceMore
    <3>. QED BY <2>1, <3>7
  <2>. QED BY <2>2, <2>3
<1>6. LaidOut(f[Len(ss)], ss, at, 4, Len(ss))
  BY <1>1, <1>5
<1>. QED BY <1>3, <1>6

\* With extra labels, the same lines are one column wider.
LEMMA ExtraLaidOut ==
  ASSUME NEW ss \in Sentences, NEW at, LaidOut(Lines(ss), ss, at, 4, Len(ss))
  PROVE  LaidOut(LinesWithExtra(ss), ss, at, 5, Len(ss))
<1> DEFINE a == Lines(ss)
           b == LinesWithExtra(ss)
<1>1. /\ a \in Seq(LineType) /\ Len(a) = at[Len(ss)] /\ at[0] = 0
      /\ \A n \in 1 .. Len(a) : a[n] = EmptyLine \/ a[n].columns = 4
  BY DEF LaidOut
<1>2. b = [n \in 1 .. Len(a) |->
             IF a[n] = EmptyLine THEN EmptyLine ELSE TwoLabels(a[n].label)]
  BY DEF LinesWithExtra
<1>3. \A n \in 1 .. Len(ss) :
        /\ at[n - 1] \in Nat /\ at[n] \in Nat
        /\ at[n] = at[n - 1] + Len(ss[n]) + 1 /\ at[n] <= at[Len(ss)]
        /\ a[at[n]] = EmptyLine
        /\ \A j \in 1 .. Len(ss[n]) :
             a[at[n - 1] + j] = [columns |-> 4, label |-> ss[n][j]]
  BY DEF LaidOut
<1> HIDE DEF a, b
<1>4. ASSUME NEW n \in 1 .. Len(a)
      PROVE  /\ b[n] \in LineType /\ (b[n] = EmptyLine \/ b[n].columns = 5)
             /\ b[n] = IF a[n] = EmptyLine THEN EmptyLine ELSE TwoLabels(a[n].label)
  <2>1. a[n] \in LineType
    BY <1>1
  <2>2. a[n].label \in BILOULabels
    BY <2>1 DEF LineType
  <2>. QED BY <1>2, <2>2, LineTypes
<1>5. b \in Seq(LineType) /\ Len(b) = Len(a)
  <2>1. Len(a) \in Nat
    BY <1>1
  <2>. QED BY <1>2, <1>4, <2>1
<1>6. ASSUME NEW n \in 1 .. Len(ss)
      PROVE  /\ b[at[n]] = EmptyLine
             /\ \A j \in 1 .. Len(ss[n]) :
                  b[at[n - 1] + j] = [columns |-> 5, label |-> ss[n][j]]
  <2> DEFINE size == Len(ss[n])
             before == at[n - 1]
  <2>1. /\ at[n] = before + size + 1 /\ before \in Nat /\ size \in Nat /\ at[n] <= Len(a)
        /\ Len(a) \in Nat
    BY <1>1, <1>3 DEF Sentences
  <2>2. \A j \in 1 .. size : ss[n][j] \in BILOULabels
    BY DEF Sentences
  <2>3. \A j \in 1 .. size : a[before + j] = [columns |-> 4, label |-> ss[n][j]]
    BY <1>3
  <2> HIDE DEF size, before
  <2>4. at[n] \in 1 .. Len(a) /\ \A j \in 1 .. size : before + j \in 1 .. Len(a)
    BY <2>1
  <2>5. b[at[n]] = EmptyLine
    BY <1>3, <1>4, <2>4
  <2>6. ASSUME NEW j \in 1 .. size
        PROVE  b[before + j] = [columns |-> 5, label |-> ss[n][j]]
    <3>1. a[before + j].columns = 4 /\ a[before + j].label = ss[n][j]
      <4>1. a[before + j] = [columns |-> 4, label |-> ss[n][j]]
        BY <2>3
      <4>. QED BY <4>1
    <3>2. a[before + j] # EmptyLine
      BY <3>1, LineTypes
    <3>3. b[before + j] = TwoLabels(ss[n][j])
      BY <1>4, <2>4, <3>1, <3>2
    <3>. QED BY <3>3 DEF TwoLabels
  <2>. QED BY <2>5, <2>6 DEF size, before
<1>7. LaidOut(b, ss, at, 5, Len(ss))
  BY <1>1, <1>3, <1>4, <1>5, <1>6 DEF LaidOut
<1>. QED BY <1>7 DEF b

-----------------------------------------------------------------------------
(* What was printed is read again.                                          *)

FileTypes ==
  /\ file \in Seq(LineType) /\ line \in Nat \ {0}
  /\ sentence \in Seq(BIOLabels) /\ result \in Seq(Seq(BIOLabels))
  /\ printed \in Sentences /\ reads \in Nat \ {0}
  /\ taken \in 0 .. Len(result)
  /\ Inv

\* Files with the labels of BIO and no others
Plain ==
  /\ \A n \in DOMAIN file : file[n].columns # 5
  /\ \A n \in DOMAIN printed : \A j \in DOMAIN printed[n] : printed[n][j] \in BIOLabels

\* The reader has come to a place of the file and has what is before it.
ReadAt(at, columns) ==
  /\ columns \in {4, 5}
  /\ LaidOut(file, printed, at, columns, Len(printed))
  /\ Len(result) <= Len(printed)
  /\ \A n \in 1 .. Len(result) :
       result[n] = printed[n] /\ (columns = 5 => printed[n] = <<>>)
  /\ line = at[Len(result)] + Len(sentence) + 1
  /\ Len(result) = Len(printed) => sentence = <<>>
  /\ Len(result) < Len(printed) =>
       /\ Len(sentence) <= Len(printed[Len(result) + 1])
       /\ \A j \in 1 .. Len(sentence) : sentence[j] = printed[Len(result) + 1][j]
  /\ columns = 5 => sentence = <<>>

ReaderInv ==
  /\ \E at, columns : ReadAt(at, columns)
  /\ reader = "failed" => ~Plain
  /\ reader = "read" => line > Len(file)

PrintedInv == reads > 1 => ReaderInv

LEMMA StartedInvNext == Started' => Inv'
BY StartedInv, PTL

LEMMA LabelsAreASequence == Inv => labels \in Seq(BILOULabels)
<1> SUFFICES ASSUME Inv PROVE labels \in Seq(BILOULabels)
  OBVIOUS
<1>1. PICK n \in Nat : labels \in [1 .. n -> BILOULabels]
  BY Typing
<1>. QED BY <1>1

\* Before the end of the file there is another token of the sentence under way,
\* or the empty line behind it.
LEMMA NextLine ==
  ASSUME FileTypes, NEW at, NEW columns, ReadAt(at, columns), line <= Len(file)
  PROVE  /\ Len(result) < Len(printed)
         /\ \/ /\ Len(sentence) = Len(printed[Len(result) + 1])
               /\ file[line] = EmptyLine /\ line = at[Len(result) + 1]
            \/ /\ Len(sentence) < Len(printed[Len(result) + 1])
               /\ file[line] = [columns |-> columns,
                                label |-> printed[Len(result) + 1][Len(sentence) + 1]]
<1> DEFINE k == Len(result)
           m == Len(sentence)
           p == printed[k + 1]
<1>1. k \in Nat /\ m \in Nat /\ Len(printed) \in Nat
  BY DEF FileTypes, Sentences
<1>2. k <= Len(printed) /\ line = at[k] + m + 1 /\ Len(file) = at[Len(printed)]
  BY DEF ReadAt, LaidOut
<1>3. k < Len(printed)
  <2>1. ASSUME k = Len(printed) PROVE FALSE
    <3>1. m = 0 /\ Len(file) \in Nat
      BY <2>1 DEF ReadAt, FileTypes
    <3>2. line = Len(file) + 0 + 1
      BY <1>2, <2>1, <3>1
    <3>. QED BY <3>1, <3>2
  <2>. QED BY <1>1, <1>2, <2>1
<1>4. p \in Seq(BILOULabels) /\ Len(p) \in Nat /\ m <= Len(p)
  BY <1>1, <1>3 DEF FileTypes, Sentences, ReadAt
<1>5. /\ at[k] \in Nat /\ at[k + 1] = at[k] + Len(p) + 1 /\ file[at[k + 1]] = EmptyLine
      /\ \A j \in 1 .. Len(p) : file[at[k] + j] = [columns |-> columns, label |-> p[j]]
  <2>1. k + 1 \in 1 .. Len(printed) /\ (k + 1) - 1 = k
    BY <1>1, <1>3
  <2>. QED BY <2>1 DEF ReadAt, LaidOut
<1> HIDE DEF k, m, p
<1>6. CASE m = Len(p)
  BY <1>2, <1>3, <1>5, <1>6 DEF k, m, p
<1>7. CASE m < Len(p)
  <2>1. m + 1 \in 1 .. Len(p) /\ line = at[k] + (m + 1)
    BY <1>1, <1>2, <1>4, <1>5, <1>7
  <2>2. file[line] = [columns |-> columns, label |-> p[m + 1]]
    BY <1>5, <2>1
  <2>. QED BY <1>3, <1>7, <2>2 DEF k, m, p
<1>. QED BY <1>1, <1>4, <1>6, <1>7

\* At its end all sentences were read.
LEMMA AllRead ==
  ASSUME FileTypes, NEW at, NEW columns, ReadAt(at, columns), line > Len(file)
  PROVE  Len(result) = Len(printed)
<1> DEFINE k == Len(result)
           m == Len(sentence)
           p == printed[k + 1]
<1>1. k \in Nat /\ m \in Nat /\ Len(printed) \in Nat /\ Len(file) \in Nat
  BY DEF FileTypes, Sentences
<1>2. k <= Len(printed) /\ line = at[k] + m + 1 /\ Len(file) = at[Len(printed)]
  BY DEF ReadAt, LaidOut
<1>3. ASSUME k < Len(printed) PROVE FALSE
  <2>1. k + 1 \in 1 .. Len(printed) /\ (k + 1) - 1 = k
    BY <1>1, <1>3
  <2>2. /\ at[k] \in Nat /\ at[k + 1] \in Nat /\ at[k + 1] = at[k] + Len(p) + 1
        /\ at[k + 1] <= at[Len(printed)]
    BY <2>1 DEF ReadAt, LaidOut
  <2>3. m <= Len(p) /\ Len(p) \in Nat
    BY <1>3, <2>1 DEF FileTypes, Sentences, ReadAt
  <2> HIDE DEF k, m, p
  <2>4. line <= at[k + 1]
    BY <1>1, <1>2, <2>2, <2>3
  <2>5. line <= Len(file)
    BY <1>2, <2>2, <2>4
  <2>. QED BY <1>1, <2>5 DEF FileTypes
<1>. QED BY <1>1, <1>2, <1>3

LEMMA WithLabelsTypes == FileTypes => WithLabels \in Sentences
<1> SUFFICES ASSUME FileTypes PROVE WithLabels \in Sentences
  OBVIOUS
<1>1. labels \in Seq(BILOULabels)
  BY LabelsAreASequence DEF FileTypes
<1>2. \A n \in 1 .. Len(result) : result[n] \in Seq(BILOULabels)
  <2>1. ASSUME NEW n \in 1 .. Len(result) PROVE result[n] \in Seq(BILOULabels)
    <3>1. result[n] \in Seq(BIOLabels)
      BY DEF FileTypes
    <3>. QED BY <3>1, BIOIsBILOU
  <2>. QED BY <2>1
<1>3. /\ Len(result) \in Nat /\ WithLabels = [n \in 1 .. Len(result) |-> WithLabels[n]]
      /\ \A n \in 1 .. Len(result) : WithLabels[n] \in {result[n], labels}
  <2>1. result \in [1 .. Len(result) -> Seq(BIOLabels)] /\ Len(result) \in Nat
    BY DEF FileTypes
  <2>2. CASE taken = 0
    BY <2>1, <2>2 DEF WithLabels
  <2>3. CASE taken # 0
    BY <2>1, <2>3 DEF WithLabels
  <2>. QED BY <2>2, <2>3
<1>4. \A n \in 1 .. Len(result) : WithLabels[n] \in Seq(BILOULabels)
  BY <1>1, <1>2, <1>3
<1>. QED BY <1>3, <1>4 DEF Sentences

LEMMA PrintedTypes ==
  ASSUME NEW ss \in Sentences
  PROVE  Lines(ss) \in Seq(LineType) /\ LinesWithExtra(ss) \in Seq(LineType)
<1>1. PICK at : LaidOut(Lines(ss), ss, at, 4, Len(ss))
  BY LinesAreLaidOut
<1>2. LaidOut(LinesWithExtra(ss), ss, at, 5, Len(ss))
  BY <1>1, ExtraLaidOut
<1>. QED BY <1>1, <1>2 DEF LaidOut

LEMMA FileTypesInit == FileInit => FileTypes
<1> SUFFICES ASSUME FileInit PROVE FileTypes
  OBVIOUS
<1>1. Inv
  BY StartedInv DEF Started, FileInit
<1>2. file \in Seq(LineType)
  BY FileAssumption DEF FileInit, LineType
<1>3. <<>> \in Seq(BIOLabels) /\ <<>> \in Seq(Seq(BIOLabels)) /\ <<>> \in Sentences
      /\ Len(<<>>) = 0
  BY DEF Sentences
<1>. QED BY <1>1, <1>2, <1>3 DEF FileInit, FileTypes

LEMMA FileTypesStep == FileTypes /\ [FileNext]_<<fileVars, vars>> => FileTypes'
<1> SUFFICES ASSUME FileTypes, [FileNext]_<<fileVars, vars>> PROVE FileTypes'
  OBVIOUS
<1>1. ASSUME UNCHANGED vars \/ Next PROVE Inv'
  BY <1>1, StepInv DEF FileTypes
<1>2. CASE ReadTokenLine
  <2>1. file[line].label \in BIOLabels /\ sentence' = Append(sentence, file[line].label)
    BY <1>2 DEF ReadTokenLine
  <2>. QED BY <1>1, <1>2, <2>1 DEF ReadTokenLine, FileTypes
<1>3. CASE ReadEmptyLine
  <2>1. result' \in Seq(Seq(BIOLabels)) /\ Len(result') = Len(result) + 1
        /\ <<>> \in Seq(BIOLabels)
    BY <1>3 DEF ReadEmptyLine, FileTypes
  <2>2. taken \in 0 .. Len(result) + 1
    BY DEF FileTypes
  <2>. QED BY <1>1, <1>3, <2>1, <2>2 DEF ReadEmptyLine, FileTypes
<1>4. CASE ReadThrows \/ EndOfFile
  BY <1>1, <1>4 DEF ReadThrows, EndOfFile, FileTypes
<1>5. ASSUME NEW n \in 1 .. Len(result), TakeLabels(n) PROVE FileTypes'
  <2>1. Started'
    BY <1>5 DEF TakeLabels, FileTypes, Started, Start
  <2>2. Inv'
    BY <2>1, StartedInvNext
  <2>. QED BY <1>5, <2>2 DEF TakeLabels, FileTypes
<1>6. CASE Convert
  BY <1>1, <1>6 DEF Convert, fileVars, FileTypes
<1>7. ASSUME NEW lines \in Seq(LineType), PrintConllData(lines) PROVE FileTypes'
  <2>1. <<>> \in Seq(BIOLabels) /\ <<>> \in Seq(Seq(BIOLabels)) /\ Len(<<>>) = 0
    OBVIOUS
  <2>2. Started'
    BY <1>7, <2>1 DEF PrintConllData, Started, Start
  <2>3. Inv'
    BY <2>2, StartedInvNext
  <2>. QED BY <1>7, <2>1, <2>3, WithLabelsTypes DEF PrintConllData, FileTypes
<1>8. CASE UNCHANGED <<fileVars, vars>>
  BY <1>1, <1>8 DEF fileVars, FileTypes
<1>9. Lines(WithLabels) \in Seq(LineType) /\ LinesWithExtra(WithLabels) \in Seq(LineType)
  BY WithLabelsTypes, PrintedTypes
<1>. QED
  BY <1>2, <1>3, <1>4, <1>5, <1>6, <1>7, <1>8, <1>9 DEF FileNext

LEMMA PrintedInvInit == FileInit => PrintedInv
BY DEF FileInit, PrintedInv

LEMMA PrintedInvStep ==
  FileTypes /\ PrintedInv /\ [FileNext]_<<fileVars, vars>> => PrintedInv'
<1> SUFFICES ASSUME FileTypes, PrintedInv, [FileNext]_<<fileVars, vars>>
             PROVE  PrintedInv'
  OBVIOUS
<1>1. CASE ReadTokenLine \/ ReadEmptyLine \/ ReadThrows
  <2>1. line <= Len(file) /\ UNCHANGED <<file, printed, reads>>
    BY <1>1 DEF ReadTokenLine, ReadEmptyLine, ReadThrows, AtLine
  <2> SUFFICES ASSUME reads > 1 PROVE ReaderInv'
    BY <2>1 DEF PrintedInv
  <2>2. PICK at, columns : ReadAt(at, columns)
    BY DEF PrintedInv, ReaderInv
  <2>3. reader = "reading"
    BY <1>1 DEF ReadTokenLine, ReadEmptyLine, ReadThrows, AtLine
  <2> DEFINE k == Len(result)
             m == Len(sentence)
             p == printed[k + 1]
  <2>4. /\ k < Len(printed)
        /\ \/ m = Len(p) /\ file[line] = EmptyLine /\ line = at[k + 1]
           \/ m < Len(p) /\ file[line] = [columns |-> columns, label |-> p[m + 1]]
    BY <2>1, <2>2, NextLine
  <2>5. columns \in {4, 5} /\ EmptyLine.columns = 0
    BY <2>2, LineTypes DEF ReadAt
  <2>6. /\ k \in Nat /\ m \in Nat /\ Len(printed) \in Nat /\ Len(p) \in Nat
        /\ p \in Seq(BILOULabels)
    BY <2>4 DEF FileTypes, Sentences
  <2>7. /\ LaidOut(file, printed, at, columns, Len(printed))
        /\ \A n \in 1 .. k : result[n] = printed[n] /\ (columns = 5 => printed[n] = <<>>)
        /\ line = at[k] + m + 1
        /\ m <= Len(p) /\ \A j \in 1 .. m : sentence[j] = p[j]
        /\ columns = 5 => sentence = <<>>
    BY <2>2, <2>4 DEF ReadAt
  <2>8. at[k] \in Nat /\ at[k + 1] = at[k] + Len(p) + 1
    <3>1. k + 1 \in 1 .. Len(printed) /\ (k + 1) - 1 = k
      BY <2>4, <2>6
    <3>. QED BY <2>7, <3>1 DEF LaidOut
  <2>9. CASE ReadTokenLine
    <3>1. /\ file[line].columns = 4 /\ sentence' = Append(sentence, file[line].label)
          /\ line' = line + 1 /\ UNCHANGED <<result, reader>>
      BY <2>9 DEF ReadTokenLine
    <3>2. m < Len(p) /\ columns = 4 /\ file[line].label = p[m + 1]
      BY <2>4, <2>5, <3>1
    <3>3. Len(sentence') = m + 1 /\ \A j \in 1 .. m + 1 : sentence'[j] = p[j]
      <4>1. sentence \in Seq(BIOLabels)
        BY DEF FileTypes
      <4>2. /\ Len(sentence') = m + 1 /\ sentence'[m + 1] = p[m + 1]
            /\ \A j \in 1 .. m : sentence'[j] = sentence[j]
        BY <3>1, <3>2, <4>1
      <4>3. \A j \in 1 .. m + 1 : j \in 1 .. m \/ j = m + 1
        BY <2>6
      <4>. QED BY <2>7, <4>2, <4>3
    <3> HIDE DEF k, m, p
    <3>4. m + 1 <= Len(p) /\ line' = at[k] + (m + 1) + 1
      <4>1. line = at[k] + m + 1 /\ line' = line + 1
        BY <2>7, <3>1
      <4>2. m \in Nat /\ Len(p) \in Nat /\ at[k] \in Nat
        BY <2>6, <2>8
      <4>. QED BY <3>2, <4>1, <4>2
    <3>5. k # Len(printed) /\ k <= Len(printed)
      BY <2>4, <2>6
    <3>6. ReadAt(at, columns)'
      <4>1. /\ Len(result') = k /\ Len(sentence') = m + 1 /\ Len(sentence') <= Len(p)
            /\ \A j \in 1 .. Len(sentence') : sentence'[j] = p[j]
            /\ line' = at[Len(result')] + Len(sentence') + 1
        BY <3>1, <3>3, <3>4 DEF k
      <4>2. /\ k <= Len(printed') /\ k # Len(printed')
            /\ LaidOut(file', printed', at, columns, Len(printed')) /\ result' = result
            /\ p = printed'[k + 1] /\ printed' = printed
        BY <2>1, <2>7, <3>1, <3>5 DEF p
      <4>3. \A n \in 1 .. Len(result') :
              result'[n] = printed'[n] /\ (columns = 5 => printed'[n] = <<>>)
        BY <2>7, <4>1, <4>2
      <4>. QED BY <3>2, <4>1, <4>2, <4>3 DEF ReadAt
    <3>. QED BY <2>3, <3>1, <3>6 DEF ReaderInv
  <2>10. CASE ReadEmptyLine
    <3>1. /\ file[line].columns = 0 /\ result' = Append(result, sentence)
          /\ sentence' = <<>> /\ line' = line + 1 /\ UNCHANGED reader
      BY <2>10 DEF ReadEmptyLine
    <3>2. m = Len(p) /\ line = at[k + 1]
      <4>1. ~(m < Len(p) /\ file[line] = [columns |-> columns, label |-> p[m + 1]])
        BY <2>5, <3>1
      <4>. QED BY <2>4, <4>1
    <3>3. sentence = p
      <4>1. sentence \in Seq(BIOLabels)
        BY DEF FileTypes
      <4>. QED BY <2>6, <2>7, <3>2, <4>1
    <3>4. /\ Len(result') = k + 1 /\ result'[k + 1] = p
          /\ \A n \in 1 .. k : result'[n] = result[n]
      <4>1. result \in Seq(Seq(BIOLabels)) /\ sentence \in Seq(BIOLabels)
        BY DEF FileTypes
      <4>. QED BY <3>1, <3>3, <4>1
    <3>5. \A n \in 1 .. k + 1 : n \in 1 .. k \/ n = k + 1
      BY <2>6
    <3>6. \A n \in 1 .. k + 1 : result'[n] = printed[n] /\ (columns = 5 => printed[n] = <<>>)
      BY <2>7, <3>3, <3>4, <3>5
    <3>7. sentence' = <<>> /\ Len(sentence') = 0 /\ line' = at[k + 1] + 0 + 1
      BY <2>8, <2>6, <3>1, <3>2
    <3>8. k + 1 <= Len(printed)
      BY <2>4, <2>6
    <3>9. k + 1 < Len(printed) => Len(printed[k + 1 + 1]) \in Nat
      BY <2>6 DEF FileTypes, Sentences
    <3> HIDE DEF k, m, p
    <3>10. ReadAt(at, columns)'
      <4>1. Len(result') < Len(printed) =>
              /\ Len(sentence') <= Len(printed[Len(result') + 1])
              /\ \A j \in 1 .. Len(sentence') : sentence'[j] = printed[Len(result') + 1][j]
        BY <3>4, <3>7, <3>9
      <4>. QED BY <2>1, <2>5, <2>7, <3>4, <3>6, <3>7, <3>8, <4>1 DEF ReadAt
    <3>. QED BY <2>3, <3>1, <3>10 DEF ReaderInv
  <2>11. CASE ReadThrows
    <3>1. /\ UNCHANGED <<line, sentence, result>> /\ reader' = "failed"
          /\ \/ file[line].columns \notin {0, 4}
             \/ file[line].columns = 4 /\ file[line].label \notin BIOLabels
      BY <2>11 DEF ReadThrows
    <3>2. ReadAt(at, columns)'
      BY <2>1, <2>2, <3>1 DEF ReadAt
    <3>3. ~Plain
      <4>1. m < Len(p) /\ file[line].columns = columns /\ file[line].label = p[m + 1]
        BY <2>4, <2>5, <3>1
      <4>2. line \in DOMAIN file /\ k + 1 \in DOMAIN printed /\ m + 1 \in DOMAIN p
        BY <2>1, <2>4, <2>6, <4>1 DEF FileTypes, Sentences
      <4>3. CASE columns = 5
        BY <4>1, <4>2, <4>3 DEF Plain
      <4>4. CASE columns = 4
        BY <3>1, <4>1, <4>2, <4>4 DEF Plain
      <4>. QED BY <2>5, <4>3, <4>4
    <3>4. ~Plain'
      BY <2>1, <3>3 DEF Plain
    <3>. QED BY <3>1, <3>2, <3>4 DEF ReaderInv
  <2>. QED BY <1>1, <2>9, <2>10, <2>11
<1>2. CASE EndOfFile
  BY <1>2 DEF EndOfFile, PrintedInv, ReaderInv, ReadAt, Plain
<1>3. CASE \/ \E n \in 1 .. Len(result) : TakeLabels(n)
           \/ Convert \/ UNCHANGED <<fileVars, vars>>
  <2>1. UNCHANGED <<file, line, sentence, result, reader, printed, reads>>
    BY <1>3 DEF TakeLabels, Convert, fileVars
  <2>. QED BY <2>1 DEF PrintedInv, ReaderInv, ReadAt, Plain
<1>4. ASSUME NEW columns \in {4, 5}, NEW lines, PrintConllData(lines),
             NEW at, LaidOut(lines, WithLabels, at, columns, Len(WithLabels))
      PROVE  PrintedInv'
  <2>1. WithLabels \in Sentences
    BY WithLabelsTypes
  <2>2. /\ file' = lines /\ printed' = WithLabels /\ line' = 1 /\ sentence' = <<>>
        /\ result' = <<>> /\ reader' = "reading" /\ Len(<<>>) = 0
    BY <1>4 DEF PrintConllData
  <2>3. at[0] = 0 /\ Len(WithLabels) \in Nat
    BY <1>4, <2>1 DEF LaidOut, Sentences
  <2>4. 0 < Len(WithLabels) => Len(WithLabels[0 + 1]) \in Nat
    BY <2>1, <2>3 DEF Sentences
  <2> DEFINE w == WithLabels
  <2> HIDE DEF w
  <2>5. ReadAt(at, columns)'
    BY <1>4, <2>2, <2>3, <2>4 DEF ReadAt
  <2>. QED BY <2>2, <2>5 DEF PrintedInv, ReaderInv
<1>5. PICK at : LaidOut(Lines(WithLabels), WithLabels, at, 4, Len(WithLabels))
  BY WithLabelsTypes, LinesAreLaidOut
<1>6. LaidOut(LinesWithExtra(WithLabels), WithLabels, at, 5, Len(WithLabels))
  BY <1>5, WithLabelsTypes, ExtraLaidOut
<1>. QED
  BY <1>1, <1>2, <1>3, <1>4, <1>5, <1>6 DEF FileNext

\* What was printed, after conversions or none, reads back as the sentences it
\* was printed from, with their chunks, unless there is something in the file
\* that parse_conll_data() does not take.
THEOREM PrintedIsReadAgain == FileSpec => []PrintedFileReadsBack
<1>1. FileInit => FileTypes /\ PrintedInv
  BY FileTypesInit, PrintedInvInit
<1>2. FileTypes /\ PrintedInv /\ [FileNext]_<<fileVars, vars>> => (FileTypes /\ PrintedInv)'
  BY FileTypesStep, PrintedInvStep
<1>3. ASSUME FileTypes, PrintedInv, reads > 1
      PROVE  /\ reader = "failed" => ~Plain
             /\ reader = "read" =>
                  /\ Plain \/ \A n \in DOMAIN printed : printed[n] = <<>>
                  /\ Len(result) = Len(printed)
                  /\ \A n \in DOMAIN result : ConvertSentence(result[n]) = Chunks(printed[n])
  <2>1. ReaderInv
    BY <1>3 DEF PrintedInv
  <2>2. PICK at, columns : ReadAt(at, columns)
    BY <2>1 DEF ReaderInv
  <2>3. ASSUME reader = "read"
        PROVE  /\ Plain \/ \A n \in DOMAIN printed : printed[n] = <<>>
               /\ Len(result) = Len(printed)
               /\ \A n \in DOMAIN result : ConvertSentence(result[n]) = Chunks(printed[n])
    <3>1. Len(result) = Len(printed)
      BY <1>3, <2>1, <2>2, <2>3, AllRead DEF ReaderInv
    <3>2. DOMAIN printed = 1 .. Len(result) /\ DOMAIN result = 1 .. Len(result)
      BY <1>3, <3>1 DEF FileTypes, Sentences
    <3>3. \A n \in 1 .. Len(result) : result[n] = printed[n] /\ result[n] \in Seq(BIOLabels)
      BY <1>3, <2>2 DEF ReadAt, FileTypes
    <3>4. \A n \in DOMAIN result : ConvertSentence(result[n]) = Chunks(printed[n])
      BY <3>2, <3>3, ConvertSentenceFindsChunks
    <3>5. CASE columns = 5
      BY <2>2, <3>1, <3>2, <3>4, <3>5 DEF ReadAt
    <3>6. CASE columns = 4
      <4>1. \A n \in DOMAIN file : file[n].columns # 5
        <5>1. DOMAIN file = 1 .. Len(file)
          BY <1>3 DEF FileTypes
        <5>. QED BY <2>2, <3>6, <5>1, LineTypes DEF ReadAt, LaidOut
      <4>2. \A n \in DOMAIN printed : \A j \in DOMAIN printed[n] : printed[n][j] \in BIOLabels
        BY <3>2, <3>3
      <4>. QED BY <3>1, <3>4, <4>1, <4>2 DEF Plain
    <3>. QED BY <2>2, <3>5, <3>6 DEF ReadAt
  <2>. QED BY <2>1, <2>3 DEF ReaderInv
<1>4. FileTypes /\ PrintedInv => PrintedFileReadsBack
  BY Zenon, <1>3 DEF PrintedFileReadsBack, Plain
<1>. QED BY <1>1, <1>2, <1>4, PTL DEF FileSpec

\* So are the conversions right in every sentence a client takes out of a file.
THEOREM SentencesOfFiles == FileSpec => [](ChunksSurvive /\ BILOUShowsChunks)
<1>1. FileInit => FileTypes
  BY FileTypesInit
<1>2. FileTypes /\ [FileNext]_<<fileVars, vars>> => FileTypes'
  BY FileTypesStep
<1>3. FileTypes => ChunksSurvive /\ BILOUShowsChunks
  BY InvKeepsChunks, InvShowsChunks DEF FileTypes
<1>. QED BY <1>1, <1>2, <1>3, PTL DEF FileSpec

============================================================================
