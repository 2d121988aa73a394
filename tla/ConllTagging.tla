---------------------------- MODULE ConllTagging ----------------------------
(***************************************************************************)
(* ner_conll --tag-conll-file: the labels of a sentence read from a CoNLL  *)
(* file are replaced by those of the ranges a named_entity_extractor finds *)
(* in it, and printed.  The tags of the model are those of the file.       *)
(***************************************************************************)
EXTENDS ConllLabels

VARIABLE
  ranges  \* what the named_entity_extractor found, as chunks

tagVars == <<vars, ranges>>

-----------------------------------------------------------------------------

\* What a segmenter and a classifier can find in n tokens: labelled ranges
\* that do not overlap.
Findings(n) ==
  {found \in SUBSET [first : 1 .. n, last : 1 .. n, kind : Kinds] :
     /\ \A c \in found : c.first <= c.last
     /\ \A c, d \in found : c # d => c.last < d.first \/ d.last < c.first}

\* The range before c in the list ends where c begins and has its label.
FollowsItsKind(found, c) ==
  \E d \in found : d.last + 1 = c.first /\ d.kind = c.kind

\* The labels the loops over ranges and their tokens leave behind
Tagged(n, found) ==
  [k \in 1 .. n |->
     IF \E c \in found : k \in c.first .. c.last
     THEN LET c == CHOOSE d \in found : k \in d.first .. d.last
          IN  [pos |-> IF FollowsItsKind(found, c) THEN "B" ELSE "I", kind |-> c.kind]
     ELSE O]

\* The file is read, and its labels are separated from its tokens.
TagInit == Init /\ ranges = {}

\* One round of the loop of tag_conll_file(), with its print_conll_data()
TagConllFile ==
  /\ phase = "BIO"
  /\ \E n \in Sizes :
       /\ DOMAIN original = 1 .. n
       /\ ranges' \in Findings(n)
       /\ labels' = Tagged(n, ranges')
  /\ phase' = "tagged"
  /\ UNCHANGED <<original, i>>

TagSpec == TagInit /\ [][TagConllFile]_tagVars

-----------------------------------------------------------------------------

\* Whoever reads the tagged copy, by the rules of parse_conll_data(), finds the
\* ranges of the model.
TaggedCopyShowsRanges == phase = "tagged" => Chunks(labels) = ranges

=============================================================================
