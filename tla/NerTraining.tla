---------------------------- MODULE NerTraining -----------------------------
(***************************************************************************)
(* The training data of a named_entity_extractor: annotated sentences      *)
(* (ner_training_instance), which a ner_trainer copies into vectors that   *)
(* run in parallel, and train(), which turns them into samples.            *)
(*                                                                         *)
(* add() is modelled statement by statement, because every push_back() in  *)
(* it can run out of memory.  The exception is caught in the C interface,  *)
(* which reports it, and the trainer lives on.  Ranges are half open and   *)
(* count tokens from 0, labels are numbered from 0, as in the code.        *)
(***************************************************************************)
EXTENDS Integers, Sequences, FiniteSets

CONSTANTS
  Instances,    \* the ner_training_instance objects, each with its sentence
  NumTokens,    \* the number of tokens of each
  Labels,       \* strings used as labels
  MaxEntities,  \* bound: entities per instance
  MaxAdds       \* bound: calls of add()

ASSUME TokensAssumption == NumTokens \in [Instances -> Nat]

VARIABLES
  entities,       \* chunks of every instance
  entityLabels,   \* chunk_labels of every instance
  sentences,      \* the trainer's three vectors; a sentence is named by its instance
  chunks,
  chunk_labels,
  label_to_id,    \* the numbers given to labels
  pc,             \* the next statement of add(), or "idle"
  item,           \* its argument
  temp,           \* its local vector of label numbers
  outcome,        \* how the last train() ended
  tags,           \* the tag names of the last model trained
  given,          \* history: the arguments of the calls of add() that succeeded
  failed          \* history: some call has run out of memory

instances == <<entities, entityLabels>>
trainer == <<sentences, chunks, chunk_labels, label_to_id>>
vars == <<instances, trainer, pc, item, temp, outcome, tags, given, failed>>

-----------------------------------------------------------------------------
(* Ranges of tokens *)

\* The ranges an instance can have annotated
RangesOf(h) ==
  {r \in [first : 0 .. NumTokens[h], second : 0 .. NumTokens[h]] : r.first < r.second}

\* Mutant: one token may be shared
OverlapByTwo(a, b) ==
  \E left, right \in {a.first, a.second, b.first, b.second} :
    /\ left >= a.first /\ left >= b.first
    /\ right <= a.second /\ right <= b.second
    /\ left + 1 < right

\* entities_overlap(): the intersection of the two ranges is not empty
EntitiesOverlap(a, b) ==
  \E left, right \in {a.first, a.second, b.first, b.second} :
    /\ left >= a.first /\ left >= b.first
    /\ right <= a.second /\ right <= b.second
    /\ left < right

OverlapsAnyEntity(h, r) ==
  \E j \in DOMAIN entities[h] : EntitiesOverlap(r, entities[h][j])

AllRanges == UNION {RangesOf(h) : h \in Instances}

-----------------------------------------------------------------------------
(* Annotating an instance *)

Init ==
  /\ entities = [h \in Instances |-> <<>>]
  /\ entityLabels = [h \in Instances |-> <<>>]
  /\ sentences = <<>>
  /\ chunks = <<>>
  /\ chunk_labels = <<>>
  /\ label_to_id = <<>>
  /\ pc = "idle"
  /\ item \in Instances
  /\ temp = <<>>
  /\ outcome = "none"
  /\ tags = <<>>
  /\ given = <<>>
  /\ failed = FALSE

\* What add_entity() asserts before it changes anything
MayAnnotate(h, r) ==
  /\ pc = "idle"
  /\ Len(entities[h]) < MaxEntities
  /\ ~OverlapsAnyEntity(h, r)

AddEntity(h, r, l) ==
  /\ MayAnnotate(h, r)
  /\ entities' = [entities EXCEPT ![h] = Append(@, r)]
  /\ entityLabels' = [entityLabels EXCEPT ![h] = Append(@, l)]
  /\ UNCHANGED <<trainer, pc, item, temp, outcome, tags, given, failed>>

\* The second push_back() of add_entity() fails.
AddEntityFails(h, r) ==
  /\ MayAnnotate(h, r)
  /\ entities' = [entities EXCEPT ![h] = Append(@, r)]
  /\ failed' = TRUE
  /\ UNCHANGED <<entityLabels, trainer, pc, item, temp, outcome, tags, given>>

-----------------------------------------------------------------------------
(* ner_trainer::add() *)

PushSentence(h) ==
  /\ pc = "idle"
  /\ Len(sentences) < MaxAdds
  /\ sentences' = Append(sentences, h)
  /\ item' = h
  /\ temp' = <<>>
  /\ pc' = "chunks"
  /\ UNCHANGED <<instances, chunks, chunk_labels, label_to_id, outcome, tags, given, failed>>

PushChunks ==
  /\ pc = "chunks"
  /\ chunks' = Append(chunks, entities[item])
  /\ pc' = "labels"
  /\ UNCHANGED <<instances, sentences, chunk_labels, label_to_id, item, temp,
                 outcome, tags, given, failed>>

NumLabels == Cardinality(DOMAIN label_to_id)

\* Mutant: the size of the map is taken after operator[] has grown it
GetLabelIdLate(l) ==
  IF l \in DOMAIN label_to_id THEN label_to_id
  ELSE [m \in DOMAIN label_to_id \cup {l} |->
          IF m = l THEN NumLabels + 1 ELSE label_to_id[m]]

\* Mutant: a label that is known is numbered again
GetLabelIdAgain(l) ==
  [m \in DOMAIN label_to_id \cup {l} |-> IF m = l THEN NumLabels ELSE label_to_id[m]]

\* The map after get_label_id(l)
GetLabelId(l) ==
  IF l \in DOMAIN label_to_id THEN label_to_id
  ELSE [m \in DOMAIN label_to_id \cup {l} |->
          IF m = l THEN NumLabels ELSE label_to_id[m]]

\* temp.push_back(get_label_id(item.chunk_labels[i]))
NumberLabel ==
  /\ pc = "labels"
  /\ Len(temp) < Len(entityLabels[item])
  /\ LET l == entityLabels[item][Len(temp) + 1]
     IN  /\ label_to_id' = GetLabelId(l)
         /\ temp' = Append(temp, GetLabelId(l)[l])
  /\ UNCHANGED <<instances, sentences, chunks, chunk_labels, pc, item,
                 outcome, tags, given, failed>>

PushLabels ==
  /\ pc = "labels"
  /\ Len(temp) = Len(entityLabels[item])
  /\ chunk_labels' = Append(chunk_labels, temp)
  /\ given' = Append(given, [sentence |-> item, ranges |-> entities[item],
                             labels |-> entityLabels[item]])
  /\ pc' = "idle"
  /\ UNCHANGED <<instances, sentences, chunks, label_to_id, item, temp,
                 outcome, tags, failed>>

\* The statement that is next throws; the C interface returns 1.
AddFails ==
  /\ pc # "idle"
  /\ pc' = "idle"
  /\ failed' = TRUE
  /\ UNCHANGED <<instances, trainer, item, temp, outcome, tags, given>>

-----------------------------------------------------------------------------
(* ner_trainer::train() *)

\* get_all_labels()
AllLabels ==
  [id \in {label_to_id[l] : l \in DOMAIN label_to_id} |->
     CHOOSE l \in DOMAIN label_to_id : label_to_id[l] = id]

\* get_label(): the label of the first chunk that is r, or NumLabels for "not an entity"
GetLabel(k, r) ==
  IF \E j \in DOMAIN chunks[k] : chunks[k][j] = r
  THEN chunk_labels[k][CHOOSE j \in DOMAIN chunks[k] :
                         /\ chunks[k][j] = r
                         /\ \A m \in 1 .. j - 1 : chunks[k][m] # r]
  ELSE NumLabels

\* train() reads nothing beyond the end of a vector.
InBounds ==
  /\ Len(chunks) = Len(sentences)
  /\ Len(chunk_labels) = Len(sentences)
  /\ \A k \in DOMAIN sentences :
       /\ \A j \in DOMAIN chunks[k] : chunks[k][j] \in RangesOf(sentences[k])
       /\ Len(chunks[k]) <= Len(chunk_labels[k])

\* What the segmenter may find in a sentence: ranges that do not overlap
Segmentations(h) ==
  {found \in SUBSET RangesOf(h) :
     \A a, b \in found : a # b => ~EntitiesOverlap(a, b)}

\* Mutant: only what the segmenter finds becomes a sample
OnlyFound(k, found) == found

\* The ranges of sentence k that become samples
SampleRanges(k, found) == {chunks[k][j] : j \in DOMAIN chunks[k]} \cup found

\* The labels of the samples, which are those the classifier can predict
Learnt(segmentation) ==
  {GetLabel(p[1], p[2]) :
     p \in UNION {{k} \X SampleRanges(k, segmentation[k]) : k \in DOMAIN sentences}}

\* How train() ends when the segmenter finds `segmentation'.  What dlib makes of
\* an empty set of samples is left open.
Result(segmentation) ==
  IF ~InBounds THEN "undefined"
  ELSE IF Learnt(segmentation) = {} THEN "nosamples"
  ELSE IF 0 .. NumLabels - 1 \subseteq Learnt(segmentation) THEN "model"
  ELSE "asserts"  \* in the constructor of named_entity_extractor

\* The segmenter finds `segmentation', a set of ranges for every sentence.
Train(segmentation) ==
  /\ pc = "idle"
  /\ sentences # <<>>
  /\ \A k \in DOMAIN sentences : segmentation[k] \in Segmentations(sentences[k])
  /\ outcome' = Result(segmentation)
  /\ tags' = IF outcome' = "model" THEN AllLabels ELSE tags
  /\ UNCHANGED <<instances, trainer, pc, item, temp, given, failed>>

Next ==
  \/ \E h \in Instances :
       \/ \E r \in RangesOf(h), l \in Labels : AddEntity(h, r, l)
       \/ \E r \in RangesOf(h) : AddEntityFails(h, r)
       \/ PushSentence(h)
  \/ PushChunks
  \/ NumberLabel
  \/ PushLabels
  \/ AddFails
  \/ \E segmentation \in [DOMAIN sentences -> SUBSET AllRanges] :
       Train(segmentation)

Spec == Init /\ [][Next]_vars

-----------------------------------------------------------------------------
(* Properties *)

\* Label numbers are those of a vector with one entry for every label.
TypeOK ==
  /\ entities \in [Instances -> Seq(AllRanges)]
  /\ entityLabels \in [Instances -> Seq(Labels)]
  /\ sentences \in Seq(Instances)
  /\ chunks \in Seq(Seq(AllRanges))
  /\ chunk_labels \in Seq(Seq(Nat))
  /\ DOMAIN label_to_id \subseteq Labels
  /\ label_to_id \in [DOMAIN label_to_id -> 0 .. NumLabels - 1]
  /\ pc \in {"idle", "chunks", "labels"}
  /\ item \in Instances
  /\ temp \in Seq(Nat)
  /\ outcome \in {"none", "model", "nosamples", "asserts", "undefined"}
  /\ DOMAIN tags \subseteq Nat
  /\ tags \in [DOMAIN tags -> Labels]
  /\ given \in Seq([sentence : Instances, ranges : Seq(AllRanges), labels : Seq(Labels)])
  /\ failed \in BOOLEAN

\* Between calls, when memory never ran out, every range the segmenter may
\* come up with in a sentence is labelled with the number whose tag name is
\* the label the user annotated it with, and as no entity if there is none.
SamplesTellTheTruth ==
  ~failed /\ pc = "idle" =>
    /\ Len(given) = Len(sentences)
    /\ \A k \in DOMAIN given :
         /\ sentences[k] = given[k].sentence
         /\ \A j \in DOMAIN given[k].ranges :
              LET id == GetLabel(k, given[k].ranges[j])
              IN  id \in DOMAIN AllLabels /\ AllLabels[id] = given[k].labels[j]
         /\ \A r \in RangesOf(given[k].sentence) :
              (\A j \in DOMAIN given[k].ranges : given[k].ranges[j] # r) =>
                GetLabel(k, r) = NumLabels /\ NumLabels \notin DOMAIN AllLabels

\* When memory never ran out, whatever the segmenter finds, train() stays inside
\* its vectors and the classifier has seen every tag of the model.
TrainingSucceeds == ~failed => outcome \notin {"asserts", "undefined"}

\* The tags of a model keep their numbers in every model the trainer makes
\* later, whatever fails in between.
TagsKeepTheirIds ==
  \A id \in DOMAIN tags : id \in DOMAIN AllLabels /\ AllLabels[id] = tags[id]

=============================================================================
