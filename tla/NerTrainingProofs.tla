------------------------- MODULE NerTrainingProofs --------------------------
(***************************************************************************)
(* For all instances, labels and bounds: training data that was added      *)
(* without running out of memory is labelled as the user annotated it, can *)
(* be trained on, and tags never change their numbers.                     *)
(***************************************************************************)
EXTENDS NerTraining, FiniteSetTheorems, TLAPS

-----------------------------------------------------------------------------
(* Type correctness *)

\* The labels numbered so far are finitely many, so they can be counted.
Finite == IsFiniteSet(DOMAIN label_to_id)

\* get_label_id() keeps every number and gives a new label the next one.
LEMMA NextId ==
  ASSUME NEW l, Finite
  PROVE  /\ IsFiniteSet(DOMAIN GetLabelId(l))
         /\ NumLabels \in Nat
         /\ Cardinality(DOMAIN GetLabelId(l)) =
              IF l \in DOMAIN label_to_id THEN NumLabels ELSE NumLabels + 1
         /\ DOMAIN GetLabelId(l) = DOMAIN label_to_id \cup {l}
         /\ \A m \in DOMAIN label_to_id : GetLabelId(l)[m] = label_to_id[m]
         /\ l \notin DOMAIN label_to_id => GetLabelId(l)[l] = NumLabels
<1>1. DOMAIN GetLabelId(l) = DOMAIN label_to_id \cup {l}
  BY DEF GetLabelId
<1>2. NumLabels \in Nat
  BY FS_CardinalityType DEF Finite, NumLabels
<1>3. /\ IsFiniteSet(DOMAIN label_to_id \cup {l})
      /\ Cardinality(DOMAIN label_to_id \cup {l}) =
           IF l \in DOMAIN label_to_id THEN NumLabels ELSE NumLabels + 1
  BY FS_AddElement DEF Finite, NumLabels
<1>4. \A m \in DOMAIN label_to_id : GetLabelId(l)[m] = label_to_id[m]
  BY DEF GetLabelId
<1>5. l \notin DOMAIN label_to_id => GetLabelId(l)[l] = NumLabels
  BY DEF GetLabelId
<1> QED
  BY <1>1, <1>2, <1>3, <1>4, <1>5

LEMMA InitTypes == Init => TypeOK /\ Finite
<1> SUFFICES ASSUME Init PROVE TypeOK /\ Finite
  OBVIOUS
<1>1. DOMAIN label_to_id = {}
  BY DEF Init
<1>2. Finite /\ NumLabels = 0
  BY <1>1, FS_EmptySet DEF Finite, NumLabels
<1>3. label_to_id \in [DOMAIN label_to_id -> 0 .. NumLabels - 1]
  BY <1>1 DEF Init
<1>4. /\ entities \in [Instances -> Seq(AllRanges)]
      /\ entityLabels \in [Instances -> Seq(Labels)]
  BY DEF Init
<1>5. DOMAIN tags \subseteq Nat /\ tags \in [DOMAIN tags -> Labels]
  BY DEF Init
<1>6. DOMAIN label_to_id \subseteq Labels
  BY <1>1
<1>7. sentences \in Seq(Instances) /\ chunks \in Seq(Seq(AllRanges))
  BY DEF Init
<1>8. chunk_labels \in Seq(Seq(Nat)) /\ temp \in Seq(Nat)
  BY DEF Init
<1>9. given \in Seq([sentence : Instances, ranges : Seq(AllRanges), labels : Seq(Labels)])
  BY DEF Init
<1>10. /\ pc \in {"idle", "chunks", "labels"}
       /\ item \in Instances
       /\ outcome \in {"none", "model", "nosamples", "asserts", "undefined"}
       /\ failed \in BOOLEAN
  BY DEF Init
<1> QED
  BY <1>2, <1>3, <1>4, <1>5, <1>6, <1>7, <1>8, <1>9, <1>10 DEF TypeOK

LEMMA NextTypes == TypeOK /\ Finite /\ [Next]_vars => TypeOK' /\ Finite'
<1> SUFFICES ASSUME TypeOK, Finite, [Next]_vars
             PROVE  TypeOK' /\ Finite'
  OBVIOUS
<1> USE DEF TypeOK
<1>1. ASSUME NEW h \in Instances, NEW r \in RangesOf(h), NEW l \in Labels, AddEntity(h, r, l)
      PROVE  TypeOK' /\ Finite'
  <2>1. r \in AllRanges
    BY DEF AllRanges
  <2>2. entities' \in [Instances -> Seq(AllRanges)]
    BY <1>1, <2>1 DEF AddEntity
  <2>3. entityLabels' \in [Instances -> Seq(Labels)]
    BY <1>1 DEF AddEntity
  <2> QED
    BY <1>1, <2>2, <2>3 DEF AddEntity, trainer, NumLabels, Finite
<1>2. ASSUME NEW h \in Instances, NEW r \in RangesOf(h), AddEntityFails(h, r)
      PROVE  TypeOK' /\ Finite'
  <2>1. r \in AllRanges
    BY DEF AllRanges
  <2>2. entities' \in [Instances -> Seq(AllRanges)]
    BY <1>2, <2>1 DEF AddEntityFails
  <2> QED
    BY <1>2, <2>2 DEF AddEntityFails, trainer, NumLabels, Finite
<1>3. ASSUME NEW h \in Instances, PushSentence(h)
      PROVE  TypeOK' /\ Finite'
  BY <1>3 DEF PushSentence, instances, NumLabels, Finite
<1>4. ASSUME PushChunks
      PROVE  TypeOK' /\ Finite'
  <2>1. entities[item] \in Seq(AllRanges)
    OBVIOUS
  <2>2. chunks' \in Seq(Seq(AllRanges))
    BY <1>4, <2>1 DEF PushChunks
  <2> QED
    BY <1>4, <2>2 DEF PushChunks, instances, NumLabels, Finite
<1>5. ASSUME NumberLabel
      PROVE  TypeOK' /\ Finite'
  <2> DEFINE l == entityLabels[item][Len(temp) + 1]
  <2>1. l \in Labels
    <3>1. entityLabels[item] \in Seq(Labels) /\ Len(temp) \in Nat
      OBVIOUS
    <3> QED
      BY <1>5, <3>1 DEF NumberLabel
  <2>2. label_to_id' = GetLabelId(l) /\ temp' = Append(temp, GetLabelId(l)[l])
    BY <1>5 DEF NumberLabel
  <2> HIDE DEF l
  <2>3. /\ IsFiniteSet(DOMAIN GetLabelId(l))
        /\ NumLabels \in Nat
        /\ Cardinality(DOMAIN GetLabelId(l)) =
             IF l \in DOMAIN label_to_id THEN NumLabels ELSE NumLabels + 1
        /\ DOMAIN GetLabelId(l) = DOMAIN label_to_id \cup {l}
        /\ \A m \in DOMAIN label_to_id : GetLabelId(l)[m] = label_to_id[m]
        /\ l \notin DOMAIN label_to_id => GetLabelId(l)[l] = NumLabels
    BY NextId
  <2>4. Finite'
    BY <2>2, <2>3 DEF Finite
  <2>5. NumLabels' = IF l \in DOMAIN label_to_id THEN NumLabels ELSE NumLabels + 1
    BY <2>2, <2>3 DEF NumLabels
  <2>6. \A m \in DOMAIN label_to_id : label_to_id[m] \in 0 .. NumLabels - 1
    OBVIOUS
  <2>7. \A m \in DOMAIN GetLabelId(l) : GetLabelId(l)[m] \in 0 .. NumLabels' - 1
    BY <2>3, <2>5, <2>6
  <2>8. GetLabelId(l) \in [DOMAIN GetLabelId(l) -> 0 .. NumLabels' - 1]
    <3>1. GetLabelId(l) = [m \in DOMAIN GetLabelId(l) |-> GetLabelId(l)[m]]
      BY DEF GetLabelId
    <3> QED
      BY <2>7, <3>1
  <2>9. DOMAIN GetLabelId(l) \subseteq Labels
    BY <2>1, <2>3
  <2>10. GetLabelId(l)[l] \in Nat
    BY <2>3, <2>5, <2>7
  <2>11. temp' \in Seq(Nat)
    BY <2>2, <2>10
  <2>12. UNCHANGED <<instances, sentences, chunks, chunk_labels, pc, item,
                     outcome, tags, given, failed>>
    BY <1>5 DEF NumberLabel
  <2> QED
    BY <2>2, <2>4, <2>8, <2>9, <2>11, <2>12 DEF instances
<1>6. ASSUME PushLabels
      PROVE  TypeOK' /\ Finite'
  <2>1. chunk_labels' \in Seq(Seq(Nat))
    BY <1>6 DEF PushLabels
  <2>2. [sentence |-> item, ranges |-> entities[item], labels |-> entityLabels[item]]
          \in [sentence : Instances, ranges : Seq(AllRanges), labels : Seq(Labels)]
    OBVIOUS
  <2>3. given' \in Seq([sentence : Instances, ranges : Seq(AllRanges), labels : Seq(Labels)])
    BY <1>6, <2>2 DEF PushLabels
  <2> QED
    BY <1>6, <2>1, <2>3 DEF PushLabels, instances, NumLabels, Finite
<1>7. ASSUME AddFails
      PROVE  TypeOK' /\ Finite'
  BY <1>7 DEF AddFails, instances, trainer, NumLabels, Finite
<1>8. ASSUME NEW segmentation, Train(segmentation)
      PROVE  TypeOK' /\ Finite'
  <2>1. NumLabels \in Nat
    BY FS_CardinalityType DEF Finite, NumLabels
  <2>2. DOMAIN AllLabels \subseteq Nat /\ AllLabels \in [DOMAIN AllLabels -> Labels]
    <3>1. \A m \in DOMAIN label_to_id : label_to_id[m] \in Nat /\ m \in Labels
      BY <2>1
    <3> QED
      BY <3>1 DEF AllLabels
  <2>3. DOMAIN tags' \subseteq Nat /\ tags' \in [DOMAIN tags' -> Labels]
    BY <1>8, <2>2 DEF Train
  <2>4. outcome' \in {"none", "model", "nosamples", "asserts", "undefined"}
    BY <1>8 DEF Train, Result
  <2> QED
    BY <1>8, <2>3, <2>4 DEF Train, instances, trainer, NumLabels, Finite
<1>9. ASSUME UNCHANGED vars
      PROVE  TypeOK' /\ Finite'
  BY <1>9 DEF vars, instances, trainer, NumLabels, Finite
<1> QED
  BY <1>1, <1>2, <1>3, <1>4, <1>5, <1>6, <1>7, <1>8, <1>9 DEF Next

\* Every vector of the instances and of the trainer holds what it is declared
\* to hold, and the label numbers are below the number of labels.
THEOREM TypeCorrect == Spec => []TypeOK
<1>1. Init => TypeOK /\ Finite
  BY InitTypes
<1>2. TypeOK /\ Finite /\ [Next]_vars => TypeOK' /\ Finite'
  BY NextTypes
<1> QED
  BY <1>1, <1>2, PTL DEF Spec

-----------------------------------------------------------------------------
(* The inductive invariant *)

\* Labels and the numbers below NumLabels are in one to one correspondence.
NumbersAreDense ==
  /\ \A l, m \in DOMAIN label_to_id : label_to_id[l] = label_to_id[m] => l = m
  /\ \A id \in 0 .. NumLabels - 1 : \E l \in DOMAIN label_to_id : label_to_id[l] = id

\* A well formed annotation: a label for every range, no range twice
Annotation(h, ranges, labels) ==
  /\ Len(labels) = Len(ranges)
  /\ \A j \in DOMAIN ranges : ranges[j] \in RangesOf(h)
  /\ \A j, k \in DOMAIN ranges : j # k => ranges[j] # ranges[k]

InstancesAnnotated ==
  ~failed => \A h \in Instances : Annotation(h, entities[h], entityLabels[h])

Numbered(id, l) == l \in DOMAIN label_to_id /\ label_to_id[l] = id

\* The same after a step
NumberedNext(id, l) == l \in DOMAIN label_to_id' /\ label_to_id'[l] = id

\* Entry k of the three vectors is what the k-th successful add() was given.
Recorded(k) ==
  /\ sentences[k] = given[k].sentence
  /\ chunks[k] = given[k].ranges
  /\ Annotation(given[k].sentence, given[k].ranges, given[k].labels)
  /\ Len(chunk_labels[k]) = Len(given[k].labels)
  /\ \A j \in DOMAIN given[k].labels : Numbered(chunk_labels[k][j], given[k].labels[j])

\* The vectors differ in length by what the add() under way has pushed.
VectorsAligned ==
  ~failed =>
    /\ Len(chunk_labels) = Len(given)
    /\ Len(sentences) = Len(given) + (IF pc = "idle" THEN 0 ELSE 1)
    /\ Len(chunks) = Len(given) + (IF pc = "labels" THEN 1 ELSE 0)
    /\ \A k \in DOMAIN given : Recorded(k)
    /\ pc # "idle" => sentences[Len(given) + 1] = item
    /\ pc = "chunks" => temp = <<>>
    /\ pc = "labels" =>
         /\ chunks[Len(given) + 1] = entities[item]
         /\ Len(temp) <= Len(entityLabels[item])
         /\ \A j \in DOMAIN temp : Numbered(temp[j], entityLabels[item][j])

\* A label has a number because some annotation carries it.
NumbersAreUsed ==
  ~failed =>
    \A l \in DOMAIN label_to_id :
      \/ \E k \in DOMAIN given : \E j \in DOMAIN given[k].labels : given[k].labels[j] = l
      \/ pc = "labels" /\ \E j \in DOMAIN temp : entityLabels[item][j] = l

-----------------------------------------------------------------------------
(* Label numbers *)

\* Only get_label_id() changes the numbers.
LEMMA NumbersChange == [Next]_vars => UNCHANGED label_to_id \/ NumberLabel
BY DEF Next, vars, trainer, instances, AddEntity, AddEntityFails, PushSentence,
       PushChunks, PushLabels, AddFails, Train

\* No number is ever taken back.
LEMMA NumbersStay ==
  TypeOK /\ Finite /\ [Next]_vars =>
    \A l \in DOMAIN label_to_id :
      l \in DOMAIN label_to_id' /\ label_to_id'[l] = label_to_id[l]
<1> SUFFICES ASSUME Finite, [Next]_vars
             PROVE  \A l \in DOMAIN label_to_id :
                      l \in DOMAIN label_to_id' /\ label_to_id'[l] = label_to_id[l]
  OBVIOUS
<1>1. CASE UNCHANGED label_to_id
  BY <1>1
<1>2. CASE NumberLabel
  <2> DEFINE l == entityLabels[item][Len(temp) + 1]
  <2>1. label_to_id' = GetLabelId(l)
    BY <1>2 DEF NumberLabel
  <2> HIDE DEF l
  <2> QED
    BY <2>1, NextId
<1> QED
  BY <1>1, <1>2, NumbersChange

LEMMA InitDense == Init => NumbersAreDense
<1> SUFFICES ASSUME Init PROVE NumbersAreDense
  OBVIOUS
<1>1. DOMAIN label_to_id = {}
  BY DEF Init
<1>2. NumLabels = 0
  BY <1>1, FS_EmptySet DEF NumLabels
<1> QED
  BY <1>1, <1>2 DEF NumbersAreDense

LEMMA NextDense ==
  TypeOK /\ Finite /\ NumbersAreDense /\ [Next]_vars => NumbersAreDense'
<1> SUFFICES ASSUME TypeOK, Finite, NumbersAreDense, [Next]_vars
             PROVE  NumbersAreDense'
  OBVIOUS
<1>1. CASE UNCHANGED label_to_id
  BY <1>1 DEF NumbersAreDense, NumLabels
<1>2. CASE NumberLabel
  <2> DEFINE l == entityLabels[item][Len(temp) + 1]
  <2>1. label_to_id' = GetLabelId(l)
    BY <1>2 DEF NumberLabel
  <2> HIDE DEF l
  <2>2. /\ NumLabels \in Nat
        /\ NumLabels' = IF l \in DOMAIN label_to_id THEN NumLabels ELSE NumLabels + 1
        /\ DOMAIN label_to_id' = DOMAIN label_to_id \cup {l}
        /\ \A m \in DOMAIN label_to_id : label_to_id'[m] = label_to_id[m]
        /\ l \notin DOMAIN label_to_id => label_to_id'[l] = NumLabels
    BY <2>1, NextId DEF NumLabels
  <2>3. \A m \in DOMAIN label_to_id : label_to_id[m] \in 0 .. NumLabels - 1
    BY DEF TypeOK
  <2>4. \A m, n \in DOMAIN label_to_id' : label_to_id'[m] = label_to_id'[n] => m = n
    BY <2>2, <2>3 DEF NumbersAreDense
  <2>5. \A id \in 0 .. NumLabels' - 1 : \E m \in DOMAIN label_to_id' : label_to_id'[m] = id
    <3> SUFFICES ASSUME NEW id \in 0 .. NumLabels' - 1
                 PROVE  \E m \in DOMAIN label_to_id' : label_to_id'[m] = id
      OBVIOUS
    <3>1. CASE id \in 0 .. NumLabels - 1
      BY <2>2, <3>1 DEF NumbersAreDense
    <3>2. CASE id \notin 0 .. NumLabels - 1
      <4>1. l \notin DOMAIN label_to_id /\ id = NumLabels
        BY <2>2, <3>2
      <4> QED
        BY <2>2, <4>1
    <3> QED
      BY <3>1, <3>2
  <2> QED
    BY <2>4, <2>5 DEF NumbersAreDense
<1> QED
  BY <1>1, <1>2, NumbersChange

\* get_all_labels() is the inverse of label_to_id.
NamesMatchNumbers ==
  /\ \A l \in DOMAIN label_to_id :
       label_to_id[l] \in DOMAIN AllLabels /\ AllLabels[label_to_id[l]] = l
  /\ \A id \in DOMAIN AllLabels :
       AllLabels[id] \in DOMAIN label_to_id /\ label_to_id[AllLabels[id]] = id

LEMMA AllLabelsInverts == NumbersAreDense => NamesMatchNumbers
<1>1. DOMAIN AllLabels = {label_to_id[l] : l \in DOMAIN label_to_id}
  BY DEF AllLabels
<1>2. \A id \in DOMAIN AllLabels :
        AllLabels[id] = CHOOSE l \in DOMAIN label_to_id : label_to_id[l] = id
  BY DEF AllLabels
<1>3. \A id \in DOMAIN AllLabels :
        AllLabels[id] \in DOMAIN label_to_id /\ label_to_id[AllLabels[id]] = id
  BY <1>1, <1>2
<1> QED
  BY <1>1, <1>3 DEF NumbersAreDense, NamesMatchNumbers

LEMMA NextTags ==
  TypeOK /\ Finite /\ NumbersAreDense /\ TagsKeepTheirIds /\ [Next]_vars
    => TagsKeepTheirIds'
<1> SUFFICES ASSUME TypeOK, Finite, NumbersAreDense, TagsKeepTheirIds, [Next]_vars
             PROVE  TagsKeepTheirIds'
  OBVIOUS
<1>1. NumbersAreDense'
  BY NextDense
<1>2. NamesMatchNumbers'
  BY <1>1, AllLabelsInverts, PTL
<1>3. NamesMatchNumbers
  BY AllLabelsInverts
<1>4. \A l \in DOMAIN label_to_id :
        l \in DOMAIN label_to_id' /\ label_to_id'[l] = label_to_id[l]
  BY NumbersStay
<1>5. \A id \in DOMAIN AllLabels : id \in DOMAIN AllLabels' /\ AllLabels'[id] = AllLabels[id]
  BY <1>2, <1>3, <1>4 DEF NamesMatchNumbers
<1>6. tags' = tags \/ tags' = AllLabels
  BY DEF Next, vars, trainer, instances, AddEntity, AddEntityFails, PushSentence,
         PushChunks, NumberLabel, PushLabels, AddFails, Train
<1> QED
  BY <1>5, <1>6 DEF TagsKeepTheirIds

\* A tag keeps its number in every model made later, whatever fails in between.
THEOREM TagsAreStable == Spec => []TagsKeepTheirIds
<1> DEFINE Inv == TypeOK /\ Finite /\ NumbersAreDense /\ TagsKeepTheirIds
<1>1. Init => Inv
  <2>1. Init => TagsKeepTheirIds
    BY DEF Init, TagsKeepTheirIds
  <2> QED
    BY <2>1, InitTypes, InitDense
<1>2. Inv /\ [Next]_vars => Inv'
  BY NextTypes, NextDense, NextTags
<1>3. Inv => TagsKeepTheirIds
  OBVIOUS
<1> HIDE DEF Inv
<1> QED
  BY <1>1, <1>2, <1>3, PTL DEF Spec

-----------------------------------------------------------------------------
(* Annotations *)

\* A range an instance may be given is none of those it has.
LEMMA NewRangeIsNew ==
  ASSUME TypeOK, NEW h \in Instances, NEW r \in RangesOf(h), MayAnnotate(h, r)
  PROVE  \A j \in DOMAIN entities[h] : entities[h][j] # r
<1>1. EntitiesOverlap(r, r)
  <2>1. r.first < r.second /\ r.first \in Nat /\ r.second \in Nat
    BY TokensAssumption DEF RangesOf
  <2> QED
    BY <2>1 DEF EntitiesOverlap
<1> QED
  BY <1>1 DEF MayAnnotate, OverlapsAnyEntity

LEMMA NextInstances ==
  TypeOK /\ InstancesAnnotated /\ [Next]_vars => InstancesAnnotated'
<1> SUFFICES ASSUME TypeOK, InstancesAnnotated, [Next]_vars, ~failed',
                    NEW g \in Instances
             PROVE  Annotation(g, entities'[g], entityLabels'[g])
  BY DEF InstancesAnnotated, Annotation
<1>1. ASSUME NEW h \in Instances, NEW r \in RangesOf(h), NEW l \in Labels, AddEntity(h, r, l)
      PROVE  Annotation(g, entities'[g], entityLabels'[g])
  <2>1. Annotation(g, entities[g], entityLabels[g])
    BY <1>1 DEF AddEntity, InstancesAnnotated
  <2>2. CASE g = h
    <3>1. entities[h] \in Seq(AllRanges) /\ entityLabels[h] \in Seq(Labels)
      BY DEF TypeOK
    <3>2. entities'[g] = Append(entities[h], r) /\ entityLabels'[g] = Append(entityLabels[h], l)
      BY <1>1, <2>2 DEF AddEntity, TypeOK
    <3>3. \A j \in DOMAIN entities[h] : entities[h][j] # r
      BY <1>1, NewRangeIsNew DEF AddEntity
    <3>4. Len(entityLabels'[g]) = Len(entities'[g])
      BY <2>1, <2>2, <3>1, <3>2 DEF Annotation
    <3>5. \A j \in DOMAIN entities'[g] : entities'[g][j] \in RangesOf(g)
      BY <2>1, <2>2, <3>1, <3>2 DEF Annotation
    <3>6. \A j, k \in DOMAIN entities'[g] : j # k => entities'[g][j] # entities'[g][k]
      BY <2>1, <2>2, <3>1, <3>2, <3>3 DEF Annotation
    <3> QED
      BY <3>4, <3>5, <3>6 DEF Annotation
  <2>3. CASE g # h
    BY <1>1, <2>1, <2>3 DEF AddEntity, TypeOK
  <2> QED
    BY <2>2, <2>3
<1>2. ASSUME UNCHANGED instances, failed' = failed
      PROVE  Annotation(g, entities'[g], entityLabels'[g])
  BY <1>2 DEF instances, InstancesAnnotated
<1>3. \/ \E h \in Instances : \E r \in RangesOf(h), l \in Labels : AddEntity(h, r, l)
      \/ UNCHANGED instances /\ failed' = failed
  BY DEF Next, vars, trainer, AddEntityFails, PushSentence, PushChunks,
         NumberLabel, PushLabels, AddFails, Train
<1> QED
  BY <1>1, <1>2, <1>3

-----------------------------------------------------------------------------
(* The parallel vectors *)

LEMMA RecordedStays ==
  ASSUME TypeOK, Finite, [Next]_vars, NEW k, Recorded(k), given'[k] = given[k],
         sentences'[k] = sentences[k], chunks'[k] = chunks[k],
         chunk_labels'[k] = chunk_labels[k]
  PROVE  Recorded(k)'
<1>1. \A l \in DOMAIN label_to_id :
        l \in DOMAIN label_to_id' /\ label_to_id'[l] = label_to_id[l]
  BY NumbersStay
<1>2. \A id, l : Numbered(id, l) => Numbered(id, l)'
  BY <1>1 DEF Numbered
<1> QED
  BY <1>2 DEF Recorded, Annotation

LEMMA NextAligned ==
  TypeOK /\ Finite /\ InstancesAnnotated /\ VectorsAligned /\ [Next]_vars => VectorsAligned'
<1> SUFFICES ASSUME TypeOK, Finite, InstancesAnnotated, VectorsAligned, [Next]_vars, ~failed'
             PROVE  VectorsAligned'
  BY DEF VectorsAligned
<1>0. ~failed
  BY DEF Next, vars, AddEntity, AddEntityFails, PushSentence, PushChunks,
         NumberLabel, PushLabels, AddFails, Train
<1>00. /\ sentences \in Seq(Instances) /\ chunks \in Seq(Seq(AllRanges))
       /\ chunk_labels \in Seq(Seq(Nat)) /\ temp \in Seq(Nat) /\ item \in Instances
       /\ given \in Seq([sentence : Instances, ranges : Seq(AllRanges), labels : Seq(Labels)])
       /\ entities[item] \in Seq(AllRanges) /\ entityLabels[item] \in Seq(Labels)
  BY DEF TypeOK
<1> HIDE DEF TypeOK
<1>1. ASSUME NEW h \in Instances, PushSentence(h)
      PROVE  VectorsAligned'
  <2>1. \A k \in DOMAIN given : Recorded(k)'
    <3> SUFFICES ASSUME NEW k \in DOMAIN given PROVE Recorded(k)'
      OBVIOUS
    <3>1. Recorded(k)
      BY <1>0 DEF VectorsAligned
    <3>2. sentences'[k] = sentences[k]
      BY <1>0, <1>1, <1>00 DEF PushSentence, VectorsAligned
    <3> QED
      BY <1>1, <3>1, <3>2, RecordedStays DEF PushSentence
  <2> QED
    BY <1>0, <1>00, <1>1, <2>1 DEF PushSentence, VectorsAligned
<1>2. ASSUME PushChunks
      PROVE  VectorsAligned'
  <2>1. \A k \in DOMAIN given : Recorded(k)'
    <3> SUFFICES ASSUME NEW k \in DOMAIN given PROVE Recorded(k)'
      OBVIOUS
    <3>1. Recorded(k)
      BY <1>0 DEF VectorsAligned
    <3>2. chunks'[k] = chunks[k]
      BY <1>0, <1>2, <1>00 DEF PushChunks, VectorsAligned
    <3> QED
      BY <1>2, <3>1, <3>2, RecordedStays DEF PushChunks
  <2>2. chunks'[Len(given) + 1] = entities[item] /\ temp = <<>>
    BY <1>0, <1>00, <1>2 DEF PushChunks, VectorsAligned
  <2> QED
    BY <1>0, <1>00, <1>2, <2>1, <2>2 DEF PushChunks, VectorsAligned, instances
<1>3. ASSUME NumberLabel
      PROVE  VectorsAligned'
  <2>1. \A k \in DOMAIN given : Recorded(k)'
    <3> SUFFICES ASSUME NEW k \in DOMAIN given PROVE Recorded(k)'
      OBVIOUS
    <3>1. Recorded(k)
      BY <1>0 DEF VectorsAligned
    <3> QED
      BY <1>3, <3>1, RecordedStays DEF NumberLabel
  <2> DEFINE l == entityLabels[item][Len(temp) + 1]
  <2>2. label_to_id' = GetLabelId(l) /\ temp' = Append(temp, GetLabelId(l)[l])
    BY <1>3 DEF NumberLabel
  <2>3. NumberedNext(temp'[Len(temp) + 1], l)
    <3>1. temp'[Len(temp) + 1] = GetLabelId(l)[l]
      <4>1. GetLabelId(l)[l] \in Nat
        BY <1>3, <2>2, NextTypes, <1>00 DEF TypeOK
      <4> HIDE DEF l
      <4> QED
        BY <1>00, <2>2, <4>1
    <3>2. l \in DOMAIN GetLabelId(l)
      BY DEF GetLabelId
    <3> QED
      BY <2>2, <3>1, <3>2 DEF NumberedNext
  <2>4. \A m \in DOMAIN label_to_id :
          m \in DOMAIN label_to_id' /\ label_to_id'[m] = label_to_id[m]
    BY NumbersStay
  <2>5. \A j \in DOMAIN temp' : NumberedNext(temp'[j], entityLabels'[item'][j])
    <3> SUFFICES ASSUME NEW j \in DOMAIN temp'
                 PROVE  NumberedNext(temp'[j], entityLabels'[item'][j])
      OBVIOUS
    <3>1. UNCHANGED <<entityLabels, item>>
      BY <1>3 DEF NumberLabel, instances
    <3>2. CASE j = Len(temp) + 1
      BY <2>3, <3>1, <3>2
    <3>3. CASE j # Len(temp) + 1
      <4>1. j \in DOMAIN temp /\ temp'[j] = temp[j]
        BY <1>00, <2>2, <3>3
      <4>2. Numbered(temp[j], entityLabels[item][j])
        BY <1>0, <1>3, <4>1 DEF NumberLabel, VectorsAligned
      <4> QED
        BY <2>4, <3>1, <4>1, <4>2 DEF Numbered, NumberedNext
    <3> QED
      BY <3>2, <3>3
  <2>6. Len(temp') <= Len(entityLabels'[item'])
    BY <1>00, <1>3 DEF NumberLabel, instances
  <2>7. pc = "labels" /\ UNCHANGED <<instances, sentences, chunks, chunk_labels, pc, item, given>>
    BY <1>3 DEF NumberLabel
  <2> HIDE DEF l
  <2> QED
    BY <1>0, <2>1, <2>5, <2>6, <2>7 DEF VectorsAligned, instances, Numbered, NumberedNext
<1>4. ASSUME PushLabels
      PROVE  VectorsAligned'
  <2>0. PICK n \in Nat : n = Len(given) + 1
    BY <1>00
  <2>1. /\ sentences[n] = item /\ chunks[n] = entities[item]
        /\ Len(temp) = Len(entityLabels[item])
        /\ \A j \in DOMAIN temp : Numbered(temp[j], entityLabels[item][j])
    BY <1>0, <1>4, <2>0 DEF PushLabels, VectorsAligned
  <2>2. /\ UNCHANGED <<sentences, chunks, label_to_id, instances>>
        /\ chunk_labels' = Append(chunk_labels, temp)
        /\ given' = Append(given, [sentence |-> item, ranges |-> entities[item],
                                   labels |-> entityLabels[item]])
    BY <1>4 DEF PushLabels
  <2>3. /\ Len(given') = n /\ DOMAIN given' = DOMAIN given \cup {n}
        /\ given'[n].sentence = item /\ given'[n].ranges = entities[item]
        /\ given'[n].labels = entityLabels[item]
        /\ \A k \in DOMAIN given : given'[k] = given[k]
    <3> DEFINE entry == [sentence |-> item, ranges |-> entities[item],
                         labels |-> entityLabels[item]]
    <3>1. entry \in [sentence : Instances, ranges : Seq(AllRanges), labels : Seq(Labels)]
      BY <1>00
    <3>2. /\ entry.sentence = item /\ entry.ranges = entities[item]
          /\ entry.labels = entityLabels[item]
      OBVIOUS
    <3>3. given' = Append(given, entry)
      BY <2>2
    <3> HIDE DEF entry
    <3>4. /\ Len(given') = n /\ DOMAIN given' = 1 .. n /\ given'[n] = entry
          /\ DOMAIN given = 1 .. (n - 1)
          /\ \A k \in 1 .. (n - 1) : given'[k] = given[k]
      BY <1>00, <2>0, <3>1, <3>3
    <3> QED
      BY <2>0, <3>2, <3>4
  <2>4. /\ Len(chunk_labels) = Len(given)
        /\ chunk_labels'[n] = temp
        /\ Len(chunk_labels') = n
        /\ \A k \in DOMAIN given : chunk_labels'[k] = chunk_labels[k]
    BY <1>0, <1>00, <2>0, <2>2 DEF VectorsAligned
  <2>5. Annotation(item, entities[item], entityLabels[item])
    BY <1>0, <1>00 DEF InstancesAnnotated
  <2>6. Recorded(n)'
    <3>1. \A id, m : NumberedNext(id, m) <=> Numbered(id, m)
      BY <2>2 DEF Numbered, NumberedNext
    <3>2. sentences'[n] = given'[n].sentence /\ chunks'[n] = given'[n].ranges
      BY <2>1, <2>2, <2>3
    <3>3. Annotation(given'[n].sentence, given'[n].ranges, given'[n].labels)
      BY <2>3, <2>5
    <3>4. DOMAIN entityLabels[item] = DOMAIN temp
      BY <1>00, <2>1
    <3>5. /\ Len(chunk_labels'[n]) = Len(given'[n].labels)
          /\ \A j \in DOMAIN given'[n].labels :
               NumberedNext(chunk_labels'[n][j], given'[n].labels[j])
      BY <2>1, <2>3, <2>4, <3>1, <3>4
    <3> QED
      BY <3>2, <3>3, <3>5 DEF Recorded, Annotation, Numbered, NumberedNext
  <2>7. \A k \in DOMAIN given : Recorded(k)'
    <3> SUFFICES ASSUME NEW k \in DOMAIN given PROVE Recorded(k)'
      OBVIOUS
    <3>1. Recorded(k)
      BY <1>0 DEF VectorsAligned
    <3> QED
      BY <2>2, <2>3, <2>4, <3>1, RecordedStays
  <2>8. pc' = "idle" /\ Len(sentences') = n /\ Len(chunks') = n
    BY <1>0, <1>00, <1>4, <2>0, <2>2 DEF PushLabels, VectorsAligned
  <2> QED
    BY <2>3, <2>4, <2>6, <2>7, <2>8 DEF VectorsAligned
<1>5. ASSUME UNCHANGED <<trainer, pc, item, temp, given>>,
             pc = "idle" \/ UNCHANGED instances
      PROVE  VectorsAligned'
  <2>1. \A k \in DOMAIN given : Recorded(k)'
    <3> SUFFICES ASSUME NEW k \in DOMAIN given PROVE Recorded(k)'
      OBVIOUS
    <3>1. Recorded(k)
      BY <1>0 DEF VectorsAligned
    <3> QED
      BY <1>5, <3>1, RecordedStays DEF trainer
  <2> QED
    BY <1>0, <1>5, <2>1 DEF VectorsAligned, trainer, instances, Numbered
<1>6. \/ \E h \in Instances : PushSentence(h)
      \/ PushChunks
      \/ NumberLabel
      \/ PushLabels
      \/ /\ UNCHANGED <<trainer, pc, item, temp, given>>
         /\ pc = "idle" \/ UNCHANGED instances
  BY DEF Next, vars, AddEntity, MayAnnotate, AddEntityFails, AddFails, Train
<1> QED
  BY <1>1, <1>2, <1>3, <1>4, <1>5, <1>6

LEMMA NextUsed ==
  TypeOK /\ VectorsAligned /\ NumbersAreUsed /\ [Next]_vars => NumbersAreUsed'
<1> SUFFICES ASSUME TypeOK, VectorsAligned, NumbersAreUsed, [Next]_vars, ~failed'
             PROVE  NumbersAreUsed'
  BY DEF NumbersAreUsed
<1>0. ~failed
  BY DEF Next, vars, AddEntity, AddEntityFails, PushSentence, PushChunks,
         NumberLabel, PushLabels, AddFails, Train
<1>00. /\ temp \in Seq(Nat) /\ entityLabels[item] \in Seq(Labels)
       /\ given \in Seq([sentence : Instances, ranges : Seq(AllRanges), labels : Seq(Labels)])
  BY DEF TypeOK
<1> HIDE DEF TypeOK
<1>1. ASSUME NEW h \in Instances, PushSentence(h)
      PROVE  NumbersAreUsed'
  BY <1>0, <1>1 DEF PushSentence, NumbersAreUsed
<1>2. ASSUME PushChunks
      PROVE  NumbersAreUsed'
  BY <1>0, <1>2 DEF PushChunks, NumbersAreUsed
<1>3. ASSUME NumberLabel
      PROVE  NumbersAreUsed'
  <2> DEFINE l == entityLabels[item][Len(temp) + 1]
  <2>1. /\ pc = "labels"
        /\ UNCHANGED <<instances, pc, item, given>>
        /\ label_to_id' = GetLabelId(l) /\ temp' = Append(temp, GetLabelId(l)[l])
    BY <1>3 DEF NumberLabel
  <2>2. DOMAIN label_to_id' = DOMAIN label_to_id \cup {l}
    BY <2>1 DEF GetLabelId
  <2>3. DOMAIN temp' = DOMAIN temp \cup {Len(temp) + 1}
    BY <1>00, <2>1
  <2>4. \E j \in DOMAIN temp' : entityLabels'[item'][j] = l
    BY <2>1, <2>3 DEF instances
  <2>5. \A m \in DOMAIN label_to_id :
          \/ \E k \in DOMAIN given' : \E j \in DOMAIN given'[k].labels : given'[k].labels[j] = m
          \/ \E j \in DOMAIN temp' : entityLabels'[item'][j] = m
    BY <1>0, <2>1, <2>3 DEF NumbersAreUsed, instances
  <2> HIDE DEF l
  <2> QED
    BY <2>1, <2>2, <2>4, <2>5 DEF NumbersAreUsed
<1>4. ASSUME PushLabels
      PROVE  NumbersAreUsed'
  <2>0. PICK n \in Nat : n = Len(given) + 1
    BY <1>00
  <2>1. /\ pc = "labels" /\ pc' = "idle" /\ UNCHANGED label_to_id
        /\ Len(temp) = Len(entityLabels[item])
        /\ given' = Append(given, [sentence |-> item, ranges |-> entities[item],
                                   labels |-> entityLabels[item]])
    BY <1>4 DEF PushLabels
  <2>2. /\ DOMAIN given' = DOMAIN given \cup {n}
        /\ given'[n].labels = entityLabels[item]
        /\ \A k \in DOMAIN given : given'[k] = given[k]
    BY <1>00, <2>0, <2>1
  <2>3. DOMAIN temp = DOMAIN entityLabels[item]
    BY <1>00, <2>1
  <2> QED
    BY <1>0, <2>1, <2>2, <2>3 DEF NumbersAreUsed
<1>5. ASSUME UNCHANGED <<trainer, pc, item, temp, given>>,
             pc = "idle" \/ UNCHANGED instances
      PROVE  NumbersAreUsed'
  BY <1>0, <1>5 DEF NumbersAreUsed, trainer, instances
<1>6. \/ \E h \in Instances : PushSentence(h)
      \/ PushChunks
      \/ NumberLabel
      \/ PushLabels
      \/ /\ UNCHANGED <<trainer, pc, item, temp, given>>
         /\ pc = "idle" \/ UNCHANGED instances
  BY DEF Next, vars, AddEntity, MayAnnotate, AddEntityFails, AddFails, Train
<1> QED
  BY <1>1, <1>2, <1>3, <1>4, <1>5, <1>6

-----------------------------------------------------------------------------
(* Samples *)

LEMMA GivenTypes ==
  ASSUME TypeOK, NEW k \in DOMAIN given
  PROVE  given[k].ranges \in Seq(AllRanges) /\ given[k].labels \in Seq(Labels)
<1> DEFINE G == [sentence : Instances, ranges : Seq(AllRanges), labels : Seq(Labels)]
<1>1. given \in Seq(G)
  BY DEF TypeOK
<1>2. given[k] \in G
  <2> HIDE DEF G
  <2> QED
    BY <1>1
<1> QED
  BY <1>2

\* The search of get_label() for an annotated range finds its label.
LEMMA GetLabelFinds ==
  ASSUME TypeOK, NEW k \in DOMAIN given, Recorded(k), NEW j \in DOMAIN given[k].ranges
  PROVE  GetLabel(k, given[k].ranges[j]) = chunk_labels[k][j]
<1> DEFINE r == given[k].ranges[j]
           First(m) == chunks[k][m] = r /\ \A i \in 1 .. m - 1 : chunks[k][i] # r
<1>1. given[k].ranges \in Seq(AllRanges)
  BY GivenTypes
<1>2. /\ chunks[k] = given[k].ranges
      /\ \A i, m \in DOMAIN chunks[k] : i # m => chunks[k][i] # chunks[k][m]
  BY DEF Recorded, Annotation
<1>3. j \in DOMAIN chunks[k] /\ First(j)
  BY <1>1, <1>2
<1>4. \A m \in DOMAIN chunks[k] : First(m) => m = j
  BY <1>2
<1>5. (CHOOSE m \in DOMAIN chunks[k] : First(m)) = j
  <2> HIDE DEF First
  <2> QED
    BY <1>3, <1>4
<1> QED
  BY <1>3, <1>5 DEF GetLabel

\* What holds between calls when memory never ran out
LEMMA AlignedBetweenCalls ==
  ASSUME TypeOK, VectorsAligned, ~failed, pc = "idle"
  PROVE  /\ Len(chunks) = Len(given) /\ Len(sentences) = Len(given)
         /\ Len(chunk_labels) = Len(given)
         /\ DOMAIN sentences = DOMAIN given
         /\ \A k \in DOMAIN given : Recorded(k)
<1>1. /\ sentences \in Seq(Instances)
      /\ given \in Seq([sentence : Instances, ranges : Seq(AllRanges), labels : Seq(Labels)])
  BY DEF TypeOK
<1> QED
  BY <1>1 DEF VectorsAligned

LEMMA AlwaysInBounds ==
  ASSUME TypeOK, VectorsAligned, ~failed, pc = "idle"
  PROVE  InBounds
<1>1. \A k \in DOMAIN sentences :
        /\ \A j \in DOMAIN chunks[k] : chunks[k][j] \in RangesOf(sentences[k])
        /\ Len(chunks[k]) <= Len(chunk_labels[k])
  <2> SUFFICES ASSUME NEW k \in DOMAIN given
               PROVE  /\ \A j \in DOMAIN chunks[k] : chunks[k][j] \in RangesOf(sentences[k])
                      /\ Len(chunks[k]) <= Len(chunk_labels[k])
    BY AlignedBetweenCalls
  <2>1. Recorded(k)
    BY AlignedBetweenCalls
  <2>2. given[k].ranges \in Seq(AllRanges)
    BY GivenTypes
  <2> QED
    BY <2>1, <2>2 DEF Recorded, Annotation
<1> QED
  BY <1>1, AlignedBetweenCalls DEF InBounds

\* Every number a label has is learnt from the annotations that carry it,
\* whatever the segmenter finds.
LEMMA EveryTagIsLearnt ==
  ASSUME TypeOK, NumbersAreDense, VectorsAligned, NumbersAreUsed, ~failed, pc = "idle",
         NEW segmentation
  PROVE  0 .. NumLabels - 1 \subseteq Learnt(segmentation)
<1> SUFFICES ASSUME NEW id \in 0 .. NumLabels - 1
             PROVE  id \in Learnt(segmentation)
  OBVIOUS
<1>1. PICK l \in DOMAIN label_to_id : label_to_id[l] = id
  BY DEF NumbersAreDense
<1>2. PICK k \in DOMAIN given : \E j \in DOMAIN given[k].labels : given[k].labels[j] = l
  BY DEF NumbersAreUsed
<1>3. PICK j \in DOMAIN given[k].labels : given[k].labels[j] = l
  BY <1>2
<1>4. Recorded(k) /\ k \in DOMAIN sentences
  BY AlignedBetweenCalls
<1>5. j \in DOMAIN given[k].ranges
  <2>1. given[k].ranges \in Seq(AllRanges) /\ given[k].labels \in Seq(Labels)
    BY GivenTypes
  <2> QED
    BY <1>4, <2>1 DEF Recorded, Annotation
<1>6. chunk_labels[k][j] = id
  BY <1>1, <1>3, <1>4 DEF Recorded, Numbered
<1>7. GetLabel(k, given[k].ranges[j]) = id
  BY <1>4, <1>5, <1>6, GetLabelFinds
<1>8. given[k].ranges[j] \in SampleRanges(k, segmentation[k])
  BY <1>4, <1>5 DEF Recorded, SampleRanges
<1>9. <<k, given[k].ranges[j]>> \in
        UNION {{m} \X SampleRanges(m, segmentation[m]) : m \in DOMAIN sentences}
  BY <1>4, <1>8
<1> QED
  BY <1>7, <1>9 DEF Learnt

-----------------------------------------------------------------------------
(* The theorems *)

Inv ==
  /\ TypeOK
  /\ Finite
  /\ NumbersAreDense
  /\ InstancesAnnotated
  /\ VectorsAligned
  /\ NumbersAreUsed
  /\ TrainingSucceeds

LEMMA InitInv == Init => Inv
<1> SUFFICES ASSUME Init PROVE Inv
  OBVIOUS
<1>1. TypeOK /\ Finite /\ NumbersAreDense
  BY InitTypes, InitDense
<1>2. InstancesAnnotated
  BY DEF Init, InstancesAnnotated, Annotation
<1>3. VectorsAligned
  BY DEF Init, VectorsAligned
<1>4. NumbersAreUsed
  BY DEF Init, NumbersAreUsed
<1>5. TrainingSucceeds
  BY DEF Init, TrainingSucceeds
<1> QED
  BY <1>1, <1>2, <1>3, <1>4, <1>5 DEF Inv

LEMMA NextInv == Inv /\ [Next]_vars => Inv'
<1> SUFFICES ASSUME Inv, [Next]_vars PROVE Inv'
  OBVIOUS
<1>1. /\ TypeOK /\ Finite /\ NumbersAreDense /\ InstancesAnnotated
      /\ VectorsAligned /\ NumbersAreUsed /\ TrainingSucceeds
  BY DEF Inv
<1>2. TypeOK' /\ Finite' /\ NumbersAreDense' /\ InstancesAnnotated'
  BY <1>1, NextTypes, NextDense, NextInstances
<1>3. VectorsAligned' /\ NumbersAreUsed'
  BY <1>1, NextAligned, NextUsed
<1>4. TrainingSucceeds'
  <2>1. ASSUME NEW segmentation, Train(segmentation), ~failed'
        PROVE  outcome' \notin {"asserts", "undefined"}
    <3>1. ~failed /\ pc = "idle" /\ outcome' = Result(segmentation)
      BY <2>1 DEF Train
    <3>2. InBounds
      BY <1>1, <3>1, AlwaysInBounds
    <3>3. 0 .. NumLabels - 1 \subseteq Learnt(segmentation)
      BY <1>1, <3>1, EveryTagIsLearnt
    <3> QED
      BY <3>1, <3>2, <3>3 DEF Result
  <2>2. \/ \E segmentation \in [DOMAIN sentences -> SUBSET AllRanges] : Train(segmentation)
        \/ outcome' = outcome /\ (failed => failed')
    BY DEF Next, vars, AddEntity, AddEntityFails, PushSentence, PushChunks,
           NumberLabel, PushLabels, AddFails
  <2> QED
    BY <1>1, <2>1, <2>2 DEF TrainingSucceeds
<1> QED
  BY <1>2, <1>3, <1>4 DEF Inv

\* Every range of a sentence becomes a sample labelled as the user annotated it.
LEMMA TruthFromInv == Inv => SamplesTellTheTruth
<1> SUFFICES ASSUME Inv, ~failed, pc = "idle"
             PROVE  /\ Len(given) = Len(sentences)
                    /\ \A k \in DOMAIN given :
                         /\ sentences[k] = given[k].sentence
                         /\ \A j \in DOMAIN given[k].ranges :
                              LET id == GetLabel(k, given[k].ranges[j])
                              IN  id \in DOMAIN AllLabels /\ AllLabels[id] = given[k].labels[j]
                         /\ \A r \in RangesOf(given[k].sentence) :
                              (\A j \in DOMAIN given[k].ranges : given[k].ranges[j] # r) =>
                                GetLabel(k, r) = NumLabels /\ NumLabels \notin DOMAIN AllLabels
  BY DEF SamplesTellTheTruth
<1>0. TypeOK /\ Finite /\ NumbersAreDense /\ VectorsAligned
  BY DEF Inv
<1>1. Len(given) = Len(sentences)
  BY <1>0, AlignedBetweenCalls
<1>2. ASSUME NEW k \in DOMAIN given
      PROVE  sentences[k] = given[k].sentence
  BY <1>0, AlignedBetweenCalls DEF Recorded
<1>3. ASSUME NEW k \in DOMAIN given, NEW j \in DOMAIN given[k].ranges
      PROVE  /\ GetLabel(k, given[k].ranges[j]) \in DOMAIN AllLabels
             /\ AllLabels[GetLabel(k, given[k].ranges[j])] = given[k].labels[j]
  <2>1. Recorded(k)
    BY <1>0, AlignedBetweenCalls
  <2>2. GetLabel(k, given[k].ranges[j]) = chunk_labels[k][j]
    BY <1>0, <2>1, GetLabelFinds
  <2>3. j \in DOMAIN given[k].labels
    <3>1. given[k].ranges \in Seq(AllRanges) /\ given[k].labels \in Seq(Labels)
      BY <1>0, GivenTypes
    <3> QED
      BY <2>1, <3>1 DEF Recorded, Annotation
  <2>4. Numbered(chunk_labels[k][j], given[k].labels[j])
    BY <2>1, <2>3 DEF Recorded
  <2>5. NamesMatchNumbers
    BY <1>0, AllLabelsInverts
  <2> QED
    BY <2>2, <2>4, <2>5 DEF Numbered, NamesMatchNumbers
<1>4. ASSUME NEW k \in DOMAIN given, NEW r \in RangesOf(given[k].sentence),
             \A j \in DOMAIN given[k].ranges : given[k].ranges[j] # r
      PROVE  GetLabel(k, r) = NumLabels /\ NumLabels \notin DOMAIN AllLabels
  <2>1. chunks[k] = given[k].ranges
    BY <1>0, AlignedBetweenCalls DEF Recorded
  <2>2. GetLabel(k, r) = NumLabels
    BY <1>4, <2>1 DEF GetLabel
  <2>3. NumLabels \notin DOMAIN AllLabels
    <3>1. \A l \in DOMAIN label_to_id : label_to_id[l] \in 0 .. NumLabels - 1
      BY <1>0 DEF TypeOK
    <3>2. NumLabels \in Nat
      BY <1>0, FS_CardinalityType DEF Finite, NumLabels
    <3> QED
      BY <3>1, <3>2 DEF AllLabels
  <2> QED
    BY <2>2, <2>3
<1> QED
  BY <1>1, <1>2, <1>3, <1>4

\* Training data added without running out of memory is labelled as the user
\* annotated it, whatever ranges the segmenter finds in addition.
THEOREM SamplesAreTrue == Spec => []SamplesTellTheTruth
<1> QED
  BY InitInv, NextInv, TruthFromInv, PTL DEF Spec

\* Such data can always be trained on: train() reads inside its vectors, and the
\* assertion that every tag can be predicted never fires.
THEOREM TrainingNeverAsserts == Spec => []TrainingSucceeds
<1>1. Inv => TrainingSucceeds
  BY DEF Inv
<1> QED
  BY <1>1, InitInv, NextInv, PTL DEF Spec

=============================================================================
