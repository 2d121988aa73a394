------------------------- MODULE RelationDetectors --------------------------
(***************************************************************************)
(* Binary relations on top of ModelStore.  A relation extracted with a     *)
(* named entity extractor and a detector trained with one are separate     *)
(* objects with separate lives and files; each records the fingerprint of  *)
(* the total_word_feature_extractor its ner object carried, and            *)
(* classification compares the two.                                        *)
(*                                                                         *)
(* A relation's feature vector is abstracted to the extractor that         *)
(* computed it, a detector's decision function to the extractor its        *)
(* training vectors were computed with; `ner' remembers the weights of the *)
(* ner object either came from, for the properties.                        *)
(***************************************************************************)
EXTENDS ModelStore

CONSTANTS
  Relations,       \* mitie_binary_relation pointers
  Trainers,        \* mitie_binary_relation_trainer pointers
  Detectors,       \* mitie_binary_relation_detector pointers
  DetectorPaths    \* detector files

VARIABLES
  relation,  \* binary_relation: the extractor of its fingerprint, that of its feats
  trainer,   \* its extractor tfe, and whether there are examples, pos and neg
  detector,  \* the extractor of its fingerprint, that of its weights df
             \* (each also knows the ner object it stems from)
  detectorDisk,                 \* the contents of each detector file
  verdict    \* what the last call returned, if it was a classification

relVars == <<relation, trainer, detector, detectorDisk>>
allVars == <<vars, relVars, verdict>>

RelInit ==
  /\ Init
  /\ relation = [r \in Relations |-> Null]
  /\ trainer = [t \in Trainers |-> Null]
  /\ detector = [d \in Detectors |-> Null]
  /\ detectorDisk = [b \in DetectorPaths |-> Null]
  /\ verdict = Null

-----------------------------------------------------------------------------
\* The only answers that matter are those of classification
Answers(v) ==
  /\ verdict' = v
  /\ reply' = Reply("none", TRUE, Null)

\* Mutant: the fingerprint is taken from the ner object's record instead of
\* from the extractor that computed the features
RelationOfRecord(m) ==
  [fingerprint |-> m.tfeFingerprint, feats |-> m.fe, ner |-> m.weights]

\* extract_binary_relation() with the extractor the ner object carries
RelationOf(m) ==
  [fingerprint |-> Fingerprint(m.fe), feats |-> m.fe, ner |-> m.weights]

ExtractRelation(r, h) ==
  /\ relation[r] = Null
  /\ model[h] # Null
  /\ relation' = [relation EXCEPT ![r] = RelationOf(model[h])]
  /\ UNCHANGED <<model, disk, trainer, detector, detectorDisk>>
  /\ Answers(Null)

\* binary_relation_detector_trainer copies the extractor: the ner object may
\* be freed before the trainer is used
CreateTrainer(t, h) ==
  /\ trainer[t] = Null
  /\ model[h] # Null
  /\ trainer' = [trainer EXCEPT ![t] = [tfe |-> model[h].fe, pos |-> FALSE,
                                        neg |-> FALSE, ner |-> model[h].weights]]
  /\ UNCHANGED <<model, disk, relation, detector, detectorDisk>>
  /\ Answers(Null)

\* add_positive_binary_relation / add_negative_binary_relation; the number of
\* examples is abstracted to whether there are any
AddExample(t) ==
  /\ trainer[t] # Null
  /\ \/ trainer' = [trainer EXCEPT ![t].pos = TRUE]
     \/ trainer' = [trainer EXCEPT ![t].neg = TRUE]
  /\ UNCHANGED <<model, disk, relation, detector, detectorDisk>>
  /\ Answers(Null)

\* Mutant: train() leaves the fingerprint the default constructor set
DetectorWithoutFingerprint(t) ==
  [fingerprint |-> Fingerprint(Default), df |-> t.tfe, ner |-> t.ner]

\* train() recomputes every example's features with the trainer's extractor
DetectorOf(t) ==
  [fingerprint |-> Fingerprint(t.tfe), df |-> t.tfe, ner |-> t.ner]

TrainDetector(d, t) ==
  /\ detector[d] = Null
  /\ trainer[t] # Null
  /\ trainer[t].pos /\ trainer[t].neg
  /\ detector' = [detector EXCEPT ![d] = DetectorOf(trainer[t])]
  /\ UNCHANGED <<model, disk, relation, trainer, detectorDisk>>
  /\ Answers(Null)

\* The three outcomes of a save, see ModelStore; a file that cannot be opened
\* changes nothing
SaveDetector(b, d) ==
  /\ detector[d] # Null
  /\ \E contents \in {detector[d], DamagedFile, detectorDisk[b]} :
       detectorDisk' = [detectorDisk EXCEPT ![b] = contents]
  /\ UNCHANGED <<model, disk, relation, trainer, detector>>
  /\ Answers(Null)

\* A load that fails leaves the handle NULL
LoadDetector(d, b) ==
  /\ detector[d] = Null
  /\ \/ /\ detectorDisk[b] \notin {Null, DamagedFile}
        /\ detector' = [detector EXCEPT ![d] = detectorDisk[b]]
     \/ /\ detectorDisk[b] \in {Null, DamagedFile}
        /\ UNCHANGED detector
  /\ UNCHANGED <<model, disk, relation, trainer, detectorDisk>>
  /\ Answers(Null)

\* The check at the head of binary_relation_detector::operator()
Compatible(d, r) == r.fingerprint = d.fingerprint

\* mitie_classify_binary_relation
Classify(d, r) ==
  /\ detector[d] # Null /\ relation[r] # Null
  /\ Answers([ok |-> Compatible(detector[d], relation[r]),
              detector |-> detector[d], relation |-> relation[r]])
  /\ UNCHANGED <<model, disk, relVars>>

FreeRelational ==
  /\ \/ /\ \E r \in Relations : relation' = [relation EXCEPT ![r] = Null]
        /\ UNCHANGED <<trainer, detector>>
     \/ /\ \E t \in Trainers : trainer' = [trainer EXCEPT ![t] = Null]
        /\ UNCHANGED <<relation, detector>>
     \/ /\ \E d \in Detectors : detector' = [detector EXCEPT ![d] = Null]
        /\ UNCHANGED <<relation, trainer>>
  /\ UNCHANGED <<model, disk, detectorDisk>>
  /\ Answers(Null)

\* A relation is only extracted from an object that carries an extractor: one
\* more rule for careful clients
RelNext ==
  \/ Next /\ UNCHANGED relVars /\ verdict' = Null
  \/ \E r \in Relations, h \in Handles :
       ExtractRelation(r, h) /\ Abides(CarriesExtractor(h))
  \/ \E t \in Trainers, h \in Handles :
       CreateTrainer(t, h) /\ Abides(CarriesExtractor(h))
  \/ \E t \in Trainers : AddExample(t) /\ Abides(TRUE)
  \/ \E d \in Detectors, t \in Trainers : TrainDetector(d, t) /\ Abides(TRUE)
  \/ \E b \in DetectorPaths, d \in Detectors :
       (SaveDetector(b, d) \/ LoadDetector(d, b)) /\ Abides(TRUE)
  \/ \E d \in Detectors, r \in Relations : Classify(d, r) /\ Abides(TRUE)
  \/ FreeRelational /\ Abides(TRUE)

RelSpec == RelInit /\ [][RelNext]_allVars

-----------------------------------------------------------------------------
\* A score is only ever computed from features of the extractor the detector
\* was trained with, for every client and however ner objects, relations and
\* detectors were saved, freed and reloaded in between.
ScoreFromMatchingFeatures ==
  verdict # Null /\ verdict.ok => verdict.relation.feats = verdict.detector.df

\* Classification fails only if "the detector is incompatible with the ner
\* object used to extract the relation" (mitie.h): while clients are careful, a
\* detector accepts every relation from a model trained on the extractor of
\* its own model, whichever files the two models were loaded from.
CompatibleModelsClassify ==
  careful /\ verdict # Null /\ verdict.relation.ner.trainedOn = verdict.detector.ner.trainedOn
    => verdict.ok

=============================================================================
