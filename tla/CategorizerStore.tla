-------------------------- MODULE CategorizerStore --------------------------
(***************************************************************************)
(* text_categorizer: the same persistence code as named_entity_extractor   *)
(* (module ModelStore), except that the training constructor leaves        *)
(* pure_model_version at 0, and that a categorizer works without any       *)
(* feature extractor: an extractor of dimension 0, the default constructed *)
(* one, makes it use bag-of-words features only.                           *)
(***************************************************************************)
EXTENDS ModelStore

CategorizerInit == Init /\ TrainedVersion = 0

-----------------------------------------------------------------------------
(* The calls of ModelStore that a client of categorizers makes, and the    *)
(* rules a careful one keeps to: as there, except that an object without   *)
(* an extractor is complete when it was trained without one.               *)

CarriesTrainingExtractor(h) == model[h].fe = model[h].weights.trainedOn

\* text_categorizer_trainer() works on bag-of-words features only and leaves
\* its extractor default constructed; text_categorizer_trainer(filename)
\* loads one
TrainCategorizer ==
  \E h \in Handles, c \in Corpora, f \in Extractors : Train(h, c, f) /\ Abides(TRUE)

\* TextCategorizerTrainer.trainSeparateModels of the Java API
TrainCategorizerSeparately ==
  \E p \in Paths, c \in LegacyCorpora, f \in Fes :
    TrainSeparateModels(p, c, f) /\ Abides(TRUE)

SaveCategorizer ==
  \E p \in Paths, h \in Handles :
    (SaveFull(p, h) \/ SavePure(p, h)) /\ Abides(CarriesTrainingExtractor(h))

LoadCategorizer ==
  \E h \in Handles, p \in Paths : LoadFull(h, p) /\ Abides(TRUE)

\* text_categorizer(pureModelName, extractorName)
LoadPureCategorizer ==
  \E h \in Handles, p \in Paths, f \in Fes \cup {Null} :
    LoadPure(h, p, f) /\ Abides(RightExtractor(p, f))

\* Mutant: the constructor leaves tfe_fingerprint unread
LoadBagOfWordsUnread ==
  \E h \in Handles, p \in Paths :
    /\ model[h] = Null
    /\ IsKind(p, "pure_model_with_version")
    /\ Loaded(h, PureLoad(p, Default), PureObject(1, disk[p].weights, Junk, Default))
    /\ Abides(TRUE)

\* text_categorizer(pureModelName)
LoadBagOfWords ==
  \E h \in Handles, p \in Paths : LoadPureWithoutFe(h, p) /\ Abides(TRUE)

FreeCategorizer == \E h \in Handles : Free(h) /\ Abides(TRUE)

-----------------------------------------------------------------------------
\* predict() and operator() compute bag-of-words features for an extractor of
\* dimension 0, combined ones for the others.  Training always combines: the
\* average of word vectors without entries adds nothing to the bag of words.
BagOfWords(fe) == fe = Default

Categorization(m, fe, own) == Prediction(m, fe, own)

\* predict(sentence), operator()(sentence): the object's own extractor
Categorize(h) ==
  /\ model[h] # Null
  /\ reply' = Categorization(model[h], model[h].fe, TRUE)
  /\ UNCHANGED <<model, disk>>

\* predict(sentence, fe), operator()(sentence, fe), which are the same but for the score
CategorizeWith(h, fe) ==
  /\ model[h] # Null
  /\ reply' = Categorization(model[h], fe, FALSE)
  /\ UNCHANGED <<model, disk>>

CategorizerNext ==
  \/ TrainCategorizer
  \/ TrainCategorizerSeparately
  \/ SaveCategorizer
  \/ LoadCategorizer
  \/ LoadPureCategorizer
  \/ LoadBagOfWords
  \/ \E h \in Handles :
       Categorize(h) /\ Abides(model[h].version = 1 \/ CarriesTrainingExtractor(h))
  \/ \E h \in Handles, f \in Fes : CategorizeWith(h, f) /\ Abides(TRUE)
  \/ FreeCategorizer

CategorizerSpec == CategorizerInit /\ [][CategorizerNext]_vars

-----------------------------------------------------------------------------
\* While clients are careful, a bag-of-words model keeps working without an extractor
\* after any sequence of saves and loads, and a stamped object never lets
\* such a model be run with an extractor (text_categorizer.h, the constructor
\* without extractorName).
BagOfWordsSelfSufficient ==
  careful /\ reply.call = "extract" /\ BagOfWords(reply.weights.trainedOn) =>
    /\ reply.own => reply.ok
    /\ ~reply.own /\ reply.version = 1 => ~reply.ok

\* What the comments of predict() and operator() promise (text_categorizer.h:113-115:
\* "If this instance has just the pure model and feature_extractor has not been
\* initialized, only "Bag-of-Words" will be used."; :85-87 and :154-156 say the
\* same): a careful client's call with an extractor that was never initialized
\* succeeds, on bags of words.
FallsBackToBagOfWords ==
  careful /\ reply.call = "extract" /\ reply.own /\ BagOfWords(reply.fe) => reply.ok

=============================================================================
