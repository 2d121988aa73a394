----------------------------- MODULE ModelStore -----------------------------
(***************************************************************************)
(* Trained models in memory and on disk, and the fingerprint protocol that *)
(* is meant to keep a model together with the feature extractor it was     *)
(* trained on: named_entity_extractor (its three constructors, its         *)
(* serialize/deserialize pair and its prediction functions) and the C and  *)
(* Java entry points that train, save, load, use and free one.             *)
(*                                                                         *)
(* A feature extractor (total_word_feature_extractor) is identified with   *)
(* its 64 bit fingerprint: the murmur hash is taken to be free of          *)
(* collisions.  Default is both the default constructed extractor and its  *)
(* fingerprint, 0.  What training produces (tag names, segmenter and df)   *)
(* is abstracted to the corpus and the extractor it was trained from.      *)
(*                                                                         *)
(* The module is parameterised by TrainedVersion, the only point where the *)
(* persistence code of named_entity_extractor and of text_categorizer      *)
(* differ, and CategorizerStore extends it for the latter.                 *)
(***************************************************************************)
CONSTANTS
  Handles,         \* pointers a client holds
  Paths,           \* model files on disk
  Fes,             \* trained total_word_feature_extractors, each in a file
  Corpora,         \* training sets
  LegacyCorpora,   \* those trained by tools that still write version 0 files
  TrainedVersion,  \* pure_model_version of a freshly trained object
  Default,         \* the default constructed extractor; its fingerprint is 0
  Junk,            \* some other value an uninitialized 64 bit field can hold
  Null             \* a NULL handle, a missing file, no model

ASSUME ExtractorAssumption ==
  /\ Default \notin Fes
  /\ Junk \notin Fes \cup {Default}

ASSUME NullAssumption == Null \notin Fes

ASSUME VersionAssumption == TrainedVersion \in {0, 1}

VARIABLES
  model,   \* the object behind each handle
  disk,    \* the contents of each model file
  reply,   \* what the last call returned
  careful  \* whether every call so far kept to the rules below (history)

store == <<model, disk, reply>>

vars == <<model, disk, reply, careful>>

-----------------------------------------------------------------------------
(* Data *)

Extractors == Fes \cup {Default}

\* get_fingerprint() of an extractor
Fingerprint(fe) == fe

\* Values tfe_fingerprint can hold, an uninitialized one included
TfeFingerprints == Extractors \cup {Junk}

\* tag_name_strings, segmenter and df, as training left them
Weights == [corpus : Corpora \cup LegacyCorpora, trainedOn : Extractors]

\* compute_fingerprint() hashes the weights and tfe_fingerprint
ModelFingerprint(w, tfeFp) == <<w, tfeFp>>

Objects == [version : {0, 1}, fingerprint : Weights \X TfeFingerprints,
            tfeFingerprint : TfeFingerprints, weights : Weights, fe : Extractors]

FullFiles  == [kind : {"full"}, fingerprint : Weights \X TfeFingerprints,
               weights : Weights, fe : Extractors]
Pure0Files == [kind : {"pure_model"}, weights : Weights]
Pure1Files == [kind : {"pure_model_with_version"}, weights : Weights,
               tfeFingerprint : TfeFingerprints]
DamagedFile == [kind |-> "damaged"]
Files == FullFiles \cup Pure0Files \cup Pure1Files \cup {DamagedFile}

Calls == {"none", "train", "save", "load", "load_pure", "extract", "free"}

\* ok: no error was reported.  The other fields say what the call worked on.
Replies == [call : Calls, ok : BOOLEAN, path : Paths \cup {Null},
            version : {0, 1}, own : BOOLEAN, weights : Weights \cup {Null},
            fe : Extractors \cup {Null}]

Reply(call, ok, path) ==
  [call |-> call, ok |-> ok, path |-> path, version |-> 0, own |-> FALSE,
   weights |-> Null, fe |-> Null]

StoreTypeOK ==
  /\ model \in [Handles -> Objects \cup {Null}]
  /\ disk \in [Paths -> Files \cup {Null}]
  /\ reply \in Replies

TypeOK == StoreTypeOK /\ careful \in BOOLEAN

Init ==
  /\ model = [h \in Handles |-> Null]
  /\ disk = [p \in Paths |-> Null]
  /\ reply = Reply("none", TRUE, Null)
  /\ careful = TRUE

-----------------------------------------------------------------------------
(* Training *)

\* The training constructor
TrainedObject(c, f) ==
  LET w == [corpus |-> c, trainedOn |-> f]
  IN  [version |-> TrainedVersion,
       fingerprint |-> ModelFingerprint(w, Fingerprint(f)),
       tfeFingerprint |-> Fingerprint(f), weights |-> w, fe |-> f]

Train(h, c, f) ==
  /\ model[h] = Null
  /\ model' = [model EXCEPT ![h] = TrainedObject(c, f)]
  /\ reply' = Reply("train", TRUE, Null)
  /\ UNCHANGED disk

-----------------------------------------------------------------------------
(* Saving.  The file is truncated when it is opened and written through a  *)
(* buffered stream that is closed, and flushed, by its destructor: a write *)
(* error is an exception, except in that last flush, which nobody checks.  *)

\* The C call returns 0 and the file holds what was written
SaveSucceeds(p, contents) ==
  /\ disk' = [disk EXCEPT ![p] = contents]
  /\ reply' = Reply("save", TRUE, p)

\* The file cannot be opened, or a write fails
SaveThrows(p) ==
  /\ \/ UNCHANGED disk
     \/ disk' = [disk EXCEPT ![p] = DamagedFile]
  /\ reply' = Reply("save", FALSE, p)

\* The write error comes with the last buffer
SaveLosesTail(p) ==
  /\ disk' = [disk EXCEPT ![p] = DamagedFile]
  /\ reply' = Reply("save", TRUE, p)

Save(p, contents) ==
  \/ SaveSucceeds(p, contents)
  \/ SaveThrows(p)
  \/ SaveLosesTail(p)

\* serialize(): neither pure_model_version nor tfe_fingerprint is written
FullContents(m) ==
  [kind |-> "full", fingerprint |-> m.fingerprint, weights |-> m.weights,
   fe |-> m.fe]

\* Mutant: the writer stamps an arbitrary fixed fingerprint, 0
PureContentsUnstamped(m) ==
  [kind |-> "pure_model_with_version", weights |-> m.weights,
   tfeFingerprint |-> Fingerprint(Default)]

\* The fingerprint written is that of the extractor the object carries
PureContents(m) ==
  [kind |-> "pure_model_with_version", weights |-> m.weights,
   tfeFingerprint |-> Fingerprint(m.fe)]

SaveFull(p, h) ==
  /\ model[h] # Null
  /\ Save(p, FullContents(model[h]))
  /\ UNCHANGED model

SavePure(p, h) ==
  /\ model[h] # Null
  /\ Save(p, PureContents(model[h]))
  /\ UNCHANGED model

\* NerTrainer.trainSeparateModels of the Java API: a version 0 pure file
TrainSeparateModels(p, c, f) ==
  /\ Save(p, [kind |-> "pure_model",
              weights |-> [corpus |-> c, trainedOn |-> f]])
  /\ UNCHANGED model

-----------------------------------------------------------------------------
(* Loading.  A load that fails frees what it allocated and returns NULL. *)

FullLoad(p) == Reply("load", TRUE, p)

\* fe is the extractor that was asked for, Default for none
PureLoad(p, fe) ==
  [call |-> "load_pure", ok |-> TRUE, path |-> p, version |-> 0, own |-> FALSE,
   weights |-> Null, fe |-> fe]

LoadFails(request) ==
  /\ reply' = [request EXCEPT !.ok = FALSE]
  /\ UNCHANGED <<model, disk>>

Loaded(h, request, object) ==
  /\ model' = [model EXCEPT ![h] = object]
  /\ reply' = request
  /\ UNCHANGED disk

IsKind(p, kind) == disk[p] # Null /\ disk[p].kind = kind

\* deserialize() into a default constructed object
FullObject(d) ==
  [version |-> 0, fingerprint |-> d.fingerprint, weights |-> d.weights,
   tfeFingerprint |-> Fingerprint(Default), fe |-> d.fe]

LoadFull(h, p) ==
  /\ model[h] = Null
  /\ \/ /\ IsKind(p, "full")
        /\ Loaded(h, FullLoad(p), FullObject(disk[p]))
     \/ /\ ~IsKind(p, "full")
        /\ LoadFails(FullLoad(p))

\* Mutant: the fingerprint is computed before tfe_fingerprint is read
PureObjectHashedEarly(version, w, tfeFp, fe) ==
  [version |-> version, fingerprint |-> ModelFingerprint(w, Fingerprint(fe)),
   tfeFingerprint |-> tfeFp, weights |-> w, fe |-> fe]

\* The object a pure constructor builds from a file of either version
PureObject(version, w, tfeFp, fe) ==
  [version |-> version, fingerprint |-> ModelFingerprint(w, tfeFp),
   tfeFingerprint |-> tfeFp, weights |-> w, fe |-> fe]

\* Version 0 files say nothing of the extractor: tfe_fingerprint stays
\* uninitialized and compute_fingerprint() hashes whatever it holds
LoadsVersion0(h, p, fe) ==
  /\ IsKind(p, "pure_model")
  /\ \E garbage \in TfeFingerprints :
       Loaded(h, PureLoad(p, fe), PureObject(0, disk[p].weights, garbage, fe))

LoadsVersion1(h, p, fe) ==
  /\ IsKind(p, "pure_model_with_version")
  /\ Loaded(h, PureLoad(p, fe),
            PureObject(1, disk[p].weights, disk[p].tfeFingerprint, fe))

\* Mutant: the constructor forgets to compare the two fingerprints
LoadPureUnchecked(h, p, fe) ==
  /\ model[h] = Null
  /\ \/ fe \in Fes /\ LoadsVersion0(h, p, fe)
     \/ fe \in Fes /\ LoadsVersion1(h, p, fe)
     \/ /\ \/ fe \notin Fes
           \/ ~IsKind(p, "pure_model") /\ ~IsKind(p, "pure_model_with_version")
        /\ LoadFails(PureLoad(p, fe))

\* Mutant: files of the older format are no longer recognised
LoadPureNewFormatOnly(h, p, fe) ==
  /\ model[h] = Null
  /\ \/ /\ fe \in Fes
        /\ LoadsVersion1(h, p, fe)
        /\ disk[p].tfeFingerprint = Fingerprint(fe)
     \/ /\ fe \in Fes /\ IsKind(p, "pure_model_with_version") =>
             disk[p].tfeFingerprint # Fingerprint(fe)
        /\ LoadFails(PureLoad(p, fe))

\* named_entity_extractor(pureModelName, extractorName); fe is Null when
\* extractorName is no total_word_feature_extractor file
LoadPure(h, p, fe) ==
  /\ model[h] = Null
  /\ \/ fe \in Fes /\ LoadsVersion0(h, p, fe)
     \/ /\ fe \in Fes
        /\ LoadsVersion1(h, p, fe)
        /\ disk[p].tfeFingerprint = Fingerprint(fe)
     \/ /\ \/ fe \notin Fes
           \/ /\ ~IsKind(p, "pure_model")
              /\ IsKind(p, "pure_model_with_version") =>
                   disk[p].tfeFingerprint # Fingerprint(fe)
        /\ LoadFails(PureLoad(p, fe))

\* named_entity_extractor(pureModelName): fe stays default constructed
LoadPureWithoutFe(h, p) ==
  /\ model[h] = Null
  /\ \/ LoadsVersion0(h, p, Default)
     \/ LoadsVersion1(h, p, Default)
     \/ /\ ~IsKind(p, "pure_model") /\ ~IsKind(p, "pure_model_with_version")
        /\ LoadFails(PureLoad(p, Default))

-----------------------------------------------------------------------------
(* Use *)

\* Mutant: the test is gone
AcceptsAnything(m, fe) == TRUE

\* The test at the head of predict() and operator()
Accepts(m, fe) == m.version = 0 \/ m.tfeFingerprint = Fingerprint(fe)

Prediction(m, fe, own) ==
  [call |-> "extract", ok |-> Accepts(m, fe), path |-> Null,
   version |-> m.version, own |-> own, weights |-> m.weights, fe |-> fe]

\* predict() with the object's own extractor
Extract(h) ==
  /\ model[h] # Null
  /\ reply' = Prediction(model[h], model[h].fe, TRUE)
  /\ UNCHANGED <<model, disk>>

\* predict() with an extractor the caller provides
ExtractWith(h, fe) ==
  /\ model[h] # Null
  /\ reply' = Prediction(model[h], fe, FALSE)
  /\ UNCHANGED <<model, disk>>

Free(h) ==
  /\ model[h] # Null
  /\ model' = [model EXCEPT ![h] = Null]
  /\ reply' = Reply("free", TRUE, Null)
  /\ UNCHANGED disk

-----------------------------------------------------------------------------
(* The rules mitie.h gives clients where the code cannot check them, that   *)
(* is for version 0: the extractor file given with a pure model is the one *)
(* the model was trained on, and an object loaded without one is used      *)
(* through ..._with_extractor().  The first rule below adds a restriction  *)
(* no document states: an object loaded without one is not saved again.    *)
(* Calls that break a rule are made all the same.                          *)

CarriesExtractor(h) == model[h].fe # Default

RightExtractor(p, f) ==
  IsKind(p, "pure_model") => f \in {disk[p].weights.trainedOn, Null}

Abides(rule) == careful' = (careful /\ rule)

Next ==
  \/ \E h \in Handles, c \in Corpora, f \in Fes : Train(h, c, f) /\ Abides(TRUE)
  \/ \E p \in Paths, c \in LegacyCorpora, f \in Fes :
       TrainSeparateModels(p, c, f) /\ Abides(TRUE)
  \/ \E p \in Paths, h \in Handles :
       (SaveFull(p, h) \/ SavePure(p, h)) /\ Abides(CarriesExtractor(h))
  \/ \E h \in Handles, p \in Paths :
       (LoadFull(h, p) \/ LoadPureWithoutFe(h, p)) /\ Abides(TRUE)
  \/ \E h \in Handles, p \in Paths, f \in Fes \cup {Null} :
       LoadPure(h, p, f) /\ Abides(RightExtractor(p, f))
  \/ \E h \in Handles : Extract(h) /\ Abides(model[h].version = 1 \/ CarriesExtractor(h))
  \/ \E h \in Handles, f \in Fes : ExtractWith(h, f) /\ Abides(TRUE)
  \/ \E h \in Handles : Free(h) /\ Abides(TRUE)

Spec == Init /\ [][Next]_vars

-----------------------------------------------------------------------------
(* Properties *)

\* However an object of version 1 came to be (trained, or loaded with or
\* without an extractor, from a file re-saved any number of times), the
\* extractor it carries is the one its own check accepts, or none: a client
\* that loaded it successfully with an extractor can always extract with it.
VersionedObjectCarriesItsExtractor ==
  \A h \in Handles :
    model[h] # Null /\ model[h].version = 1 /\ model[h].fe # Default =>
      Accepts(model[h], model[h].fe)

\* While clients are careful, a prediction that succeeds on an object of version 1,
\* or with the object's own extractor, computed its features with the
\* extractor the weights were trained on (predict()'s "exception is thrown
\* if there is a mismatch").
PredictionUsesTrainingExtractor ==
  careful /\ reply.call = "extract" /\ reply.ok /\ (reply.version = 1 \/ reply.own) =>
    reply.fe = reply.weights.trainedOn

\* While clients are careful, a file whose weights come from a tool that stamps them,
\* or an object made from it, has the fingerprint its weights determine
\* whatever files it passed through (get_fingerprint(): "any copy of it that
\* has the same state will have the same fingerprint ID number").
FingerprintSurvivesFiles ==
  careful => \A h \in Handles :
    model[h] # Null /\ model[h].weights.corpus \notin LegacyCorpora =>
      model[h].fingerprint =
        ModelFingerprint(model[h].weights, model[h].weights.trainedOn)

\* The training extractor is never turned away: every undamaged pure file can
\* be loaded with the extractor its weights were trained on, and every object
\* accepts it (mitie_save_..._pure_model(): "you will be able to read the ner
\* object from disk by calling mitie_load_..._pure_model()").
SavedModelsLoad ==
  /\ \A p \in Paths : IsKind(p, "pure_model_with_version") =>
       disk[p].tfeFingerprint = disk[p].weights.trainedOn
  /\ \A h \in Handles : model[h] # Null =>
       Accepts(model[h], model[h].weights.trainedOn)

\* That promise holds while clients are careful.
TrainingExtractorAccepted == careful => SavedModelsLoad

-----------------------------------------------------------------------------
(* The abstract specification: module ModelCatalog, in which a model is    *)
(* its weights.  The mapping forgets every fingerprint and every extractor *)
(* that is stored.                                                         *)

KindOnShelf ==
  [full |-> "full", pure_model |-> "unstamped",
   pure_model_with_version |-> "stamped", damaged |-> "damaged"]

heldBar ==
  [h \in Handles |->
     IF model[h] = Null THEN Null
     ELSE [weights |-> model[h].weights, equipped |-> CarriesExtractor(h),
           checked |-> model[h].version = 1]]

shelfBar ==
  [p \in Paths |->
     IF disk[p] = Null THEN Null
     ELSE [kind |-> KindOnShelf[disk[p].kind],
           weights |-> IF disk[p] = DamagedFile THEN Null ELSE disk[p].weights]]

answerBar ==
  [request |-> reply.call, ok |-> reply.ok, path |-> reply.path, own |-> reply.own,
   weights |-> reply.weights, fe |-> reply.fe]

\* A model and a file that are there are told from one that is not
ASSUME SentinelAssumption ==
  /\ Null \notin Objects \cup Files
  /\ Null \notin [weights : Weights, equipped : BOOLEAN, checked : BOOLEAN]
  /\ Null \notin [kind : {"full", "unstamped", "stamped", "damaged"},
                  weights : Weights \cup {Null}]

Catalog == INSTANCE ModelCatalog
             WITH held <- heldBar, shelf <- shelfBar, answer <- answerBar,
                  honest <- careful

\* To a careful client the fingerprints are invisible: files open with the
\* extractor their weights were trained on and with no other, and objects
\* predict with it, through any number of saves, losses and loads, full or
\* pure (mitie.h on the save and load functions, predict()'s own check).
ImplementsCatalog == Catalog!Spec

=============================================================================
