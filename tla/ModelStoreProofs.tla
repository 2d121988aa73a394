-------------------------- MODULE ModelStoreProofs --------------------------
(***************************************************************************)
(* Proofs about ModelStore, for any sets of handles, files, extractors and *)
(* corpora and for either value of TrainedVersion; then about              *)
(* RelationDetectors, for any relations, trainers and detectors, and about *)
(* CategorizerStore.                                                       *)
(***************************************************************************)
EXTENDS RelationDetectors, CategorizerStore, TLAPS

\* Every step is a step of the store, whether a rule is broken or not ...
AnyStep ==
  \/ \E h \in Handles, c \in Corpora, f \in Fes : Train(h, c, f)
  \/ \E p \in Paths, c \in LegacyCorpora, f \in Fes : TrainSeparateModels(p, c, f)
  \/ \E p \in Paths, h \in Handles : SaveFull(p, h)
  \/ \E p \in Paths, h \in Handles : SavePure(p, h)
  \/ \E h \in Handles, p \in Paths : LoadFull(h, p)
  \/ \E h \in Handles, p \in Paths : LoadPureWithoutFe(h, p)
  \/ \E h \in Handles, p \in Paths, f \in Fes \cup {Null} : LoadPure(h, p, f)
  \/ \E h \in Handles : Extract(h)
  \/ \E h \in Handles : Free(h)
  \/ \E h \in Handles, f \in Fes : ExtractWith(h, f)

\* ... and one after which clients still count as careful obeys the rules
CarefulStep ==
  \/ \E h \in Handles, c \in Corpora, f \in Fes : Train(h, c, f)
  \/ \E p \in Paths, c \in LegacyCorpora, f \in Fes : TrainSeparateModels(p, c, f)
  \/ \E p \in Paths, h \in Handles : CarriesExtractor(h) /\ SaveFull(p, h)
  \/ \E p \in Paths, h \in Handles : CarriesExtractor(h) /\ SavePure(p, h)
  \/ \E h \in Handles, p \in Paths : LoadFull(h, p)
  \/ \E h \in Handles, p \in Paths : LoadPureWithoutFe(h, p)
  \/ \E h \in Handles, p \in Paths, f \in Fes \cup {Null} :
       RightExtractor(p, f) /\ LoadPure(h, p, f)
  \/ \E h \in Handles : (model[h].version = 1 \/ CarriesExtractor(h)) /\ Extract(h)
  \/ \E h \in Handles : Free(h)
  \/ \E h \in Handles, f \in Fes : ExtractWith(h, f)

LEMMA NextIsAnyStep == Next => AnyStep
BY DEF Next, AnyStep

LEMMA CarefulNextIsCarefulStep == Next /\ careful' => careful /\ CarefulStep
<1> SUFFICES ASSUME Next, careful' PROVE careful /\ CarefulStep
  OBVIOUS
<1>1. CASE \E h \in Handles, c \in Corpora, f \in Fes : Train(h, c, f) /\ Abides(TRUE)
  BY <1>1, Zenon DEF CarefulStep, Abides
<1>2. CASE \E p \in Paths, c \in LegacyCorpora, f \in Fes :
             TrainSeparateModels(p, c, f) /\ Abides(TRUE)
  BY <1>2, Zenon DEF CarefulStep, Abides
<1>3. CASE \E p \in Paths, h \in Handles :
             (SaveFull(p, h) \/ SavePure(p, h)) /\ Abides(CarriesExtractor(h))
  BY <1>3, Zenon DEF CarefulStep, Abides
<1>4. CASE \E h \in Handles, p \in Paths :
             (LoadFull(h, p) \/ LoadPureWithoutFe(h, p)) /\ Abides(TRUE)
  BY <1>4, Zenon DEF CarefulStep, Abides
<1>5. CASE \E h \in Handles, p \in Paths, f \in Fes \cup {Null} :
             LoadPure(h, p, f) /\ Abides(RightExtractor(p, f))
  BY <1>5, Zenon DEF CarefulStep, Abides
<1>6. CASE \E h \in Handles :
             Extract(h) /\ Abides(model[h].version = 1 \/ CarriesExtractor(h))
  BY <1>6, Zenon DEF CarefulStep, Abides
<1>7. CASE \E h \in Handles, f \in Fes : ExtractWith(h, f) /\ Abides(TRUE)
  BY <1>7, Zenon DEF CarefulStep, Abides
<1>8. CASE \E h \in Handles : Free(h) /\ Abides(TRUE)
  BY <1>8, Zenon DEF CarefulStep, Abides
<1>. QED BY <1>1, <1>2, <1>3, <1>4, <1>5, <1>6, <1>7, <1>8 DEF Next

-----------------------------------------------------------------------------
(* Type correctness *)

LEMMA SaveKeepsType ==
  ASSUME StoreTypeOK, NEW p \in Paths, NEW contents \in Files,
         Save(p, contents), UNCHANGED model
  PROVE  StoreTypeOK'
<1>1. Reply("save", TRUE, p) \in Replies /\ Reply("save", FALSE, p) \in Replies
  BY DEF Reply, Replies, Calls
<1>2. DamagedFile \in Files
  BY DEF Files
<1>3. disk' \in [Paths -> Files \cup {Null}]
  BY <1>2 DEF StoreTypeOK, Save, SaveSucceeds, SaveThrows, SaveLosesTail
<1>4. reply' \in Replies
  BY <1>1 DEF Save, SaveSucceeds, SaveThrows, SaveLosesTail
<1>. QED BY <1>3, <1>4 DEF StoreTypeOK

LEMMA LoadedKeepsType ==
  ASSUME StoreTypeOK, NEW h \in Handles, NEW request \in Replies,
         NEW object \in Objects, Loaded(h, request, object)
  PROVE  StoreTypeOK'
BY DEF StoreTypeOK, Loaded

LEMMA LoadFailsKeepsType ==
  ASSUME StoreTypeOK, NEW request \in Replies, LoadFails(request)
  PROVE  StoreTypeOK'
<1>1. [request EXCEPT !.ok = FALSE] \in Replies
  BY DEF Replies
<1>. QED BY <1>1 DEF StoreTypeOK, LoadFails

LEMMA LoadRequestTypes ==
  ASSUME NEW p \in Paths, NEW fe \in Extractors \cup {Null}
  PROVE  FullLoad(p) \in Replies /\ PureLoad(p, fe) \in Replies
BY DEF FullLoad, PureLoad, Reply, Replies, Calls

LEMMA FileTypes ==
  ASSUME StoreTypeOK, NEW p \in Paths
  PROVE  /\ IsKind(p, "full") => disk[p] \in FullFiles
         /\ IsKind(p, "pure_model") => disk[p] \in Pure0Files
         /\ IsKind(p, "pure_model_with_version") => disk[p] \in Pure1Files
<1>1. disk[p] \in Files \cup {Null}
  BY DEF StoreTypeOK
<1>. QED
  BY <1>1 DEF IsKind, Files, FullFiles, Pure0Files, Pure1Files, DamagedFile

LEMMA PureObjectType ==
  ASSUME NEW version \in {0, 1}, NEW w \in Weights,
         NEW tfeFp \in TfeFingerprints, NEW fe \in Extractors
  PROVE  PureObject(version, w, tfeFp, fe) \in Objects
BY DEF PureObject, Objects, ModelFingerprint

LEMMA LoadsPureKeepsType ==
  ASSUME StoreTypeOK, NEW h \in Handles, NEW p \in Paths, NEW fe \in Extractors,
         LoadsVersion0(h, p, fe) \/ LoadsVersion1(h, p, fe)
  PROVE  StoreTypeOK'
<1>1. PureLoad(p, fe) \in Replies
  BY LoadRequestTypes
<1>2. CASE LoadsVersion0(h, p, fe)
  <2>1. disk[p].weights \in Weights
    BY <1>2, FileTypes DEF LoadsVersion0, Pure0Files
  <2>2. PICK garbage \in TfeFingerprints :
          Loaded(h, PureLoad(p, fe), PureObject(0, disk[p].weights, garbage, fe))
    BY <1>2 DEF LoadsVersion0
  <2>. QED BY <1>1, <2>1, <2>2, PureObjectType, LoadedKeepsType
<1>3. CASE LoadsVersion1(h, p, fe)
  <2>1. disk[p].weights \in Weights /\ disk[p].tfeFingerprint \in TfeFingerprints
    BY <1>3, FileTypes DEF LoadsVersion1, Pure1Files
  <2>. QED BY <1>1, <1>3, <2>1, PureObjectType, LoadedKeepsType DEF LoadsVersion1
<1>. QED BY <1>2, <1>3

LEMMA LoadPureKeepsType ==
  ASSUME StoreTypeOK, NEW h \in Handles, NEW p \in Paths, NEW f \in Fes \cup {Null},
         LoadPure(h, p, f)
  PROVE  StoreTypeOK'
<1>1. CASE f \in Fes /\ (LoadsVersion0(h, p, f) \/ LoadsVersion1(h, p, f))
  BY <1>1, LoadsPureKeepsType DEF Extractors
<1>2. CASE LoadFails(PureLoad(p, f))
  BY <1>2, LoadFailsKeepsType, LoadRequestTypes DEF Extractors
<1>. QED BY <1>1, <1>2 DEF LoadPure

LEMMA LoadPureWithoutFeKeepsType ==
  ASSUME StoreTypeOK, NEW h \in Handles, NEW p \in Paths, LoadPureWithoutFe(h, p)
  PROVE  StoreTypeOK'
<1>. Default \in Extractors
  BY DEF Extractors
<1>1. CASE LoadsVersion0(h, p, Default) \/ LoadsVersion1(h, p, Default)
  BY <1>1, LoadsPureKeepsType
<1>2. CASE LoadFails(PureLoad(p, Default))
  BY <1>2, LoadFailsKeepsType, LoadRequestTypes
<1>. QED BY <1>1, <1>2 DEF LoadPureWithoutFe

LEMMA LoadFullKeepsType ==
  ASSUME StoreTypeOK, NEW h \in Handles, NEW p \in Paths, LoadFull(h, p)
  PROVE  StoreTypeOK'
<1>0. FullLoad(p) \in Replies
  BY LoadRequestTypes
<1>1. CASE IsKind(p, "full")
  <2>1. disk[p] \in FullFiles
    BY <1>1, FileTypes
  <2>2. FullObject(disk[p]) \in Objects
    BY <2>1 DEF FullObject, FullFiles, Objects, Fingerprint, TfeFingerprints, Extractors
  <2>3. Loaded(h, FullLoad(p), FullObject(disk[p]))
    BY <1>1 DEF LoadFull
  <2>. QED BY <1>0, <2>2, <2>3, LoadedKeepsType
<1>2. CASE ~IsKind(p, "full")
  BY <1>0, <1>2, LoadFailsKeepsType DEF LoadFull
<1>. QED BY <1>1, <1>2

LEMMA PredictionKeepsType ==
  ASSUME StoreTypeOK, NEW h \in Handles, NEW fe \in Extractors, NEW own \in BOOLEAN,
         model[h] # Null, reply' = Prediction(model[h], fe, own),
         UNCHANGED <<model, disk>>
  PROVE  StoreTypeOK'
<1>1. model[h] \in Objects
  BY DEF StoreTypeOK
<1>2. Prediction(model[h], fe, own) \in Replies
  BY <1>1 DEF Prediction, Replies, Calls, Accepts, Objects
<1>. QED BY <1>2 DEF StoreTypeOK

LEMMA TrainedObjectType ==
  ASSUME NEW c \in Corpora, NEW f \in Extractors
  PROVE  TrainedObject(c, f) \in Objects
BY VersionAssumption
   DEF TrainedObject, Objects, Weights, ModelFingerprint, Fingerprint, TfeFingerprints

LEMMA StepKeepsType ==
  StoreTypeOK /\ [AnyStep]_store => StoreTypeOK'
<1> SUFFICES ASSUME StoreTypeOK, [AnyStep]_store PROVE StoreTypeOK'
  OBVIOUS
<1>1. ASSUME NEW h \in Handles, NEW c \in Corpora, NEW f \in Fes, Train(h, c, f)
      PROVE  StoreTypeOK'
  <2>1. Reply("train", TRUE, Null) \in Replies
    BY DEF Reply, Replies, Calls
  <2>. QED BY <1>1, <2>1, TrainedObjectType DEF StoreTypeOK, Train, Extractors
<1>2. ASSUME NEW p \in Paths, NEW c \in LegacyCorpora, NEW f \in Fes,
             TrainSeparateModels(p, c, f)
      PROVE  StoreTypeOK'
  <2>1. [kind |-> "pure_model", weights |-> [corpus |-> c, trainedOn |-> f]] \in Files
    BY DEF Files, Pure0Files, Weights, Extractors
  <2>. QED BY <1>2, <2>1, SaveKeepsType DEF TrainSeparateModels
<1>3. ASSUME NEW p \in Paths, NEW h \in Handles, SaveFull(p, h)
      PROVE  StoreTypeOK'
  <2>1. model[h] \in Objects
    BY <1>3 DEF StoreTypeOK, SaveFull
  <2>2. FullContents(model[h]) \in Files
    BY <2>1 DEF FullContents, Objects, Files, FullFiles
  <2>. QED BY <1>3, <2>2, SaveKeepsType DEF SaveFull
<1>4. ASSUME NEW p \in Paths, NEW h \in Handles, SavePure(p, h)
      PROVE  StoreTypeOK'
  <2>1. model[h] \in Objects
    BY <1>4 DEF StoreTypeOK, SavePure
  <2>2. PureContents(model[h]) \in Files
    BY <2>1 DEF PureContents, Fingerprint, TfeFingerprints, Objects, Files, Pure1Files
  <2>. QED BY <1>4, <2>2, SaveKeepsType DEF SavePure
<1>5. ASSUME NEW h \in Handles, Extract(h)
      PROVE  StoreTypeOK'
  <2>1. model[h].fe \in Extractors
    BY <1>5 DEF StoreTypeOK, Extract, Objects
  <2>. QED BY <1>5, <2>1, PredictionKeepsType DEF Extract
<1>6. ASSUME NEW h \in Handles, NEW f \in Fes, ExtractWith(h, f)
      PROVE  StoreTypeOK'
  BY <1>6, PredictionKeepsType DEF ExtractWith, Extractors
<1>7. ASSUME NEW h \in Handles, Free(h)
      PROVE  StoreTypeOK'
  <2>1. Reply("free", TRUE, Null) \in Replies
    BY DEF Reply, Replies, Calls
  <2>. QED BY <1>7, <2>1 DEF StoreTypeOK, Free
<1>8. CASE UNCHANGED store
  BY <1>8 DEF StoreTypeOK, store
<1>. QED
  BY <1>1, <1>2, <1>3, <1>4, <1>5, <1>6, <1>7, <1>8, LoadFullKeepsType,
     LoadPureKeepsType, LoadPureWithoutFeKeepsType DEF AnyStep

LEMMA InitType == Init => TypeOK
BY DEF Init, TypeOK, StoreTypeOK, Reply, Replies, Calls

\* Every object, file and reply is one of the shapes the code can produce,
\* whatever the clients do.
THEOREM TypeCorrect == Spec => []TypeOK
<1>1. TypeOK /\ [Next]_vars => TypeOK'
  <2>1. [Next]_vars => [AnyStep]_store /\ (careful \in BOOLEAN => careful' \in BOOLEAN)
    <3>1. CASE Next
      <4>1. careful \in BOOLEAN => careful' \in BOOLEAN
        BY <3>1 DEF Next, Abides
      <4>. QED BY <3>1, <4>1, NextIsAnyStep
    <3>2. CASE UNCHANGED vars
      BY <3>2 DEF vars, store
    <3>. QED BY <3>1, <3>2
  <2>. QED BY <2>1, StepKeepsType DEF TypeOK
<1>. QED BY InitType, <1>1, PTL DEF Spec

LEMMA AnyStepWhatever == [Next]_vars => [AnyStep]_store
BY NextIsAnyStep DEF vars, store

-----------------------------------------------------------------------------
(* The invariant every client may rely on *)

LEMMA StepKeepsOwnExtractor ==
  StoreTypeOK /\ VersionedObjectCarriesItsExtractor /\ [AnyStep]_store
    => VersionedObjectCarriesItsExtractor'
<1> DEFINE Carries(m) == m # Null /\ m.version = 1 /\ m.fe # Default => Accepts(m, m.fe)
<1> SUFFICES ASSUME StoreTypeOK, VersionedObjectCarriesItsExtractor, [AnyStep]_store,
                    NEW k \in Handles
             PROVE  Carries(model'[k])
  BY DEF VersionedObjectCarriesItsExtractor, Accepts
<1>0. Carries(model[k])
  BY DEF VersionedObjectCarriesItsExtractor
<1>1. ASSUME NEW h \in Handles, NEW c \in Corpora, NEW f \in Fes, Train(h, c, f)
      PROVE  Carries(model'[k])
  <2>1. Carries(TrainedObject(c, f))
    BY DEF TrainedObject, Accepts, Fingerprint
  <2>2. model'[k] = TrainedObject(c, f) \/ model'[k] = model[k]
    BY <1>1 DEF Train, StoreTypeOK
  <2>. QED BY <1>0, <2>1, <2>2
<1>a. ASSUME NEW h \in Handles, NEW request, NEW object, Loaded(h, request, object),
             Carries(object)
      PROVE  Carries(model'[k])
  <2>1. model'[k] = object \/ model'[k] = model[k]
    BY <1>a DEF Loaded, StoreTypeOK
  <2>. QED BY <1>0, <1>a, <2>1
<1>b. ASSUME NEW request, LoadFails(request)
      PROVE  Carries(model'[k])
  BY <1>0, <1>b DEF LoadFails
<1>c. ASSUME NEW h \in Handles, NEW p \in Paths, NEW fe, LoadsVersion0(h, p, fe)
      PROVE  Carries(model'[k])
  <2>1. PICK garbage \in TfeFingerprints :
          Loaded(h, PureLoad(p, fe), PureObject(0, disk[p].weights, garbage, fe))
    BY <1>c DEF LoadsVersion0
  <2>2. Carries(PureObject(0, disk[p].weights, garbage, fe))
    BY DEF PureObject
  <2>. QED BY <1>a, <2>1, <2>2
<1>2. ASSUME NEW h \in Handles, NEW p \in Paths, LoadFull(h, p)
      PROVE  Carries(model'[k])
  <2>1. Loaded(h, FullLoad(p), FullObject(disk[p])) \/ LoadFails(FullLoad(p))
    BY <1>2 DEF LoadFull
  <2>2. Carries(FullObject(disk[p]))
    BY DEF FullObject
  <2>. QED BY <1>a, <1>b, <2>1, <2>2
<1>3. ASSUME NEW h \in Handles, NEW p \in Paths, NEW f \in Fes \cup {Null}, LoadPure(h, p, f)
      PROVE  Carries(model'[k])
  <2> DEFINE object == PureObject(1, disk[p].weights, disk[p].tfeFingerprint, f)
  <2>1. CASE disk[p].tfeFingerprint = Fingerprint(f) /\ LoadsVersion1(h, p, f)
    <3>1. Carries(object)
      BY <2>1 DEF PureObject, Accepts
    <3>. QED BY <1>a, <2>1, <3>1 DEF LoadsVersion1
  <2>. QED BY <1>b, <1>c, <1>3, <2>1 DEF LoadPure
<1>4. ASSUME NEW h \in Handles, NEW p \in Paths, LoadPureWithoutFe(h, p)
      PROVE  Carries(model'[k])
  <2> DEFINE object == PureObject(1, disk[p].weights, disk[p].tfeFingerprint, Default)
  <2>1. Carries(object)
    BY DEF PureObject
  <2>. QED BY <1>a, <1>b, <1>c, <1>4, <2>1 DEF LoadPureWithoutFe, LoadsVersion1
<1>5. ASSUME NEW h \in Handles, Free(h)
      PROVE  Carries(model'[k])
  <2>1. model'[k] = Null \/ model'[k] = model[k]
    BY <1>5 DEF Free, StoreTypeOK
  <2>. QED BY <1>0, <2>1
<1>6. CASE UNCHANGED model
  BY <1>0, <1>6
<1>. QED
  BY <1>1, <1>2, <1>3, <1>4, <1>5, <1>6
     DEF AnyStep, TrainSeparateModels, SaveFull, SavePure, Extract, ExtractWith, store

\* No sequence of trainings, saves, failed saves, loads and re-saves gives an
\* object of version 1 that carries an extractor its own check would refuse.
THEOREM OwnExtractorStaysAccepted == Spec => []VersionedObjectCarriesItsExtractor
<1>1. Init => VersionedObjectCarriesItsExtractor
  BY DEF Init, VersionedObjectCarriesItsExtractor
<1>2. TypeOK /\ VersionedObjectCarriesItsExtractor /\ [Next]_vars
        => VersionedObjectCarriesItsExtractor'
  BY AnyStepWhatever, StepKeepsOwnExtractor DEF TypeOK
<1>. QED BY <1>1, <1>2, TypeCorrect, PTL DEF Spec

-----------------------------------------------------------------------------
(* What careful clients may rely on.  None of the three invariants is      *)
(* inductive: a prediction is right because the object's stamp is right,   *)
(* which holds because the file's was, which holds because the object that *)
(* wrote the file carried the extractor it was trained on.  Provenance     *)
(* follows the chain through every shape a model takes.                    *)

FingerprintRight(x) ==
  x.weights.corpus \notin LegacyCorpora =>
    x.fingerprint = ModelFingerprint(x.weights, x.weights.trainedOn)

ObjectRight(m) ==
  /\ m.weights.trainedOn \in Fes
  /\ m.fe \in {Default, m.weights.trainedOn}
  /\ m.version = 1 => m.tfeFingerprint = m.weights.trainedOn
  /\ FingerprintRight(m)

FileRight(d) ==
  /\ d.kind = "full" => /\ d.weights.trainedOn \in Fes
                        /\ d.fe = d.weights.trainedOn
                        /\ FingerprintRight(d)
  /\ d.kind = "pure_model" => /\ d.weights.trainedOn \in Fes
                              /\ d.weights.corpus \in LegacyCorpora
  /\ d.kind = "pure_model_with_version" => /\ d.weights.trainedOn \in Fes
                                           /\ d.tfeFingerprint = d.weights.trainedOn

UsedTrainingExtractor ==
  reply.call = "extract" /\ reply.ok /\ (reply.version = 1 \/ reply.own) =>
    reply.fe = reply.weights.trainedOn

Provenance ==
  /\ \A h \in Handles : model[h] # Null => ObjectRight(model[h])
  /\ \A p \in Paths : disk[p] # Null => FileRight(disk[p])
  /\ UsedTrainingExtractor

LEMMA SaveKeepsProvenance ==
  ASSUME StoreTypeOK, Provenance, NEW p \in Paths, NEW contents, FileRight(contents),
         Save(p, contents), UNCHANGED model
  PROVE  Provenance'
<1>1. FileRight(DamagedFile)
  BY DEF FileRight, DamagedFile
<1>2. \A q \in Paths : disk'[q] # Null => FileRight(disk'[q])
  BY <1>1 DEF Save, SaveSucceeds, SaveThrows, SaveLosesTail, Provenance, StoreTypeOK
<1>3. reply'.call = "save"
  BY DEF Save, SaveSucceeds, SaveThrows, SaveLosesTail, Reply
<1>. QED
  BY <1>2, <1>3 DEF Provenance, UsedTrainingExtractor, FileRight, ObjectRight,
                    FingerprintRight

LEMMA LoadedKeepsProvenance ==
  ASSUME StoreTypeOK, Provenance, NEW h \in Handles, NEW request, NEW object,
         ObjectRight(object), Loaded(h, request, object), request.call # "extract"
  PROVE  Provenance'
<1>1. \A k \in Handles : model'[k] # Null => ObjectRight(model'[k])
  BY DEF Loaded, Provenance, StoreTypeOK
<1>2. reply'.call # "extract" /\ UNCHANGED disk
  BY DEF Loaded
<1>. QED
  BY <1>1, <1>2 DEF Provenance, UsedTrainingExtractor, FileRight, ObjectRight,
                    FingerprintRight

LEMMA QuietKeepsProvenance ==
  ASSUME Provenance, UNCHANGED <<model, disk>>, reply'.call # "extract"
  PROVE  Provenance'
BY DEF Provenance, UsedTrainingExtractor, FileRight, ObjectRight,
       FingerprintRight

LEMMA LoadFailsKeepsProvenance ==
  ASSUME Provenance, NEW p \in Paths, NEW fe,
         LoadFails(FullLoad(p)) \/ LoadFails(PureLoad(p, fe))
  PROVE  Provenance'
BY QuietKeepsProvenance DEF LoadFails, FullLoad, PureLoad, Reply

LEMMA LoadsVersion0KeepsProvenance ==
  ASSUME StoreTypeOK, Provenance, NEW h \in Handles, NEW p \in Paths, NEW fe,
         fe \in {Default, disk[p].weights.trainedOn}, LoadsVersion0(h, p, fe)
  PROVE  Provenance'
<1>1. PICK garbage \in TfeFingerprints :
        Loaded(h, PureLoad(p, fe), PureObject(0, disk[p].weights, garbage, fe))
  BY DEF LoadsVersion0
<1>2. FileRight(disk[p]) /\ disk[p].kind = "pure_model"
  BY DEF LoadsVersion0, IsKind, Provenance
<1>3. ObjectRight(PureObject(0, disk[p].weights, garbage, fe))
  BY <1>2 DEF ObjectRight, PureObject, FileRight, FingerprintRight
<1>. QED BY <1>1, <1>3, LoadedKeepsProvenance DEF PureLoad, Reply

LEMMA LoadsVersion1KeepsProvenance ==
  ASSUME StoreTypeOK, Provenance, NEW h \in Handles, NEW p \in Paths, NEW fe,
         LoadsVersion1(h, p, fe), fe \in {Default, disk[p].tfeFingerprint}
  PROVE  Provenance'
<1>1. FileRight(disk[p]) /\ disk[p].kind = "pure_model_with_version"
  BY DEF LoadsVersion1, IsKind, Provenance
<1>2. ObjectRight(PureObject(1, disk[p].weights, disk[p].tfeFingerprint, fe))
  BY <1>1 DEF ObjectRight, PureObject, FileRight, FingerprintRight, ModelFingerprint
<1>. QED BY <1>2, LoadedKeepsProvenance DEF LoadsVersion1, PureLoad, Reply

LEMMA PredictionKeepsProvenance ==
  ASSUME Provenance, NEW h \in Handles, NEW fe, NEW own \in BOOLEAN, model[h] # Null,
         own => fe = model[h].fe /\ (fe # Default \/ model[h].version = 1),
         reply' = Prediction(model[h], fe, own), UNCHANGED <<model, disk>>
  PROVE  Provenance'
<1>1. ObjectRight(model[h])
  BY DEF Provenance
<1>2. ASSUME Accepts(model[h], fe), model[h].version = 1 \/ own
      PROVE  fe = model[h].weights.trainedOn
  <2>1. CASE model[h].version = 1
    BY <1>1, <1>2, <2>1 DEF ObjectRight, Accepts, Fingerprint
  <2>2. CASE model[h].version # 1
    BY <1>1, <1>2, <2>2 DEF ObjectRight
  <2>. QED BY <2>1, <2>2
<1>3. UsedTrainingExtractor'
  BY <1>2 DEF UsedTrainingExtractor, Prediction
<1>. QED
  BY <1>3 DEF Provenance, FileRight, ObjectRight, FingerprintRight

LEMMA StepKeepsProvenance ==
  StoreTypeOK /\ Provenance /\ [CarefulStep]_store => Provenance'
<1> SUFFICES ASSUME StoreTypeOK, Provenance, [CarefulStep]_store PROVE Provenance'
  OBVIOUS
<1>1. ASSUME NEW h \in Handles, NEW c \in Corpora, NEW f \in Fes, Train(h, c, f)
      PROVE  Provenance'
  <2>1. ObjectRight(TrainedObject(c, f))
    BY DEF ObjectRight, TrainedObject, Fingerprint, FingerprintRight
  <2>2. \A k \in Handles : model'[k] # Null => ObjectRight(model'[k])
    BY <1>1, <2>1 DEF Train, Provenance, StoreTypeOK
  <2>3. reply'.call = "train" /\ UNCHANGED disk
    BY <1>1 DEF Train, Reply
  <2>. QED
    BY <2>2, <2>3 DEF Provenance, UsedTrainingExtractor, FileRight,
                      ObjectRight, FingerprintRight
<1>2. ASSUME NEW p \in Paths, NEW c \in LegacyCorpora, NEW f \in Fes,
             TrainSeparateModels(p, c, f)
      PROVE  Provenance'
  <2>1. FileRight([kind |-> "pure_model", weights |-> [corpus |-> c, trainedOn |-> f]])
    BY DEF FileRight
  <2>. QED BY <1>2, <2>1, SaveKeepsProvenance DEF TrainSeparateModels
<1>3. ASSUME NEW p \in Paths, NEW h \in Handles, CarriesExtractor(h), SaveFull(p, h)
      PROVE  Provenance'
  <2>1. ObjectRight(model[h]) /\ model[h].fe # Default
    BY <1>3 DEF Provenance, CarriesExtractor, SaveFull
  <2>2. FileRight(FullContents(model[h]))
    BY <2>1 DEF FileRight, FullContents, ObjectRight, FingerprintRight
  <2>. QED BY <1>3, <2>2, SaveKeepsProvenance DEF SaveFull
<1>4. ASSUME NEW p \in Paths, NEW h \in Handles, CarriesExtractor(h), SavePure(p, h)
      PROVE  Provenance'
  <2>1. ObjectRight(model[h]) /\ model[h].fe # Default
    BY <1>4 DEF Provenance, CarriesExtractor, SavePure
  <2>2. FileRight(PureContents(model[h]))
    BY <2>1 DEF FileRight, PureContents, ObjectRight, Fingerprint
  <2>. QED BY <1>4, <2>2, SaveKeepsProvenance DEF SavePure
<1>5. ASSUME NEW h \in Handles, NEW p \in Paths, LoadFull(h, p)
      PROVE  Provenance'
  <2>1. CASE IsKind(p, "full")
    <3>1. FileRight(disk[p]) /\ disk[p].kind = "full"
      BY <2>1 DEF IsKind, Provenance
    <3>2. ObjectRight(FullObject(disk[p]))
      BY <3>1 DEF FullObject, ObjectRight, FileRight, FingerprintRight
    <3>3. Loaded(h, FullLoad(p), FullObject(disk[p]))
      BY <1>5, <2>1 DEF LoadFull
    <3>. QED BY <3>2, <3>3, LoadedKeepsProvenance DEF FullLoad, Reply
  <2>2. CASE ~IsKind(p, "full")
    BY <1>5, <2>2, LoadFailsKeepsProvenance DEF LoadFull
  <2>. QED BY <2>1, <2>2
<1>6. ASSUME NEW h \in Handles, NEW p \in Paths, LoadPureWithoutFe(h, p)
      PROVE  Provenance'
  <2>1. CASE LoadsVersion0(h, p, Default)
    BY <2>1, LoadsVersion0KeepsProvenance
  <2>2. CASE LoadsVersion1(h, p, Default)
    BY <2>2, LoadsVersion1KeepsProvenance
  <2>3. CASE LoadFails(PureLoad(p, Default))
    BY <2>3, LoadFailsKeepsProvenance
  <2>. QED BY <1>6, <2>1, <2>2, <2>3 DEF LoadPureWithoutFe
<1>7. ASSUME NEW h \in Handles, NEW p \in Paths, NEW f \in Fes \cup {Null},
             RightExtractor(p, f),
             LoadPure(h, p, f)
      PROVE  Provenance'
  <2>1. CASE f \in Fes /\ LoadsVersion0(h, p, f)
    <3>1. f = disk[p].weights.trainedOn \/ f = Null
      BY <1>7, <2>1 DEF LoadsVersion0, RightExtractor
    <3>2. CASE f = disk[p].weights.trainedOn
      BY <2>1, <3>2, LoadsVersion0KeepsProvenance
    <3>3. CASE f = Null
      BY <2>1, <3>3, NullAssumption
    <3>. QED BY <3>1, <3>2, <3>3
  <2>2. CASE disk[p].tfeFingerprint = Fingerprint(f) /\ LoadsVersion1(h, p, f)
    BY <2>2, LoadsVersion1KeepsProvenance DEF Fingerprint
  <2>3. CASE LoadFails(PureLoad(p, f))
    BY <2>3, LoadFailsKeepsProvenance
  <2>. QED BY <1>7, <2>1, <2>2, <2>3 DEF LoadPure
<1>8. ASSUME NEW h \in Handles, model[h].version = 1 \/ CarriesExtractor(h), Extract(h)
      PROVE  Provenance'
  <2>1. model[h].fe # Default \/ model[h].version = 1
    BY <1>8 DEF Extract, CarriesExtractor
  <2>. QED BY <1>8, <2>1, PredictionKeepsProvenance DEF Extract
<1>9. ASSUME NEW h \in Handles, NEW f \in Fes, ExtractWith(h, f)
      PROVE  Provenance'
  BY <1>9, PredictionKeepsProvenance DEF ExtractWith
<1>10. ASSUME NEW h \in Handles, Free(h)
       PROVE  Provenance'
  <2>1. \A k \in Handles : model'[k] # Null => ObjectRight(model'[k])
    BY <1>10 DEF Free, Provenance, StoreTypeOK
  <2>2. reply'.call = "free" /\ UNCHANGED disk
    BY <1>10 DEF Free, Reply
  <2>. QED
    BY <2>1, <2>2 DEF Provenance, UsedTrainingExtractor, FileRight,
                      ObjectRight, FingerprintRight
<1>11. CASE UNCHANGED store
  BY <1>11 DEF store, Provenance, UsedTrainingExtractor, FileRight, ObjectRight,
               FingerprintRight
<1>. QED
  BY <1>1, <1>2, <1>3, <1>4, <1>5, <1>6, <1>7, <1>8, <1>9, <1>10, <1>11 DEF CarefulStep

\* As long as every client keeps to the rules, every object and every file
\* stays on the extractor it was trained on, whatever was saved, lost, loaded
\* or re-saved on the way.
THEOREM CarefulProvenance == Spec => [](careful => Provenance)
<1>1. Init => Provenance
  BY DEF Init, Provenance, UsedTrainingExtractor, Reply
<1>2. TypeOK /\ (careful => Provenance) /\ [Next]_vars => (careful => Provenance)'
  <2> SUFFICES ASSUME TypeOK, careful => Provenance, [Next]_vars, careful'
               PROVE  Provenance'
    OBVIOUS
  <2>1. careful /\ [CarefulStep]_store
    BY CarefulNextIsCarefulStep DEF vars, store
  <2>. QED BY <2>1, StepKeepsProvenance DEF TypeOK
<1>. QED BY <1>1, <1>2, TypeCorrect, PTL DEF Spec

\* A careful client's prediction that succeeds on a version 1 object, or with
\* the object's own extractor, used the extractor the model was trained on.
THEOREM CarefulPrediction == Spec => []PredictionUsesTrainingExtractor
<1>1. (careful => Provenance) => PredictionUsesTrainingExtractor
  BY DEF Provenance, PredictionUsesTrainingExtractor, UsedTrainingExtractor
<1>. QED BY <1>1, CarefulProvenance, PTL

\* A model written by the C API keeps its fingerprint through any number of
\* saves and loads, full or pure.
THEOREM CarefulFingerprint == Spec => []FingerprintSurvivesFiles
<1>1. (careful => Provenance) => FingerprintSurvivesFiles
  BY DEF Provenance, FingerprintSurvivesFiles, ObjectRight, FingerprintRight
<1>. QED BY <1>1, CarefulProvenance, PTL

\* The extractor a model was trained on is never refused to careful clients.
THEOREM CarefulAcceptance == Spec => []TrainingExtractorAccepted
<1>1. TypeOK /\ (careful => Provenance) => TrainingExtractorAccepted
  BY DEF Provenance, TrainingExtractorAccepted, SavedModelsLoad, ObjectRight, FileRight,
         IsKind, Accepts, Fingerprint, TypeOK, StoreTypeOK, Objects
<1>. QED BY <1>1, CarefulProvenance, TypeCorrect, PTL

-----------------------------------------------------------------------------
(* ModelStore implements ModelCatalog.  Provenance is the reason: it says  *)
(* that every extractor and every fingerprint the mapping forgets is the   *)
(* one that the catalog derives from the weights.                          *)

HeldOf(m) == [weights |-> m.weights, equipped |-> m.fe # Default, checked |-> m.version = 1]

ShelfOf(d) == [kind |-> KindOnShelf[d.kind],
               weights |-> IF d = DamagedFile THEN Null ELSE d.weights]

LEMMA HeldFields ==
  ASSUME NEW m
  PROVE  /\ HeldOf(m).weights = m.weights
         /\ HeldOf(m).equipped = (m.fe # Default)
         /\ HeldOf(m).checked = (m.version = 1)
BY Zenon DEF HeldOf

LEMMA HeldValues ==
  ASSUME StoreTypeOK, NEW h \in Handles
  PROVE  /\ model[h] = Null <=> heldBar[h] = Null
         /\ model[h] # Null => heldBar[h] = HeldOf(model[h])
<1>1. CASE model[h] = Null
  BY <1>1 DEF heldBar
<1>2. CASE model[h] # Null
  <2>1. model[h] \in Objects
    BY <1>2 DEF StoreTypeOK
  <2>2. heldBar[h] = HeldOf(model[h])
    BY <1>2 DEF heldBar, HeldOf, CarriesExtractor
  <2>3. HeldOf(model[h]) \in [weights : Weights, equipped : BOOLEAN, checked : BOOLEAN]
    BY <2>1 DEF HeldOf, Objects
  <2>. QED BY <1>2, <2>2, <2>3, SentinelAssumption
<1>. QED BY <1>1, <1>2

LEMMA HeldChange ==
  ASSUME StoreTypeOK, NEW h \in Handles, NEW m \in Objects,
         model' = [model EXCEPT ![h] = m]
  PROVE  heldBar' = [heldBar EXCEPT ![h] = HeldOf(m)]
<1>1. m # Null
  BY SentinelAssumption
<1>. QED BY <1>1 DEF heldBar, HeldOf, CarriesExtractor, StoreTypeOK

LEMMA HeldStays == UNCHANGED model => UNCHANGED heldBar
BY DEF heldBar, CarriesExtractor

LEMMA ShelfStays == UNCHANGED disk => UNCHANGED shelfBar
BY DEF shelfBar

LEMMA ShelfValues ==
  ASSUME StoreTypeOK, NEW p \in Paths
  PROVE  /\ IsKind(p, "full") <=> Catalog!OnShelf(p, {"full"})
         /\ IsKind(p, "pure_model") \/ IsKind(p, "pure_model_with_version")
              <=> Catalog!OnShelf(p, Catalog!PureKinds)
         /\ IsKind(p, "full") \/ IsKind(p, "pure_model") \/ IsKind(p, "pure_model_with_version")
              => shelfBar[p].weights = disk[p].weights
         /\ IsKind(p, "pure_model") => shelfBar[p].kind = "unstamped"
         /\ IsKind(p, "pure_model_with_version") => shelfBar[p].kind = "stamped"
<1>1. CASE disk[p] = Null
  BY <1>1 DEF shelfBar, IsKind, Catalog!OnShelf
<1>2. CASE disk[p] # Null
  <2>1. disk[p] \in Files
    BY <1>2 DEF StoreTypeOK
  <2>2. shelfBar[p] = ShelfOf(disk[p])
    BY <1>2 DEF shelfBar, ShelfOf
  <2>3. disk[p] \in FullFiles \cup Pure0Files \cup Pure1Files \/ disk[p] = DamagedFile
    BY <2>1 DEF Files
  <2>4. ShelfOf(disk[p]) \in [kind : {"full", "unstamped", "stamped", "damaged"},
                              weights : Weights \cup {Null}]
    BY <2>3 DEF ShelfOf, KindOnShelf, FullFiles, Pure0Files, Pure1Files, DamagedFile
  <2>5. shelfBar[p] # Null
    BY <2>2, <2>4, SentinelAssumption
  <2>. QED
    BY <1>2, <2>2, <2>3, <2>5
       DEF ShelfOf, KindOnShelf, IsKind, Catalog!OnShelf, Catalog!PureKinds,
           FullFiles, Pure0Files, Pure1Files, DamagedFile
<1>. QED BY <1>1, <1>2

LEMMA ShelfChange ==
  ASSUME StoreTypeOK, NEW p \in Paths, NEW d \in Files,
         disk' = [disk EXCEPT ![p] = d]
  PROVE  shelfBar' = [shelfBar EXCEPT ![p] = ShelfOf(d)]
<1>1. d # Null
  BY SentinelAssumption
<1>. QED BY <1>1 DEF shelfBar, ShelfOf, StoreTypeOK

LEMMA InitImplements == Init => Catalog!Init
BY DEF Init, Catalog!Init, heldBar, shelfBar, answerBar, Reply, Catalog!Answer

LEMMA SaveImplements ==
  ASSUME StoreTypeOK, NEW p \in Paths, NEW contents \in Files,
         contents # DamagedFile, Save(p, contents), UNCHANGED model
  PROVE  Catalog!Puts(p, KindOnShelf[contents.kind], contents.weights)
<1>1. UNCHANGED heldBar
  BY HeldStays
<1>2. DamagedFile \in Files /\ ShelfOf(DamagedFile) = Catalog!Damaged
  BY DEF Files, ShelfOf, DamagedFile, Catalog!Damaged, KindOnShelf
<1>3. ASSUME NEW d \in Files, disk' = [disk EXCEPT ![p] = d]
      PROVE  shelfBar' = [shelfBar EXCEPT ![p] = ShelfOf(d)]
  BY <1>3, ShelfChange
<1>4. CASE SaveSucceeds(p, contents)
  <2>1. ShelfOf(contents) = [kind |-> KindOnShelf[contents.kind],
                             weights |-> contents.weights]
    BY DEF ShelfOf
  <2>2. answerBar' = Catalog!Answer("save", TRUE, p)
    BY <1>4 DEF SaveSucceeds, Reply, answerBar, Catalog!Answer
  <2>. QED BY <1>1, <1>3, <1>4, <2>1, <2>2 DEF SaveSucceeds, Catalog!Puts
<1>5. CASE SaveThrows(p)
  <2>1. answerBar' = Catalog!Answer("save", FALSE, p)
    BY <1>5 DEF SaveThrows, Reply, answerBar, Catalog!Answer
  <2>2. \/ UNCHANGED shelfBar
        \/ shelfBar' = [shelfBar EXCEPT ![p] = Catalog!Damaged]
    BY <1>2, <1>3, <1>5, ShelfStays DEF SaveThrows
  <2>. QED BY <1>1, <2>1, <2>2 DEF Catalog!Puts
<1>6. CASE SaveLosesTail(p)
  <2>1. answerBar' = Catalog!Answer("save", TRUE, p)
    BY <1>6 DEF SaveLosesTail, Reply, answerBar, Catalog!Answer
  <2>2. shelfBar' = [shelfBar EXCEPT ![p] = Catalog!Damaged]
    BY <1>2, <1>3, <1>6 DEF SaveLosesTail
  <2>. QED BY <1>1, <2>1, <2>2 DEF Catalog!Puts
<1>. QED BY <1>4, <1>5, <1>6 DEF Save

\* What the catalog makes of the reply to a load
AnswerTo(request, ok) ==
  [request |-> request.call, ok |-> ok, path |-> request.path, own |-> request.own,
   weights |-> request.weights, fe |-> request.fe]

LEMMA AnswersToLoads ==
  ASSUME NEW p \in Paths, NEW fe \in Extractors \cup {Null}, NEW ok \in BOOLEAN
  PROVE  /\ AnswerTo(FullLoad(p), ok) = Catalog!Answer("load", ok, p)
         /\ AnswerTo(PureLoad(p, fe), ok) = Catalog!OpenAnswer(p, fe, ok)
         /\ FullLoad(p).ok = TRUE /\ PureLoad(p, fe).ok = TRUE
BY DEF AnswerTo, FullLoad, PureLoad, Reply, Catalog!Answer, Catalog!OpenAnswer

\* A load succeeds with an object, or is refused and changes nothing
LEMMA LoadedMaps ==
  ASSUME StoreTypeOK, NEW h \in Handles, NEW request, NEW m \in Objects,
         Loaded(h, request, m), request.ok = TRUE
  PROVE  /\ heldBar' = [heldBar EXCEPT ![h] = HeldOf(m)]
         /\ UNCHANGED shelfBar
         /\ answerBar' = AnswerTo(request, TRUE)
BY HeldChange, ShelfStays DEF Loaded, answerBar, AnswerTo

LEMMA LoadFailsMaps ==
  ASSUME NEW request \in Replies, LoadFails(request)
  PROVE  /\ UNCHANGED <<heldBar, shelfBar>>
         /\ answerBar' = AnswerTo(request, FALSE)
<1>1. UNCHANGED <<heldBar, shelfBar>>
  BY HeldStays, ShelfStays DEF LoadFails
<1>2. /\ reply'.call = request.call /\ reply'.ok = FALSE /\ reply'.path = request.path
      /\ reply'.own = request.own /\ reply'.weights = request.weights
      /\ reply'.fe = request.fe
  BY DEF LoadFails, Replies
<1>. QED BY <1>1, <1>2 DEF answerBar, AnswerTo

LEMMA LoadFullImplements ==
  ASSUME StoreTypeOK, Provenance, NEW h \in Handles, NEW p \in Paths, LoadFull(h, p)
  PROVE  Catalog!OpenFull(h, p)
<1> DEFINE request == FullLoad(p)
           object == FullObject(disk[p])
<1>1. heldBar[h] = Null
  BY HeldValues DEF LoadFull
<1>2. /\ request \in Replies /\ request.ok = TRUE
      /\ \A ok \in BOOLEAN : AnswerTo(request, ok) = Catalog!Answer("load", ok, p)
  BY LoadRequestTypes, AnswersToLoads
<1>3. CASE IsKind(p, "full")
  <2>1. disk[p] \in FullFiles
    BY <1>3, FileTypes
  <2>2. object \in Objects
    BY <2>1 DEF FullObject, FullFiles, Objects, Fingerprint, TfeFingerprints, Extractors
  <2>3. disk[p].fe # Default
    BY <1>3, <2>1, ExtractorAssumption DEF IsKind, Provenance, FileRight, FullFiles
  <2>4. object.fe # Default /\ object.version # 1 /\ object.weights = disk[p].weights
    BY <2>3 DEF FullObject
  <2>5. Loaded(h, request, object)
    BY <1>3 DEF LoadFull
  <2> HIDE DEF request, object
  <2>6. HeldOf(object) =
          [weights |-> disk[p].weights, equipped |-> TRUE, checked |-> FALSE]
    BY <2>4, Zenon DEF HeldOf
  <2>7. /\ heldBar' = [heldBar EXCEPT ![h] = HeldOf(object)]
        /\ UNCHANGED shelfBar
        /\ answerBar' = Catalog!Answer("load", TRUE, p)
    BY <1>2, <2>2, <2>5, LoadedMaps
  <2>8. Catalog!OnShelf(p, {"full"}) /\ shelfBar[p].weights = disk[p].weights
    BY <1>3, ShelfValues
  <2>. QED BY <1>1, <2>6, <2>7, <2>8 DEF Catalog!OpenFull, Catalog!Holds
<1>4. CASE ~IsKind(p, "full")
  <2>1. LoadFails(request)
    BY <1>4 DEF LoadFull
  <2> HIDE DEF request
  <2>2. /\ UNCHANGED <<heldBar, shelfBar>>
        /\ answerBar' = Catalog!Answer("load", FALSE, p)
    BY <1>2, <2>1, LoadFailsMaps
  <2>3. ~Catalog!OnShelf(p, {"full"})
    BY <1>4, ShelfValues
  <2>. QED BY <1>1, <2>2, <2>3 DEF Catalog!OpenFull
<1>. QED BY <1>3, <1>4

\* A pure file of either version opens with fe, which is the training
\* extractor or none
LEMMA LoadsPureMaps ==
  ASSUME StoreTypeOK, NEW h \in Handles, NEW p \in Paths, NEW fe \in Extractors,
         NEW equipped \in BOOLEAN, equipped <=> fe # Default,
         LoadsVersion0(h, p, fe) \/ LoadsVersion1(h, p, fe)
  PROVE  /\ heldBar' = [heldBar EXCEPT ![h] =
                          [weights |-> shelfBar[p].weights, equipped |-> equipped,
                           checked |-> shelfBar[p].kind = "stamped"]]
         /\ UNCHANGED shelfBar
         /\ answerBar' = Catalog!OpenAnswer(p, fe, TRUE)
         /\ Catalog!OnShelf(p, Catalog!PureKinds)
         /\ shelfBar[p].weights = disk[p].weights
<1> DEFINE request == PureLoad(p, fe)
<1>1. request.ok = TRUE /\ AnswerTo(request, TRUE) = Catalog!OpenAnswer(p, fe, TRUE)
  BY AnswersToLoads
<1>2. \E m \in Objects :
        /\ Loaded(h, request, m)
        /\ m.weights = disk[p].weights
        /\ m.fe = fe
        /\ m.version = 1 <=> shelfBar[p].kind = "stamped"
  <2>1. CASE LoadsVersion0(h, p, fe)
    <3>1. disk[p].weights \in Weights /\ shelfBar[p].kind # "stamped"
      BY <2>1, FileTypes, ShelfValues DEF LoadsVersion0, Pure0Files
    <3>2. PICK garbage \in TfeFingerprints :
            Loaded(h, request, PureObject(0, disk[p].weights, garbage, fe))
      BY <2>1 DEF LoadsVersion0
    <3>3. PureObject(0, disk[p].weights, garbage, fe) \in Objects
      BY <3>1, PureObjectType
    <3>. QED BY <3>1, <3>2, <3>3 DEF PureObject
  <2>2. CASE LoadsVersion1(h, p, fe)
    <3>1. disk[p].weights \in Weights /\ disk[p].tfeFingerprint \in TfeFingerprints
      BY <2>2, FileTypes DEF LoadsVersion1, Pure1Files
    <3>2. shelfBar[p].kind = "stamped"
      BY <2>2, ShelfValues DEF LoadsVersion1
    <3>3. PureObject(1, disk[p].weights, disk[p].tfeFingerprint, fe) \in Objects
      BY <3>1, PureObjectType
    <3>. QED BY <2>2, <3>2, <3>3 DEF LoadsVersion1, PureObject
  <2>. QED BY <2>1, <2>2
<1> HIDE DEF request
<1>3. PICK m \in Objects :
        /\ Loaded(h, request, m)
        /\ m.weights = disk[p].weights
        /\ m.fe = fe
        /\ m.version = 1 <=> shelfBar[p].kind = "stamped"
  BY <1>2
<1>4. /\ heldBar' = [heldBar EXCEPT ![h] = HeldOf(m)]
      /\ UNCHANGED shelfBar
      /\ answerBar' = Catalog!OpenAnswer(p, fe, TRUE)
  BY <1>1, <1>3, LoadedMaps
<1>5. Catalog!OnShelf(p, Catalog!PureKinds) /\ shelfBar[p].weights = disk[p].weights
  BY ShelfValues DEF LoadsVersion0, LoadsVersion1
<1>6. HeldOf(m) = [weights |-> shelfBar[p].weights, equipped |-> equipped,
                   checked |-> shelfBar[p].kind = "stamped"]
  <2>1. (m.fe # Default) = equipped
    BY <1>3
  <2>2. (m.version = 1) = (shelfBar[p].kind = "stamped")
    BY <1>3
  <2>. QED BY <1>3, <1>5, <2>1, <2>2 DEF HeldOf
<1>. QED BY <1>4, <1>5, <1>6

LEMMA PureFails ==
  ASSUME NEW p \in Paths, NEW fe \in Extractors \cup {Null}, LoadFails(PureLoad(p, fe))
  PROVE  /\ UNCHANGED <<heldBar, shelfBar>>
         /\ answerBar' = Catalog!OpenAnswer(p, fe, FALSE)
BY LoadRequestTypes, LoadFailsMaps, AnswersToLoads

LEMMA LoadPureImplements ==
  ASSUME StoreTypeOK, Provenance, NEW h \in Handles, NEW p \in Paths,
         NEW f \in Fes \cup {Null}, RightExtractor(p, f), LoadPure(h, p, f)
  PROVE  Catalog!OpenWith(h, p, f)
<1>1. heldBar[h] = Null
  BY HeldValues DEF LoadPure
<1>2. ASSUME IsKind(p, "pure_model") \/ IsKind(p, "pure_model_with_version")
      PROVE  /\ disk[p].weights.trainedOn \in Fes
             /\ shelfBar[p].weights = disk[p].weights
  BY <1>2, ShelfValues DEF IsKind, Provenance, FileRight
<1>3. ASSUME f \in Fes, LoadsVersion0(h, p, f) \/ LoadsVersion1(h, p, f),
             f = disk[p].weights.trainedOn
      PROVE  Catalog!OpenWith(h, p, f)
  <2>1. f \in Extractors /\ f # Default
    BY <1>3, ExtractorAssumption DEF Extractors
  <2>2. /\ heldBar' = [heldBar EXCEPT ![h] =
                         [weights |-> shelfBar[p].weights, equipped |-> TRUE,
                          checked |-> shelfBar[p].kind = "stamped"]]
        /\ UNCHANGED shelfBar
        /\ answerBar' = Catalog!OpenAnswer(p, f, TRUE)
        /\ Catalog!OnShelf(p, Catalog!PureKinds)
        /\ shelfBar[p].weights = disk[p].weights
    <3>1. LoadsVersion0(h, p, f) \/ LoadsVersion1(h, p, f)
      BY <1>3
    <3>2. TRUE <=> f # Default
      BY <2>1
    <3>. QED BY <2>1, <3>1, <3>2, LoadsPureMaps
  <2>3. Catalog!Fits(p, f)
    BY <1>3, <2>2 DEF Catalog!Fits
  <2>. QED BY <1>1, <2>2, <2>3 DEF Catalog!OpenWith, Catalog!Holds
<1>4. ASSUME LoadFails(PureLoad(p, f)), ~Catalog!Fits(p, f)
      PROVE  Catalog!OpenWith(h, p, f)
  BY <1>1, <1>4, PureFails DEF Catalog!OpenWith, Extractors
<1>5. CASE f \in Fes /\ LoadsVersion0(h, p, f)
  <2>1. f = disk[p].weights.trainedOn
    BY <1>5, NullAssumption DEF LoadsVersion0, RightExtractor
  <2>. QED BY <1>3, <1>5, <2>1
<1>6. CASE f \in Fes /\ LoadsVersion1(h, p, f) /\ disk[p].tfeFingerprint = Fingerprint(f)
  <2>1. f = disk[p].weights.trainedOn
    BY <1>6 DEF LoadsVersion1, IsKind, Provenance, FileRight, Fingerprint
  <2>. QED BY <1>3, <1>6, <2>1
<1>7. CASE /\ \/ f \notin Fes
              \/ /\ ~IsKind(p, "pure_model")
                 /\ IsKind(p, "pure_model_with_version") =>
                      disk[p].tfeFingerprint # Fingerprint(f)
           /\ LoadFails(PureLoad(p, f))
  <2>1. ASSUME Catalog!Fits(p, f) PROVE FALSE
    <3>1. /\ IsKind(p, "pure_model") \/ IsKind(p, "pure_model_with_version")
          /\ shelfBar[p].weights.trainedOn = f
      BY <2>1, ShelfValues DEF Catalog!Fits
    <3>2. f = disk[p].weights.trainedOn /\ f \in Fes
      BY <1>2, <3>1
    <3>3. IsKind(p, "pure_model_with_version") => disk[p].tfeFingerprint = f
      BY <3>2 DEF IsKind, Provenance, FileRight
    <3>. QED BY <1>7, <3>1, <3>2, <3>3 DEF Fingerprint
  <2>. QED BY <1>4, <1>7, <2>1
<1>. QED BY <1>5, <1>6, <1>7 DEF LoadPure

LEMMA LoadPureWithoutFeImplements ==
  ASSUME StoreTypeOK, NEW h \in Handles, NEW p \in Paths, LoadPureWithoutFe(h, p)
  PROVE  Catalog!OpenBare(h, p)
<1>0. Default \in Extractors
  BY DEF Extractors
<1>1. heldBar[h] = Null
  BY HeldValues DEF LoadPureWithoutFe
<1>2. CASE LoadsVersion0(h, p, Default) \/ LoadsVersion1(h, p, Default)
  <2>1. /\ heldBar' = [heldBar EXCEPT ![h] =
                         [weights |-> shelfBar[p].weights, equipped |-> FALSE,
                          checked |-> shelfBar[p].kind = "stamped"]]
        /\ UNCHANGED shelfBar
        /\ answerBar' = Catalog!OpenAnswer(p, Default, TRUE)
        /\ Catalog!OnShelf(p, Catalog!PureKinds)
    BY <1>0, <1>2, LoadsPureMaps
  <2>. QED BY <1>1, <2>1 DEF Catalog!OpenBare, Catalog!Holds
<1>3. CASE /\ ~IsKind(p, "pure_model") /\ ~IsKind(p, "pure_model_with_version")
           /\ LoadFails(PureLoad(p, Default))
  BY <1>0, <1>1, <1>3, PureFails, ShelfValues DEF Catalog!OpenBare
<1>. QED BY <1>2, <1>3 DEF LoadPureWithoutFe

LEMMA ExtractImplements ==
  ASSUME StoreTypeOK, Provenance, NEW h \in Handles,
         model[h].version = 1 \/ CarriesExtractor(h), Extract(h)
  PROVE  Catalog!Predict(h)
<1>1. model[h] \in Objects /\ ObjectRight(model[h])
  BY DEF Extract, StoreTypeOK, Provenance
<1>2. heldBar[h] # Null /\ heldBar[h] = HeldOf(model[h])
  BY HeldValues DEF Extract
<1>3. /\ heldBar[h].equipped <=> model[h].fe # Default
      /\ heldBar[h].checked <=> model[h].version = 1
      /\ heldBar[h].weights = model[h].weights
  BY <1>2, HeldFields, Zenon
<1>4. UNCHANGED <<heldBar, shelfBar>>
  BY HeldStays, ShelfStays DEF Extract
<1>5. answerBar' = Catalog!PredictAnswer(model[h].weights, model[h].fe, TRUE,
                                         Accepts(model[h], model[h].fe))
  BY DEF Extract, Prediction, answerBar, Catalog!PredictAnswer
<1>6. CASE model[h].fe # Default
  <2>1. model[h].fe = model[h].weights.trainedOn /\ Accepts(model[h], model[h].fe) = TRUE
    BY <1>1, <1>6 DEF ObjectRight, Accepts, Fingerprint, Objects
  <2>. QED
    BY <1>2, <1>3, <1>4, <1>5, <1>6, <2>1 DEF Catalog!Predict
<1>7. CASE model[h].fe = Default
  <2>1. model[h].version = 1 /\ model[h].tfeFingerprint # Default
    BY <1>1, <1>7, ExtractorAssumption DEF CarriesExtractor, ObjectRight
  <2>2. Accepts(model[h], model[h].fe) = FALSE
    BY <1>7, <2>1 DEF Accepts, Fingerprint
  <2>. QED BY <1>2, <1>3, <1>4, <1>5, <1>7, <2>1, <2>2 DEF Catalog!Predict
<1>. QED BY <1>6, <1>7

LEMMA ExtractWithImplements ==
  ASSUME StoreTypeOK, Provenance, NEW h \in Handles, NEW f \in Fes, ExtractWith(h, f)
  PROVE  Catalog!PredictWith(h, f)
<1>1. model[h] \in Objects /\ ObjectRight(model[h])
  BY DEF ExtractWith, StoreTypeOK, Provenance
<1>2. heldBar[h] # Null /\ heldBar[h] = HeldOf(model[h])
  BY HeldValues DEF ExtractWith
<1>3. /\ heldBar[h].checked <=> model[h].version = 1
      /\ heldBar[h].weights = model[h].weights
  BY <1>2, HeldFields, Zenon
<1>4. UNCHANGED <<heldBar, shelfBar>>
  BY HeldStays, ShelfStays DEF ExtractWith
<1>5. answerBar' = Catalog!PredictAnswer(model[h].weights, f, FALSE, Accepts(model[h], f))
  BY DEF ExtractWith, Prediction, answerBar, Catalog!PredictAnswer
<1>6. Accepts(model[h], f) = (heldBar[h].checked => f = model[h].weights.trainedOn)
  BY <1>1, <1>3 DEF ObjectRight, Accepts, Fingerprint, Objects
<1>. QED BY <1>2, <1>3, <1>4, <1>5, <1>6 DEF Catalog!PredictWith

LEMMA TrainImplements ==
  ASSUME StoreTypeOK, NEW h \in Handles, NEW c \in Corpora, NEW f \in Fes, Train(h, c, f)
  PROVE  Catalog!Learn(h, c, f)
<1> DEFINE m == TrainedObject(c, f)
<1>1. m \in Objects
  BY TrainedObjectType DEF Extractors
<1>2. /\ m.weights = Catalog!WeightsOf(c, f)
      /\ m.fe # Default
      /\ m.version = TrainedVersion
  BY ExtractorAssumption DEF TrainedObject, Catalog!WeightsOf
<1>3. model[h] = Null /\ model' = [model EXCEPT ![h] = m]
  BY DEF Train
<1>4. shelfBar' = shelfBar /\ answerBar' = Catalog!Answer("train", TRUE, Null)
  BY ShelfStays DEF Train, Reply, answerBar, Catalog!Answer
<1> HIDE DEF m
<1>5. HeldOf(m) = [weights |-> Catalog!WeightsOf(c, f), equipped |-> TRUE,
                   checked |-> TrainedVersion = 1]
  BY <1>2, Zenon DEF HeldOf
<1>6. heldBar[h] = Null /\ heldBar' = [heldBar EXCEPT ![h] = HeldOf(m)]
  BY <1>1, <1>3, HeldChange, HeldValues
<1>. QED BY <1>4, <1>5, <1>6 DEF Catalog!Learn, Catalog!Holds

LEMMA SaveFullImplements ==
  ASSUME StoreTypeOK, NEW p \in Paths, NEW h \in Handles, CarriesExtractor(h),
         SaveFull(p, h)
  PROVE  Catalog!Store(p, h, "full")
<1>1. model[h] \in Objects
  BY DEF SaveFull, StoreTypeOK
<1>2. FullContents(model[h]) \in Files /\ FullContents(model[h]) # DamagedFile
  BY <1>1 DEF FullContents, Objects, Files, FullFiles, DamagedFile
<1>3. Catalog!Puts(p, KindOnShelf[FullContents(model[h]).kind],
                   FullContents(model[h]).weights)
  BY <1>2, SaveImplements DEF SaveFull
<1>4. heldBar[h] # Null /\ heldBar[h].weights = model[h].weights /\ heldBar[h].equipped
  BY HeldValues, HeldFields DEF SaveFull, CarriesExtractor
<1>. QED BY <1>3, <1>4 DEF FullContents, KindOnShelf, Catalog!Store

LEMMA SavePureImplements ==
  ASSUME StoreTypeOK, NEW p \in Paths, NEW h \in Handles, CarriesExtractor(h),
         SavePure(p, h)
  PROVE  Catalog!Store(p, h, "stamped")
<1>1. model[h] \in Objects
  BY DEF SavePure, StoreTypeOK
<1>2. PureContents(model[h]) \in Files /\ PureContents(model[h]) # DamagedFile
  BY <1>1 DEF PureContents, Fingerprint, TfeFingerprints, Objects, Files, Pure1Files,
              DamagedFile
<1>3. Catalog!Puts(p, KindOnShelf[PureContents(model[h]).kind],
                   PureContents(model[h]).weights)
  BY <1>2, SaveImplements DEF SavePure
<1>4. heldBar[h] # Null /\ heldBar[h].weights = model[h].weights /\ heldBar[h].equipped
  BY HeldValues, HeldFields DEF SavePure, CarriesExtractor
<1>. QED BY <1>3, <1>4 DEF PureContents, KindOnShelf, Catalog!Store

LEMMA TrainSeparateModelsImplements ==
  ASSUME StoreTypeOK, NEW p \in Paths, NEW c \in LegacyCorpora, NEW f \in Fes,
         TrainSeparateModels(p, c, f)
  PROVE  Catalog!Publish(p, c, f)
<1> DEFINE contents == [kind |-> "pure_model",
                        weights |-> [corpus |-> c, trainedOn |-> f]]
<1>1. contents \in Files /\ contents # DamagedFile
  BY DEF Files, Pure0Files, Weights, Extractors, DamagedFile
<1>2. Catalog!Puts(p, KindOnShelf[contents.kind], contents.weights)
  BY <1>1, SaveImplements DEF TrainSeparateModels
<1>. QED BY <1>2 DEF KindOnShelf, Catalog!Publish, Catalog!WeightsOf

LEMMA FreeImplements ==
  ASSUME StoreTypeOK, NEW h \in Handles, Free(h)
  PROVE  Catalog!Discard(h)
<1>1. heldBar[h] # Null
  BY HeldValues DEF Free
<1>2. heldBar' = [heldBar EXCEPT ![h] = Null]
  BY DEF Free, heldBar, CarriesExtractor, StoreTypeOK
<1>3. shelfBar' = shelfBar /\ answerBar' = Catalog!Answer("free", TRUE, Null)
  BY ShelfStays DEF Free, Reply, answerBar, Catalog!Answer
<1>. QED BY <1>1, <1>2, <1>3 DEF Catalog!Discard

LEMMA CarefulStepImplements ==
  StoreTypeOK /\ Provenance /\ CarefulStep => Catalog!Request
<1> SUFFICES ASSUME StoreTypeOK, Provenance, CarefulStep PROVE Catalog!Request
  OBVIOUS
<1>1. ASSUME NEW h \in Handles, NEW c \in Corpora, NEW f \in Fes, Train(h, c, f)
      PROVE  Catalog!Request
  BY <1>1, TrainImplements DEF Catalog!Request
<1>2. ASSUME NEW p \in Paths, NEW c \in LegacyCorpora, NEW f \in Fes,
             TrainSeparateModels(p, c, f)
      PROVE  Catalog!Request
  BY <1>2, TrainSeparateModelsImplements DEF Catalog!Request
<1>3. ASSUME NEW p \in Paths, NEW h \in Handles, CarriesExtractor(h), SaveFull(p, h)
      PROVE  Catalog!Request
  BY <1>3, SaveFullImplements DEF Catalog!Request
<1>4. ASSUME NEW p \in Paths, NEW h \in Handles, CarriesExtractor(h), SavePure(p, h)
      PROVE  Catalog!Request
  BY <1>4, SavePureImplements DEF Catalog!Request
<1>5. ASSUME NEW h \in Handles, NEW p \in Paths, LoadFull(h, p)
      PROVE  Catalog!Request
  BY <1>5, LoadFullImplements DEF Catalog!Request
<1>6. ASSUME NEW h \in Handles, NEW p \in Paths, LoadPureWithoutFe(h, p)
      PROVE  Catalog!Request
  BY <1>6, LoadPureWithoutFeImplements DEF Catalog!Request
<1>7. ASSUME NEW h \in Handles, NEW p \in Paths, NEW f \in Fes \cup {Null},
             RightExtractor(p, f), LoadPure(h, p, f)
      PROVE  Catalog!Request
  BY <1>7, LoadPureImplements DEF Catalog!Request
<1>8. ASSUME NEW h \in Handles, model[h].version = 1 \/ CarriesExtractor(h), Extract(h)
      PROVE  Catalog!Request
  BY <1>8, ExtractImplements DEF Catalog!Request
<1>9. ASSUME NEW h \in Handles, NEW f \in Fes, ExtractWith(h, f)
      PROVE  Catalog!Request
  BY <1>9, ExtractWithImplements DEF Catalog!Request
<1>10. ASSUME NEW h \in Handles, Free(h)
       PROVE  Catalog!Request
  BY <1>10, FreeImplements DEF Catalog!Request
<1>. QED
  BY <1>1, <1>2, <1>3, <1>4, <1>5, <1>6, <1>7, <1>8, <1>9, <1>10 DEF CarefulStep

\* The whole protocol of versions, fingerprints and extractors is, to careful
\* clients, a catalog in which a model has one extractor: every call does to
\* the catalog what its documentation says, or a rule has been broken.
THEOREM Refinement == Spec => ImplementsCatalog
<1>1. TypeOK /\ (careful => Provenance) /\ [Next]_vars => [Catalog!Next]_(Catalog!catalog)
  <2> SUFFICES ASSUME TypeOK, careful => Provenance, [Next]_vars
               PROVE  Catalog!Next \/ UNCHANGED Catalog!catalog
    OBVIOUS
  <2>1. CASE Next /\ careful' = TRUE
    <3>1. careful /\ CarefulStep
      BY <2>1, CarefulNextIsCarefulStep
    <3>2. Catalog!Request
      BY <3>1, CarefulStepImplements DEF TypeOK
    <3>. QED BY <2>1, <3>1, <3>2 DEF Catalog!Next
  <2>2. CASE Next /\ careful' = FALSE
    BY <2>2 DEF Catalog!Next
  <2>3. careful' \in BOOLEAN
    BY DEF TypeOK, Next, Abides, vars
  <2>4. CASE UNCHANGED vars
    BY <2>4, HeldStays, ShelfStays DEF vars, Catalog!catalog, answerBar
  <2>. QED BY <2>1, <2>2, <2>3, <2>4
<1>. QED
  BY InitImplements, <1>1, TypeCorrect, CarefulProvenance, PTL
     DEF Spec, ImplementsCatalog, Catalog!Spec

-----------------------------------------------------------------------------
(* RelationDetectors.  What the store's invariants say of objects and files *)
(* holds under it too: its own calls only read them.                        *)

\* The calls about relations, trainers and detectors ...
RelationalCall ==
  \/ \E r \in Relations, h \in Handles : ExtractRelation(r, h)
  \/ \E t \in Trainers, h \in Handles : CreateTrainer(t, h)
  \/ \E t \in Trainers : AddExample(t)
  \/ \E d \in Detectors, t \in Trainers : TrainDetector(d, t)
  \/ \E b \in DetectorPaths, d \in Detectors : SaveDetector(b, d) \/ LoadDetector(d, b)
  \/ \E d \in Detectors, r \in Relations : Classify(d, r)
  \/ FreeRelational

\* ... and those that keep to the rule about extraction
CarefulRelationalCall ==
  \/ \E r \in Relations, h \in Handles : CarriesExtractor(h) /\ ExtractRelation(r, h)
  \/ \E t \in Trainers, h \in Handles : CarriesExtractor(h) /\ CreateTrainer(t, h)
  \/ \E t \in Trainers : AddExample(t)
  \/ \E d \in Detectors, t \in Trainers : TrainDetector(d, t)
  \/ \E b \in DetectorPaths, d \in Detectors : SaveDetector(b, d) \/ LoadDetector(d, b)
  \/ \E d \in Detectors, r \in Relations : Classify(d, r)
  \/ FreeRelational

LEMMA RelNextCalls ==
  ASSUME RelNext
  PROVE  \/ Next /\ UNCHANGED relVars /\ verdict' = Null
         \/ /\ RelationalCall
            /\ careful \in BOOLEAN => careful' \in BOOLEAN
            /\ careful' => careful /\ CarefulRelationalCall
<1>1. CASE Next /\ UNCHANGED relVars /\ verdict' = Null
  BY <1>1
<1>2. CASE \E r \in Relations, h \in Handles :
             ExtractRelation(r, h) /\ Abides(CarriesExtractor(h))
  BY <1>2, Zenon DEF RelationalCall, CarefulRelationalCall, Abides
<1>3. CASE \E t \in Trainers, h \in Handles :
             CreateTrainer(t, h) /\ Abides(CarriesExtractor(h))
  BY <1>3, Zenon DEF RelationalCall, CarefulRelationalCall, Abides
<1>4. CASE \E t \in Trainers : AddExample(t) /\ Abides(TRUE)
  BY <1>4, Zenon DEF RelationalCall, CarefulRelationalCall, Abides
<1>5. CASE \E d \in Detectors, t \in Trainers : TrainDetector(d, t) /\ Abides(TRUE)
  BY <1>5, Zenon DEF RelationalCall, CarefulRelationalCall, Abides
<1>6. CASE \E b \in DetectorPaths, d \in Detectors :
             (SaveDetector(b, d) \/ LoadDetector(d, b)) /\ Abides(TRUE)
  BY <1>6, Zenon DEF RelationalCall, CarefulRelationalCall, Abides
<1>7. CASE \E d \in Detectors, r \in Relations : Classify(d, r) /\ Abides(TRUE)
  BY <1>7, Zenon DEF RelationalCall, CarefulRelationalCall, Abides
<1>8. CASE FreeRelational /\ Abides(TRUE)
  BY <1>8, Zenon DEF RelationalCall, CarefulRelationalCall, Abides
<1>. QED BY <1>1, <1>2, <1>3, <1>4, <1>5, <1>6, <1>7, <1>8 DEF RelNext

LEMMA CarefulCallIsCall == CarefulRelationalCall => RelationalCall
BY DEF CarefulRelationalCall, RelationalCall

LEMMA RelationalCallReads ==
  RelationalCall => UNCHANGED <<model, disk>> /\ reply' = Reply("none", TRUE, Null)
BY DEF RelationalCall, ExtractRelation, CreateTrainer, AddExample, TrainDetector,
       SaveDetector, LoadDetector, Classify, FreeRelational, Answers

LEMMA StoreUnderRelations == RelSpec => [](TypeOK /\ (careful => Provenance))
<1>1. RelInit => TypeOK /\ (careful => Provenance)
  BY InitType DEF RelInit, Init, Provenance, UsedTrainingExtractor, Reply
<1>2. ASSUME TypeOK, careful => Provenance, [RelNext]_allVars
      PROVE  (TypeOK /\ (careful => Provenance))'
  <2>1. CASE Next
    <3>1. careful' \in BOOLEAN
      BY <1>2, <2>1 DEF TypeOK, Next, Abides
    <3>2. TypeOK'
      BY <1>2, <2>1, <3>1, NextIsAnyStep, StepKeepsType DEF TypeOK
    <3>3. careful' => careful /\ CarefulStep
      BY <2>1, CarefulNextIsCarefulStep
    <3>. QED BY <1>2, <3>2, <3>3, StepKeepsProvenance DEF TypeOK
  <2>2. CASE RelationalCall /\ (careful \in BOOLEAN => careful' \in BOOLEAN)
             /\ (careful' => careful)
    <3>1. Reply("none", TRUE, Null) \in Replies /\ Reply("none", TRUE, Null).call # "extract"
      BY DEF Reply, Replies, Calls
    <3>2. TypeOK'
      BY <1>2, <2>2, <3>1, RelationalCallReads DEF TypeOK, StoreTypeOK
    <3>3. careful => Provenance'
      BY <1>2, <2>2, <3>1, RelationalCallReads, QuietKeepsProvenance
    <3>. QED BY <2>2, <3>2, <3>3
  <2>3. CASE UNCHANGED allVars
    BY <1>2, <2>3, StepKeepsProvenance, StepKeepsType DEF allVars, vars, store, TypeOK
  <2>. QED BY <1>2, <2>1, <2>2, <2>3, RelNextCalls
<1>. QED BY <1>1, <1>2, PTL DEF RelSpec

-----------------------------------------------------------------------------
(* Fingerprints travel with what they are fingerprints of: through files,   *)
(* and with no thought for what became of the ner object.  While clients    *)
(* are careful, the ner object is one that has its extractor.               *)

Labelled(x, computedWith) == x.fingerprint = computedWith

RelationsLabelled ==
  /\ \A r \in Relations : relation[r] # Null => Labelled(relation[r], relation[r].feats)
  /\ \A d \in Detectors : detector[d] # Null => Labelled(detector[d], detector[d].df)
  /\ \A b \in DetectorPaths : detectorDisk[b] \notin {Null, DamagedFile} =>
       Labelled(detectorDisk[b], detectorDisk[b].df)

\* The verdict is about a relation and a detector as they were
VerdictLabelled ==
  verdict # Null =>
    /\ verdict.ok <=> verdict.relation.fingerprint = verdict.detector.fingerprint
    /\ Labelled(verdict.relation, verdict.relation.feats)
    /\ Labelled(verdict.detector, verdict.detector.df)

RelationsSourced ==
  /\ \A r \in Relations : relation[r] # Null => relation[r].feats = relation[r].ner.trainedOn
  /\ \A t \in Trainers : trainer[t] # Null => trainer[t].tfe = trainer[t].ner.trainedOn
  /\ \A d \in Detectors : detector[d] # Null => detector[d].df = detector[d].ner.trainedOn
  /\ \A b \in DetectorPaths : detectorDisk[b] \notin {Null, DamagedFile} =>
       detectorDisk[b].df = detectorDisk[b].ner.trainedOn

VerdictSourced ==
  verdict # Null =>
    /\ verdict.relation.feats = verdict.relation.ner.trainedOn
    /\ verdict.detector.df = verdict.detector.ner.trainedOn

TrainerObjects == [tfe : Extractors, pos : BOOLEAN, neg : BOOLEAN, ner : Weights]

\* Every table has an entry for each of its names
Tables ==
  /\ relation = [r \in Relations |-> relation[r]]
  /\ trainer \in [Trainers -> TrainerObjects \cup {Null}]
  /\ detector = [d \in Detectors |-> detector[d]]
  /\ detectorDisk = [b \in DetectorPaths |-> detectorDisk[b]]

RelInv ==
  /\ Tables
  /\ RelationsLabelled /\ VerdictLabelled
  /\ careful => RelationsSourced /\ VerdictSourced

LEMMA RelationalCallLabels ==
  ASSUME StoreTypeOK, Tables, RelationsLabelled, RelationalCall
  PROVE  Tables' /\ RelationsLabelled' /\ VerdictLabelled'
<1>1. ASSUME NEW r \in Relations, NEW h \in Handles, ExtractRelation(r, h)
      PROVE  Tables' /\ RelationsLabelled' /\ VerdictLabelled'
  <2>1. Labelled(RelationOf(model[h]), RelationOf(model[h]).feats)
    BY DEF RelationOf, Labelled, Fingerprint
  <2>2. Tables'
    BY <1>1 DEF Tables, ExtractRelation
  <2>3. \A x \in Relations : relation'[x] = IF x = r THEN RelationOf(model[h]) ELSE relation[x]
    BY <1>1 DEF Tables, ExtractRelation
  <2>. QED
    BY <1>1, <2>1, <2>2, <2>3 DEF ExtractRelation, Answers, RelationsLabelled, VerdictLabelled,
                                  Labelled
<1>2. ASSUME NEW t \in Trainers, (\E h \in Handles : CreateTrainer(t, h)) \/ AddExample(t)
      PROVE  Tables' /\ RelationsLabelled' /\ VerdictLabelled'
  <2>1. ASSUME \E h \in Handles : CreateTrainer(t, h) PROVE Tables'
    <3>1. PICK h \in Handles : CreateTrainer(t, h)
      BY <2>1
    <3>2. model[h].fe \in Extractors /\ model[h].weights \in Weights
      BY <3>1 DEF CreateTrainer, StoreTypeOK, Objects
    <3>3. [tfe |-> model[h].fe, pos |-> FALSE, neg |-> FALSE, ner |-> model[h].weights]
            \in TrainerObjects
      BY <3>2 DEF TrainerObjects
    <3>. QED BY <3>1, <3>3 DEF Tables, CreateTrainer
  <2>2. ASSUME AddExample(t) PROVE Tables'
    <3>1. PICK new \in TrainerObjects : trainer' = [trainer EXCEPT ![t] = new]
      <4>1. trainer[t] \in TrainerObjects
        BY <2>2 DEF Tables, AddExample
      <4>2. /\ [trainer[t] EXCEPT !.pos = TRUE] \in TrainerObjects
            /\ [trainer[t] EXCEPT !.neg = TRUE] \in TrainerObjects
        BY <4>1 DEF TrainerObjects
      <4>. QED BY <2>2, <4>2 DEF AddExample
    <3>. QED BY <2>2, <3>1 DEF Tables, AddExample
  <2>3. Tables'
    BY <1>2, <2>1, <2>2
  <2>. QED
    BY <1>2, <2>3 DEF CreateTrainer, AddExample, Answers, RelationsLabelled, VerdictLabelled,
                      Labelled
<1>3. ASSUME NEW d \in Detectors, NEW t \in Trainers, TrainDetector(d, t)
      PROVE  Tables' /\ RelationsLabelled' /\ VerdictLabelled'
  <2>1. Labelled(DetectorOf(trainer[t]), DetectorOf(trainer[t]).df)
    BY DEF DetectorOf, Labelled, Fingerprint
  <2>2. Tables'
    BY <1>3 DEF Tables, TrainDetector
  <2>3. \A x \in Detectors : detector'[x] = IF x = d THEN DetectorOf(trainer[t]) ELSE detector[x]
    BY <1>3 DEF Tables, TrainDetector
  <2>. QED
    BY <1>3, <2>1, <2>2, <2>3 DEF TrainDetector, Answers, RelationsLabelled, VerdictLabelled,
                                  Labelled
<1>4. ASSUME NEW b \in DetectorPaths, NEW d \in Detectors, SaveDetector(b, d)
      PROVE  Tables' /\ RelationsLabelled' /\ VerdictLabelled'
  <2>1. PICK contents \in {detector[d], DamagedFile, detectorDisk[b]} :
          detectorDisk' = [detectorDisk EXCEPT ![b] = contents]
    BY <1>4 DEF SaveDetector
  <2>2. Tables'
    BY <1>4, <2>1 DEF Tables, SaveDetector
  <2>3. \A x \in DetectorPaths : detectorDisk'[x] = IF x = b THEN contents ELSE detectorDisk[x]
    BY <2>1 DEF Tables
  <2>4. contents \notin {Null, DamagedFile} => Labelled(contents, contents.df)
    BY DEF RelationsLabelled
  <2>. QED
    BY <1>4, <2>2, <2>3, <2>4 DEF SaveDetector, Answers, RelationsLabelled, VerdictLabelled,
                                  Labelled
<1>5. ASSUME NEW b \in DetectorPaths, NEW d \in Detectors, LoadDetector(d, b)
      PROVE  Tables' /\ RelationsLabelled' /\ VerdictLabelled'
  <2>1. Tables'
    BY <1>5 DEF Tables, LoadDetector
  <2>2. \A x \in Detectors :
          detector'[x] # Null => Labelled(detector'[x], detector'[x].df)
    <3>1. \A x \in Detectors : \/ detector'[x] = detector[x]
                               \/ /\ detector'[x] = detectorDisk[b]
                                  /\ detectorDisk[b] \notin {Null, DamagedFile}
      BY <1>5 DEF Tables, LoadDetector
    <3>. QED BY <3>1 DEF RelationsLabelled
  <2>. QED
    BY <1>5, <2>1, <2>2 DEF LoadDetector, Answers, RelationsLabelled, VerdictLabelled, Labelled
<1>6. ASSUME NEW d \in Detectors, NEW r \in Relations, Classify(d, r)
      PROVE  Tables' /\ RelationsLabelled' /\ VerdictLabelled'
  <2>1. Tables' /\ RelationsLabelled'
    BY <1>6 DEF Tables, Classify, relVars, RelationsLabelled, Labelled
  <2>2. /\ Labelled(detector[d], detector[d].df) /\ Labelled(relation[r], relation[r].feats)
    BY <1>6 DEF Classify, RelationsLabelled
  <2>3. /\ verdict'.ok = Compatible(detector[d], relation[r])
        /\ verdict'.detector = detector[d] /\ verdict'.relation = relation[r]
    BY <1>6 DEF Classify, Answers
  <2>. QED BY <2>1, <2>2, <2>3 DEF VerdictLabelled, Compatible, Labelled
<1>7. CASE FreeRelational
  <2>1. Tables'
    BY <1>7 DEF Tables, FreeRelational
  <2>2. /\ \A r \in Relations : relation'[r] \in {Null, relation[r]}
        /\ \A d \in Detectors : detector'[d] \in {Null, detector[d]}
        /\ UNCHANGED detectorDisk /\ verdict' = Null
    BY <1>7 DEF Tables, FreeRelational, Answers
  <2>. QED BY <2>1, <2>2 DEF RelationsLabelled, VerdictLabelled, Labelled
<1>. QED BY <1>1, <1>2, <1>3, <1>4, <1>5, <1>6, <1>7 DEF RelationalCall

LEMMA CarefulCallSources ==
  ASSUME Tables, Provenance, RelationsSourced, CarefulRelationalCall
  PROVE  RelationsSourced' /\ VerdictSourced'
<1>1. ASSUME NEW h \in Handles, model[h] # Null, CarriesExtractor(h)
      PROVE  model[h].fe = model[h].weights.trainedOn
  BY <1>1 DEF Provenance, ObjectRight, CarriesExtractor
<1>2. ASSUME NEW r \in Relations, NEW h \in Handles, CarriesExtractor(h), ExtractRelation(r, h)
      PROVE  RelationsSourced' /\ VerdictSourced'
  <2>1. RelationOf(model[h]).feats = RelationOf(model[h]).ner.trainedOn
    BY <1>1, <1>2 DEF RelationOf, ExtractRelation
  <2>2. \A x \in Relations : relation'[x] = IF x = r THEN RelationOf(model[h]) ELSE relation[x]
    BY <1>2 DEF Tables, ExtractRelation
  <2>. QED
    BY <1>2, <2>1, <2>2 DEF ExtractRelation, Answers, RelationsSourced, VerdictSourced
<1>3. ASSUME NEW t \in Trainers, NEW h \in Handles, CarriesExtractor(h), CreateTrainer(t, h)
      PROVE  RelationsSourced' /\ VerdictSourced'
  <2>1. /\ trainer'[t].tfe = trainer'[t].ner.trainedOn
        /\ \A x \in Trainers \ {t} : trainer'[x] = trainer[x]
    BY <1>1, <1>3 DEF Tables, CreateTrainer
  <2>. QED
    BY <1>3, <2>1 DEF CreateTrainer, Answers, RelationsSourced, VerdictSourced
<1>4. ASSUME NEW t \in Trainers, AddExample(t)
      PROVE  RelationsSourced' /\ VerdictSourced'
  <2>1. /\ trainer'[t].tfe = trainer[t].tfe /\ trainer'[t].ner = trainer[t].ner
        /\ \A x \in Trainers \ {t} : trainer'[x] = trainer[x]
    BY <1>4 DEF Tables, AddExample, TrainerObjects
  <2>. QED
    BY <1>4, <2>1 DEF AddExample, Answers, RelationsSourced, VerdictSourced
<1>5. ASSUME NEW d \in Detectors, NEW t \in Trainers, TrainDetector(d, t)
      PROVE  RelationsSourced' /\ VerdictSourced'
  <2>1. DetectorOf(trainer[t]).df = DetectorOf(trainer[t]).ner.trainedOn
    BY <1>5 DEF DetectorOf, TrainDetector, RelationsSourced
  <2>2. \A x \in Detectors : detector'[x] = IF x = d THEN DetectorOf(trainer[t]) ELSE detector[x]
    BY <1>5 DEF Tables, TrainDetector
  <2>. QED
    BY <1>5, <2>1, <2>2 DEF TrainDetector, Answers, RelationsSourced, VerdictSourced
<1>6. ASSUME NEW b \in DetectorPaths, NEW d \in Detectors, SaveDetector(b, d)
      PROVE  RelationsSourced' /\ VerdictSourced'
  <2>1. PICK contents \in {detector[d], DamagedFile, detectorDisk[b]} :
          detectorDisk' = [detectorDisk EXCEPT ![b] = contents]
    BY <1>6 DEF SaveDetector
  <2>2. \A x \in DetectorPaths : detectorDisk'[x] = IF x = b THEN contents ELSE detectorDisk[x]
    BY <2>1 DEF Tables
  <2>3. contents \notin {Null, DamagedFile} => contents.df = contents.ner.trainedOn
    BY DEF RelationsSourced
  <2>. QED
    BY <1>6, <2>2, <2>3 DEF SaveDetector, Answers, RelationsSourced, VerdictSourced
<1>7. ASSUME NEW b \in DetectorPaths, NEW d \in Detectors, LoadDetector(d, b)
      PROVE  RelationsSourced' /\ VerdictSourced'
  <2>1. \A x \in Detectors : \/ detector'[x] = detector[x]
                             \/ /\ detector'[x] = detectorDisk[b]
                                /\ detectorDisk[b] \notin {Null, DamagedFile}
    BY <1>7 DEF Tables, LoadDetector
  <2>2. \A x \in Detectors : detector'[x] # Null => detector'[x].df = detector'[x].ner.trainedOn
    BY <2>1 DEF RelationsSourced
  <2>. QED
    BY <1>7, <2>2 DEF LoadDetector, Answers, RelationsSourced, VerdictSourced
<1>8. ASSUME NEW d \in Detectors, NEW r \in Relations, Classify(d, r)
      PROVE  RelationsSourced' /\ VerdictSourced'
  <2>1. verdict'.detector = detector[d] /\ verdict'.relation = relation[r]
    BY <1>8 DEF Classify, Answers
  <2>. QED BY <1>8, <2>1 DEF Classify, relVars, RelationsSourced, VerdictSourced
<1>9. CASE FreeRelational
  <2>1. /\ \A r \in Relations : relation'[r] \in {Null, relation[r]}
        /\ \A t \in Trainers : trainer'[t] \in {Null, trainer[t]}
        /\ \A d \in Detectors : detector'[d] \in {Null, detector[d]}
        /\ UNCHANGED detectorDisk /\ verdict' = Null
    BY <1>9 DEF Tables, FreeRelational, Answers
  <2>. QED BY <2>1 DEF RelationsSourced, VerdictSourced
<1>. QED
  BY <1>2, <1>3, <1>4, <1>5, <1>6, <1>7, <1>8, <1>9 DEF CarefulRelationalCall

LEMMA RelInvHolds == RelSpec => []RelInv
<1>1. RelInit => RelInv
  BY DEF RelInit, RelInv, Tables, RelationsLabelled, VerdictLabelled, RelationsSourced,
         VerdictSourced
<1>2. ASSUME RelInv, TypeOK, careful => Provenance, [RelNext]_allVars
      PROVE  RelInv'
  <2>1. CASE UNCHANGED relVars /\ (verdict' = Null \/ UNCHANGED verdict) /\ (careful' => careful)
    BY <1>2, <2>1 DEF RelInv, relVars, Tables, RelationsLabelled, VerdictLabelled,
                      RelationsSourced, VerdictSourced, Labelled
  <2>2. CASE Next /\ UNCHANGED relVars /\ verdict' = Null
    BY <2>1, <2>2, CarefulNextIsCarefulStep
  <2>3. CASE RelationalCall /\ (careful' => careful /\ CarefulRelationalCall)
    BY <1>2, <2>3, RelationalCallLabels, CarefulCallSources DEF RelInv, TypeOK
  <2>4. CASE UNCHANGED allVars
    BY <2>1, <2>4 DEF allVars, vars
  <2>. QED BY <1>2, <2>2, <2>3, <2>4, RelNextCalls
<1>. QED BY <1>1, <1>2, StoreUnderRelations, PTL DEF RelSpec

\* No client gets a score that a detector computed from features of another
\* extractor than the one it was trained with.
THEOREM ScoresMatch == RelSpec => []ScoreFromMatchingFeatures
<1>1. RelInv => ScoreFromMatchingFeatures
  BY DEF RelInv, VerdictLabelled, Labelled, ScoreFromMatchingFeatures
<1>. QED BY <1>1, RelInvHolds, PTL

\* A careful client's relation and detector whose models were trained on one
\* extractor are never found incompatible.
THEOREM CompatibleModels == RelSpec => []CompatibleModelsClassify
<1>1. RelInv => CompatibleModelsClassify
  BY DEF RelInv, VerdictLabelled, VerdictSourced, Labelled, CompatibleModelsClassify
<1>. QED BY <1>1, RelInvHolds, PTL

-----------------------------------------------------------------------------
(* Text categorizers: the steps of CategorizerStore are those of the store *)
(* but for training, which may use no extractor, and for the rules that a  *)
(* careful client keeps to.                                                *)

CategorizerTrains ==
  \E h \in Handles, c \in Corpora, f \in Extractors : Train(h, c, f)

LEMMA CategorizationsAreExtractions ==
  ASSUME NEW h, NEW f
  PROVE  /\ Categorize(h) <=> Extract(h)
         /\ CategorizeWith(h, f) <=> ExtractWith(h, f)
BY DEF Categorize, CategorizeWith, Extract, ExtractWith, Categorization

\* Every step of a client of categorizers is one of a client of the store, or
\* a training.
LEMMA CategorizerStep == [CategorizerNext]_vars => [AnyStep]_store \/ CategorizerTrains
<1> SUFFICES ASSUME [CategorizerNext]_vars PROVE [AnyStep]_store \/ CategorizerTrains
  OBVIOUS
<1>1. CASE UNCHANGED vars
  BY <1>1 DEF vars, store
<1>2. CASE CategorizerNext
  BY <1>2, CategorizationsAreExtractions, Zenon
     DEF CategorizerNext, AnyStep, CategorizerTrains, TrainCategorizer,
         TrainCategorizerSeparately, SaveCategorizer, LoadCategorizer,
         LoadPureCategorizer, LoadBagOfWords, FreeCategorizer
<1>. QED BY <1>1, <1>2

LEMMA CategorizerTraining ==
  ASSUME NEW h \in Handles, NEW c \in Corpora, NEW f \in Extractors,
         Train(h, c, f), StoreTypeOK
  PROVE  \E m \in Objects :
           /\ m.weights.trainedOn = f /\ m.tfeFingerprint = f /\ m.fe = f
           /\ model' = [model EXCEPT ![h] = m]
           /\ reply' = Reply("train", TRUE, Null)
           /\ UNCHANGED disk
<1> DEFINE m == TrainedObject(c, f)
<1>1. m \in Objects /\ m.weights.trainedOn = f /\ m.tfeFingerprint = f /\ m.fe = f
  BY VersionAssumption DEF TrainedObject, Objects, Weights, ModelFingerprint, Fingerprint,
                           TfeFingerprints
<1>2. /\ model' = [model EXCEPT ![h] = m]
      /\ reply' = Reply("train", TRUE, Null)
      /\ UNCHANGED disk
  BY DEF Train
<1> HIDE DEF m
<1>. QED BY <1>1, <1>2

LEMMA CategorizerTrainingKeepsType ==
  StoreTypeOK /\ CategorizerTrains => StoreTypeOK'
<1> SUFFICES ASSUME StoreTypeOK, NEW h \in Handles, NEW c \in Corpora,
                    NEW f \in Extractors, Train(h, c, f)
             PROVE  StoreTypeOK'
  BY DEF CategorizerTrains
<1>1. Reply("train", TRUE, Null) \in Replies
  BY DEF Reply, Replies, Calls
<1>2. PICK m \in Objects : /\ model' = [model EXCEPT ![h] = m]
                           /\ reply' = Reply("train", TRUE, Null)
                           /\ UNCHANGED disk
  BY CategorizerTraining
<1>. QED BY <1>1, <1>2 DEF StoreTypeOK

\* Objects, files and replies of categorizers have the store's shapes.
THEOREM CategorizerTypes == CategorizerSpec => []TypeOK
<1>1. CategorizerInit => TypeOK
  BY InitType DEF CategorizerInit
<1>2. TypeOK /\ [CategorizerNext]_vars => TypeOK'
  <2>1. [CategorizerNext]_vars => (careful \in BOOLEAN => careful' \in BOOLEAN)
    BY DEF CategorizerNext, vars, Abides, TrainCategorizer, TrainCategorizerSeparately,
           SaveCategorizer, LoadCategorizer, LoadPureCategorizer, LoadBagOfWords,
           FreeCategorizer
  <2>. QED
    BY <2>1, CategorizerStep, StepKeepsType, CategorizerTrainingKeepsType DEF TypeOK
<1>. QED BY <1>1, <1>2, PTL DEF CategorizerSpec

-----------------------------------------------------------------------------
(* What careful clients of categorizers may rely on.  Unlike in ModelStore *)
(* an object of version 0 tells nothing (its extractor may be missing and  *)
(* may be the one it was trained on, none), and the rules step in; what    *)
(* has to be carried from call to call is only what stamps say.            *)

\* A stamp is that of the training, and the extractor is that or none
StampRight(m) ==
  m.version = 1 => /\ m.tfeFingerprint = m.weights.trainedOn
                   /\ m.fe \in {Default, m.weights.trainedOn}

StampedFileRight(d) ==
  d.kind = "pure_model_with_version" => d.tfeFingerprint = d.weights.trainedOn

\* A bag of words needs no extractor, and stamped it takes none
BagOfWordsAlone ==
  reply.call = "extract" /\ reply.weights.trainedOn = Default =>
    /\ reply.own => reply.ok
    /\ ~reply.own /\ reply.version = 1 => ~reply.ok

Stamps ==
  /\ \A h \in Handles : model[h] # Null => StampRight(model[h])
  /\ \A p \in Paths : disk[p] # Null => StampedFileRight(disk[p])
  /\ UsedTrainingExtractor
  /\ BagOfWordsAlone

LEMMA SaveKeepsStamps ==
  ASSUME StoreTypeOK, Stamps, NEW p \in Paths, NEW contents, StampedFileRight(contents),
         Save(p, contents), UNCHANGED model
  PROVE  Stamps'
<1>1. StampedFileRight(DamagedFile)
  BY DEF StampedFileRight, DamagedFile
<1>2. \A q \in Paths : disk'[q] # Null => StampedFileRight(disk'[q])
  BY <1>1 DEF Save, SaveSucceeds, SaveThrows, SaveLosesTail, Stamps, StoreTypeOK
<1>3. reply'.call = "save"
  BY DEF Save, SaveSucceeds, SaveThrows, SaveLosesTail, Reply
<1>. QED
  BY <1>2, <1>3 DEF Stamps, UsedTrainingExtractor, BagOfWordsAlone, StampRight,
                    StampedFileRight

LEMMA ObjectKeepsStamps ==
  ASSUME StoreTypeOK, Stamps, NEW h \in Handles, NEW m, m = Null \/ StampRight(m),
         model' = [model EXCEPT ![h] = m], UNCHANGED disk, reply'.call # "extract"
  PROVE  Stamps'
<1>1. \A k \in Handles : model'[k] # Null => StampRight(model'[k])
  BY DEF Stamps, StoreTypeOK
<1>. QED
  BY <1>1 DEF Stamps, UsedTrainingExtractor, BagOfWordsAlone, StampRight,
              StampedFileRight

LEMMA RefusalKeepsStamps ==
  ASSUME Stamps, NEW p \in Paths, NEW fe,
         LoadFails(FullLoad(p)) \/ LoadFails(PureLoad(p, fe))
  PROVE  Stamps'
BY DEF LoadFails, FullLoad, PureLoad, Reply, Stamps, UsedTrainingExtractor,
       BagOfWordsAlone, StampRight, StampedFileRight

LEMMA Version0KeepsStamps ==
  ASSUME StoreTypeOK, Stamps, NEW h \in Handles, NEW p \in Paths, NEW fe,
         LoadsVersion0(h, p, fe)
  PROVE  Stamps'
<1>1. PICK garbage \in TfeFingerprints :
        Loaded(h, PureLoad(p, fe), PureObject(0, disk[p].weights, garbage, fe))
  BY DEF LoadsVersion0
<1>2. StampRight(PureObject(0, disk[p].weights, garbage, fe))
  BY DEF StampRight, PureObject
<1>. QED BY <1>1, <1>2, ObjectKeepsStamps DEF Loaded, PureLoad, Reply

LEMMA Version1KeepsStamps ==
  ASSUME StoreTypeOK, Stamps, NEW h \in Handles, NEW p \in Paths, NEW fe,
         LoadsVersion1(h, p, fe), fe \in {Default, disk[p].tfeFingerprint}
  PROVE  Stamps'
<1>1. disk[p].tfeFingerprint = disk[p].weights.trainedOn
  BY DEF LoadsVersion1, IsKind, Stamps, StampedFileRight
<1>2. StampRight(PureObject(1, disk[p].weights, disk[p].tfeFingerprint, fe))
  BY <1>1 DEF StampRight, PureObject
<1>. QED BY <1>2, ObjectKeepsStamps DEF LoadsVersion1, Loaded, PureLoad, Reply

LEMMA CategorizationKeepsStamps ==
  ASSUME StoreTypeOK, Stamps, NEW h \in Handles, NEW fe, NEW own \in BOOLEAN,
         model[h] # Null,
         own => fe = model[h].fe /\ (model[h].version = 1 \/ CarriesTrainingExtractor(h)),
         ~own => fe \in Fes,
         reply' = Prediction(model[h], fe, own), UNCHANGED <<model, disk>>
  PROVE  Stamps'
<1>1. StampRight(model[h]) /\ model[h].version \in {0, 1}
  BY DEF Stamps, StoreTypeOK, Objects
<1>2. UsedTrainingExtractor'
  <2>1. ASSUME Accepts(model[h], fe), model[h].version = 1 \/ own
        PROVE  fe = model[h].weights.trainedOn
    BY <1>1, <2>1 DEF StampRight, Accepts, Fingerprint, CarriesTrainingExtractor
  <2>. QED BY <2>1 DEF UsedTrainingExtractor, Prediction
<1>3. BagOfWordsAlone'
  <2>1. ASSUME model[h].weights.trainedOn = Default, own
        PROVE  Accepts(model[h], fe)
    BY <1>1, <2>1 DEF StampRight, Accepts, Fingerprint
  <2>2. ASSUME model[h].weights.trainedOn = Default, ~own, model[h].version = 1
        PROVE  ~Accepts(model[h], fe)
    BY <1>1, <2>2, ExtractorAssumption DEF StampRight, Accepts, Fingerprint
  <2>. QED BY <2>1, <2>2 DEF BagOfWordsAlone, Prediction
<1>. QED BY <1>2, <1>3 DEF Stamps, StampRight, StampedFileRight

LEMMA CarefulCategorizerStep ==
  ASSUME TypeOK, careful => Stamps, CategorizerNext, careful'
  PROVE  Stamps'
<1>0. StoreTypeOK
  BY DEF TypeOK
<1>1. ASSUME NEW h \in Handles, NEW c \in Corpora, NEW f \in Extractors,
             Train(h, c, f), careful
      PROVE  Stamps'
  <2>1. PICK m \in Objects : /\ m.weights.trainedOn = f /\ m.tfeFingerprint = f /\ m.fe = f
                             /\ model' = [model EXCEPT ![h] = m]
                             /\ reply' = Reply("train", TRUE, Null)
                             /\ UNCHANGED disk
    BY <1>0, <1>1, CategorizerTraining
  <2>2. StampRight(m) /\ reply'.call # "extract"
    BY <2>1 DEF StampRight, Reply
  <2>. QED BY <1>0, <1>1, <2>1, <2>2, ObjectKeepsStamps
<1>2. ASSUME NEW p \in Paths, NEW c \in LegacyCorpora, NEW f \in Fes,
             TrainSeparateModels(p, c, f), careful
      PROVE  Stamps'
  BY <1>0, <1>2, SaveKeepsStamps DEF TrainSeparateModels, StampedFileRight
<1>3. ASSUME NEW p \in Paths, NEW h \in Handles, SaveFull(p, h) \/ SavePure(p, h),
             careful, CarriesTrainingExtractor(h)
      PROVE  Stamps'
  <2>1. StampedFileRight(FullContents(model[h])) /\ StampedFileRight(PureContents(model[h]))
    BY <1>3 DEF StampedFileRight, FullContents, PureContents, Fingerprint,
                CarriesTrainingExtractor
  <2>. QED BY <1>0, <1>3, <2>1, SaveKeepsStamps DEF SaveFull, SavePure
<1>4. ASSUME NEW h \in Handles, NEW p \in Paths, LoadFull(h, p), careful
      PROVE  Stamps'
  <2>1. StampRight(FullObject(disk[p]))
    BY DEF StampRight, FullObject
  <2>2. CASE Loaded(h, FullLoad(p), FullObject(disk[p]))
    BY <1>0, <1>4, <2>1, <2>2, ObjectKeepsStamps DEF Loaded, FullLoad, Reply
  <2>. QED BY <1>0, <1>4, <2>2, RefusalKeepsStamps DEF LoadFull
<1>5. ASSUME NEW h \in Handles, NEW p \in Paths, LoadPureWithoutFe(h, p), careful
      PROVE  Stamps'
  BY <1>0, <1>5, Version0KeepsStamps, Version1KeepsStamps, RefusalKeepsStamps
     DEF LoadPureWithoutFe
<1>6. ASSUME NEW h \in Handles, NEW p \in Paths, NEW f \in Fes \cup {Null},
             LoadPure(h, p, f), careful
      PROVE  Stamps'
  <2>1. CASE LoadsVersion1(h, p, f) /\ disk[p].tfeFingerprint = Fingerprint(f)
    BY <1>0, <1>6, <2>1, Version1KeepsStamps DEF Fingerprint
  <2>. QED
    BY <1>0, <1>6, <2>1, Version0KeepsStamps, RefusalKeepsStamps DEF LoadPure
<1>7. ASSUME NEW h \in Handles, Extract(h), careful,
             model[h].version = 1 \/ CarriesTrainingExtractor(h)
      PROVE  Stamps'
  BY <1>0, <1>7, CategorizationKeepsStamps DEF Extract
<1>8. ASSUME NEW h \in Handles, NEW f \in Fes, ExtractWith(h, f), careful
      PROVE  Stamps'
  BY <1>0, <1>8, CategorizationKeepsStamps DEF ExtractWith
<1>9. ASSUME NEW h \in Handles, Free(h), careful
      PROVE  Stamps'
  BY <1>0, <1>9, ObjectKeepsStamps DEF Free, Reply
<1>10. CASE TrainCategorizer
  BY <1>1, <1>10 DEF TrainCategorizer, Abides
<1>11. CASE TrainCategorizerSeparately
  BY <1>2, <1>11 DEF TrainCategorizerSeparately, Abides
<1>12. CASE SaveCategorizer
  BY <1>3, <1>12 DEF SaveCategorizer, Abides
<1>13. CASE LoadCategorizer
  BY <1>4, <1>13 DEF LoadCategorizer, Abides
<1>14. CASE LoadBagOfWords
  BY <1>5, <1>14 DEF LoadBagOfWords, Abides
<1>15. CASE LoadPureCategorizer
  BY <1>6, <1>15 DEF LoadPureCategorizer, Abides
<1>16. CASE \E h \in Handles :
              /\ Categorize(h)
              /\ Abides(model[h].version = 1 \/ CarriesTrainingExtractor(h))
  BY <1>7, <1>16, CategorizationsAreExtractions DEF Abides
<1>17. CASE \E h \in Handles, f \in Fes : CategorizeWith(h, f) /\ Abides(TRUE)
  BY <1>8, <1>17, CategorizationsAreExtractions DEF Abides
<1>18. CASE FreeCategorizer
  BY <1>9, <1>18 DEF FreeCategorizer, Abides
<1>. QED
  BY <1>10, <1>11, <1>12, <1>13, <1>14, <1>15, <1>16, <1>17, <1>18 DEF CategorizerNext

\* While clients are careful, the stamp in a categorizer or in its file is
\* that of the extractor, or of none, it was trained on.
THEOREM CategorizerStamps == CategorizerSpec => [](careful => Stamps)
<1>1. CategorizerInit => Stamps
  BY DEF CategorizerInit, Init, Stamps, UsedTrainingExtractor, BagOfWordsAlone, Reply
<1>2. TypeOK /\ (careful => Stamps) /\ [CategorizerNext]_vars
        => (careful => Stamps)'
  <2> SUFFICES ASSUME TypeOK, careful => Stamps, [CategorizerNext]_vars,
                      careful'
               PROVE  Stamps'
    OBVIOUS
  <2>1. CASE UNCHANGED vars
    BY <2>1 DEF vars, Stamps, UsedTrainingExtractor, BagOfWordsAlone,
                StampRight, StampedFileRight
  <2>. QED BY <2>1, CarefulCategorizerStep
<1>. QED BY <1>1, <1>2, CategorizerTypes, PTL DEF CategorizerSpec

\* To careful clients a model trained on bags of words works without extractor
\* after any saves and loads, and stamped it refuses every extractor.
THEOREM CategorizerBagOfWords == CategorizerSpec => []BagOfWordsSelfSufficient
<1>1. (careful => Stamps) => BagOfWordsSelfSufficient
  BY DEF Stamps, BagOfWordsAlone, BagOfWordsSelfSufficient,
         BagOfWords
<1>. QED BY <1>1, CategorizerStamps, PTL

=============================================================================
