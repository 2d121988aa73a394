---------------------------- MODULE ModelCatalog ----------------------------
(***************************************************************************)
(* What the library promises a careful client about trained models, with   *)
(* no fingerprints, no versions and no extractor stored anywhere: a model  *)
(* knows the extractor it was trained on, whatever files it went through;  *)
(* it opens with that extractor and with no other, and when it predicts    *)
(* with its own extractor, it is that one.  Module ModelStore is shown to  *)
(* implement this one.                                                     *)
(*                                                                         *)
(* Three weaknesses of the code show through and are part of the promise:  *)
(* a model may carry no extractor (it is not equipped), one that was       *)
(* stored without the fingerprint of its extractor is not checked against  *)
(* an extractor that comes with a request, and a damaged file may have     *)
(* been announced as saved.  A client that breaks a rule is promised       *)
(* nothing from then on.                                                   *)
(***************************************************************************)
CONSTANTS Handles, Paths, Fes, Corpora, LegacyCorpora, TrainedVersion, Default, Null

VARIABLES
  held,    \* the model behind each handle
  shelf,   \* the model in each file
  answer,  \* to the last request
  honest   \* whether every request so far kept to the rules

catalog == <<held, shelf, answer, honest>>

WeightsOf(c, f) == [corpus |-> c, trainedOn |-> f]

Damaged == [kind |-> "damaged", weights |-> Null]

\* An answer names the request it belongs to
Answer(request, ok, p) ==
  [request |-> request, ok |-> ok, path |-> p, own |-> FALSE,
   weights |-> Null, fe |-> Null]

OpenAnswer(p, fe, ok) ==
  [request |-> "load_pure", ok |-> ok, path |-> p, own |-> FALSE,
   weights |-> Null, fe |-> fe]

\* The extractor is the one the features are, or would be, computed with
PredictAnswer(w, fe, own, ok) ==
  [request |-> "extract", ok |-> ok, path |-> Null, own |-> own,
   weights |-> w, fe |-> fe]

Init ==
  /\ held = [h \in Handles |-> Null]
  /\ shelf = [p \in Paths |-> Null]
  /\ answer = Answer("none", TRUE, Null)
  /\ honest = TRUE

-----------------------------------------------------------------------------
Holds(h, w, equipped, checked) ==
  held' = [held EXCEPT ![h] =
             [weights |-> w, equipped |-> equipped, checked |-> checked]]

Learn(h, c, f) ==
  /\ held[h] = Null
  /\ Holds(h, WeightsOf(c, f), TRUE, TrainedVersion = 1)
  /\ answer' = Answer("train", TRUE, Null)
  /\ UNCHANGED shelf

Puts(p, kind, w) ==
  /\ \/ /\ shelf' = [shelf EXCEPT ![p] = [kind |-> kind, weights |-> w]]
        /\ answer' = Answer("save", TRUE, p)
     \/ /\ shelf' = [shelf EXCEPT ![p] = Damaged]
        /\ \E ok \in BOOLEAN : answer' = Answer("save", ok, p)
     \/ /\ UNCHANGED shelf
        /\ answer' = Answer("save", FALSE, p)
  /\ UNCHANGED held

Store(p, h, kind) ==
  /\ held[h] # Null
  /\ held[h].equipped
  /\ Puts(p, kind, held[h].weights)

Publish(p, c, f) == Puts(p, "unstamped", WeightsOf(c, f))

OnShelf(p, kinds) == shelf[p] # Null /\ shelf[p].kind \in kinds

PureKinds == {"stamped", "unstamped"}

OpenFull(h, p) ==
  /\ held[h] = Null
  /\ \/ /\ OnShelf(p, {"full"})
        /\ Holds(h, shelf[p].weights, TRUE, FALSE)
        /\ answer' = Answer("load", TRUE, p)
     \/ /\ ~OnShelf(p, {"full"})
        /\ answer' = Answer("load", FALSE, p)
        /\ UNCHANGED held
  /\ UNCHANGED shelf

OpenBare(h, p) ==
  /\ held[h] = Null
  /\ \/ /\ OnShelf(p, PureKinds)
        /\ Holds(h, shelf[p].weights, FALSE, shelf[p].kind = "stamped")
        /\ answer' = OpenAnswer(p, Default, TRUE)
     \/ /\ ~OnShelf(p, PureKinds)
        /\ answer' = OpenAnswer(p, Default, FALSE)
        /\ UNCHANGED held
  /\ UNCHANGED shelf

Fits(p, f) == OnShelf(p, PureKinds) /\ shelf[p].weights.trainedOn = f

OpenWith(h, p, f) ==
  /\ held[h] = Null
  /\ \/ /\ Fits(p, f)
        /\ Holds(h, shelf[p].weights, TRUE, shelf[p].kind = "stamped")
        /\ answer' = OpenAnswer(p, f, TRUE)
     \/ /\ ~Fits(p, f)
        /\ answer' = OpenAnswer(p, f, FALSE)
        /\ UNCHANGED held
  /\ UNCHANGED shelf

\* A model that is neither equipped nor checked is not to be asked
Predict(h) ==
  /\ held[h] # Null
  /\ held[h].equipped \/ held[h].checked
  /\ LET w == held[h].weights
     IN  answer' = IF held[h].equipped
                   THEN PredictAnswer(w, w.trainedOn, TRUE, TRUE)
                   ELSE PredictAnswer(w, Default, TRUE, FALSE)
  /\ UNCHANGED <<held, shelf>>

PredictWith(h, f) ==
  /\ held[h] # Null
  /\ LET w == held[h].weights
     IN  answer' = PredictAnswer(w, f, FALSE, held[h].checked => f = w.trainedOn)
  /\ UNCHANGED <<held, shelf>>

Discard(h) ==
  /\ held[h] # Null
  /\ held' = [held EXCEPT ![h] = Null]
  /\ answer' = Answer("free", TRUE, Null)
  /\ UNCHANGED shelf

-----------------------------------------------------------------------------
Request ==
  \/ \E h \in Handles, c \in Corpora, f \in Fes : Learn(h, c, f)
  \/ \E p \in Paths, c \in LegacyCorpora, f \in Fes : Publish(p, c, f)
  \/ \E p \in Paths, h \in Handles, kind \in {"full", "stamped"} : Store(p, h, kind)
  \/ \E h \in Handles, p \in Paths : OpenFull(h, p) \/ OpenBare(h, p)
  \/ \E h \in Handles, p \in Paths, f \in Fes \cup {Null} : OpenWith(h, p, f)
  \/ \E h \in Handles : Predict(h) \/ Discard(h)
  \/ \E h \in Handles, f \in Fes : PredictWith(h, f)

Next ==
  \/ honest /\ honest' = TRUE /\ Request
  \/ honest' = FALSE

Spec == Init /\ [][Next]_catalog
=============================================================================
