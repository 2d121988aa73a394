------------------------ MODULE MCRelationDetectors -------------------------
(***************************************************************************)
(* RelationDetectors and RelationWindow for TLC.  The two share no         *)
(* variable, so each is followed from the initial states of the other:     *)
(* the lives of objects while one call is still with its client, and the   *)
(* way of every call before there are objects.  Sentences have room for    *)
(* more than the largest window on every side of two arguments:            *)
(* 6 + 1 + 1 + 1 + 6 tokens.                                               *)
(***************************************************************************)
EXTENDS RelationDetectors, RelationWindow, TLC

MCSizes == 2 .. 15

Symmetry == Permutations(Handles) \cup Permutations(Fes)

\* The call that waits while objects come and go
WaitingCall ==
  /\ sentence = [size |-> 2, arg1 |-> Span(0, 1), arg2 |-> Span(1, 2)]
  /\ stage = "client"

RelationsInit == RelInit /\ WindowInit

RelationsNext ==
  \/ RelNext /\ WaitingCall /\ UNCHANGED windowVars
  \/ WindowNext /\ RelInit /\ UNCHANGED allVars

RelationsSpec == RelationsInit /\ [][RelationsNext]_<<allVars, windowVars>>
=============================================================================
