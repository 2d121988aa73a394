----------------------------- MODULE MCConllFile ------------------------------
(* Files of up to three lines of any kind, two labels among them that no reader  *)
(* takes, and of one sentence of up to five tokens of two kinds with its empty   *)
(* line; printed and read again.                                                 *)
EXTENDS ConllFile, SequencesExt

MCSizes == 0..5

MCLines ==
    {TokenLine(l) : l \in BIOLabels} \cup {EmptyLine, TwoLabels(O)}
        \cup {TokenLine([pos |-> "L", kind |-> k]) : k \in Kinds}

MCFiles ==
    BoundedSeq(MCLines, 3)
        \cup {Append([n \in 1..Len(s) |-> TokenLine(s[n])], EmptyLine) : s \in BoundedSeq(BIOLabels, 5)}
        \cup {[n \in 1..Len(s) |-> TokenLine(s[n])] \o <<EmptyLine>> \o <<TokenLine(l), EmptyLine>> :
                 s \in BoundedSeq(BIOLabels, 2), l \in BIOLabels}
===============================================================================
