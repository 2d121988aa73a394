------------------------------ MODULE ConllFile -------------------------------
(* A CoNLL file on its way through conll_parser.cpp: parse_conll_data() reads it *)
(* line by line, a sentence ends at an empty line, the labels of a sentence may  *)
(* be converted to BILOU and back (module ConllLabels), and print_conll_data()   *)
(* writes a file again. Tokens are known by their labels and places. A line has  *)
(* four columns, the last of which is the label; the copy with extra labels has  *)
(* five.                                                                         *)
EXTENDS ConllLabels, Sequences

CONSTANTS
    Files,      \* the files to begin with: sequences of lines
    MaxReads    \* how often a file is read (bound)

VARIABLES
    file, line,     \* the file and the number of the line to read
    sentence,       \* the sentence under way in parse_conll_data()
    result,         \* its sentences
    reader,         \* "reading", "read", or "failed" with an exception
    taken,          \* the sentence whose labels are converted, 0 for none
    printed,        \* history: the sentences last printed
    reads           \* how many files were read

fileVars == <<file, line, sentence, result, reader, taken, printed, reads>>

TokenLine(label) == [columns |-> 4, label |-> label]
EmptyLine == [columns |-> 0, label |-> O]
TwoLabels(label) == [columns |-> 5, label |-> label]

ASSUME FileAssumption ==
    /\ MaxReads \in Nat
    /\ Files \subseteq Seq([columns : Nat, label : BILOULabels])

FileInit ==
    /\ file \in Files
    /\ line = 1
    /\ sentence = <<>> /\ result = <<>> /\ printed = <<>>
    /\ reader = "reading" /\ taken = 0 /\ reads = 1
    /\ original = <<>> /\ Start

-------------------------------------------------------------------------------
(* parse_conll_data(), one line: lookup_conll_label() knows O, B and I only.     *)
AtLine == reader = "reading" /\ line <= Len(file)

ReadTokenLine ==
    /\ AtLine
    /\ file[line].columns = 4 /\ file[line].label \in BIOLabels
    /\ sentence' = Append(sentence, file[line].label)
    /\ line' = line + 1
    /\ UNCHANGED <<file, result, reader, taken, printed, reads, vars>>

ReadEmptyLine ==
    /\ AtLine
    /\ file[line].columns = 0
    /\ result' = Append(result, sentence)
    /\ sentence' = <<>>
    /\ line' = line + 1
    /\ UNCHANGED <<file, reader, taken, printed, reads, vars>>

ReadThrows ==
    /\ AtLine
    /\ \/ file[line].columns \notin {0, 4}
       \/ file[line].columns = 4 /\ file[line].label \notin BIOLabels
    /\ reader' = "failed"
    /\ UNCHANGED <<file, line, sentence, result, taken, printed, reads, vars>>

(* What has not ended with an empty line is forgotten.                           *)
EndOfFile ==
    /\ reader = "reading" /\ line > Len(file)
    /\ reader' = "read"
    /\ UNCHANGED <<file, line, sentence, result, taken, printed, reads, vars>>

-------------------------------------------------------------------------------
(* A client takes the labels of a sentence, converts them, and puts them back.   *)
TakeLabels(n) ==
    /\ reader = "read" /\ taken = 0
    /\ taken' = n
    /\ original' = result[n] /\ labels' = result[n]
    /\ phase' = "BIO" /\ i' = 1
    /\ UNCHANGED <<file, line, sentence, result, reader, printed, reads>>

Convert ==
    /\ taken # 0
    /\ Next
    /\ UNCHANGED fileVars

WithLabels == IF taken = 0 THEN result ELSE [result EXCEPT ![taken] = labels]

LinesWithoutLast(sentences) ==
    LET tokens(s) == [n \in 1..Len(s) |-> TokenLine(s[n])]
        lines[n \in 0..Len(sentences)] ==
            IF n = 0 THEN <<>>
            ELSE lines[n - 1] \o (IF n = 1 THEN <<>> ELSE <<EmptyLine>>) \o tokens(sentences[n])
    IN  lines[Len(sentences)]

(* print_conll_data(): an empty line after each sentence.                        *)
Lines(sentences) ==
    LET tokens(s) == [n \in 1..Len(s) |-> TokenLine(s[n])]
        lines[n \in 0..Len(sentences)] ==
            IF n = 0 THEN <<>>
            ELSE lines[n - 1] \o tokens(sentences[n]) \o <<EmptyLine>>
    IN  lines[Len(sentences)]

(* With extra labels there is one column more.                                   *)
LinesWithExtra(sentences) ==
    LET plain == Lines(sentences)
    IN  [n \in 1..Len(plain) |-> IF plain[n] = EmptyLine THEN EmptyLine ELSE TwoLabels(plain[n].label)]

(* What was printed is a file, and may be read.                                  *)
PrintConllData(lines) ==
    /\ reader = "read" /\ phase \in {"BIO", "BILOU"} /\ reads < MaxReads
    /\ file' = lines
    /\ printed' = WithLabels
    /\ line' = 1 /\ sentence' = <<>> /\ result' = <<>>
    /\ reader' = "reading" /\ reads' = reads + 1 /\ taken' = 0
    /\ original' = <<>> /\ labels' = <<>> /\ phase' = "BIO" /\ i' = 1

FileNext ==
    \/ ReadTokenLine \/ ReadEmptyLine \/ ReadThrows \/ EndOfFile
    \/ \E n \in 1..Len(result) : TakeLabels(n)
    \/ Convert
    \/ PrintConllData(Lines(WithLabels)) \/ PrintConllData(LinesWithExtra(WithLabels))

FileSpec == FileInit /\ [][FileNext]_<<fileVars, vars>>
-------------------------------------------------------------------------------
(* The loop of convert_sentence(): from the first token of a chunk to the end of *)
(* the tokens that have an I of its kind.                                        *)
EndOfChunk(l, j) ==
    CHOOSE k \in j..Len(l) :
        /\ \A m \in (j + 1)..k : l[m] = To("I", l[j])
        /\ k < Len(l) => l[k + 1] # To("I", l[j])

ConvertSentence(l) ==
    LET from[j \in 1..(Len(l) + 1)] ==
            IF j > Len(l) THEN {}
            ELSE IF l[j] = O THEN from[j + 1]
            ELSE {[first |-> j, last |-> EndOfChunk(l, j), kind |-> l[j].kind]}
                     \cup from[EndOfChunk(l, j) + 1]
    IN  from[1]

(* What was printed, after conversions or none, reads back as the sentences it   *)
(* was printed from, each with the chunks convert_sentence() finds: unless there *)
(* were extra labels, or labels still in BILOU, of which parse_conll_data()      *)
(* takes none.                                                                   *)
PrintedFileReadsBack ==
    reads > 1 =>
        LET plain == /\ \A n \in DOMAIN file : file[n].columns # 5
                     /\ \A n \in DOMAIN printed : \A j \in DOMAIN printed[n] :
                            printed[n][j] \in BIOLabels
        IN  /\ reader = "failed" => ~plain
            /\ reader = "read" =>
                   /\ plain \/ \A n \in DOMAIN printed : printed[n] = <<>>
                   /\ Len(result) = Len(printed)
                   /\ \A n \in DOMAIN result : ConvertSentence(result[n]) = Chunks(printed[n])
===============================================================================
