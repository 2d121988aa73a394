--------------------------- MODULE ConllTokenizer ---------------------------
(***************************************************************************)
(* How text becomes tokens.  conll_tokenizer reads a stream byte by byte   *)
(* and splits what it got once more at the UTF-8 quotes, keeping the       *)
(* second half for the next call; unigram_tokenizer hides its digits;      *)
(* group_tokenizer runs it over a list of files, as often as reset() is    *)
(* called.  mitie_tokenize_with_offsets() is the case of one file.         *)
(*                                                                         *)
(* Files stay what they are between passes.  One that cannot be opened is  *)
(* an empty one.                                                           *)
(***************************************************************************)
EXTENDS Naturals, Sequences, SequencesExt

CONSTANTS
  Bytes,      \* the bytes a file may have
  Corpora,    \* the sequences of files to read, each a sequence of bytes
  MaxPasses   \* bound on the passes over a corpus

EOF == "EOF"

ASSUME TokenizerAssumption ==
  /\ EOF \notin Bytes
  /\ Corpora \subseteq Seq(Seq(Bytes))
  /\ MaxPasses \in Nat \ {0}

\* Bytes.  "a", "A" and "9" are a lower and an upper case letter and a digit,
\* "(" is any character that is always a token, " " any of the four blanks.
Space == " "
Stops == {"(", ".", ","}
OpenQuote == <<"E2", "80", "9C">>
CloseQuote == <<"E2", "80", "9D">>
Apostrophe == <<"E2", "80", "99">>

NoFile == 0

VARIABLES
  files,           \* the files of the corpus
  nextFile,        \* group_tokenizer: next_file, from 1
  in,              \* conll_tokenizer: the file it reads, or NoFile
  offset,          \* current_stream_offset
  token,           \* the token being read
  tokenOffset,     \* and where it starts
  nextToken,       \* next_token: the second half of the last one
  nextTokenOffset,
  padding,         \* next_token_front_padding
  pc,              \* "idle", "call", "scan", "split", "none" or "over"
  passes           \* history: what was delivered in each pass

vars == <<files, nextFile, in, offset, token, tokenOffset, nextToken, nextTokenOffset,
          padding, pc, passes>>

-----------------------------------------------------------------------------

Init ==
  /\ files \in Corpora
  /\ nextFile = 1
  /\ in = NoFile
  /\ offset = 0
  /\ token = <<>> /\ tokenOffset = 0
  /\ nextToken = <<>> /\ nextTokenOffset = 0
  /\ padding = 0
  /\ pc = "idle"
  /\ passes = << <<>> >>

\* in->peek() when `ahead' more bytes have been read
Peek(ahead) ==
  IF offset + ahead < Len(files[in]) THEN files[in][offset + ahead + 1] ELSE EOF

\* operator() of group_tokenizer
Ask ==
  /\ pc \in {"idle", "over"}
  /\ pc' = "call"
  /\ UNCHANGED <<files, nextFile, in, offset, token, tokenOffset, nextToken, nextTokenOffset,
                 padding, passes>>

-----------------------------------------------------------------------------
(* get_next_token() *)

TakeSecondHalf ==
  /\ pc = "call"
  /\ nextToken # <<>>
  /\ token' = nextToken
  /\ tokenOffset' = nextTokenOffset
  /\ nextToken' = <<>>
  /\ pc' = "split"
  /\ UNCHANGED <<files, nextFile, in, offset, nextTokenOffset, padding, passes>>

StartToken ==
  /\ pc = "call"
  /\ nextToken = <<>>
  /\ token' = <<>>
  /\ tokenOffset' = offset
  /\ pc' = IF in = NoFile THEN "none" ELSE "scan"
  /\ UNCHANGED <<files, nextFile, in, offset, nextToken, nextTokenOffset, padding, passes>>

\* The byte at hand goes on, ends or makes a token.
EndsAbbreviation ==
  /\ Peek(0) = "."
  /\ Len(token) = 1 \/ "." \in {token[i] : i \in {Len(token) - 1, Len(token)} \ {0}}

EndsTitle == Peek(0) = "." /\ token = <<"A", "a">>

InNumber == Peek(0) \in {",", "."} /\ Last(token) = "9"

IsNoBreakSpace == Peek(0) = "C2" /\ Peek(1) = "A0"

Continues ==
  CASE Peek(0) = "'"     -> token = <<>>
    [] Peek(0) \in Stops -> token # <<>> /\ (EndsAbbreviation \/ (~EndsTitle /\ InNumber))
    [] Peek(0) = Space   -> FALSE
    [] Peek(0) = EOF     -> FALSE
    [] OTHER             -> ~IsNoBreakSpace

Consume(n) == offset' = offset + n

AddByte ==
  /\ pc = "scan"
  /\ Continues
  /\ token' = Append(token, Peek(0))
  /\ Consume(1)
  /\ UNCHANGED <<files, nextFile, in, tokenOffset, nextToken, nextTokenOffset, padding, pc, passes>>

StopAlone ==
  /\ pc = "scan"
  /\ token = <<>>
  /\ Peek(0) \in Stops
  /\ token' = <<Peek(0)>>
  /\ Consume(1)
  /\ pc' = "split"
  /\ UNCHANGED <<files, nextFile, in, tokenOffset, nextToken, nextTokenOffset, padding, passes>>

\* Mutant: the stop is read, not left
EndTokenConsumes ==
  /\ pc = "scan"
  /\ token # <<>>
  /\ ~Continues
  /\ Peek(0) \in Stops \cup {"'", EOF}
  /\ ~(EndsTitle /\ ~EndsAbbreviation)
  /\ Consume(IF Peek(0) = EOF THEN 0 ELSE 1)
  /\ pc' = "split"
  /\ UNCHANGED <<files, nextFile, in, token, tokenOffset, nextToken, nextTokenOffset,
                 padding, passes>>

\* A stop or ' that is left for the next token, or the end of the file
EndToken ==
  /\ pc = "scan"
  /\ token # <<>>
  /\ ~Continues
  /\ Peek(0) \in Stops \cup {"'", EOF}
  /\ ~(EndsTitle /\ ~EndsAbbreviation)
  /\ pc' = "split"
  /\ UNCHANGED <<files, nextFile, in, offset, token, tokenOffset, nextToken, nextTokenOffset,
                 padding, passes>>

\* Jr.
DropPeriod ==
  /\ pc = "scan"
  /\ EndsTitle /\ ~EndsAbbreviation
  /\ Consume(1)
  /\ pc' = "split"
  /\ UNCHANGED <<files, nextFile, in, token, tokenOffset, nextToken, nextTokenOffset,
                 padding, passes>>

BlankWidth == IF Peek(0) = Space THEN 1 ELSE IF IsNoBreakSpace THEN 2 ELSE 0

SkipBlank ==
  /\ pc = "scan"
  /\ BlankWidth > 0
  /\ Consume(BlankWidth)
  /\ IF token = <<>>
     THEN tokenOffset' = tokenOffset + BlankWidth /\ UNCHANGED pc
     ELSE pc' = "split" /\ UNCHANGED tokenOffset
  /\ UNCHANGED <<files, nextFile, in, token, nextToken, nextTokenOffset, padding, passes>>

NoToken ==
  /\ pc = "scan"
  /\ token = <<>>
  /\ Peek(0) = EOF
  /\ pc' = "none"
  /\ UNCHANGED <<files, nextFile, in, offset, token, tokenOffset, nextToken, nextTokenOffset,
                 padding, passes>>

-----------------------------------------------------------------------------
(* operator() of conll_tokenizer and what is around it *)

StartsWithQuote == Len(token) >= 4 /\ SubSeq(token, 1, 3) = OpenQuote

EndsWithQuote == Len(token) >= 4 /\ SubSeq(token, Len(token) - 2, Len(token)) = CloseQuote

\* Where a quote that is not the first byte of the token starts
Apostrophes == {i \in 2 .. Len(token) - 2 : SubSeq(token, i, i + 2) = Apostrophe}

\* convert_numbers()
Unigram(bytes) == [i \in DOMAIN bytes |-> IF bytes[i] = "9" THEN "#" ELSE bytes[i]]

\* A token is returned to who asked for it.
Deliver(bytes) ==
  /\ passes' = [passes EXCEPT ![Len(passes)] =
                  Append(@, [file |-> in, at |-> tokenOffset, bytes |-> Unigram(bytes)])]
  /\ pc' = "idle"
  /\ token' = bytes
  /\ UNCHANGED <<files, nextFile, in, offset, tokenOffset>>

SplitAfterQuote ==
  /\ pc = "split"
  /\ StartsWithQuote
  /\ nextTokenOffset' = tokenOffset + 3
  /\ nextToken' = SubSeq(token, 4, Len(token))
  /\ padding' = 0
  /\ Deliver(OpenQuote)

SplitBeforeQuote ==
  /\ pc = "split"
  /\ ~StartsWithQuote
  /\ EndsWithQuote
  /\ nextTokenOffset' = tokenOffset + Len(token) - 3
  /\ nextToken' = CloseQuote
  /\ padding' = 0
  /\ Deliver(SubSeq(token, 1, Len(token) - 3))

\* Mutant: the bytes dropped from the front of the token are not counted
SplitUnpadded ==
  /\ pc = "split"
  /\ ~StartsWithQuote
  /\ ~EndsWithQuote
  /\ \E i \in Apostrophes :
       /\ \A j \in Apostrophes : i <= j
       /\ nextTokenOffset' = tokenOffset + i - 1
       /\ nextToken' = <<"'">> \o SubSeq(token, i + 3, Len(token))
       /\ Deliver(SubSeq(token, 1, i - 1))
  /\ padding' = 2

\* The quote becomes an ASCII one, two bytes shorter.
SplitAtApostrophe ==
  /\ pc = "split"
  /\ ~StartsWithQuote
  /\ ~EndsWithQuote
  /\ \E i \in Apostrophes :
       /\ \A j \in Apostrophes : i <= j
       /\ nextTokenOffset' = tokenOffset + i - 1 + padding
       /\ nextToken' = <<"'">> \o SubSeq(token, i + 3, Len(token))
       /\ Deliver(SubSeq(token, 1, i - 1))
  /\ padding' = 2

\* Mutant: a padding is kept for the next split
WholeKeepsPadding ==
  /\ pc = "split"
  /\ ~StartsWithQuote
  /\ ~EndsWithQuote
  /\ Apostrophes = {}
  /\ Deliver(token)
  /\ UNCHANGED <<nextToken, nextTokenOffset, padding>>

Whole ==
  /\ pc = "split"
  /\ ~StartsWithQuote
  /\ ~EndsWithQuote
  /\ Apostrophes = {}
  /\ padding' = 0
  /\ Deliver(token)
  /\ UNCHANGED <<nextToken, nextTokenOffset>>

\* tok = fin
OpenFile ==
  /\ pc = "none"
  /\ nextFile <= Len(files)
  /\ in' = nextFile
  /\ nextFile' = nextFile + 1
  /\ offset' = 0
  /\ nextToken' = <<>>
  /\ padding' = 0
  /\ pc' = "call"
  /\ UNCHANGED <<files, token, tokenOffset, nextTokenOffset, passes>>

NoMoreTokens ==
  /\ pc = "none"
  /\ nextFile > Len(files)
  /\ padding' = 0
  /\ pc' = "over"
  /\ UNCHANGED <<files, nextFile, in, offset, token, tokenOffset, nextToken, nextTokenOffset, passes>>

\* Mutant: the tokenizer is not replaced
ResetListOnly ==
  /\ pc \in {"idle", "over"}
  /\ Len(passes) < MaxPasses
  /\ nextFile' = 1
  /\ pc' = "idle"
  /\ passes' = Append(passes, <<>>)
  /\ UNCHANGED <<files, in, offset, token, tokenOffset, nextToken, nextTokenOffset, padding>>

\* tok = basic_tokenizer()
Reset ==
  /\ pc \in {"idle", "over"}
  /\ Len(passes) < MaxPasses
  /\ nextFile' = 1
  /\ in' = NoFile
  /\ offset' = 0
  /\ nextToken' = <<>>
  /\ padding' = 0
  /\ pc' = "idle"
  /\ passes' = Append(passes, <<>>)
  /\ UNCHANGED <<files, token, tokenOffset, nextTokenOffset>>

Next ==
  \/ Ask
  \/ TakeSecondHalf \/ StartToken
  \/ AddByte \/ StopAlone \/ EndToken \/ DropPeriod \/ SkipBlank \/ NoToken
  \/ SplitAfterQuote \/ SplitBeforeQuote \/ SplitAtApostrophe \/ Whole
  \/ OpenFile \/ NoMoreTokens
  \/ Reset

Spec == Init /\ [][Next]_vars

-----------------------------------------------------------------------------
(* Properties *)

Delivered == UNION {Range(pass) : pass \in Range(passes)}

\* A token that starts with ' where the text has the longer quote
WasApostrophe(t) == t.bytes[1] = "'" /\ files[t.file][t.at + 1] = "E2"

Width(t) == Len(t.bytes) + (IF WasApostrophe(t) THEN 2 ELSE 0)

Span(t) == t.at + 1 .. t.at + Width(t)

\* The text of a token, with the quote and digits read as the tokenizers do
Text(t) ==
  LET bytes == SubSeq(files[t.file], t.at + 1, t.at + Width(t))
  IN  Unigram(IF WasApostrophe(t) THEN <<"'">> \o SubSeq(bytes, 4, Len(bytes)) ELSE bytes)

\* The convention at the end of conll_tokenizer.h: the stream is at offset, and
\* a second half comes from what was read, with a padding only if it starts
\* with a shortened quote.
TypeOK ==
  /\ nextFile \in 1 .. Len(files) + 1
  /\ in \in 0 .. Len(files)
  /\ in # NoFile => offset <= Len(files[in])
  /\ padding \in {0, 2}
  /\ padding = 2 /\ pc # "split" => nextToken # <<>> /\ nextToken[1] = "'"
  /\ nextToken # <<>> => in # NoFile /\ nextTokenOffset + Len(nextToken) + padding <= offset

\* A token is what the text has at its offset, but for the quote that became '
\* and the digits that became #: quotes, periods, blanks of both widths and
\* second halves included, no offset is off.
OffsetsAreRight ==
  \A t \in Delivered : t.bytes # <<>> /\ Text(t) = t.bytes

\* The bytes of a file that may be in no token: blanks, and the period of a title
MayBeDropped(f, p) ==
  LET text == files[f]
  IN  \/ text[p] = Space
      \/ text[p] = "C2" /\ p < Len(text) /\ text[p + 1] = "A0"
      \/ text[p] = "A0" /\ p > 1 /\ text[p - 1] = "C2"
      \/ text[p] = "." /\ p > 2 /\ text[p - 2] = "A" /\ text[p - 1] = "a"

\* Nothing else is lost, also not between files, and nothing is read twice:
\* in a pass the tokens come in the order of the text, a token ends before the
\* next starts, and what lies between them, up to the end of a file that was
\* left, may be dropped.
NothingIsLost ==
  \A pass \in Range(passes) :
    /\ \A i \in 1 .. Len(pass) - 1 :
         \/ pass[i].file < pass[i + 1].file
         \/ /\ pass[i].file = pass[i + 1].file
            /\ pass[i].at + Width(pass[i]) <= pass[i + 1].at
    /\ \A i \in 1 .. Len(pass) : \A f \in 1 .. pass[i].file :
         \A p \in 1 .. (IF f = pass[i].file THEN pass[i].at ELSE Len(files[f])) :
           \/ MayBeDropped(f, p)
           \/ \E j \in 1 .. i - 1 : pass[j].file = f /\ p \in Span(pass[j])

\* After reset(), wherever the last pass stopped, the same tokens come again
\* from the start: get_top_word_counts() counts in one pass and chooses in the
\* next, and the words must be the same.
PassesAreAlike ==
  \A p, q \in Range(passes) : IsPrefix(p, q) \/ IsPrefix(q, p)

=============================================================================
