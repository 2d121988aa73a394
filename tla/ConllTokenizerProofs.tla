------------------------ MODULE ConllTokenizerProofs ------------------------
(***************************************************************************)
(* For every text, of any bytes: the offsets of tokens are right, and      *)
(* nothing is lost between them.  A token, whole or a half, is read as a   *)
(* piece of the text (Piece); splitting pieces gives pieces, and what lies *)
(* between two of them may be dropped.                                     *)
(***************************************************************************)
EXTENDS ConllTokenizer, SequenceTheorems, WellFoundedInduction, TLAPS

\* What a token is made of: a quote may become '
AllBytes == Bytes \cup {"'"}

(* The bytes s are what the text has after its first `at' bytes; with a    *)
(* padding, the quote that is there has become a '.                        *)
Piece(text, at, pad, s) ==
  /\ at + pad + Len(s) <= Len(text)
  /\ \A k \in 1 .. Len(s) : k > 1 \/ pad = 0 => s[k] = text[at + pad + k]
  /\ pad = 2 => s # <<>> /\ s[1] = "'" /\ text[at + 1] = "E2"

Blank(text, p) ==
  \/ text[p] = Space
  \/ text[p] = "C2" /\ p < Len(text) /\ text[p + 1] = "A0"
  \/ text[p] = "A0" /\ p > 1 /\ text[p - 1] = "C2"
  \/ text[p] = "." /\ p > 2 /\ text[p - 2] = "A" /\ text[p - 1] = "a"

OnlyBlanks(text, from, to) == \A p \in from + 1 .. to : Blank(text, p)

EndsInQuote(s) ==
  Len(s) >= 4 /\ s[Len(s) - 2] = "E2" /\ s[Len(s) - 1] = "80" /\ s[Len(s)] = "9D"

(* A piece behind which the text was read up to `end'.  A token is split at *)
(* a quote at its end first: what is left after a ' has none.              *)
Taken(text, at, pad, s, end) ==
  /\ Piece(text, at, pad, s)
  /\ pad = 2 => ~EndsInQuote(s)
  /\ at + pad + Len(s) <= end
  /\ OnlyBlanks(text, at + pad + Len(s), end)

-----------------------------------------------------------------------------
(* The state of the two tokenizers: how the token, the half that waits and *)
(* the stream are related to the text, at every point of the loop.         *)

TokenTypes ==
  /\ files \in Seq(Seq(Bytes))
  /\ in \in 0 .. Len(files) /\ nextFile = in + 1
  /\ offset \in Nat /\ tokenOffset \in Nat /\ nextTokenOffset \in Nat
  /\ padding \in {0, 2}
  /\ token \in Seq(AllBytes) /\ nextToken \in Seq(AllBytes)
  /\ pc \in {"idle", "call", "scan", "split", "none", "over"}

StreamIsRead ==
  /\ in # NoFile => offset <= Len(files[in])
  /\ in # NoFile /\ pc \in {"none", "over"} => offset = Len(files[in])

TokenIsRead ==
  pc \in {"scan", "split"} =>
    /\ in # NoFile /\ nextToken = <<>>
    /\ pc = "scan" => /\ tokenOffset + Len(token) = offset
                      /\ Piece(files[in], tokenOffset, 0, token)
    /\ pc = "split" => /\ token # <<>>
                       /\ Taken(files[in], tokenOffset, padding, token, offset)

HalfWaits ==
  nextToken # <<>> => /\ in # NoFile /\ pc \in {"idle", "call"}
                      /\ Taken(files[in], nextTokenOffset, padding, nextToken, offset)

PaddingIsCurrent == nextToken = <<>> /\ pc # "split" => padding = 0

TokenInv == TokenTypes /\ StreamIsRead /\ TokenIsRead /\ HalfWaits /\ PaddingIsCurrent

-----------------------------------------------------------------------------
(* What was delivered.  A pass is right if each token is what the text has  *)
(* there, they are in order and nothing is lost between them; the one that *)
(* is under way has accounted for the text up to where the next token can  *)
(* start.                                                                  *)

Token == [file : Nat, at : Nat, bytes : Seq(AllBytes \cup {"#"})]

Shortened(fs, t) == t.bytes[1] = "'" /\ fs[t.file][t.at + 1] = "E2"

End(fs, t) == t.at + (Len(t.bytes) + (IF Shortened(fs, t) THEN 2 ELSE 0))

TextAt(fs, t) ==
  LET bytes == SubSeq(fs[t.file], t.at + 1, End(fs, t))
  IN  Unigram(IF Shortened(fs, t) THEN <<"'">> \o SubSeq(bytes, 4, Len(bytes)) ELSE bytes)

OffsetIsRight(fs, t) ==
  /\ t.file \in 1 .. Len(fs) /\ End(fs, t) <= Len(fs[t.file])
  /\ t.bytes # <<>> /\ TextAt(fs, t) = t.bytes

Accounted(fs, pass, n, f, p) ==
  Blank(fs[f], p) \/ \E j \in 1 .. n : pass[j].file = f /\ p \in pass[j].at + 1 .. End(fs, pass[j])

InOrder(fs, pass) ==
  \A i \in 1 .. Len(pass) - 1 :
    \/ pass[i].file < pass[i + 1].file
    \/ pass[i].file = pass[i + 1].file /\ End(fs, pass[i]) <= pass[i + 1].at

\* Up to byte `to' of file `last' there is nothing but blanks and the first n tokens.
Reached(fs, pass, n, last, to) ==
  \A f \in 1 .. last : \A p \in 1 .. (IF f = last THEN to ELSE Len(fs[f])) :
    Accounted(fs, pass, n, f, p)

RightPass(fs, pass) ==
  /\ pass \in Seq(Token)
  /\ \A i \in 1 .. Len(pass) : OffsetIsRight(fs, pass[i])
  /\ InOrder(fs, pass)
  /\ \A i \in 1 .. Len(pass) : Reached(fs, pass, i - 1, pass[i].file, pass[i].at)

UpTo(fs, pass, last, to) ==
  /\ \A i \in 1 .. Len(pass) :
       \/ pass[i].file < last
       \/ pass[i].file = last /\ End(fs, pass[i]) <= to
  /\ Reached(fs, pass, Len(pass), last, to)

\* Where the next token can start
Frontier ==
  IF nextToken # <<>> THEN nextTokenOffset
  ELSE IF pc \in {"scan", "split"} THEN tokenOffset ELSE offset

PassInv ==
  /\ passes \in Seq(Seq(Token)) /\ passes # <<>>
  /\ \A n \in 1 .. Len(passes) : RightPass(files, passes[n])
  /\ UpTo(files, passes[Len(passes)], in, Frontier)

-----------------------------------------------------------------------------
(* Pieces of pieces *)

IsRest(s, m, rest, S) ==
  /\ rest \in Seq(S) /\ Len(rest) = Len(s) - m + 1
  /\ \A k \in 1 .. Len(s) - m + 1 : rest[k] = s[m + k - 1]

LEMMA RestIsRest ==
  ASSUME NEW S, NEW s \in Seq(S), NEW m \in 1 .. Len(s) + 1
  PROVE  IsRest(s, m, SubSeq(s, m, Len(s)), S)
<1>1. \A k \in m .. Len(s) : s[k] \in S
  OBVIOUS
<1>. QED BY <1>1, SubSeqProperties DEF IsRest

LEMMA PieceGrows ==
  ASSUME NEW S, NEW text \in Seq(S), NEW s \in Seq(S), NEW at \in Nat,
         Piece(text, at, 0, s), at + Len(s) < Len(text)
  PROVE  Piece(text, at, 0, Append(s, text[at + Len(s) + 1]))
<1>1. at + Len(s) + 1 \in 1 .. Len(text) /\ text[at + Len(s) + 1] \in S
  OBVIOUS
<1> DEFINE x == text[at + Len(s) + 1]
           t == Append(s, x)
<1>2. x \in S /\ x = text[at + Len(s) + 1]
  BY <1>1
<1> HIDE DEF x
<1>3. /\ Len(t) = Len(s) + 1 /\ t[Len(s) + 1] = x
      /\ \A k \in 1 .. Len(s) : t[k] = s[k]
  BY <1>2, AppendProperties
<1> HIDE DEF t
<1>4. ASSUME NEW k \in 1 .. Len(t) PROVE t[k] = text[at + k]
  <2>1. CASE k = Len(s) + 1
    BY <1>2, <1>3, <2>1
  <2>2. CASE k \in 1 .. Len(s)
    BY <1>3, <2>2 DEF Piece
  <2>. QED BY <1>3, <2>1, <2>2
<1>5. Piece(text, at, 0, t)
  BY <1>3, <1>4 DEF Piece
<1>. QED BY <1>5 DEF t, x

\* Cut off in front: the padding is gone.
CutBehind(text, at, pad, s, n) ==
  /\ SubSeq(s, n + 1, Len(s)) \in Seq(AllBytes)
  /\ Len(SubSeq(s, n + 1, Len(s))) = Len(s) - n
  /\ Piece(text, at + pad + n, 0, SubSeq(s, n + 1, Len(s)))

LEMMA PieceBack ==
  ASSUME NEW text \in Seq(AllBytes), NEW s \in Seq(AllBytes), NEW at \in Nat, NEW pad \in {0, 2},
         Piece(text, at, pad, s), NEW n \in 0 .. Len(s), n > 0 \/ pad = 0
  PROVE  CutBehind(text, at, pad, s, n)
<1> DEFINE t == SubSeq(s, n + 1, Len(s))
<1>1. IsRest(s, n + 1, t, AllBytes)
  BY RestIsRest
<1> HIDE DEF t
<1>2. t \in Seq(AllBytes) /\ Len(t) = Len(s) - n
  BY <1>1 DEF IsRest
<1>3. ASSUME NEW k \in 1 .. Len(t) PROVE t[k] = text[at + pad + n + k]
  <2>1. n + k \in 1 .. Len(s) /\ (n + k > 1 \/ pad = 0) /\ k \in 1 .. Len(s) - (n + 1) + 1
    BY <1>2
  <2>2. t[k] = s[n + 1 + k - 1] /\ n + 1 + k - 1 = n + k
    BY <1>1, <2>1 DEF IsRest
  <2>3. s[n + k] = text[at + pad + (n + k)] /\ at + pad + (n + k) = at + pad + n + k
    BY <2>1 DEF Piece
  <2>. QED BY <2>2, <2>3
<1>4. at + pad + n + 0 + Len(t) <= Len(text)
  BY <1>2 DEF Piece
<1>5. Piece(text, at + pad + n, 0, t)
  BY <1>3, <1>4 DEF Piece
<1>. QED BY <1>2, <1>5 DEF t, CutBehind

CutInFront(text, at, pad, s, n) ==
  /\ SubSeq(s, 1, n) \in Seq(AllBytes) /\ Len(SubSeq(s, 1, n)) = n
  /\ Piece(text, at, pad, SubSeq(s, 1, n))

LEMMA PieceFront ==
  ASSUME NEW text \in Seq(AllBytes), NEW s \in Seq(AllBytes), NEW at \in Nat, NEW pad \in {0, 2},
         Piece(text, at, pad, s), NEW n \in 1 .. Len(s)
  PROVE  CutInFront(text, at, pad, s, n)
<1> DEFINE t == SubSeq(s, 1, n)
<1>1. /\ t \in Seq(AllBytes) /\ Len(t) = n
      /\ \A k \in 1 .. n : t[k] = s[k]
  BY SubSeqProperties
<1> HIDE DEF t
<1>2. t[1] = s[1] /\ t # <<>>
  BY <1>1
<1>3. Piece(text, at, pad, t)
  BY <1>1, <1>2 DEF Piece
<1>. QED BY <1>1, <1>3 DEF t, CutInFront

\* Cut off at a quote in the middle, of which a ' is left
AtApostrophe(s, i) == <<"'">> \o SubSeq(s, i + 3, Len(s))

QuoteAndRest(t, u, S) ==
  /\ t \in Seq(S) /\ Len(t) = 1 + Len(u) /\ t[1] = "'"
  /\ \A k \in 2 .. 1 + Len(u) : t[k] = u[k - 1]

LEMMA QuoteBefore ==
  ASSUME NEW S, NEW u \in Seq(S), "'" \in S
  PROVE  QuoteAndRest(<<"'">> \o u, u, S)
<1> DEFINE quote == <<"'">>
           t == quote \o u
<1>1. quote \in Seq(S) /\ Len(quote) = 1 /\ quote[1] = "'"
  OBVIOUS
<1> HIDE DEF quote
<1>2. /\ t \in Seq(S) /\ Len(t) = Len(quote) + Len(u)
      /\ \A k \in 1 .. Len(quote) + Len(u) :
           t[k] = IF k <= Len(quote) THEN quote[k] ELSE u[k - Len(quote)]
  BY <1>1, ConcatProperties
<1> HIDE DEF t
<1>3. ASSUME NEW k \in 1 .. 1 + Len(u)
      PROVE  t[k] = IF k <= 1 THEN quote[k] ELSE u[k - 1]
  BY <1>1, <1>2
<1>4. t[1] = "'"
  BY <1>1, <1>3
<1>5. \A k \in 2 .. 1 + Len(u) : t[k] = u[k - 1]
  BY <1>3
<1>6. QuoteAndRest(t, u, S)
  BY <1>1, <1>2, <1>4, <1>5 DEF QuoteAndRest
<1>. QED BY <1>6 DEF t, quote

LEMMA ApostropheAndRest ==
  ASSUME NEW S, NEW s \in Seq(S), NEW i \in 2 .. Len(s) - 2, "'" \in S
  PROVE  LET t == <<"'">> \o SubSeq(s, i + 3, Len(s))
         IN  /\ t \in Seq(S) /\ Len(t) = Len(s) - i - 1 /\ t[1] = "'"
             /\ \A k \in 2 .. Len(t) : t[k] = s[i + 1 + k]
<1> DEFINE u == SubSeq(s, i + 3, Len(s))
           t == <<"'">> \o u
<1>1. /\ u \in Seq(S) /\ Len(u) = Len(s) - i - 2
      /\ \A k \in 1 .. Len(u) : u[k] = s[i + 2 + k]
  <2>1. i + 3 \in 1 .. Len(s) + 1
    OBVIOUS
  <2>2. IsRest(s, i + 3, u, S)
    BY <2>1, RestIsRest
  <2>. QED BY <2>2 DEF IsRest
<1> HIDE DEF u
<1>2. QuoteAndRest(t, u, S)
  BY <1>1, QuoteBefore
<1> HIDE DEF t
<1>3. /\ t \in Seq(S) /\ Len(t) = 1 + Len(u) /\ t[1] = "'"
      /\ \A k \in 2 .. Len(t) : t[k] = u[k - 1]
  BY <1>2 DEF QuoteAndRest
<1>4. ASSUME NEW k \in 2 .. Len(t) PROVE t[k] = s[i + 1 + k]
  <2>1. k - 1 \in 1 .. Len(u) /\ i + 2 + (k - 1) = i + 1 + k
    BY <1>1, <1>3
  <2>. QED BY <1>1, <1>3, <2>1
<1>5. Len(t) = Len(s) - i - 1
  BY <1>1, <1>3
<1>. QED BY <1>3, <1>4, <1>5 DEF t, u

CutAtApostrophe(text, at, pad, s, i) ==
  /\ AtApostrophe(s, i) \in Seq(AllBytes)
  /\ Len(AtApostrophe(s, i)) = Len(s) - i - 1
  /\ Piece(text, at + i - 1 + pad, 2, AtApostrophe(s, i))
  /\ EndsInQuote(AtApostrophe(s, i)) => EndsInQuote(s)

LEMMA PieceFromApostrophe ==
  ASSUME NEW text \in Seq(AllBytes), NEW s \in Seq(AllBytes), NEW at \in Nat, NEW pad \in {0, 2},
         Piece(text, at, pad, s), NEW i \in 2 .. Len(s) - 2, s[i] = "E2"
  PROVE  CutAtApostrophe(text, at, pad, s, i)
<1> DEFINE t == AtApostrophe(s, i)
           from == at + i - 1 + pad
<1>1. /\ t \in Seq(AllBytes) /\ Len(t) = Len(s) - i - 1 /\ t[1] = "'"
      /\ \A k \in 2 .. Len(t) : t[k] = s[i + 1 + k]
  BY ApostropheAndRest DEF AtApostrophe, AllBytes
<1>2. from = at + i - 1 + pad /\ from \in Nat
  OBVIOUS
<1> HIDE DEF t, from
<1>3. text[from + 1] = "E2"
  BY <1>2 DEF Piece
<1>4. Piece(text, from, 2, t)
  BY <1>1, <1>2, <1>3 DEF Piece
<1>5. ASSUME EndsInQuote(t) PROVE EndsInQuote(s)
  <2>1. /\ Len(s) >= 4 /\ Len(t) >= 4
        /\ t[Len(t) - 2] = "E2" /\ t[Len(t) - 1] = "80" /\ t[Len(t)] = "9D"
    BY <1>5 DEF EndsInQuote
  <2>2. /\ t[Len(t) - 2] = s[Len(s) - 2] /\ t[Len(t) - 1] = s[Len(s) - 1]
        /\ t[Len(t)] = s[Len(s)]
    <3>1. ASSUME NEW n \in {0, 1, 2} PROVE t[Len(t) - n] = s[Len(s) - n]
      <4> DEFINE k == Len(t) - n
      <4>1. k \in 2 .. Len(t) /\ i + 1 + k = Len(s) - n /\ k = Len(t) - n
        <5>1. Len(t) \in Nat /\ Len(s) \in Nat /\ Len(t) = Len(s) - i - 1 /\ Len(t) >= 4
          BY <1>1, <2>1
        <5>. QED BY <5>1
      <4> HIDE DEF k
      <4>2. t[k] = s[i + 1 + k]
        BY <1>1, <4>1
      <4>. QED BY <4>1, <4>2
    <3>2. /\ t[Len(t) - 2] = s[Len(s) - 2] /\ t[Len(t) - 1] = s[Len(s) - 1]
          /\ t[Len(t) - 0] = s[Len(s) - 0]
      BY <3>1
    <3>3. Len(t) - 0 = Len(t) /\ Len(s) - 0 = Len(s)
      BY <1>1
    <3>. QED BY <3>2, <3>3
  <2>. QED BY <2>1, <2>2, Zenon DEF EndsInQuote
<1>. QED BY <1>1, <1>4, <1>5 DEF t, from, CutAtApostrophe

LEMMA OpenQuoteRead ==
  ASSUME TokenTypes, StartsWithQuote
  PROVE  Len(token) >= 4 /\ token[1] = "E2"
<1>1. SubSeq(token, 1, 3)[1] = token[1]
  BY SubSeqProperties DEF StartsWithQuote, TokenTypes
<1>2. OpenQuote[1] = "E2"
  BY DEF OpenQuote
<1>3. Len(token) >= 4 /\ SubSeq(token, 1, 3) = OpenQuote
  BY DEF StartsWithQuote
<1>. QED BY <1>1, <1>2, <1>3, Zenon

LEMMA CloseQuoteRead ==
  ASSUME TokenTypes
  PROVE  EndsWithQuote <=> EndsInQuote(token)
<1> SUFFICES ASSUME Len(token) >= 4
             PROVE  SubSeq(token, Len(token) - 2, Len(token)) = CloseQuote
                      <=> EndsInQuote(token)
  BY DEF EndsWithQuote, EndsInQuote
<1> DEFINE t == SubSeq(token, Len(token) - 2, Len(token))
           S == AllBytes \cup {"E2", "80", "9D"}
<1>1. /\ t \in Seq(S) /\ Len(t) = 3
      /\ t[1] = token[Len(token) - 2] /\ t[2] = token[Len(token) - 1] /\ t[3] = token[Len(token)]
  BY SubSeqProperties DEF TokenTypes
<1>2. CloseQuote \in Seq(S) /\ Len(CloseQuote) = 3
      /\ CloseQuote[1] = "E2" /\ CloseQuote[2] = "80" /\ CloseQuote[3] = "9D"
  BY DEF CloseQuote
<1> HIDE DEF t, S
<1>3. t = CloseQuote <=> t[1] = "E2" /\ t[2] = "80" /\ t[3] = "9D"
  BY <1>1, <1>2, SeqEqual
<1>. QED BY <1>1, <1>3 DEF t, EndsInQuote

LEMMA PeekIs ==
  ASSUME TokenTypes, in # NoFile
  PROVE  /\ files[in] \in Seq(Bytes) /\ Len(files[in]) \in Nat /\ offset \in Nat
         /\ offset < Len(files[in]) => /\ Peek(0) = files[in][offset + 1] /\ Peek(0) \in Bytes
                                       /\ Peek(0) # EOF
         /\ offset >= Len(files[in]) => Peek(0) = EOF
         /\ offset + 1 < Len(files[in]) => Peek(1) = files[in][offset + 2]
         /\ offset + 1 >= Len(files[in]) => Peek(1) = EOF
<1>1. in \in 1 .. Len(files) /\ files[in] \in Seq(Bytes)
  BY DEF TokenTypes, NoFile
<1>. QED BY <1>1, TokenizerAssumption DEF TokenTypes, Peek

-----------------------------------------------------------------------------
(* Each step keeps the relation to the text. *)

LEMMA TokenInvInit == Init => TokenInv
BY TokenizerAssumption DEF Init, TokenInv, TokenTypes, StreamIsRead, TokenIsRead, HalfWaits,
   PaddingIsCurrent, NoFile

\* The text that is read, and that bytes of it are bytes of tokens
LEMMA TextIsRead ==
  ASSUME TokenTypes, in # NoFile
  PROVE  /\ files[in] \in Seq(AllBytes) /\ Len(files[in]) \in Nat
         /\ Len(token) \in Nat /\ Len(nextToken) \in Nat
<1>1. files[in] \in Seq(Bytes)
  BY PeekIs
<1>. QED BY <1>1 DEF AllBytes, TokenTypes

LEMMA AddByteKeeps == TokenInv /\ AddByte => TokenInv'
<1> SUFFICES ASSUME TokenInv, AddByte PROVE TokenInv'
  OBVIOUS
<1>1. /\ TokenTypes /\ in # NoFile /\ nextToken = <<>> /\ padding = 0
      /\ tokenOffset + Len(token) = offset /\ Piece(files[in], tokenOffset, 0, token)
  BY DEF TokenInv, AddByte, TokenIsRead, PaddingIsCurrent
<1>2. Peek(0) # EOF
  BY DEF AddByte, Continues, EOF, Stops
<1>3. /\ offset < Len(files[in]) /\ files[in] \in Seq(AllBytes)
      /\ Peek(0) = files[in][offset + 1] /\ Peek(0) \in AllBytes
  BY <1>1, <1>2, PeekIs, TextIsRead DEF AllBytes
<1>4. /\ offset' = offset + 1 /\ token' = Append(token, files[in][offset + 1]) /\ pc' = "scan"
      /\ UNCHANGED <<files, nextFile, in, tokenOffset, nextToken, nextTokenOffset, padding>>
  BY <1>3 DEF AddByte, Consume
<1>5. Piece(files[in], tokenOffset, 0, token')
  BY <1>1, <1>3, <1>4, PieceGrows DEF TokenTypes
<1>6. token' \in Seq(AllBytes) /\ Len(token') = Len(token) + 1
  BY <1>1, <1>3, <1>4, AppendProperties DEF TokenTypes
<1>7. TokenTypes'
  BY <1>1, <1>4, <1>6 DEF TokenTypes
<1>8. StreamIsRead'
  BY <1>1, <1>3, <1>4, TextIsRead DEF StreamIsRead, TokenTypes
<1>9. TokenIsRead'
  <2>1. tokenOffset + Len(token') = offset + 1
    BY <1>1, <1>6, TextIsRead DEF TokenTypes
  <2>. QED BY <1>1, <1>4, <1>5, <2>1 DEF TokenIsRead
<1>. QED BY <1>1, <1>4, <1>7, <1>8, <1>9 DEF TokenInv, HalfWaits, PaddingIsCurrent

LEMMA StopAloneKeeps == TokenInv /\ StopAlone => TokenInv'
<1> SUFFICES ASSUME TokenInv, StopAlone PROVE TokenInv'
  OBVIOUS
<1>1. /\ TokenTypes /\ in # NoFile /\ nextToken = <<>> /\ padding = 0 /\ tokenOffset = offset
  BY DEF TokenInv, StopAlone, TokenIsRead, PaddingIsCurrent, TokenTypes
<1>2. Peek(0) # EOF
  BY DEF StopAlone, EOF, Stops
<1>3. /\ offset < Len(files[in]) /\ Len(files[in]) \in Nat
      /\ Peek(0) = files[in][offset + 1] /\ Peek(0) \in AllBytes
  BY <1>1, <1>2, PeekIs, TextIsRead DEF AllBytes
<1>4. /\ offset' = offset + 1 /\ token' = <<files[in][offset + 1]>> /\ pc' = "split"
      /\ UNCHANGED <<files, nextFile, in, tokenOffset, nextToken, nextTokenOffset, padding>>
  BY <1>3 DEF StopAlone, Consume
<1>5. /\ token' \in Seq(AllBytes) /\ Len(token') = 1 /\ token' # <<>>
      /\ token'[1] = files[in][offset + 1]
  BY <1>3, <1>4
<1>6. Taken(files[in], offset, 0, token', offset + 1)
  BY <1>1, <1>3, <1>5 DEF Taken, Piece, OnlyBlanks, TokenTypes
<1>7. TokenTypes'
  BY <1>1, <1>4, <1>5 DEF TokenTypes
<1>8. StreamIsRead'
  BY <1>1, <1>3, <1>4 DEF StreamIsRead, TokenTypes
<1>9. TokenIsRead'
  BY <1>1, <1>4, <1>5, <1>6 DEF TokenIsRead
<1>. QED BY <1>1, <1>4, <1>7, <1>8, <1>9 DEF TokenInv, HalfWaits, PaddingIsCurrent

\* The token ends, and what is dropped behind it is a blank or such a period.
LEMMA EndKeeps ==
  ASSUME TokenInv, pc = "scan", pc' = "split", token # <<>>, offset' \in Nat, offset <= offset',
         offset' <= Len(files[in]), OnlyBlanks(files[in], offset, offset'),
         UNCHANGED <<files, nextFile, in, token, tokenOffset, nextToken, nextTokenOffset, padding>>
  PROVE  TokenInv'
<1>1. /\ TokenTypes /\ in # NoFile /\ nextToken = <<>> /\ padding = 0
      /\ tokenOffset + Len(token) = offset /\ Piece(files[in], tokenOffset, 0, token)
  BY DEF TokenInv, TokenIsRead, PaddingIsCurrent
<1>2. Taken(files[in], tokenOffset, 0, token, offset')
  BY <1>1, TextIsRead DEF Taken, TokenTypes
<1>. QED BY <1>1, <1>2 DEF TokenInv, TokenTypes, StreamIsRead, TokenIsRead, HalfWaits, PaddingIsCurrent

LEMMA EndTokenKeeps == TokenInv /\ EndToken => TokenInv'
<1> SUFFICES ASSUME TokenInv, EndToken PROVE TokenInv'
  OBVIOUS
<1>1. offset \in Nat /\ offset <= Len(files[in])
  BY DEF TokenInv, TokenTypes, StreamIsRead, TokenIsRead, EndToken
<1>2. OnlyBlanks(files[in], offset, offset)
  BY <1>1 DEF OnlyBlanks
<1>. QED BY <1>1, <1>2, EndKeeps DEF EndToken

LEMMA OneBlank ==
  ASSUME NEW text, NEW n \in Nat, Blank(text, n + 1)
  PROVE  OnlyBlanks(text, n, n + 1)
<1>1. \A p \in n + 1 .. n + 1 : p = n + 1
  OBVIOUS
<1>. QED BY <1>1 DEF OnlyBlanks

LEMMA DropPeriodKeeps == TokenInv /\ DropPeriod => TokenInv'
<1> SUFFICES ASSUME TokenInv, DropPeriod PROVE TokenInv'
  OBVIOUS
<1>1. /\ TokenTypes /\ in # NoFile /\ token = <<"A", "a">> /\ Peek(0) = "." /\ pc = "scan"
      /\ tokenOffset + Len(token) = offset /\ Piece(files[in], tokenOffset, 0, token)
  BY DEF TokenInv, TokenIsRead, DropPeriod, EndsTitle
<1>2. offset < Len(files[in]) /\ files[in][offset + 1] = "." /\ Len(files[in]) \in Nat
  BY <1>1, PeekIs DEF EOF
<1>3. /\ Len(token) = 2 /\ token[1] = "A" /\ token[2] = "a"
  BY <1>1
<1>4. /\ offset = tokenOffset + 2 /\ tokenOffset \in Nat
      /\ files[in][tokenOffset + 1] = "A" /\ files[in][tokenOffset + 2] = "a"
  BY <1>1, <1>3 DEF Piece, TokenTypes
<1>5. OnlyBlanks(files[in], offset, offset + 1)
  <2>1. /\ offset + 1 > 2 /\ (offset + 1) - 2 = tokenOffset + 1
        /\ (offset + 1) - 1 = tokenOffset + 2 /\ offset \in Nat
    BY <1>4
  <2>2. Blank(files[in], offset + 1)
    BY <1>2, <1>4, <2>1 DEF Blank
  <2>. QED BY <2>1, <2>2, OneBlank
<1>. QED BY <1>1, <1>2, <1>4, <1>5, EndKeeps DEF DropPeriod, Consume

LEMMA SpaceIsNoEOF == Space # EOF
BY Zenon DEF Space, EOF

LEMMA BlanksAreBlank ==
  ASSUME TokenTypes, in # NoFile, BlankWidth > 0
  PROVE  /\ BlankWidth \in {1, 2} /\ offset + BlankWidth <= Len(files[in])
         /\ OnlyBlanks(files[in], offset, offset + BlankWidth)
<1>1. \/ BlankWidth = 1 /\ Peek(0) = Space
      \/ BlankWidth = 2 /\ Peek(0) = "C2" /\ Peek(1) = "A0"
      \/ BlankWidth = 0
  BY DEF BlankWidth, IsNoBreakSpace
<1>2. CASE BlankWidth = 1 /\ Peek(0) = Space
  <2>1. offset < Len(files[in]) /\ files[in][offset + 1] = Space
    BY <1>2, SpaceIsNoEOF, PeekIs
  <2>2. Blank(files[in], offset + 1)
    BY <2>1 DEF Blank
  <2>. QED BY <1>2, <2>1, <2>2, OneBlank, PeekIs
<1>3. CASE BlankWidth = 2 /\ Peek(0) = "C2" /\ Peek(1) = "A0"
  <2>1. /\ offset + 1 < Len(files[in])
        /\ files[in][offset + 1] = "C2" /\ files[in][offset + 2] = "A0"
    BY <1>3, PeekIs DEF EOF
  <2>2. Blank(files[in], offset + 1) /\ Blank(files[in], offset + 2)
    <3>1. /\ (offset + 1) + 1 = offset + 2 /\ (offset + 2) - 1 = offset + 1 /\ offset + 2 > 1
      BY PeekIs
    <3>. QED BY <2>1, <3>1 DEF Blank
  <2>3. \A p \in offset + 1 .. offset + 2 : p = offset + 1 \/ p = offset + 2
    BY PeekIs
  <2>4. OnlyBlanks(files[in], offset, offset + 2)
    BY <2>2, <2>3 DEF OnlyBlanks
  <2>. QED BY <1>3, <2>1, <2>4, PeekIs
<1>. QED BY <1>1, <1>2, <1>3

LEMMA SkipBlankKeeps == TokenInv /\ SkipBlank => TokenInv'
<1> SUFFICES ASSUME TokenInv, SkipBlank PROVE TokenInv'
  OBVIOUS
<1>1. /\ TokenTypes /\ in # NoFile /\ nextToken = <<>> /\ padding = 0 /\ pc = "scan"
      /\ tokenOffset + Len(token) = offset /\ Piece(files[in], tokenOffset, 0, token)
      /\ BlankWidth > 0
  BY DEF TokenInv, SkipBlank, TokenIsRead, PaddingIsCurrent
<1>2. /\ offset' = offset + BlankWidth
      /\ UNCHANGED <<files, nextFile, in, token, nextToken, nextTokenOffset, padding>>
      /\ IF token = <<>>
         THEN tokenOffset' = tokenOffset + BlankWidth /\ UNCHANGED pc
         ELSE pc' = "split" /\ UNCHANGED tokenOffset
  BY DEF SkipBlank, Consume
<1>3. /\ BlankWidth \in {1, 2} /\ offset + BlankWidth <= Len(files[in]) /\ Len(files[in]) \in Nat
      /\ OnlyBlanks(files[in], offset, offset')
  BY <1>1, <1>2, BlanksAreBlank, PeekIs
<1> HIDE DEF NoFile
<1>4. CASE token # <<>>
  BY <1>1, <1>2, <1>3, <1>4, EndKeeps DEF TokenTypes
<1>5. CASE token = <<>>
  <2>1. Piece(files[in], tokenOffset', 0, token) /\ tokenOffset' + Len(token) = offset'
    BY <1>1, <1>2, <1>3, <1>5 DEF Piece, TokenTypes
  <2>2. TokenTypes'
    BY <1>1, <1>2, <1>3, <1>5 DEF TokenTypes
  <2>3. StreamIsRead'
    BY <1>1, <1>2, <1>3, <1>5 DEF StreamIsRead
  <2>. QED BY <1>1, <1>2, <1>5, <2>1, <2>2, <2>3 DEF TokenInv, TokenIsRead, HalfWaits, PaddingIsCurrent
<1>. QED BY <1>4, <1>5

LEMMA CallKeeps == TokenInv /\ (Ask \/ TakeSecondHalf \/ StartToken \/ NoToken) => TokenInv'
<1> SUFFICES ASSUME TokenInv, Ask \/ TakeSecondHalf \/ StartToken \/ NoToken PROVE TokenInv'
  OBVIOUS
<1> USE DEF TokenInv
<1> HIDE DEF NoFile
<1>1. CASE Ask
  BY <1>1 DEF Ask, TokenTypes, StreamIsRead, TokenIsRead, HalfWaits, PaddingIsCurrent
<1>2. CASE TakeSecondHalf
  <2>1. /\ nextToken # <<>> /\ in # NoFile /\ token' = nextToken /\ tokenOffset' = nextTokenOffset
        /\ nextToken' = <<>> /\ pc' = "split"
        /\ UNCHANGED <<files, nextFile, in, offset, nextTokenOffset, padding>>
        /\ Taken(files[in], nextTokenOffset, padding, nextToken, offset)
    BY <1>2 DEF TakeSecondHalf, HalfWaits
  <2>2. TokenTypes'
    BY <2>1 DEF TokenTypes
  <2>. QED BY <2>1, <2>2 DEF StreamIsRead, TokenIsRead, HalfWaits, PaddingIsCurrent
<1>3. CASE StartToken
  <2>1. /\ nextToken = <<>> /\ token' = <<>> /\ tokenOffset' = offset /\ pc = "call"
        /\ pc' = (IF in = NoFile THEN "none" ELSE "scan")
        /\ UNCHANGED <<files, nextFile, in, offset, nextToken, nextTokenOffset, padding>>
    BY <1>3 DEF StartToken
  <2>2. TokenTypes'
    BY <2>1 DEF TokenTypes
  <2>3. in # NoFile => Piece(files[in], offset, 0, <<>>) /\ offset + Len(<<>>) = offset
    BY TextIsRead DEF Piece, StreamIsRead, TokenTypes
  <2>4. StreamIsRead' /\ TokenIsRead'
    BY <2>1, <2>3 DEF StreamIsRead, TokenIsRead
  <2>. QED BY <2>1, <2>2, <2>4 DEF HalfWaits, PaddingIsCurrent
<1>4. CASE NoToken
  <2>1. /\ pc = "scan" /\ token = <<>> /\ Peek(0) = EOF /\ pc' = "none" /\ in # NoFile
        /\ UNCHANGED <<files, nextFile, in, offset, token, tokenOffset, nextToken, nextTokenOffset,
                       padding>>
    BY <1>4 DEF NoToken, TokenIsRead
  <2>2. offset = Len(files[in])
    BY <2>1, PeekIs DEF StreamIsRead
  <2>. QED BY <2>1, <2>2 DEF TokenTypes, StreamIsRead, TokenIsRead, HalfWaits, PaddingIsCurrent
<1>. QED BY <1>1, <1>2, <1>3, <1>4

LEMMA FileKeeps == TokenInv /\ (OpenFile \/ NoMoreTokens \/ Reset) => TokenInv'
<1> SUFFICES ASSUME TokenInv, OpenFile \/ NoMoreTokens \/ Reset PROVE TokenInv'
  OBVIOUS
<1>1. CASE OpenFile
  <2>1. /\ in' = in + 1 /\ in' \in 1 .. Len(files) /\ nextFile' = in' + 1 /\ offset' = 0
        /\ nextToken' = <<>> /\ padding' = 0 /\ pc' = "call"
        /\ UNCHANGED <<files, token, tokenOffset, nextTokenOffset>>
    BY <1>1 DEF OpenFile, TokenInv, TokenTypes
  <2>2. Len(files[in']) \in Nat
    BY <2>1 DEF TokenInv, TokenTypes
  <2>. QED BY <2>1, <2>2
           DEF TokenInv, TokenTypes, StreamIsRead, TokenIsRead, HalfWaits, PaddingIsCurrent
<1>2. CASE NoMoreTokens
  BY <1>2 DEF NoMoreTokens, TokenInv, TokenTypes, StreamIsRead, TokenIsRead, HalfWaits,
              PaddingIsCurrent
<1>3. CASE Reset
  BY <1>3 DEF Reset, NoFile, TokenInv, TokenTypes, StreamIsRead, TokenIsRead, HalfWaits,
              PaddingIsCurrent
<1>. QED BY <1>1, <1>2, <1>3

(* A token that is delivered leaves a half that waits, or none.            *)
Halved(bytes) ==
  /\ bytes \in Seq(AllBytes) /\ bytes # <<>>
  /\ Piece(files[in], tokenOffset, padding, bytes)
  /\ nextTokenOffset' = tokenOffset + padding + Len(bytes)
  /\ nextToken' \in Seq(AllBytes) /\ nextToken' # <<>>
  /\ padding' \in {0, 2}
  /\ Taken(files[in], nextTokenOffset', padding', nextToken', offset)
  /\ Deliver(bytes)

Completed ==
  /\ nextToken' = <<>> /\ padding' = 0 /\ UNCHANGED nextTokenOffset
  /\ Deliver(token)

LEMMA TakenUnpadded ==
  ASSUME NEW text, NEW at, NEW s, NEW to, NEW end,
         Piece(text, at, 0, s), at + 0 + Len(s) = to, to <= end, OnlyBlanks(text, to, end)
  PROVE  Taken(text, at, 0, s, end)
BY DEF Taken

LEMMA SplitsHalve ==
  ASSUME TokenInv, SplitAfterQuote \/ SplitBeforeQuote \/ SplitAtApostrophe
  PROVE  pc = "split" /\ \E bytes : Halved(bytes)
<1>1. /\ TokenTypes /\ in # NoFile /\ pc = "split" /\ token # <<>>
      /\ Taken(files[in], tokenOffset, padding, token, offset)
  BY DEF TokenInv, TokenIsRead, SplitAfterQuote, SplitBeforeQuote, SplitAtApostrophe
<1> DEFINE text == files[in]
<1>2. /\ text \in Seq(AllBytes) /\ Len(text) \in Nat /\ Len(token) \in Nat /\ token \in Seq(AllBytes)
      /\ tokenOffset \in Nat /\ padding \in {0, 2} /\ offset \in Nat
      /\ Piece(text, tokenOffset, padding, token)
      /\ tokenOffset + padding + Len(token) <= offset
      /\ OnlyBlanks(text, tokenOffset + padding + Len(token), offset)
  BY <1>1, TextIsRead DEF TokenTypes, Taken
<1> HIDE DEF text
<1>3. CASE SplitAfterQuote
  <2>1. StartsWithQuote /\ nextTokenOffset' = tokenOffset + 3 /\ padding' = 0
    BY <1>3 DEF SplitAfterQuote
  <2>2. nextToken' = SubSeq(token, 4, Len(token)) /\ Deliver(OpenQuote)
    BY <1>3 DEF SplitAfterQuote
  <2>3. Len(token) >= 4 /\ token[1] = "E2" /\ SubSeq(token, 1, 3) = OpenQuote
    BY <1>1, <2>1, OpenQuoteRead DEF StartsWithQuote
  <2>4. padding = 0
    BY <1>2, <2>3 DEF Piece
  <2>5. /\ OpenQuote \in Seq(AllBytes) /\ Len(OpenQuote) = 3
        /\ Piece(text, tokenOffset, padding, OpenQuote)
    <3>1. 3 \in 1 .. Len(token)
      BY <1>2, <2>3
    <3>2. CutInFront(text, tokenOffset, padding, token, 3)
      BY <1>2, <3>1, PieceFront
    <3>. QED BY <2>3, <3>2, Zenon DEF CutInFront
  <2>6. /\ nextToken' \in Seq(AllBytes) /\ Len(nextToken') = Len(token) - 3
        /\ Piece(text, nextTokenOffset', 0, nextToken')
    <3>1. 3 \in 0 .. Len(token) /\ (3 > 0 \/ padding = 0) /\ 3 + 1 = 4
      BY <1>2, <2>3
    <3>2. CutBehind(text, tokenOffset, padding, token, 3)
      BY <1>2, <3>1, PieceBack
    <3>3. tokenOffset + padding + 3 = nextTokenOffset'
      BY <1>2, <2>1, <2>4
    <3>. QED BY <2>2, <3>1, <3>2, <3>3, Zenon DEF CutBehind
  <2>7. Taken(text, nextTokenOffset', padding', nextToken', offset)
    <3>1. nextTokenOffset' + 0 + Len(nextToken') = tokenOffset + padding + Len(token)
      BY <1>2, <2>1, <2>4, <2>6
    <3>. QED BY <1>2, <2>1, <2>6, <3>1, TakenUnpadded
  <2>8. /\ nextTokenOffset' = tokenOffset + padding + Len(OpenQuote)
        /\ OpenQuote # <<>> /\ nextToken' # <<>>
    <3>1. Len(token) >= 4
      BY <1>2, <2>3
    <3>2. Len(nextToken') >= 1 /\ Len(OpenQuote) = 3
      BY <1>2, <2>5, <2>6, <3>1
    <3>3. OpenQuote # <<>> /\ nextToken' # <<>>
      BY <3>2
    <3>4. nextTokenOffset' = tokenOffset + padding + Len(OpenQuote)
      BY <1>2, <2>1, <2>4, <2>5
    <3>. QED BY <3>3, <3>4
  <2>9. Halved(OpenQuote)
    BY <2>1, <2>2, <2>5, <2>6, <2>7, <2>8 DEF Halved, text
  <2>. QED BY <1>1, <2>9
<1>4. CASE SplitBeforeQuote
  <2> DEFINE front == SubSeq(token, 1, Len(token) - 3)
  <2>1. /\ EndsWithQuote /\ nextTokenOffset' = tokenOffset + Len(token) - 3
        /\ nextToken' = SubSeq(token, Len(token) - 2, Len(token)) /\ padding' = 0
        /\ Deliver(front)
    BY <1>4 DEF SplitBeforeQuote, EndsWithQuote
  <2>2. Len(token) >= 4
    BY <2>1 DEF EndsWithQuote
  <2>3. padding = 0
    BY <1>1, <1>2, <2>1, CloseQuoteRead DEF Taken
  <2>4. /\ front \in Seq(AllBytes) /\ Len(front) = Len(token) - 3
        /\ Piece(text, tokenOffset, padding, front)
    <3>1. Len(token) - 3 \in 1 .. Len(token)
      BY <1>2, <2>2
    <3>2. CutInFront(text, tokenOffset, padding, token, Len(token) - 3)
      BY <1>2, <3>1, PieceFront
    <3>. QED BY <3>2, Zenon DEF CutInFront
  <2> HIDE DEF front
  <2>5. /\ nextToken' \in Seq(AllBytes) /\ Len(nextToken') = 3
        /\ Piece(text, nextTokenOffset', 0, nextToken')
    <3> DEFINE n == Len(token) - 3
    <3>1. /\ n \in 0 .. Len(token) /\ n + 1 = Len(token) - 2 /\ Len(token) - n = 3
          /\ tokenOffset + padding + n = nextTokenOffset'
      BY <1>2, <2>1, <2>2, <2>3
    <3> HIDE DEF n
    <3>2. CutBehind(text, tokenOffset, padding, token, n)
      BY <1>2, <2>3, <3>1, PieceBack
    <3>. QED BY <2>1, <3>1, <3>2, Zenon DEF CutBehind
  <2>6. Taken(text, nextTokenOffset', padding', nextToken', offset)
    <3>1. nextTokenOffset' + 0 + Len(nextToken') = tokenOffset + padding + Len(token)
      BY <1>2, <2>1, <2>3, <2>5
    <3>. QED BY <1>2, <2>1, <2>5, <3>1, TakenUnpadded
  <2>7. nextTokenOffset' = tokenOffset + padding + Len(front) /\ front # <<>> /\ nextToken' # <<>>
    BY <1>2, <2>1, <2>2, <2>3, <2>4, <2>5
  <2>8. Halved(front)
    BY <2>1, <2>4, <2>5, <2>6, <2>7 DEF Halved, text
  <2>. QED BY <1>1, <2>8
<1>5. CASE SplitAtApostrophe
  <2>1. PICK i \in Apostrophes :
          /\ nextTokenOffset' = tokenOffset + i - 1 + padding
          /\ nextToken' = <<"'">> \o SubSeq(token, i + 3, Len(token))
          /\ Deliver(SubSeq(token, 1, i - 1))
    BY <1>5 DEF SplitAtApostrophe
  <2>2. ~EndsInQuote(token) /\ padding' = 2
    BY <1>1, <1>5, CloseQuoteRead DEF SplitAtApostrophe
  <2>3. i \in 2 .. Len(token) - 2 /\ token[i] = "E2"
    <3>1. i \in 2 .. Len(token) - 2 /\ SubSeq(token, i, i + 2) = Apostrophe
      BY <2>1 DEF Apostrophes
    <3>2. \A k \in i .. i + 2 : token[k] \in AllBytes
      BY <1>2, <3>1
    <3>3. SubSeq(token, i, i + 2)[1] = token[i + 1 - 1]
      BY <1>2, <3>1, <3>2, SubSeqProperties
    <3>4. Apostrophe[1] = "E2" /\ i + 1 - 1 = i
      BY <1>2, <3>1 DEF Apostrophe
    <3>. QED BY <3>1, <3>3, <3>4
  <2> DEFINE front == SubSeq(token, 1, i - 1)
  <2>4. /\ front \in Seq(AllBytes) /\ Len(front) = i - 1
        /\ Piece(text, tokenOffset, padding, front)
    <3>1. i - 1 \in 1 .. Len(token)
      BY <1>2, <2>3
    <3>2. CutInFront(text, tokenOffset, padding, token, i - 1)
      BY <1>2, <3>1, PieceFront
    <3>. QED BY <3>2, Zenon DEF CutInFront
  <2>5. /\ nextToken' \in Seq(AllBytes) /\ Len(nextToken') = Len(token) - i - 1
        /\ Piece(text, nextTokenOffset', 2, nextToken')
        /\ EndsInQuote(nextToken') => EndsInQuote(token)
    <3>1. nextToken' = AtApostrophe(token, i) /\ nextTokenOffset' = tokenOffset + i - 1 + padding
      BY <2>1 DEF AtApostrophe
    <3>2. CutAtApostrophe(text, tokenOffset, padding, token, i)
      BY <1>2, <2>3, PieceFromApostrophe
    <3>3. nextTokenOffset' = tokenOffset + i - 1 + padding
      BY <3>1
    <3>4. Piece(text, nextTokenOffset', 2, AtApostrophe(token, i))
      BY <3>2, <3>3 DEF CutAtApostrophe
    <3>. QED BY <3>1, <3>2, <3>4 DEF CutAtApostrophe
  <2> HIDE DEF front
  <2>6. Taken(text, nextTokenOffset', padding', nextToken', offset)
    <3>1. nextTokenOffset' = tokenOffset + i - 1 + padding
      BY <2>1
    <3>2. nextTokenOffset' + 2 + Len(nextToken') = tokenOffset + padding + Len(token)
      BY <1>2, <2>3, <2>5, <3>1
    <3>. QED BY <1>2, <2>2, <2>5, <3>2 DEF Taken
  <2>7. nextTokenOffset' = tokenOffset + padding + Len(front) /\ front # <<>> /\ nextToken' # <<>>
    BY <1>2, <2>1, <2>3, <2>4, <2>5
  <2>8. Halved(front)
    BY <2>1, <2>2, <2>4, <2>5, <2>6, <2>7 DEF Halved, text, front
  <2>. QED BY <1>1, <2>8
<1>. QED BY <1>3, <1>4, <1>5

LEMMA WholeCompletes == TokenInv /\ Whole => pc = "split" /\ Completed
<1> SUFFICES ASSUME TokenInv, Whole PROVE pc = "split" /\ Completed
  OBVIOUS
<1>1. pc = "split" /\ padding' = 0 /\ Deliver(token) /\ UNCHANGED <<nextToken, nextTokenOffset>>
  BY DEF Whole
<1>2. nextToken = <<>>
  BY <1>1 DEF TokenInv, TokenIsRead
<1>. QED BY <1>1, <1>2 DEF Completed

LEMMA DeliverKeeps ==
  ASSUME TokenInv, pc = "split", Completed \/ \E bytes : Halved(bytes)
  PROVE  TokenInv'
<1>1. TokenTypes /\ in # NoFile /\ StreamIsRead
  BY DEF TokenInv, TokenIsRead
<1> HIDE DEF NoFile
<1>2. CASE Completed
  <2>1. /\ nextToken' = <<>> /\ padding' = 0 /\ token' = token /\ pc' = "idle"
        /\ UNCHANGED <<files, nextFile, in, offset, tokenOffset, nextTokenOffset>>
    BY <1>2 DEF Completed, Deliver
  <2>2. TokenTypes'
    BY <1>1, <2>1 DEF TokenTypes
  <2>. QED BY <1>1, <2>1, <2>2
           DEF TokenInv, StreamIsRead, TokenIsRead, HalfWaits, PaddingIsCurrent
<1>3. ASSUME NEW bytes, Halved(bytes) PROVE TokenInv'
  <2>1. /\ token' = bytes /\ pc' = "idle"
        /\ UNCHANGED <<files, nextFile, in, offset, tokenOffset>>
    BY <1>3 DEF Halved, Deliver
  <2>2. /\ bytes \in Seq(AllBytes) /\ nextToken' \in Seq(AllBytes) /\ nextToken' # <<>>
        /\ padding' \in {0, 2}
    BY <1>3 DEF Halved
  <2>3. nextTokenOffset' \in Nat
    <3>1. nextTokenOffset' = tokenOffset + padding + Len(bytes)
      BY <1>3 DEF Halved
    <3>2. tokenOffset \in Nat /\ padding \in Nat /\ Len(bytes) \in Nat
      BY <1>1, <2>2 DEF TokenTypes
    <3>. QED BY <3>1, <3>2
  <2>4. TokenTypes'
    BY <1>1, <2>1, <2>2, <2>3 DEF TokenTypes
  <2>5. HalfWaits'
    <3>1. Taken(files[in], nextTokenOffset', padding', nextToken', offset)
      BY <1>3 DEF Halved
    <3>. QED BY <1>1, <2>1, <3>1 DEF HalfWaits
  <2>. QED BY <1>1, <2>1, <2>2, <2>4, <2>5
           DEF TokenInv, StreamIsRead, TokenIsRead, PaddingIsCurrent
<1>. QED BY <1>2, <1>3

\* The steps that deliver are these two.
Delivers == pc = "split" /\ (Completed \/ \E bytes : Halved(bytes))

LEMMA DeliveriesAre ==
  ASSUME TokenInv, SplitAfterQuote \/ SplitBeforeQuote \/ SplitAtApostrophe \/ Whole
  PROVE  Delivers
BY SplitsHalve, WholeCompletes DEF Delivers

LEMMA TokenInvStep == TokenInv /\ [Next]_vars => TokenInv'
<1> SUFFICES ASSUME TokenInv, [Next]_vars PROVE TokenInv'
  OBVIOUS
<1>1. CASE AddByte \/ StopAlone \/ EndToken \/ DropPeriod \/ SkipBlank
  BY <1>1, AddByteKeeps, StopAloneKeeps, EndTokenKeeps, DropPeriodKeeps, SkipBlankKeeps
<1>2. CASE Ask \/ TakeSecondHalf \/ StartToken \/ NoToken
  BY <1>2, CallKeeps
<1>3. CASE OpenFile \/ NoMoreTokens \/ Reset
  BY <1>3, FileKeeps
<1>4. CASE SplitAfterQuote \/ SplitBeforeQuote \/ SplitAtApostrophe \/ Whole
  BY <1>4, DeliveriesAre, DeliverKeeps DEF Delivers
<1>5. CASE UNCHANGED vars
  BY <1>5 DEF vars, TokenInv, TokenTypes, StreamIsRead, TokenIsRead, HalfWaits, PaddingIsCurrent
<1>. QED BY <1>1, <1>2, <1>3, <1>4, <1>5 DEF Next

LEMMA TokensAreRead == Spec => []TokenInv
BY TokenInvInit, TokenInvStep, PTL DEF Spec

(* THE CONVENTION OF conll_tokenizer.h: for every text, the stream stands  *)
(* where the bytes that were read end, a half that waits was read before   *)
(* it, and only one that starts with a shortened quote has a padding.      *)
THEOREM Convention == Spec => []TypeOK
<1>1. ASSUME TokenInv PROVE TypeOK
  <2>1. TokenTypes /\ StreamIsRead
    BY <1>1 DEF TokenInv
  <2>2. ASSUME nextToken # <<>>
        PROVE  /\ in # NoFile /\ nextTokenOffset + Len(nextToken) + padding <= offset
               /\ padding = 2 => nextToken[1] = "'"
    <3>1. in # NoFile /\ Taken(files[in], nextTokenOffset, padding, nextToken, offset)
      BY <1>1, <2>2 DEF TokenInv, HalfWaits
    <3>2. /\ nextTokenOffset + padding + Len(nextToken) <= offset
          /\ padding = 2 => nextToken[1] = "'"
      BY <3>1 DEF Taken, Piece
    <3>3. nextTokenOffset \in Nat /\ padding \in Nat /\ Len(nextToken) \in Nat /\ offset \in Nat
      BY <2>1 DEF TokenTypes
    <3>. QED BY <3>1, <3>2, <3>3
  <2>3. nextFile \in 1 .. Len(files) + 1 /\ in \in 0 .. Len(files) /\ padding \in {0, 2}
    BY <2>1 DEF TokenTypes
  <2>4. in # NoFile => offset <= Len(files[in])
    BY <2>1 DEF StreamIsRead
  <2>5. padding = 2 /\ pc # "split" => nextToken # <<>>
    BY <1>1 DEF TokenInv, PaddingIsCurrent
  <2>. QED BY <2>2, <2>3, <2>4, <2>5, Zenon DEF TypeOK
<1>. QED BY <1>1, TokensAreRead, PTL

-----------------------------------------------------------------------------
(* Lemmas about passes *)

LEMMA TokenFields ==
  ASSUME NEW fs, NEW t \in Token
  PROVE  t.file \in Nat /\ t.at \in Nat /\ End(fs, t) \in Nat /\ t.at <= End(fs, t)
BY DEF Token, End

LEMMA EmptyPass ==
  ASSUME NEW fs, NEW to
  PROVE  RightPass(fs, <<>>) /\ UpTo(fs, <<>>, 0, to)
BY DEF RightPass, InOrder, UpTo, Reached

LEMMA BlanksFollow ==
  ASSUME NEW fs, NEW pass, NEW last \in Nat, NEW to \in Nat, NEW next \in Nat, to <= next,
         UpTo(fs, pass, last, to), last # 0 => OnlyBlanks(fs[last], to, next),
         \A i \in 1 .. Len(pass) : End(fs, pass[i]) \in Nat
  PROVE  UpTo(fs, pass, last, next)
<1>1. ASSUME NEW i \in 1 .. Len(pass)
      PROVE  pass[i].file < last \/ (pass[i].file = last /\ End(fs, pass[i]) <= next)
  BY DEF UpTo
<1>2. ASSUME NEW f \in 1 .. last, NEW p \in 1 .. (IF f = last THEN next ELSE Len(fs[f]))
      PROVE  Accounted(fs, pass, Len(pass), f, p)
  <2>1. CASE f = last /\ p > to
    <3>1. p \in to + 1 .. next /\ last # 0
      BY <2>1
    <3>. QED BY <2>1, <3>1 DEF OnlyBlanks, Accounted
  <2>2. CASE ~(f = last /\ p > to)
    <3>1. p \in 1 .. (IF f = last THEN to ELSE Len(fs[f]))
      BY <2>2
    <3>. QED BY <3>1 DEF UpTo, Reached
  <2>. QED BY <2>1, <2>2
<1>. QED BY <1>1, <1>2 DEF UpTo, Reached

LEMMA NextFileFollows ==
  ASSUME NEW fs, NEW pass \in Seq(Token), NEW last \in Nat, NEW to \in Nat,
         UpTo(fs, pass, last, to), last # 0 => to = Len(fs[last])
  PROVE  UpTo(fs, pass, last + 1, 0)
<1>1. ASSUME NEW i \in 1 .. Len(pass) PROVE pass[i].file < last + 1
  <2>1. pass[i] \in Token
    OBVIOUS
  <2>2. pass[i].file \in Nat
    BY <2>1, TokenFields
  <2>. QED BY <2>2 DEF UpTo
<1>2. ASSUME NEW f \in 1 .. last + 1, NEW p \in 1 .. (IF f = last + 1 THEN 0 ELSE Len(fs[f]))
      PROVE  Accounted(fs, pass, Len(pass), f, p)
  <2>1. f \in 1 .. last /\ p \in 1 .. Len(fs[f])
    BY <1>2
  <2>2. p \in 1 .. (IF f = last THEN to ELSE Len(fs[f]))
    BY <2>1
  <2>. QED BY <2>1, <2>2 DEF UpTo, Reached
<1>. QED BY <1>1, <1>2 DEF UpTo, Reached

\* More tokens of a pass account for no less.
LEMMA AppendedAccounts ==
  ASSUME NEW fs, NEW pass \in Seq(Token), NEW t \in Token, NEW n \in 0 .. Len(pass),
         NEW f, NEW p
  PROVE  /\ Accounted(fs, pass, n, f, p) <=> Accounted(fs, Append(pass, t), n, f, p)
         /\ Accounted(fs, pass, n, f, p) => Accounted(fs, Append(pass, t), Len(pass) + 1, f, p)
<1> DEFINE longer == Append(pass, t)
<1>1. \A j \in 1 .. n : longer[j] = pass[j]
  BY AppendProperties
<1>2. \A j \in 1 .. n : j \in 1 .. Len(pass) + 1
  OBVIOUS
<1> HIDE DEF longer
<1>3. Accounted(fs, pass, n, f, p) <=> Accounted(fs, longer, n, f, p)
  BY <1>1 DEF Accounted
<1>4. Accounted(fs, longer, n, f, p) => Accounted(fs, longer, Len(pass) + 1, f, p)
  BY <1>2 DEF Accounted
<1>. QED BY <1>3, <1>4 DEF longer

LEMMA TokenFollows ==
  ASSUME NEW fs, NEW pass, NEW t \in Token, NEW to \in Nat,
         RightPass(fs, pass), UpTo(fs, pass, t.file, to), OffsetIsRight(fs, t), t.at = to
  PROVE  RightPass(fs, Append(pass, t)) /\ UpTo(fs, Append(pass, t), t.file, End(fs, t))
<1> DEFINE longer == Append(pass, t)
<1>1. /\ pass \in Seq(Token) /\ longer \in Seq(Token) /\ Len(pass) \in Nat
      /\ Len(longer) = Len(pass) + 1 /\ longer[Len(pass) + 1] = t
      /\ \A i \in 1 .. Len(pass) : longer[i] = pass[i]
  BY AppendProperties DEF RightPass
<1>2. /\ t.file \in Nat /\ t.at \in Nat /\ End(fs, t) \in Nat /\ t.at <= End(fs, t)
  BY TokenFields
<1>3. ASSUME NEW n \in 0 .. Len(pass), NEW f, NEW p
      PROVE  /\ Accounted(fs, pass, n, f, p) <=> Accounted(fs, longer, n, f, p)
             /\ Accounted(fs, pass, n, f, p) => Accounted(fs, longer, Len(pass) + 1, f, p)
  <2>1. pass \in Seq(Token)
    BY <1>1
  <2>. QED BY <2>1, AppendedAccounts, Zenon
<1>4. \A i \in 1 .. Len(pass) : pass[i].file \in Nat /\ pass[i].at \in Nat /\ End(fs, pass[i]) \in Nat
  <2>1. ASSUME NEW i \in 1 .. Len(pass) PROVE pass[i] \in Token
    BY <1>1
  <2>. QED BY <2>1, TokenFields
<1> HIDE DEF longer
<1>5. \A i \in 1 .. Len(longer) : i \in 1 .. Len(pass) \/ i = Len(pass) + 1
  BY <1>1
<1>6. \A i \in 1 .. Len(longer) : OffsetIsRight(fs, longer[i])
  BY <1>1, <1>5 DEF RightPass
<1>7. InOrder(fs, longer)
  <2> SUFFICES ASSUME NEW i \in 1 .. Len(pass)
               PROVE  \/ longer[i].file < longer[i + 1].file
                      \/ /\ longer[i].file = longer[i + 1].file
                         /\ End(fs, longer[i]) <= longer[i + 1].at
    BY <1>1 DEF InOrder
  <2>1. CASE i = Len(pass)
    BY <1>1, <2>1 DEF UpTo
  <2>2. CASE i \in 1 .. Len(pass) - 1
    <3>1. longer[i] = pass[i] /\ longer[i + 1] = pass[i + 1]
      BY <1>1, <2>2
    <3>. QED BY <2>2, <3>1 DEF RightPass, InOrder
  <2>. QED BY <1>1, <2>1, <2>2
<1>8. Reached(fs, longer, Len(pass), t.file, t.at)
  BY <1>1, <1>3 DEF UpTo, Reached
<1>9. ASSUME NEW i \in 1 .. Len(longer)
      PROVE  Reached(fs, longer, i - 1, longer[i].file, longer[i].at)
  <2>1. CASE i = Len(pass) + 1
    BY <1>1, <1>8, <2>1
  <2>2. CASE i \in 1 .. Len(pass)
    <3>1. Reached(fs, pass, i - 1, pass[i].file, pass[i].at) /\ i - 1 \in 0 .. Len(pass)
      BY <1>1, <2>2 DEF RightPass
    <3>2. longer[i] = pass[i]
      BY <1>1, <2>2
    <3>. QED BY <1>3, <3>1, <3>2 DEF Reached
  <2>. QED BY <1>5, <2>1, <2>2
<1>10. RightPass(fs, longer)
  BY <1>1, <1>6, <1>7, <1>9 DEF RightPass
<1>11. \A i \in 1 .. Len(longer) :
         \/ longer[i].file < t.file
         \/ longer[i].file = t.file /\ End(fs, longer[i]) <= End(fs, t)
  <2>1. ASSUME NEW i \in 1 .. Len(pass)
        PROVE  pass[i].file < t.file \/ (pass[i].file = t.file /\ End(fs, pass[i]) <= End(fs, t))
    BY <1>2, <1>4 DEF UpTo
  <2>. QED BY <1>1, <1>2, <1>5, <2>1
<1>12. ASSUME NEW f \in 1 .. t.file,
              NEW p \in 1 .. (IF f = t.file THEN End(fs, t) ELSE Len(fs[f]))
       PROVE  Accounted(fs, longer, Len(longer), f, p)
  <2>1. CASE f = t.file /\ p > t.at
    <3>1. /\ Len(longer) \in 1 .. Len(longer) /\ longer[Len(longer)] = t
          /\ p \in t.at + 1 .. End(fs, t)
      BY <1>1, <1>2, <2>1
    <3>. QED BY <2>1, <3>1 DEF Accounted
  <2>2. CASE ~(f = t.file /\ p > t.at)
    <3>1. p \in 1 .. (IF f = t.file THEN to ELSE Len(fs[f]))
      BY <1>2, <2>2
    <3>2. Accounted(fs, pass, Len(pass), f, p)
      BY <3>1 DEF UpTo, Reached
    <3>3. Len(pass) \in 0 .. Len(pass)
      BY <1>1
    <3>. QED BY <1>1, <1>3, <3>2, <3>3
  <2>. QED BY <2>1, <2>2
<1>13. UpTo(fs, longer, t.file, End(fs, t))
  BY <1>11, <1>12 DEF UpTo, Reached
<1>. QED BY <1>10, <1>13 DEF longer

-----------------------------------------------------------------------------
(* A piece of the text, delivered, is a token whose offset is right. *)

LEMMA TextOfPiece ==
  ASSUME NEW text \in Seq(AllBytes), NEW s \in Seq(AllBytes), NEW at \in Nat,
         Piece(text, at, 0, s)
  PROVE  SubSeq(text, at + 1, at + Len(s)) = s
<1> DEFINE u == SubSeq(text, at + 1, at + Len(s))
<1>1. /\ Len(s) \in Nat /\ at + Len(s) <= Len(text) /\ \A k \in 1 .. Len(s) : s[k] = text[at + k]
  BY DEF Piece
<1>2. /\ u \in Seq(AllBytes) /\ Len(u) = Len(s)
      /\ \A k \in 1 .. Len(s) : u[k] = text[at + k]
  BY <1>1, SubSeqProperties
<1> HIDE DEF u
<1>3. u = s
  BY <1>1, <1>2, SeqEqual
<1>. QED BY <1>3 DEF u

LEMMA TextOfShortened ==
  ASSUME NEW text \in Seq(AllBytes), NEW s \in Seq(AllBytes), NEW at \in Nat,
         Piece(text, at, 2, s)
  PROVE  LET bytes == SubSeq(text, at + 1, at + (Len(s) + 2))
         IN  <<"'">> \o SubSeq(bytes, 4, Len(bytes)) = s
<1> DEFINE bytes == SubSeq(text, at + 1, at + (Len(s) + 2))
           rest == SubSeq(bytes, 4, Len(bytes))
           u == <<"'">> \o rest
<1>1. /\ Len(s) \in Nat \ {0} /\ s[1] = "'" /\ at + 2 + Len(s) <= Len(text)
      /\ \A k \in 2 .. Len(s) : s[k] = text[at + 2 + k]
  BY DEF Piece
<1>2. /\ bytes \in Seq(AllBytes) /\ Len(bytes) = Len(s) + 2
      /\ \A k \in 1 .. Len(s) + 2 : bytes[k] = text[at + k]
  BY <1>1, SubSeqProperties
<1> HIDE DEF bytes
<1>3. /\ rest \in Seq(AllBytes) /\ Len(rest) = Len(s) - 1
      /\ \A k \in 1 .. Len(s) - 1 : rest[k] = bytes[3 + k]
  <2>1. 4 \in 1 .. Len(bytes) + 1
    BY <1>1, <1>2
  <2>2. IsRest(bytes, 4, rest, AllBytes)
    BY <1>2, <2>1, RestIsRest
  <2>. QED BY <1>1, <1>2, <2>2 DEF IsRest
<1> HIDE DEF rest
<1>4. /\ u \in Seq(AllBytes) /\ Len(u) = Len(s) /\ u[1] = "'"
      /\ \A k \in 2 .. Len(s) : u[k] = rest[k - 1]
  <2>1. QuoteAndRest(u, rest, AllBytes)
    BY <1>3, QuoteBefore DEF AllBytes
  <2>. QED BY <1>1, <1>3, <2>1 DEF QuoteAndRest
<1> HIDE DEF u
<1>5. ASSUME NEW k \in 1 .. Len(s) PROVE u[k] = s[k]
  <2>1. CASE k = 1
    BY <1>1, <1>4, <2>1
  <2>2. CASE k \in 2 .. Len(s)
    <3>1. k - 1 \in 1 .. Len(s) - 1 /\ 3 + (k - 1) \in 1 .. Len(s) + 2 /\ 3 + (k - 1) = 2 + k
      BY <1>1, <2>2
    <3>2. u[k] = rest[k - 1] /\ rest[k - 1] = bytes[2 + k] /\ bytes[2 + k] = text[at + (2 + k)]
      BY <1>2, <1>3, <1>4, <2>2, <3>1
    <3>3. at + (2 + k) = at + 2 + k
      BY <2>2
    <3>. QED BY <1>1, <2>2, <3>2, <3>3
  <2>. QED BY <1>1, <2>1, <2>2
<1>6. u = s
  BY <1>4, <1>5, SeqEqual
<1>. QED BY <1>6 DEF u, rest, bytes

LEMMA UnigramKeepsLength ==
  ASSUME NEW s \in Seq(AllBytes)
  PROVE  /\ Unigram(s) \in Seq(AllBytes \cup {"#"}) /\ Len(Unigram(s)) = Len(s)
         /\ s # <<>> => Unigram(s) # <<>> /\ (Unigram(s)[1] = "'" <=> s[1] = "'")
BY DEF Unigram

Delivery(bytes) == [file |-> in, at |-> tokenOffset, bytes |-> Unigram(bytes)]

LEMMA PieceIsRight ==
  ASSUME TokenTypes, in # NoFile, NEW s \in Seq(AllBytes), s # <<>>,
         Piece(files[in], tokenOffset, padding, s)
  PROVE  /\ Delivery(s) \in Token /\ OffsetIsRight(files, Delivery(s))
         /\ End(files, Delivery(s)) = tokenOffset + padding + Len(s)
<1> DEFINE text == files[in]
           t == Delivery(s)
<1>1. /\ text \in Seq(AllBytes) /\ Len(text) \in Nat /\ tokenOffset \in Nat /\ padding \in {0, 2}
      /\ in \in 1 .. Len(files) /\ Len(s) \in Nat \ {0}
  BY TextIsRead DEF TokenTypes, NoFile
<1>2. t.file = in /\ t.at = tokenOffset /\ t.bytes = Unigram(s) /\ t \in Token
  BY <1>1, UnigramKeepsLength DEF Token, Delivery
<1>3. /\ Piece(text, tokenOffset, padding, s)
      /\ Len(Unigram(s)) = Len(s) /\ Unigram(s) # <<>>
      /\ Unigram(s)[1] = "'" <=> s[1] = "'"
  BY UnigramKeepsLength
<1> HIDE DEF text, t
<1>4. Shortened(files, t) <=> padding = 2
  <2>1. Shortened(files, t) <=> (s[1] = "'" /\ text[tokenOffset + 1] = "E2")
    BY <1>2, <1>3 DEF Shortened, text
  <2>2. CASE padding = 0
    <3>1. s[1] = text[tokenOffset + 0 + 1]
      BY <1>1, <1>3, <2>2 DEF Piece
    <3>. QED BY <1>1, <2>1, <2>2, <3>1
  <2>3. CASE padding = 2
    BY <1>3, <2>1, <2>3 DEF Piece
  <2>. QED BY <1>1, <2>2, <2>3
<1>5. End(files, t) = tokenOffset + (Len(s) + padding)
  BY <1>1, <1>2, <1>3, <1>4 DEF End
<1>6. tokenOffset + padding + Len(s) <= Len(text)
  BY <1>3 DEF Piece
<1>7. TextAt(files, t) = Unigram(s)
  <2>1. CASE padding = 0
    <3>1. SubSeq(text, tokenOffset + 1, tokenOffset + Len(s)) = s
      BY <1>1, <1>3, <2>1, TextOfPiece
    <3>2. End(files, t) = tokenOffset + Len(s) /\ ~Shortened(files, t)
      BY <1>1, <1>4, <1>5, <2>1
    <3>. QED BY <1>2, <3>1, <3>2 DEF TextAt, text
  <2>2. CASE padding = 2
    <3> DEFINE bytes == SubSeq(text, tokenOffset + 1, tokenOffset + (Len(s) + 2))
    <3>1. <<"'">> \o SubSeq(bytes, 4, Len(bytes)) = s
      BY <1>1, <1>3, <2>2, TextOfShortened
    <3>2. End(files, t) = tokenOffset + (Len(s) + 2) /\ Shortened(files, t)
      BY <1>1, <1>4, <1>5, <2>2
    <3>. QED BY <1>2, <3>1, <3>2, Zenon DEF TextAt, text
  <2>. QED BY <1>1, <2>1, <2>2
<1>8. End(files, t) = tokenOffset + padding + Len(s) /\ End(files, t) <= Len(files[t.file])
  BY <1>1, <1>2, <1>5, <1>6 DEF text
<1>9. OffsetIsRight(files, t)
  BY <1>1, <1>2, <1>3, <1>7, <1>8 DEF OffsetIsRight
<1>. QED BY <1>2, <1>8, <1>9 DEF t

-----------------------------------------------------------------------------
(* No step leaves a gap: where the next token can start moves over blanks, *)
(* over a token that is delivered, or to the start of the next file.       *)

LEMMA FrontierIsNat == TokenTypes => Frontier \in Nat
BY DEF TokenTypes, Frontier

LEMMA NothingSkipped ==
  ASSUME NEW text, NEW n \in Nat
  PROVE  OnlyBlanks(text, n, n)
BY DEF OnlyBlanks

OverBlanks ==
  /\ UNCHANGED <<files, in, passes>>
  /\ Frontier' \in Nat /\ Frontier <= Frontier'
  /\ in # 0 => OnlyBlanks(files[in], Frontier, Frontier')

LEMMA FrontierStays ==
  ASSUME TokenInv, UNCHANGED <<files, in, passes>>, Frontier' = Frontier
  PROVE  OverBlanks
<1>1. Frontier \in Nat
  BY FrontierIsNat DEF TokenInv
<1>. QED BY <1>1, NothingSkipped DEF OverBlanks

LEMMA ReadingMoves ==
  ASSUME TokenInv,
         \/ Ask \/ TakeSecondHalf \/ StartToken
         \/ AddByte \/ StopAlone \/ EndToken \/ DropPeriod \/ SkipBlank \/ NoToken
         \/ NoMoreTokens \/ UNCHANGED vars
  PROVE  OverBlanks
<1>1. /\ pc = "scan" => in # NoFile /\ nextToken = <<>> /\ tokenOffset + Len(token) = offset
      /\ offset \in Nat /\ tokenOffset \in Nat /\ token \in Seq(AllBytes) /\ TokenTypes
  BY DEF TokenInv, TokenTypes, TokenIsRead
<1>2. CASE Ask
  BY <1>2, FrontierStays DEF Ask, Frontier
<1>3. CASE TakeSecondHalf
  BY <1>3, FrontierStays DEF TakeSecondHalf, Frontier
<1>4. CASE StartToken
  BY <1>4, FrontierStays DEF StartToken, Frontier
<1>5. CASE AddByte \/ StopAlone \/ EndToken \/ DropPeriod
  <2>1. /\ pc = "scan" /\ pc' \in {"scan", "split"}
        /\ UNCHANGED <<files, in, passes, nextToken, tokenOffset>>
    BY <1>5 DEF AddByte, StopAlone, EndToken, DropPeriod
  <2>. QED BY <1>1, <2>1, FrontierStays DEF Frontier
<1>6. CASE SkipBlank
  <2>1. /\ pc = "scan" /\ BlankWidth > 0 /\ offset' = offset + BlankWidth
        /\ UNCHANGED <<files, in, passes, nextToken>>
        /\ IF token = <<>>
           THEN tokenOffset' = tokenOffset + BlankWidth /\ UNCHANGED pc
           ELSE pc' = "split" /\ UNCHANGED tokenOffset
    BY <1>6 DEF SkipBlank, Consume
  <2>2. CASE token # <<>>
    BY <1>1, <2>1, <2>2, FrontierStays DEF Frontier
  <2>3. CASE token = <<>>
    <3>1. Frontier = offset /\ Frontier' = offset + BlankWidth
      BY <1>1, <2>1, <2>3 DEF Frontier
    <3>2. BlankWidth \in {1, 2} /\ OnlyBlanks(files[in], offset, offset + BlankWidth)
      BY <1>1, <2>1, BlanksAreBlank
    <3>. QED BY <1>1, <2>1, <3>1, <3>2 DEF OverBlanks
  <2>. QED BY <2>2, <2>3
<1>7. CASE NoToken
  <2>1. /\ pc = "scan" /\ token = <<>> /\ pc' = "none"
        /\ UNCHANGED <<files, in, passes, nextToken, offset>>
    BY <1>7 DEF NoToken
  <2>2. Frontier = offset /\ Frontier' = offset
    BY <1>1, <2>1 DEF Frontier
  <2>. QED BY <2>1, <2>2, FrontierStays
<1>8. CASE NoMoreTokens
  BY <1>8, FrontierStays DEF NoMoreTokens, Frontier
<1>9. CASE UNCHANGED vars
  BY <1>9, FrontierStays DEF vars, Frontier
<1>. QED BY <1>2, <1>3, <1>4, <1>5, <1>6, <1>7, <1>8, <1>9

LEMMA PassInvInit == Init => PassInv
<1> SUFFICES ASSUME Init PROVE PassInv
  OBVIOUS
<1>1. passes = << <<>> >> /\ in = 0
  BY DEF Init, NoFile
<1>2. passes \in Seq(Seq(Token)) /\ Len(passes) = 1 /\ passes[1] = <<>> /\ passes # <<>>
  BY <1>1
<1>3. RightPass(files, <<>>) /\ UpTo(files, <<>>, 0, Frontier)
  BY EmptyPass
<1>. QED BY <1>1, <1>2, <1>3 DEF PassInv

LEMMA OverBlanksKeeps ==
  ASSUME TokenInv, PassInv, OverBlanks
  PROVE  PassInv'
<1> DEFINE pass == passes[Len(passes)]
<1>1. pass \in Seq(Token) /\ UpTo(files, pass, in, Frontier)
  BY DEF PassInv
<1>2. \A i \in 1 .. Len(pass) : End(files, pass[i]) \in Nat
  <2>1. ASSUME NEW i \in 1 .. Len(pass) PROVE pass[i] \in Token
    BY <1>1
  <2>. QED BY <2>1, TokenFields
<1>3. in \in Nat /\ Frontier \in Nat
  BY FrontierIsNat DEF TokenInv, TokenTypes
<1> HIDE DEF pass
<1>4. UpTo(files, pass, in, Frontier')
  BY <1>1, <1>2, <1>3, BlanksFollow DEF OverBlanks
<1>. QED BY <1>4 DEF PassInv, OverBlanks, pass

LEMMA NextFileKeeps == TokenInv /\ PassInv /\ OpenFile => PassInv'
<1> SUFFICES ASSUME TokenInv, PassInv, OpenFile PROVE PassInv'
  OBVIOUS
<1>1. /\ in' = in + 1 /\ in \in Nat /\ UNCHANGED <<files, passes>> /\ pc = "none"
      /\ nextToken' = <<>> /\ offset' = 0 /\ pc' = "call"
  BY DEF OpenFile, TokenInv, TokenTypes
<1>2. nextToken = <<>>
  BY <1>1 DEF TokenInv, HalfWaits
<1>3. Frontier = offset /\ Frontier' = 0 /\ offset \in Nat
  BY <1>1, <1>2 DEF Frontier, TokenInv, TokenTypes
<1>4. in # 0 => offset = Len(files[in])
  BY <1>1 DEF TokenInv, StreamIsRead, NoFile
<1> DEFINE pass == passes[Len(passes)]
<1>5. pass \in Seq(Token) /\ UpTo(files, pass, in, offset)
  BY <1>3 DEF PassInv
<1> HIDE DEF pass
<1>6. UpTo(files, pass, in + 1, 0)
  BY <1>1, <1>3, <1>4, <1>5, NextFileFollows
<1>. QED BY <1>1, <1>3, <1>6 DEF PassInv, pass

LEMMA ResetKeeps == PassInv /\ Reset => PassInv'
<1> SUFFICES ASSUME PassInv, Reset PROVE PassInv'
  OBVIOUS
<1>1. passes' = Append(passes, <<>>) /\ in' = 0 /\ files' = files
  BY DEF Reset, NoFile
<1>2. /\ passes' \in Seq(Seq(Token)) /\ passes' # <<>> /\ Len(passes) \in Nat
      /\ Len(passes') = Len(passes) + 1 /\ passes'[Len(passes) + 1] = <<>>
      /\ \A n \in 1 .. Len(passes) : passes'[n] = passes[n]
  <2>1. passes \in Seq(Seq(Token)) /\ <<>> \in Seq(Token)
    BY DEF PassInv
  <2>. QED BY <1>1, <2>1, AppendProperties
<1>3. RightPass(files, <<>>) /\ UpTo(files, <<>>, 0, Frontier')
  BY EmptyPass
<1>4. ASSUME NEW n \in 1 .. Len(passes') PROVE RightPass(files, passes'[n])
  <2>1. n \in 1 .. Len(passes) \/ n = Len(passes) + 1
    BY <1>2
  <2>. QED BY <1>2, <1>3, <2>1 DEF PassInv
<1>. QED BY <1>1, <1>2, <1>3, <1>4 DEF PassInv

\* These bytes are delivered, and behind them the next token can start.
Leaves(bytes) ==
  /\ bytes # <<>> /\ Piece(files[in], tokenOffset, padding, bytes)
  /\ Deliver(bytes)
  /\ Frontier' \in Nat
  /\ tokenOffset + padding + Len(bytes) <= Frontier'
  /\ OnlyBlanks(files[in], tokenOffset + padding + Len(bytes), Frontier')

LEMMA DeliveryKeeps ==
  ASSUME TokenInv, PassInv, Delivers
  PROVE  PassInv'
<1>1. /\ TokenTypes /\ in # NoFile /\ pc = "split" /\ nextToken = <<>> /\ token # <<>>
      /\ Taken(files[in], tokenOffset, padding, token, offset)
  BY DEF TokenInv, TokenIsRead, Delivers
<1>2. /\ token \in Seq(AllBytes) /\ tokenOffset \in Nat /\ padding \in {0, 2} /\ offset \in Nat
      /\ in \in 1 .. Len(files) /\ in \in Nat
  BY <1>1 DEF TokenTypes, NoFile
<1>3. PICK bytes \in Seq(AllBytes) : Leaves(bytes)
  <2>1. CASE Completed
    <3>1. Deliver(token) /\ nextToken' = <<>> /\ pc' = "idle" /\ offset' = offset
      BY <2>1 DEF Completed, Deliver
    <3>2. Frontier' = offset
      BY <3>1 DEF Frontier
    <3>3. Leaves(token)
      BY <1>1, <1>2, <3>1, <3>2 DEF Taken, Leaves
    <3>. QED BY <1>2, <3>3
  <2>2. ASSUME NEW bytes, Halved(bytes) PROVE bytes \in Seq(AllBytes) /\ Leaves(bytes)
    <3>1. /\ bytes \in Seq(AllBytes) /\ bytes # <<>> /\ Deliver(bytes)
          /\ Piece(files[in], tokenOffset, padding, bytes)
      BY <2>2 DEF Halved
    <3>2. Frontier' = tokenOffset + padding + Len(bytes)
      BY <2>2 DEF Halved, Frontier
    <3>3. tokenOffset + padding + Len(bytes) \in Nat
      BY <1>2, <3>1
    <3>. QED BY <3>1, <3>2, <3>3, NothingSkipped DEF Leaves
  <2>. QED BY <2>1, <2>2 DEF Delivers
<1> DEFINE pass == passes[Len(passes)]
           t == Delivery(bytes)
           longer == Append(pass, t)
<1>4. /\ t \in Token /\ OffsetIsRight(files, t) /\ t.file = in /\ t.at = tokenOffset
      /\ End(files, t) = tokenOffset + padding + Len(bytes)
  BY <1>1, <1>3, PieceIsRight DEF Delivery, Leaves
<1>5. /\ passes \in Seq(Seq(Token)) /\ Len(passes) \in Nat \ {0} /\ Len(passes) \in 1 .. Len(passes)
      /\ \A n \in 1 .. Len(passes) : RightPass(files, passes[n])
  BY DEF PassInv
<1>6. passes' = [passes EXCEPT ![Len(passes)] = longer] /\ UNCHANGED <<files, in>>
  BY <1>3 DEF Deliver, Delivery, Leaves
<1>7. RightPass(files, pass) /\ UpTo(files, pass, in, tokenOffset) /\ pass \in Seq(Token)
  BY <1>1, <1>5 DEF PassInv, Frontier
<1> HIDE DEF pass, t
<1>8. RightPass(files, longer) /\ UpTo(files, longer, in, End(files, t))
  BY <1>2, <1>4, <1>7, TokenFollows
<1>9. longer \in Seq(Token)
  BY <1>4, <1>7, AppendProperties
<1> HIDE DEF longer
<1>10. UpTo(files, longer, in, Frontier')
  <2>1. \A i \in 1 .. Len(longer) : End(files, longer[i]) \in Nat
    <3>1. ASSUME NEW i \in 1 .. Len(longer) PROVE longer[i] \in Token
      BY <1>9
    <3>. QED BY <3>1, TokenFields
  <2>2. End(files, t) \in Nat
    BY <1>4, TokenFields
  <2>3. /\ End(files, t) <= Frontier' /\ OnlyBlanks(files[in], End(files, t), Frontier')
        /\ Frontier' \in Nat
    BY <1>3, <1>4 DEF Leaves
  <2>. QED BY <1>2, <1>8, <2>1, <2>2, <2>3, BlanksFollow
<1>11. /\ passes' \in Seq(Seq(Token)) /\ passes' # <<>> /\ Len(passes') = Len(passes)
       /\ \A n \in 1 .. Len(passes) : passes'[n] = (IF n = Len(passes) THEN longer ELSE passes[n])
  BY <1>5, <1>6, <1>9
<1>. QED BY <1>5, <1>6, <1>8, <1>10, <1>11 DEF PassInv

LEMMA PassInvStep == TokenInv /\ PassInv /\ [Next]_vars => PassInv'
<1> SUFFICES ASSUME TokenInv, PassInv, [Next]_vars PROVE PassInv'
  OBVIOUS
<1>1. CASE \/ Ask \/ TakeSecondHalf \/ StartToken
           \/ AddByte \/ StopAlone \/ EndToken \/ DropPeriod \/ SkipBlank \/ NoToken
           \/ NoMoreTokens \/ UNCHANGED vars
  BY <1>1, ReadingMoves, OverBlanksKeeps
<1>2. CASE SplitAfterQuote \/ SplitBeforeQuote \/ SplitAtApostrophe \/ Whole
  BY <1>2, DeliveriesAre, DeliveryKeeps
<1>3. CASE OpenFile
  BY <1>3, NextFileKeeps
<1>4. CASE Reset
  BY <1>4, ResetKeeps
<1>. QED BY <1>1, <1>2, <1>3, <1>4 DEF Next

LEMMA PassesAreRight == Spec => []PassInv
<1>1. Init => TokenInv /\ PassInv
  BY TokenInvInit, PassInvInit
<1>2. TokenInv /\ PassInv /\ [Next]_vars => (TokenInv /\ PassInv)'
  BY TokenInvStep, PassInvStep
<1>. QED BY <1>1, <1>2, PTL DEF Spec

LEMMA ReadAs ==
  ASSUME NEW t
  PROVE  /\ t.at + Width(t) = End(files, t) /\ Text(t) = TextAt(files, t)
BY Zenon DEF Width, WasApostrophe, End, Shortened, Text, TextAt

(* THE OFFSETS OF mitie_tokenize_with_offsets(): for every text, each token *)
(* is what the text has at its offset, but for the quote that became ' and *)
(* the digits that became #.                                               *)
THEOREM TokensAreWhereTheySay == Spec => []OffsetsAreRight
<1>1. ASSUME PassInv PROVE OffsetsAreRight
  <2>1. ASSUME NEW t \in Delivered PROVE t.bytes # <<>> /\ Text(t) = t.bytes
    <3>1. PICK pass \in Range(passes) : t \in Range(pass)
      BY DEF Delivered
    <3>2. PICK n \in 1 .. Len(passes) : pass = passes[n]
      BY <1>1, <3>1 DEF Range, PassInv
    <3>3. RightPass(files, pass)
      BY <1>1, <3>2 DEF PassInv
    <3>4. PICK i \in 1 .. Len(pass) : t = pass[i]
      BY <3>1, <3>3 DEF Range, RightPass
    <3>5. OffsetIsRight(files, t)
      BY <3>3, <3>4 DEF RightPass
    <3>. QED BY <3>5, ReadAs DEF OffsetIsRight
  <2>. QED BY <2>1 DEF OffsetsAreRight
<1>. QED BY <1>1, PassesAreRight, PTL

(* NOTHING IS LOST: for every sequence of files, the tokens of a pass come *)
(* in the order of the text and do not overlap, and what lies between two  *)
(* of them, or behind the last one of a file that was left, is blanks and  *)
(* the period of a title.                                                  *)
THEOREM NoByteIsLost == Spec => []NothingIsLost
<1>1. ASSUME PassInv, NEW pass \in Range(passes)
      PROVE  /\ \A i \in 1 .. Len(pass) - 1 :
                  \/ pass[i].file < pass[i + 1].file
                  \/ /\ pass[i].file = pass[i + 1].file
                     /\ pass[i].at + Width(pass[i]) <= pass[i + 1].at
             /\ \A i \in 1 .. Len(pass) : \A f \in 1 .. pass[i].file :
                  \A p \in 1 .. (IF f = pass[i].file THEN pass[i].at ELSE Len(files[f])) :
                    \/ MayBeDropped(f, p)
                    \/ \E j \in 1 .. i - 1 : pass[j].file = f /\ p \in Span(pass[j])
  <2>1. RightPass(files, pass)
    <3>1. PICK n \in 1 .. Len(passes) : pass = passes[n]
      BY <1>1 DEF Range, PassInv
    <3>. QED BY <1>1, <3>1 DEF PassInv
  <2>2. ASSUME NEW i \in 1 .. Len(pass) - 1
        PROVE  \/ pass[i].file < pass[i + 1].file
               \/ /\ pass[i].file = pass[i + 1].file
                  /\ pass[i].at + Width(pass[i]) <= pass[i + 1].at
    BY <2>1, ReadAs DEF RightPass, InOrder
  <2>3. ASSUME NEW i \in 1 .. Len(pass), NEW f \in 1 .. pass[i].file,
               NEW p \in 1 .. (IF f = pass[i].file THEN pass[i].at ELSE Len(files[f]))
        PROVE  \/ MayBeDropped(f, p)
               \/ \E j \in 1 .. i - 1 : pass[j].file = f /\ p \in Span(pass[j])
    <3>1. Accounted(files, pass, i - 1, f, p)
      BY <2>1 DEF RightPass, Reached
    <3>2. MayBeDropped(f, p) <=> Blank(files[f], p)
      BY Zenon DEF MayBeDropped, Blank
    <3>3. \A t : Span(t) = t.at + 1 .. End(files, t)
      BY ReadAs, Zenon DEF Span
    <3>. QED BY <3>1, <3>2, <3>3, Zenon DEF Accounted
  <2>. QED BY <2>2, <2>3
<1>2. PassInv => NothingIsLost
  BY <1>1 DEF NothingIsLost
<1>. QED BY <1>2, PassesAreRight, PTL

-----------------------------------------------------------------------------
(* The same files are read in the same way: each step of the tokenizers is  *)
(* determined by the text and by those of their variables that are current, *)
(* and reset() brings them back to where they started.  The others are left *)
(* as they are, so a machine here is without them.                         *)

Start == [in |-> NoFile, offset |-> 0, token |-> <<>>, tokenOffset |-> 0, nextToken |-> <<>>,
          nextTokenOffset |-> 0, padding |-> 0, pc |-> "idle"]

Machine ==
  [in |-> in, offset |-> offset,
   token |-> IF pc \in {"scan", "split"} THEN token ELSE <<>>,
   tokenOffset |-> IF pc \in {"scan", "split"} THEN tokenOffset ELSE 0,
   nextToken |-> nextToken,
   nextTokenOffset |-> IF nextToken = <<>> THEN 0 ELSE nextTokenOffset,
   padding |-> padding, pc |-> pc]

ByteAt(text, n) == IF n < Len(text) THEN text[n + 1] ELSE EOF

\* What becomes of a token when the next two bytes are b and c
IsAbbreviation(s, b) ==
  b = "." /\ (Len(s) = 1 \/ "." \in {s[i] : i \in {Len(s) - 1, Len(s)} \ {0}})

IsTitle(s, b) == b = "." /\ s = <<"A", "a">>

GoesOn(s, b, c) ==
  CASE b = "'"     -> s = <<>>
    [] b \in Stops -> s # <<>> /\ \/ IsAbbreviation(s, b)
                                  \/ ~IsTitle(s, b) /\ b \in {",", "."} /\ Last(s) = "9"
    [] b = Space   -> FALSE
    [] b = EOF     -> FALSE
    [] OTHER       -> ~(b = "C2" /\ c = "A0")

WidthOfBlank(b, c) == IF b = Space THEN 1 ELSE IF b = "C2" /\ c = "A0" THEN 2 ELSE 0

Scanned(m, b, c) ==
  IF GoesOn(m.token, b, c)
  THEN [m EXCEPT !.token = Append(m.token, b), !.offset = m.offset + 1]
  ELSE IF WidthOfBlank(b, c) > 0
  THEN IF m.token = <<>>
       THEN [m EXCEPT !.offset = m.offset + WidthOfBlank(b, c),
                      !.tokenOffset = m.tokenOffset + WidthOfBlank(b, c)]
       ELSE [m EXCEPT !.offset = m.offset + WidthOfBlank(b, c), !.pc = "split"]
  ELSE IF m.token = <<>>
  THEN IF b \in Stops
       THEN [m EXCEPT !.token = <<b>>, !.offset = m.offset + 1, !.pc = "split"]
       ELSE [m EXCEPT !.tokenOffset = 0, !.pc = "none"]
  ELSE IF IsTitle(m.token, b) /\ ~IsAbbreviation(m.token, b)
  THEN [m EXCEPT !.offset = m.offset + 1, !.pc = "split"]
  ELSE [m EXCEPT !.pc = "split"]

\* How a token is split: what is delivered, what waits, where, with which padding
Opens(s) == Len(s) >= 4 /\ SubSeq(s, 1, 3) = OpenQuote

Closes(s) == Len(s) >= 4 /\ SubSeq(s, Len(s) - 2, Len(s)) = CloseQuote

Cuts(s) == {i \in 2 .. Len(s) - 2 : SubSeq(s, i, i + 2) = Apostrophe}

FirstCut(s) == CHOOSE i \in Cuts(s) : \A j \in Cuts(s) : i <= j

Halves(s, at, pad) ==
  IF Opens(s) THEN [front |-> OpenQuote, back |-> SubSeq(s, 4, Len(s)), at |-> at + 3, pad |-> 0]
  ELSE IF Closes(s)
  THEN [front |-> SubSeq(s, 1, Len(s) - 3), back |-> CloseQuote, at |-> at + Len(s) - 3, pad |-> 0]
  ELSE IF Cuts(s) # {}
  THEN [front |-> SubSeq(s, 1, FirstCut(s) - 1), back |-> AtApostrophe(s, FirstCut(s)),
        at |-> at + FirstCut(s) - 1 + pad, pad |-> 2]
  ELSE [front |-> s, back |-> <<>>, at |-> 0, pad |-> 0]

HalvesOf(m) == Halves(m.token, m.tokenOffset, m.padding)

Step(fs, m) ==
  CASE m.pc \in {"idle", "over"} -> [m EXCEPT !.pc = "call"]
    [] m.pc = "call" /\ m.nextToken # <<>> ->
         [m EXCEPT !.token = m.nextToken, !.tokenOffset = m.nextTokenOffset, !.nextToken = <<>>,
                   !.nextTokenOffset = 0, !.pc = "split"]
    [] m.pc = "call" /\ m.nextToken = <<>> /\ m.in = NoFile -> [m EXCEPT !.pc = "none"]
    [] m.pc = "call" /\ m.nextToken = <<>> /\ m.in # NoFile ->
         [m EXCEPT !.tokenOffset = m.offset, !.pc = "scan"]
    [] m.pc = "scan" -> Scanned(m, ByteAt(fs[m.in], m.offset), ByteAt(fs[m.in], m.offset + 1))
    [] m.pc = "split" ->
         [m EXCEPT !.token = <<>>, !.tokenOffset = 0, !.nextToken = HalvesOf(m).back,
                   !.nextTokenOffset = HalvesOf(m).at, !.padding = HalvesOf(m).pad, !.pc = "idle"]
    [] m.pc = "none" /\ m.in + 1 <= Len(fs) ->
         [m EXCEPT !.in = m.in + 1, !.offset = 0, !.pc = "call"]
    [] m.pc = "none" /\ m.in + 1 > Len(fs) -> [m EXCEPT !.pc = "over"]

Told(m) == [file |-> m.in, at |-> m.tokenOffset, bytes |-> Unigram(HalvesOf(m).front)]

\* The machines of a pass up to its n-th, and what it had delivered at each
Reading(fs, r, q, n) ==
  /\ r[1] = Start /\ q[1] = <<>>
  /\ \A k \in 1 .. n - 1 :
       /\ r[k + 1] = Step(fs, r[k])
       /\ q[k + 1] = IF r[k].pc = "split" THEN Append(q[k], Told(r[k])) ELSE q[k]
  /\ \A k \in 1 .. n : q[k] \in Seq(Token)

HasReading(fs, pass) == \E n \in Nat \ {0} : \E r, q : Reading(fs, r, q, n) /\ q[n] = pass

IsAt(fs, m, pass) ==
  \E n \in Nat \ {0} : \E r, q : Reading(fs, r, q, n) /\ r[n] = m /\ q[n] = pass

AlikeInv ==
  /\ \A i \in 1 .. Len(passes) : HasReading(files, passes[i])
  /\ IsAt(files, Machine, passes[Len(passes)])

LEMMA LeastNatural ==
  ASSUME NEW T \in SUBSET Nat, T # {}
  PROVE  \E x \in T : \A y \in T : x <= y
<1>1. IsWellFoundedOn(OpToRel(<, Nat), Nat)
  BY NatLessThanWellFounded
<1>2. PICK x \in T : \A y \in T : ~(<<y, x>> \in OpToRel(<, Nat))
  BY <1>1, WFMin, Zenon
<1>3. \A u, v \in Nat : v < u => <<v, u>> \in OpToRel(<, Nat)
  BY DEF OpToRel
<1>4. \A y \in T : ~(y < x)
  BY <1>2, <1>3, Zenon
<1>. QED BY <1>4

\* Two readings are the same as far as both go.
LEMMA ReadingsAgree ==
  ASSUME NEW fs, NEW r, NEW q, NEW n \in Nat, NEW r2, NEW q2, NEW n2 \in Nat,
         Reading(fs, r, q, n), Reading(fs, r2, q2, n2)
  PROVE  \A k \in 1 .. n : k <= n2 => r[k] = r2[k] /\ q[k] = q2[k]
<1> DEFINE T == {k \in Nat : k \in 1 .. n /\ k <= n2 /\ ~(r[k] = r2[k] /\ q[k] = q2[k])}
<1>1. CASE T = {}
  BY <1>1
<1>2. CASE T # {}
  <2>1. PICK k \in T : \A j \in T : k <= j
    BY <1>2, LeastNatural
  <2>2. k \in 1 .. n /\ k <= n2 /\ ~(r[k] = r2[k] /\ q[k] = q2[k])
    BY <2>1
  <2>3. k # 1
    BY <2>2 DEF Reading
  <2> DEFINE j == k - 1
  <2>4. j \in 1 .. n - 1 /\ j \in 1 .. n2 - 1 /\ j + 1 = k /\ j < k /\ j \in Nat
    BY <2>2, <2>3
  <2> HIDE DEF j
  <2>5. r[j] = r2[j] /\ q[j] = q2[j]
    <3>1. j \notin T
      BY <2>1, <2>2, <2>4
    <3>. QED BY <2>4, <3>1
  <2>6. /\ r[j + 1] = Step(fs, r[j]) /\ r2[j + 1] = Step(fs, r2[j])
        /\ q[j + 1] = IF r[j].pc = "split" THEN Append(q[j], Told(r[j])) ELSE q[j]
        /\ q2[j + 1] = IF r2[j].pc = "split" THEN Append(q2[j], Told(r2[j])) ELSE q2[j]
    BY <2>4, Zenon DEF Reading
  <2>7. r[j + 1] = r2[j + 1] /\ q[j + 1] = q2[j + 1]
    BY <2>5, <2>6, Zenon
  <2>. QED BY <2>2, <2>4, <2>7
<1>. QED BY <1>1, <1>2

FrontOf(s, t) == Len(s) <= Len(t) /\ \A i \in 1 .. Len(s) : s[i] = t[i]

\* What was delivered stays delivered.
LEMMA ReadingsGrow ==
  ASSUME NEW fs, NEW r, NEW q, NEW n \in Nat, Reading(fs, r, q, n), NEW a \in 1 .. n
  PROVE  \A b \in a .. n : FrontOf(q[a], q[b])
<1> DEFINE T == {b \in Nat : b \in a .. n /\ ~FrontOf(q[a], q[b])}
<1>1. CASE T = {}
  BY <1>1
<1>2. CASE T # {}
  <2>1. PICK b \in T : \A j \in T : b <= j
    BY <1>2, LeastNatural
  <2>2. b \in a .. n /\ ~FrontOf(q[a], q[b])
    BY <2>1
  <2>3. q[a] \in Seq(Token)
    BY DEF Reading
  <2>4. b # a
    BY <2>2, <2>3 DEF FrontOf
  <2> DEFINE j == b - 1
  <2>5. j \in a .. n - 1 /\ j \in 1 .. n - 1 /\ j \in 1 .. n /\ j + 1 = b /\ j < b /\ j \in Nat
    BY <2>2, <2>4
  <2> HIDE DEF j
  <2>6. FrontOf(q[a], q[j])
    <3>1. j \notin T
      BY <2>1, <2>2, <2>5
    <3>. QED BY <2>5, <3>1
  <2>7. /\ q[j] \in Seq(Token) /\ q[j + 1] \in Seq(Token)
        /\ q[j + 1] = IF r[j].pc = "split" THEN Append(q[j], Told(r[j])) ELSE q[j]
    BY <2>2, <2>5 DEF Reading
  <2>8. FrontOf(q[a], q[j + 1])
    <3>1. CASE q[j + 1] = q[j]
      BY <2>6, <3>1
    <3>2. CASE q[j + 1] = Append(q[j], Told(r[j]))
      <4> DEFINE x == Told(r[j])
      <4>1. /\ Len(Append(q[j], x)) = Len(q[j]) + 1
            /\ \A i \in 1 .. Len(q[j]) : Append(q[j], x)[i] = q[j][i]
        BY <2>7
      <4>. QED BY <2>3, <2>6, <2>7, <3>2, <4>1 DEF FrontOf
    <3>. QED BY <2>7, <3>1, <3>2
  <2>. QED BY <2>2, <2>5, <2>8
<1>. QED BY <1>1, <1>2

LEMMA FrontsArePrefixes ==
  ASSUME NEW s \in Seq(Token), NEW t \in Seq(Token), FrontOf(s, t)
  PROVE  IsPrefix(s, t)
<1> DEFINE u == SubSeq(s, 1, Len(s))
           v == SubSeq(t, 1, Len(s))
<1>1. /\ u \in Seq(Token) /\ Len(u) = Len(s) /\ \A i \in 1 .. Len(s) : u[i] = s[i]
      /\ v \in Seq(Token) /\ Len(v) = Len(s) /\ \A i \in 1 .. Len(s) : v[i] = t[i]
  <2>1. Len(s) \in Nat /\ Len(s) <= Len(t)
    BY DEF FrontOf
  <2>. QED BY <2>1, SubSeqProperties
<1> HIDE DEF u, v
<1>2. u = v
  BY <1>1, SeqEqual DEF FrontOf
<1>. QED BY <1>2 DEF IsPrefix, FrontOf, u, v

LEMMA ReadingsAreAlike ==
  ASSUME NEW fs, NEW p, NEW p2, HasReading(fs, p), HasReading(fs, p2)
  PROVE  IsPrefix(p, p2) \/ IsPrefix(p2, p)
<1>1. PICK n \in Nat \ {0} : \E r, q : Reading(fs, r, q, n) /\ q[n] = p
  BY DEF HasReading
<1>2. PICK r, q : Reading(fs, r, q, n) /\ q[n] = p
  BY <1>1
<1>3. PICK n2 \in Nat \ {0} : \E r2, q2 : Reading(fs, r2, q2, n2) /\ q2[n2] = p2
  BY DEF HasReading
<1>4. PICK r2, q2 : Reading(fs, r2, q2, n2) /\ q2[n2] = p2
  BY <1>3
<1>5. p \in Seq(Token) /\ p2 \in Seq(Token)
  BY <1>2, <1>4 DEF Reading
<1>6. CASE n <= n2
  <2>1. q[n] = q2[n]
    BY <1>2, <1>4, <1>6, ReadingsAgree
  <2>2. FrontOf(q2[n], q2[n2])
    BY <1>4, <1>6, ReadingsGrow
  <2>. QED BY <1>2, <1>4, <1>5, <2>1, <2>2, FrontsArePrefixes
<1>7. CASE n2 <= n
  <2>1. q2[n2] = q[n2]
    BY <1>2, <1>4, <1>7, ReadingsAgree
  <2>2. FrontOf(q[n2], q[n])
    BY <1>2, <1>7, ReadingsGrow
  <2>. QED BY <1>2, <1>4, <1>5, <2>1, <2>2, FrontsArePrefixes
<1>. QED BY <1>6, <1>7

LEMMA ReadingGoesOn ==
  ASSUME NEW fs, NEW m, NEW pass, IsAt(fs, m, pass), NEW next \in Seq(Token),
         next = IF m.pc = "split" THEN Append(pass, Told(m)) ELSE pass
  PROVE  IsAt(fs, Step(fs, m), next)
<1>1. PICK n \in Nat \ {0} : \E r, q : Reading(fs, r, q, n) /\ r[n] = m /\ q[n] = pass
  BY DEF IsAt
<1>2. PICK r, q : Reading(fs, r, q, n) /\ r[n] = m /\ q[n] = pass
  BY <1>1
<1> DEFINE r2 == [k \in 1 .. n + 1 |-> IF k = n + 1 THEN Step(fs, m) ELSE r[k]]
           q2 == [k \in 1 .. n + 1 |-> IF k = n + 1 THEN next ELSE q[k]]
<1>3. /\ r2[n + 1] = Step(fs, m) /\ q2[n + 1] = next
      /\ \A k \in 1 .. n : r2[k] = r[k] /\ q2[k] = q[k]
  OBVIOUS
<1> HIDE DEF r2, q2
<1>4. r2[1] = Start /\ q2[1] = <<>>
  BY <1>2, <1>3 DEF Reading
<1>5. ASSUME NEW k \in 1 .. n
      PROVE  /\ r2[k + 1] = Step(fs, r2[k])
             /\ q2[k + 1] = IF r2[k].pc = "split" THEN Append(q2[k], Told(r2[k])) ELSE q2[k]
  <2>1. CASE k = n
    BY <1>2, <1>3, <2>1
  <2>2. CASE k \in 1 .. n - 1
    <3>1. k + 1 \in 1 .. n
      BY <2>2
    <3>2. r2[k] = r[k] /\ q2[k] = q[k] /\ r2[k + 1] = r[k + 1] /\ q2[k + 1] = q[k + 1]
      BY <1>3, <3>1
    <3>3. /\ r[k + 1] = Step(fs, r[k])
          /\ q[k + 1] = IF r[k].pc = "split" THEN Append(q[k], Told(r[k])) ELSE q[k]
      BY <1>2, <2>2, Zenon DEF Reading
    <3>. QED BY <3>2, <3>3, Zenon
  <2>. QED BY <2>1, <2>2
<1>6. ASSUME NEW k \in 1 .. n + 1 PROVE q2[k] \in Seq(Token)
  <2>1. CASE k = n + 1
    BY <1>3, <2>1
  <2>2. CASE k \in 1 .. n
    BY <1>2, <1>3, <2>2 DEF Reading
  <2>. QED BY <2>1, <2>2
<1>7. Reading(fs, r2, q2, n + 1)
  <2>1. (n + 1) - 1 = n
    OBVIOUS
  <2>. QED BY <1>4, <1>5, <1>6, <2>1, Zenon DEF Reading
<1>8. n + 1 \in Nat \ {0}
  OBVIOUS
<1>. QED BY <1>3, <1>7, <1>8, Zenon DEF IsAt

LEMMA ReadingStarts == \A fs : IsAt(fs, Start, <<>>)
<1> TAKE fs
<1> DEFINE r == [k \in {1} |-> Start]
           q == [k \in {1} |-> <<>>]
<1>1. r[1] = Start /\ q[1] = <<>>
  OBVIOUS
<1> HIDE DEF r, q
<1>2. \A k \in 1 .. 1 : k = 1
  OBVIOUS
<1>3. \A k \in 1 .. 1 - 1 : FALSE
  OBVIOUS
<1>4. <<>> \in Seq(Token)
  OBVIOUS
<1>5. Reading(fs, r, q, 1)
  BY <1>1, <1>2, <1>3, <1>4, Zenon DEF Reading
<1>6. 1 \in Nat \ {0}
  OBVIOUS
<1>. QED BY <1>1, <1>5, <1>6, Zenon DEF IsAt

\* The fields of a machine
LEMMA MachineIs ==
  /\ Machine.in = in /\ Machine.offset = offset /\ Machine.nextToken = nextToken
  /\ Machine.padding = padding /\ Machine.pc = pc
  /\ nextToken # <<>> => Machine.nextTokenOffset = nextTokenOffset
  /\ pc \in {"scan", "split"} => Machine.token = token /\ Machine.tokenOffset = tokenOffset
BY DEF Machine

LEMMA BytesOfBlanks ==
  /\ Space \notin Stops /\ Space # "'" /\ Space # EOF /\ Space # "C2"
  /\ "C2" \notin Stops /\ "C2" # "'" /\ "C2" # EOF
  /\ EOF \notin Stops /\ EOF # "'" /\ "'" \notin Stops /\ "." \in Stops
BY Zenon DEF Space, Stops, EOF

LEMMA ScanOutcomes ==
  ASSUME NEW s, NEW b, NEW c
  PROVE  /\ WidthOfBlank(b, c) > 0 => ~GoesOn(s, b, c)
         /\ s = <<>> /\ b \in Stops => ~GoesOn(s, b, c) /\ WidthOfBlank(b, c) = 0
         /\ IsTitle(s, b) /\ ~IsAbbreviation(s, b) =>
              ~GoesOn(s, b, c) /\ WidthOfBlank(b, c) = 0 /\ s # <<>>
         /\ s = <<>> /\ b = EOF => ~GoesOn(s, b, c) /\ WidthOfBlank(b, c) = 0 /\ b \notin Stops
         /\ b \in Stops \cup {"'", EOF} => WidthOfBlank(b, c) = 0
<1> HIDE DEF Stops
<1>1. WidthOfBlank(b, c) > 0 => b = Space \/ (b = "C2" /\ c = "A0")
  BY DEF WidthOfBlank
<1>2. b # Space /\ b # "C2" => WidthOfBlank(b, c) = 0
  BY DEF WidthOfBlank
<1>3. b = Space \/ (b = "C2" /\ c = "A0") => ~GoesOn(s, b, c)
  BY BytesOfBlanks DEF GoesOn
<1>4. b \in Stops \cup {"'", EOF} => b # Space /\ b # "C2"
  BY BytesOfBlanks
<1>5. s = <<>> /\ b \in Stops => ~GoesOn(s, b, c)
  BY BytesOfBlanks DEF GoesOn
<1>6. IsTitle(s, b) /\ ~IsAbbreviation(s, b) => ~GoesOn(s, b, c) /\ s # <<>> /\ b \in Stops
  BY BytesOfBlanks DEF GoesOn, IsTitle
<1>7. b = EOF => ~GoesOn(s, b, c)
  BY BytesOfBlanks DEF GoesOn
<1>. QED BY <1>1, <1>2, <1>3, <1>4, <1>5, <1>6, <1>7, BytesOfBlanks

LEMMA ScanIs ==
  ASSUME TokenTypes
  PROVE  LET b == ByteAt(files[in], offset)
             c == ByteAt(files[in], offset + 1)
         IN  /\ Peek(0) = b /\ Peek(1) = c
             /\ Continues <=> GoesOn(token, b, c)
             /\ BlankWidth = WidthOfBlank(b, c)
             /\ EndsTitle <=> IsTitle(token, b)
             /\ EndsAbbreviation <=> IsAbbreviation(token, b)
<1>1. offset + 0 = offset
  BY DEF TokenTypes
<1>2. /\ Peek(0) = ByteAt(files[in], offset) /\ Peek(1) = ByteAt(files[in], offset + 1)
  BY <1>1, Zenon DEF Peek, ByteAt
<1>3. /\ Continues <=> GoesOn(token, Peek(0), Peek(1))
      /\ BlankWidth = WidthOfBlank(Peek(0), Peek(1))
      /\ EndsTitle <=> IsTitle(token, Peek(0))
      /\ EndsAbbreviation <=> IsAbbreviation(token, Peek(0))
  BY Zenon DEF Continues, EndsAbbreviation, EndsTitle, InNumber, IsNoBreakSpace, BlankWidth, GoesOn,
               WidthOfBlank, IsTitle, IsAbbreviation
<1>. QED BY <1>2, <1>3, Zenon

LEMMA CallsStep ==
  ASSUME TokenInv, Ask \/ TakeSecondHalf \/ StartToken \/ OpenFile \/ NoMoreTokens
  PROVE  Machine' = Step(files, Machine)
<1> HIDE DEF NoFile
<1>1. CASE Ask
  <2>1. Step(files, Machine) = [Machine EXCEPT !.pc = "call"]
    BY <1>1, MachineIs DEF Ask, Step
  <2>. QED BY ZenonT(30), <1>1, <2>1 DEF Ask, Machine
<1>2. CASE TakeSecondHalf
  <2>1. Step(files, Machine) =
          [Machine EXCEPT !.token = nextToken, !.tokenOffset = nextTokenOffset,
                          !.nextToken = <<>>, !.nextTokenOffset = 0, !.pc = "split"]
    BY <1>2, MachineIs DEF TakeSecondHalf, Step
  <2>2. /\ pc = "call" /\ pc' = "split" /\ nextToken # <<>> /\ nextToken' = <<>>
        /\ token' = nextToken /\ tokenOffset' = nextTokenOffset
        /\ UNCHANGED <<in, offset, padding>>
    BY <1>2 DEF TakeSecondHalf
  <2>. QED BY ZenonT(30), <2>1, <2>2 DEF Machine
<1>3. CASE StartToken
  <2>1. CASE in = NoFile
    <3>1. Step(files, Machine) = [Machine EXCEPT !.pc = "none"]
      BY <1>3, <2>1, MachineIs DEF StartToken, Step
    <3>. QED BY ZenonT(30), <1>3, <2>1, <3>1 DEF StartToken, Machine
  <2>2. CASE in # NoFile
    <3>1. Step(files, Machine) = [Machine EXCEPT !.tokenOffset = offset, !.pc = "scan"]
      BY <1>3, <2>2, MachineIs DEF StartToken, Step
    <3>2. /\ pc = "call" /\ pc' = "scan" /\ token' = <<>> /\ tokenOffset' = offset
          /\ UNCHANGED <<in, offset, nextToken, nextTokenOffset, padding>>
      BY <1>3, <2>2 DEF StartToken
    <3>. QED BY ZenonT(30), <3>1, <3>2 DEF Machine
  <2>. QED BY <2>1, <2>2
<1>4. CASE OpenFile
  <2>1. /\ pc = "none" /\ in + 1 <= Len(files) /\ in' = in + 1 /\ offset' = 0 /\ pc' = "call"
        /\ nextToken = <<>> /\ nextToken' = <<>> /\ padding = 0 /\ padding' = 0
    BY <1>4 DEF OpenFile, TokenInv, TokenTypes, HalfWaits, PaddingIsCurrent
  <2>2. in + 1 \in Nat /\ Len(files) \in Nat
    BY DEF TokenInv, TokenTypes
  <2>3. ~(in + 1 > Len(files))
    BY <2>1, <2>2
  <2>4. Step(files, Machine) = [Machine EXCEPT !.in = in + 1, !.offset = 0, !.pc = "call"]
    <3>1. Machine.pc = "none" /\ Machine.in + 1 <= Len(files) /\ ~(Machine.in + 1 > Len(files))
          /\ Machine.in = in
      BY <2>1, <2>3, MachineIs
    <3>. QED BY <3>1 DEF Step
  <2>. QED BY ZenonT(30), <2>1, <2>4 DEF Machine
<1>5. CASE NoMoreTokens
  <2>1. /\ pc = "none" /\ in + 1 > Len(files) /\ pc' = "over"
        /\ nextToken = <<>> /\ padding = 0 /\ padding' = 0
        /\ UNCHANGED <<in, offset, nextToken>>
    BY <1>5 DEF NoMoreTokens, TokenInv, TokenTypes, HalfWaits, PaddingIsCurrent
  <2>2. in + 1 \in Nat /\ Len(files) \in Nat
    BY DEF TokenInv, TokenTypes
  <2>3. ~(in + 1 <= Len(files))
    BY <2>1, <2>2
  <2>4. Step(files, Machine) = [Machine EXCEPT !.pc = "over"]
    BY <2>1, <2>3, MachineIs DEF Step
  <2>. QED BY ZenonT(30), <2>1, <2>4 DEF Machine
<1>. QED BY <1>1, <1>2, <1>3, <1>4, <1>5

LEMMA ScansStep ==
  ASSUME TokenInv, AddByte \/ StopAlone \/ EndToken \/ DropPeriod \/ SkipBlank \/ NoToken
  PROVE  Machine' = Step(files, Machine)
<1> DEFINE b == ByteAt(files[in], offset)
           c == ByteAt(files[in], offset + 1)
<1>1. pc = "scan" /\ nextToken = <<>> /\ TokenTypes
  BY DEF TokenInv, TokenIsRead, AddByte, StopAlone, EndToken, DropPeriod, SkipBlank, NoToken
<1>2. Step(files, Machine) = Scanned(Machine, b, c)
  BY <1>1, MachineIs DEF Step
<1>3. /\ Peek(0) = b /\ (Continues <=> GoesOn(token, b, c)) /\ BlankWidth = WidthOfBlank(b, c)
      /\ EndsTitle <=> IsTitle(token, b)
      /\ EndsAbbreviation <=> IsAbbreviation(token, b)
  BY <1>1, ScanIs
<1> HIDE DEF b, c
<1>4. Machine.token = token /\ Machine.tokenOffset = tokenOffset /\ Machine.offset = offset
  BY <1>1, MachineIs
<1>5. CASE AddByte
  <2>1. Scanned(Machine, b, c) = [Machine EXCEPT !.token = Append(token, b), !.offset = offset + 1]
    BY <1>3, <1>4, <1>5 DEF AddByte, Scanned
  <2>2. /\ token' = Append(token, b) /\ offset' = offset + 1
        /\ UNCHANGED <<in, tokenOffset, nextToken, nextTokenOffset, padding, pc>>
    BY <1>1, <1>3, <1>5 DEF AddByte, Consume
  <2>. QED BY ZenonT(30), <1>1, <1>2, <2>1, <2>2 DEF Machine
<1>6. CASE StopAlone
  <2>1. token = <<>> /\ b \in Stops /\ ~GoesOn(token, b, c) /\ ~(WidthOfBlank(b, c) > 0)
    BY <1>3, <1>6, ScanOutcomes DEF StopAlone
  <2>2. Scanned(Machine, b, c) =
          [Machine EXCEPT !.token = <<b>>, !.offset = offset + 1, !.pc = "split"]
    BY <1>4, <2>1 DEF Scanned
  <2>3. /\ pc' = "split" /\ token' = <<b>> /\ offset' = offset + 1
        /\ UNCHANGED <<in, tokenOffset, nextToken, nextTokenOffset, padding>>
    BY <1>1, <1>3, <1>6 DEF StopAlone, Consume
  <2>. QED BY ZenonT(30), <1>1, <1>2, <2>2, <2>3 DEF Machine
<1>7. CASE EndToken
  <2>1. /\ token # <<>> /\ ~GoesOn(token, b, c) /\ ~(WidthOfBlank(b, c) > 0)
        /\ ~(IsTitle(token, b) /\ ~IsAbbreviation(token, b))
    BY <1>3, <1>7, ScanOutcomes DEF EndToken
  <2>2. Scanned(Machine, b, c) = [Machine EXCEPT !.pc = "split"]
    BY <1>4, <2>1 DEF Scanned
  <2>3. /\ pc' = "split"
        /\ UNCHANGED <<in, offset, token, tokenOffset, nextToken, nextTokenOffset, padding>>
    BY <1>7 DEF EndToken
  <2>. QED BY ZenonT(30), <1>1, <1>2, <2>2, <2>3 DEF Machine
<1>8. CASE DropPeriod
  <2>1. /\ token # <<>> /\ ~GoesOn(token, b, c) /\ ~(WidthOfBlank(b, c) > 0)
        /\ IsTitle(token, b) /\ ~IsAbbreviation(token, b)
    BY <1>3, <1>8, ScanOutcomes DEF DropPeriod
  <2>2. Scanned(Machine, b, c) = [Machine EXCEPT !.offset = offset + 1, !.pc = "split"]
    BY <1>4, <2>1 DEF Scanned
  <2>3. /\ pc' = "split" /\ offset' = offset + 1
        /\ UNCHANGED <<in, token, tokenOffset, nextToken, nextTokenOffset, padding>>
    BY <1>8 DEF DropPeriod, Consume
  <2>. QED BY ZenonT(30), <1>1, <1>2, <2>2, <2>3 DEF Machine
<1>9. CASE SkipBlank
  <2>1. ~GoesOn(token, b, c) /\ WidthOfBlank(b, c) > 0
    BY <1>3, <1>9, ScanOutcomes DEF SkipBlank
  <2>2. CASE token = <<>>
    <3>1. Scanned(Machine, b, c) =
            [Machine EXCEPT !.offset = offset + WidthOfBlank(b, c),
                            !.tokenOffset = tokenOffset + WidthOfBlank(b, c)]
      BY <1>4, <2>1, <2>2 DEF Scanned
    <3>2. /\ offset' = offset + WidthOfBlank(b, c) /\ tokenOffset' = tokenOffset + WidthOfBlank(b, c)
          /\ UNCHANGED <<in, token, nextToken, nextTokenOffset, padding, pc>>
      BY <1>3, <1>9, <2>2 DEF SkipBlank, Consume
    <3>. QED BY ZenonT(30), <1>1, <1>2, <3>1, <3>2 DEF Machine
  <2>3. CASE token # <<>>
    <3>1. Scanned(Machine, b, c) =
            [Machine EXCEPT !.offset = offset + WidthOfBlank(b, c), !.pc = "split"]
      BY <1>4, <2>1, <2>3 DEF Scanned
    <3>2. /\ offset' = offset + WidthOfBlank(b, c) /\ pc' = "split"
          /\ UNCHANGED <<in, token, tokenOffset, nextToken, nextTokenOffset, padding>>
      BY <1>3, <1>9, <2>3 DEF SkipBlank, Consume
    <3>. QED BY ZenonT(30), <1>1, <1>2, <3>1, <3>2 DEF Machine
  <2>. QED BY <2>2, <2>3
<1>10. CASE NoToken
  <2>1. token = <<>> /\ ~GoesOn(token, b, c) /\ ~(WidthOfBlank(b, c) > 0) /\ b \notin Stops
    BY <1>3, <1>10, ScanOutcomes DEF NoToken
  <2>2. Scanned(Machine, b, c) = [Machine EXCEPT !.tokenOffset = 0, !.pc = "none"]
    BY <1>4, <2>1 DEF Scanned
  <2>3. /\ pc' = "none"
        /\ UNCHANGED <<in, offset, token, tokenOffset, nextToken, nextTokenOffset, padding>>
    BY <1>10 DEF NoToken
  <2>. QED BY ZenonT(30), <1>1, <1>2, <2>1, <2>2, <2>3 DEF Machine
<1>. QED BY <1>5, <1>6, <1>7, <1>8, <1>9, <1>10

\* The first quote in the middle is one.
LEMMA FirstCutIs ==
  ASSUME NEW s, Len(s) \in Nat, NEW i \in Cuts(s), \A j \in Cuts(s) : i <= j
  PROVE  FirstCut(s) = i
<1>1. FirstCut(s) \in Cuts(s) /\ \A j \in Cuts(s) : FirstCut(s) <= j
  BY Zenon DEF FirstCut
<1>2. i <= FirstCut(s) /\ FirstCut(s) <= i
  BY <1>1
<1>3. i \in Int /\ FirstCut(s) \in Int
  BY <1>1 DEF Cuts
<1>. QED BY <1>2, <1>3

LEMMA SplitsStep ==
  ASSUME TokenInv, SplitAfterQuote \/ SplitBeforeQuote \/ SplitAtApostrophe \/ Whole
  PROVE  /\ pc = "split" /\ Machine' = Step(files, Machine)
         /\ Deliver(Halves(token, tokenOffset, padding).front)
<1> DEFINE h == Halves(token, tokenOffset, padding)
<1>1. pc = "split" /\ nextToken = <<>> /\ TokenTypes
  BY DEF TokenInv, TokenIsRead, SplitAfterQuote, SplitBeforeQuote, SplitAtApostrophe, Whole
<1>2. /\ StartsWithQuote <=> Opens(token)
      /\ EndsWithQuote <=> Closes(token)
      /\ Apostrophes = Cuts(token)
  BY Zenon DEF StartsWithQuote, EndsWithQuote, Apostrophes, Opens, Closes, Cuts
<1>3. HalvesOf(Machine) = h
  BY <1>1, MachineIs DEF HalvesOf
<1> HIDE DEF h
<1>4. Step(files, Machine) =
        [Machine EXCEPT !.token = <<>>, !.tokenOffset = 0, !.nextToken = h.back,
                        !.nextTokenOffset = h.at, !.padding = h.pad, !.pc = "idle"]
  BY <1>1, <1>3, MachineIs DEF Step
<1>5. /\ Deliver(h.front) /\ nextToken' = h.back /\ padding' = h.pad
      /\ h.at = IF nextToken' = <<>> THEN 0 ELSE nextTokenOffset'
  <2>1. CASE SplitAfterQuote \/ SplitBeforeQuote \/ SplitAtApostrophe
    <3>1. nextToken' # <<>>
      BY <2>1, SplitsHalve DEF Halved
    <3>2. CASE SplitAfterQuote
      <4>1. h = [front |-> OpenQuote, back |-> SubSeq(token, 4, Len(token)),
                 at |-> tokenOffset + 3, pad |-> 0]
        BY <1>2, <3>2 DEF h, Halves, SplitAfterQuote
      <4>. QED BY <3>1, <3>2, <4>1 DEF SplitAfterQuote
    <3>3. CASE SplitBeforeQuote
      <4>1. h = [front |-> SubSeq(token, 1, Len(token) - 3), back |-> CloseQuote,
                 at |-> tokenOffset + Len(token) - 3, pad |-> 0]
        BY <1>2, <3>3 DEF h, Halves, SplitBeforeQuote
      <4>. QED BY <3>1, <3>3, <4>1 DEF SplitBeforeQuote
    <3>4. CASE SplitAtApostrophe
      <4>1. PICK i \in Cuts(token) :
              /\ \A j \in Cuts(token) : i <= j
              /\ nextTokenOffset' = tokenOffset + i - 1 + padding
              /\ nextToken' = AtApostrophe(token, i)
              /\ Deliver(SubSeq(token, 1, i - 1))
        BY <1>2, <3>4 DEF SplitAtApostrophe, AtApostrophe
      <4>2. FirstCut(token) = i
        <5>1. Len(token) \in Nat
          BY <1>1 DEF TokenTypes
        <5>. QED BY <4>1, <5>1, FirstCutIs
      <4>3. ~Opens(token) /\ ~Closes(token) /\ Cuts(token) # {} /\ padding' = 2
        BY <1>2, <3>4, <4>1 DEF SplitAtApostrophe
      <4>4. h = [front |-> SubSeq(token, 1, i - 1), back |-> AtApostrophe(token, i),
                 at |-> tokenOffset + i - 1 + padding, pad |-> 2]
        BY <4>2, <4>3 DEF h, Halves
      <4>. QED BY <3>1, <4>1, <4>3, <4>4
    <3>. QED BY <2>1, <3>2, <3>3, <3>4
  <2>2. CASE Whole
    <3>1. h = [front |-> token, back |-> <<>>, at |-> 0, pad |-> 0]
      BY <1>2, <2>2 DEF h, Halves, Whole
    <3>. QED BY <1>1, <2>2, <3>1 DEF Whole
  <2>. QED BY <2>1, <2>2
<1>6. pc' = "idle" /\ UNCHANGED <<in, offset>>
  BY <1>5 DEF Deliver
<1>7. Machine' = [in |-> in, offset |-> offset, token |-> <<>>, tokenOffset |-> 0,
                  nextToken |-> h.back, nextTokenOffset |-> h.at, padding |-> h.pad,
                  pc |-> "idle"]
  <2>1. /\ in' = in /\ offset' = offset /\ pc' = "idle" /\ nextToken' = h.back
        /\ padding' = h.pad /\ h.at = IF nextToken' = <<>> THEN 0 ELSE nextTokenOffset'
    BY <1>5, <1>6
  <2>. QED BY ZenonT(30), <2>1 DEF Machine
<1>8. Machine' = Step(files, Machine)
  BY ZenonT(60), <1>4, <1>7 DEF Machine
<1>. QED BY <1>1, <1>5, <1>8 DEF h

LEMMA AlikeInit == Init => AlikeInv
<1> SUFFICES ASSUME Init PROVE AlikeInv
  OBVIOUS
<1>1. passes = << <<>> >> /\ Machine = Start
  BY DEF Init, Machine, Start
<1>2. Len(passes) = 1 /\ passes[1] = <<>>
  BY <1>1
<1>3. IsAt(files, Machine, <<>>)
  BY <1>1, ReadingStarts
<1>4. HasReading(files, <<>>)
  BY <1>3 DEF IsAt, HasReading
<1>. QED BY <1>2, <1>3, <1>4 DEF AlikeInv

LEMMA AlikeStep == TokenInv /\ PassInv /\ AlikeInv /\ [Next]_vars => AlikeInv'
<1> SUFFICES ASSUME TokenInv, PassInv, AlikeInv, [Next]_vars PROVE AlikeInv'
  OBVIOUS
<1> DEFINE pass == passes[Len(passes)]
<1>1. /\ passes \in Seq(Seq(Token)) /\ Len(passes) \in 1 .. Len(passes)
      /\ pass \in Seq(Token) /\ IsAt(files, Machine, pass) /\ Machine.pc = pc
      /\ \A i \in 1 .. Len(passes) : HasReading(files, passes[i])
  BY MachineIs DEF PassInv, AlikeInv
<1> HIDE DEF pass
<1>2. CASE \/ Ask \/ TakeSecondHalf \/ StartToken \/ OpenFile \/ NoMoreTokens
           \/ AddByte \/ StopAlone \/ EndToken \/ DropPeriod \/ SkipBlank \/ NoToken
  <2>1. Machine' = Step(files, Machine)
    BY <1>2, CallsStep, ScansStep
  <2>2. UNCHANGED <<files, passes>> /\ pc # "split"
    BY <1>2 DEF Ask, TakeSecondHalf, StartToken, OpenFile, NoMoreTokens, AddByte, StopAlone, EndToken,
                DropPeriod, SkipBlank, NoToken
  <2>3. IsAt(files, Machine', pass)
    BY <1>1, <2>1, <2>2, ReadingGoesOn
  <2>. QED BY <1>1, <2>2, <2>3 DEF AlikeInv, pass
<1>3. CASE SplitAfterQuote \/ SplitBeforeQuote \/ SplitAtApostrophe \/ Whole
  <2> DEFINE longer == Append(pass, Told(Machine))
  <2>1. /\ pc = "split" /\ Machine' = Step(files, Machine)
        /\ Deliver(Halves(token, tokenOffset, padding).front)
    BY <1>3, SplitsStep
  <2>2. Told(Machine) = Delivery(Halves(token, tokenOffset, padding).front)
    BY <2>1, MachineIs DEF Told, HalvesOf, Delivery
  <2>3. passes' = [passes EXCEPT ![Len(passes)] = longer] /\ files' = files
    BY <2>1, <2>2 DEF Deliver, Delivery, pass
  <2> HIDE DEF longer
  <2>4. /\ Len(passes') = Len(passes) /\ passes'[Len(passes)] = longer
        /\ \A i \in 1 .. Len(passes) : i # Len(passes) => passes'[i] = passes[i]
    BY <1>1, <2>3
  <2>5. longer \in Seq(Token)
    <3>1. PassInv'
      BY PassInvStep
    <3>2. passes' \in Seq(Seq(Token))
      BY <3>1 DEF PassInv
    <3>. QED BY <1>1, <2>4, <3>2
  <2>6. IsAt(files, Machine', longer)
    BY <1>1, <2>1, <2>5, ReadingGoesOn DEF longer
  <2>7. HasReading(files, longer)
    BY <2>6 DEF IsAt, HasReading
  <2>. QED BY <1>1, <2>3, <2>4, <2>6, <2>7 DEF AlikeInv
<1>4. CASE Reset
  <2>1. passes' = Append(passes, <<>>) /\ files' = files /\ Machine' = Start
    BY <1>4 DEF Reset, Machine, Start
  <2>2. /\ Len(passes') = Len(passes) + 1 /\ passes'[Len(passes) + 1] = <<>>
        /\ \A i \in 1 .. Len(passes) : passes'[i] = passes[i]
    BY <1>1, <2>1
  <2>3. IsAt(files, Start, <<>>)
    BY ReadingStarts
  <2>4. HasReading(files, <<>>)
    BY <2>3 DEF IsAt, HasReading
  <2>5. ASSUME NEW i \in 1 .. Len(passes') PROVE HasReading(files, passes'[i])
    <3>1. i \in 1 .. Len(passes) \/ i = Len(passes) + 1
      BY <1>1, <2>2
    <3>. QED BY <1>1, <2>2, <2>4, <3>1
  <2>. QED BY <2>1, <2>2, <2>3, <2>5 DEF AlikeInv
<1>5. CASE UNCHANGED vars
  BY <1>5 DEF vars, AlikeInv, Machine
<1>. QED BY <1>2, <1>3, <1>4, <1>5 DEF Next

(* PASSES ARE ALIKE: for every sequence of files, wherever reset() came     *)
(* between two calls, what is delivered after it is what was delivered     *)
(* before, from the start.                                                 *)
THEOREM ResetStartsOver == Spec => []PassesAreAlike
<1>1. Init => TokenInv /\ PassInv /\ AlikeInv
  BY TokenInvInit, PassInvInit, AlikeInit
<1>2. TokenInv /\ PassInv /\ AlikeInv /\ [Next]_vars => (TokenInv /\ PassInv /\ AlikeInv)'
  BY TokenInvStep, PassInvStep, AlikeStep
<1>3. ASSUME PassInv, AlikeInv PROVE PassesAreAlike
  <2>1. ASSUME NEW p \in Range(passes) PROVE HasReading(files, p)
    <3>1. PICK i \in 1 .. Len(passes) : p = passes[i]
      BY <1>3 DEF Range, PassInv
    <3>. QED BY <1>3, <3>1 DEF AlikeInv
  <2>. QED BY <2>1, ReadingsAreAlike DEF PassesAreAlike
<1>. QED BY <1>1, <1>2, <1>3, PTL DEF Spec

=============================================================================
