------------------------ MODULE RelationWindowProofs ------------------------
(***************************************************************************)
(* For sentences of every length, cropping changes no feature.  What makes *)
(* it inductive is the margin: where tokens were dropped on a side, five   *)
(* of them are left on that side of the arguments, so a second crop drops  *)
(* nothing more there and no window, the largest being five tokens, can    *)
(* tell the cropped end from the end of the sentence.                      *)
(***************************************************************************)
EXTENDS RelationWindow, TLAPS

Stages == {"client", "char**", "vector"}

SentenceOK ==
  /\ sentence = [size |-> sentence.size, arg1 |-> sentence.arg1,
                 arg2 |-> sentence.arg2]
  /\ sentence.size \in Nat
  /\ sentence.arg1 \in Args(sentence.size)
  /\ sentence.arg2 \in Args(sentence.size)
  /\ ~EntitiesOverlap(sentence.arg1, sentence.arg2)

WordsOK ==
  /\ words = Span(words.first, words.second)
  /\ words.first \in Nat /\ words.second \in Nat
  /\ words.second <= sentence.size

\* The arguments still name the client's tokens, which are still there
ArgumentsOK ==
  /\ arg1 = Back(sentence.arg1, words.first)
  /\ arg2 = Back(sentence.arg2, words.first)
  /\ arg1.first >= 0 /\ arg1.second <= Size(words)
  /\ arg2.first >= 0 /\ arg2.second <= Size(words)

\* Five tokens are left on a side where some were dropped
MarginOK ==
  /\ words.first = 0 \/ (arg1.first >= 5 /\ arg2.first >= 5)
  /\ \/ words.second = sentence.size
     \/ /\ arg1.second + 5 <= Size(words)
        /\ arg2.second + 5 <= Size(words)

WindowInv ==
  /\ SentenceOK
  /\ WordsOK
  /\ ArgumentsOK
  /\ MarginOK
  /\ CroppingChangesNoFeature

-----------------------------------------------------------------------------
\* mitie_entities_overlap() answers whether two ranges that are not empty
\* share a token.
THEOREM OverlapIsSharing ==
  ASSUME NEW n \in Nat, NEW r \in Args(n), NEW s \in Args(n)
  PROVE  EntitiesOverlap(r, s) <=>
           \E i \in 0 .. n : /\ r.first <= i /\ i < r.second
                             /\ s.first <= i /\ i < s.second
<1>1. /\ r.first \in 0 .. n /\ r.second \in 0 .. n /\ r.first < r.second
      /\ s.first \in 0 .. n /\ s.second \in 0 .. n /\ s.first < s.second
  BY DEF Args
<1>2. ASSUME EntitiesOverlap(r, s)
      PROVE  \E i \in 0 .. n : /\ r.first <= i /\ i < r.second
                               /\ s.first <= i /\ i < s.second
  <2>1. Greatest(r.first, s.first) \in 0 .. n
    BY <1>1 DEF Greatest
  <2>2. WITNESS Greatest(r.first, s.first) \in 0 .. n
  <2>3. QED
    BY <1>1, <1>2 DEF EntitiesOverlap, Greatest, Least
<1>3. ASSUME NEW i \in 0 .. n, r.first <= i, i < r.second,
             s.first <= i, i < s.second
      PROVE  EntitiesOverlap(r, s)
  BY <1>1, <1>3 DEF EntitiesOverlap, Greatest, Least
<1>4. QED
  BY <1>2, <1>3

-----------------------------------------------------------------------------
LEMMA ArgumentNumbers ==
  ASSUME SentenceOK
  PROVE  /\ sentence.size \in Nat
         /\ sentence.arg1 = Span(sentence.arg1.first, sentence.arg1.second)
         /\ sentence.arg2 = Span(sentence.arg2.first, sentence.arg2.second)
         /\ sentence.arg1.first \in Nat /\ sentence.arg1.second \in Nat
         /\ sentence.arg2.first \in Nat /\ sentence.arg2.second \in Nat
         /\ sentence.arg1.first < sentence.arg1.second
         /\ sentence.arg2.first < sentence.arg2.second
         /\ sentence.arg1.second <= sentence.size
         /\ sentence.arg2.second <= sentence.size
  BY DEF SentenceOK, Args, Span

\* The heart of the matter: with the margins kept, the windows of the cropped
\* tokens lie where those of the whole sentence do.
LEMMA CroppedWindows ==
  ASSUME SentenceOK, WordsOK, ArgumentsOK, MarginOK
  PROVE  Located(Windows(Size(words), arg1, arg2), words.first) =
           Windows(sentence.size, sentence.arg1, sentence.arg2)
<1> DEFINE n == sentence.size
           r == sentence.arg1
           s == sentence.arg2
           b == words.first
           m == Size(words)
<1>1. /\ n \in Nat /\ b \in Nat /\ m = words.second - b /\ words.second <= n
      /\ words.second \in Nat
      /\ r = Span(r.first, r.second) /\ s = Span(s.first, s.second)
      /\ r.first \in Nat /\ r.second \in Nat
      /\ s.first \in Nat /\ s.second \in Nat
      /\ arg1 = Span(r.first - b, r.second - b)
      /\ arg2 = Span(s.first - b, s.second - b)
  BY ArgumentNumbers DEF WordsOK, ArgumentsOK, Back, Size
<1>2. /\ arg1.first = r.first - b /\ arg1.second = r.second - b
      /\ arg2.first = s.first - b /\ arg2.second = s.second - b
  BY <1>1 DEF Span
<1>3. /\ r.first >= b /\ r.second - b <= m
      /\ s.first >= b /\ s.second - b <= m
      /\ b = 0 \/ (r.first - b >= 5 /\ s.first - b >= 5)
      /\ m + b = n \/ (r.second - b + 5 <= m /\ s.second - b + 5 <= m)
  BY <1>1, <1>2 DEF ArgumentsOK, MarginOK
<1> HIDE DEF n, r, s, b, m
<1>4. (arg1.first > arg2.first) <=> (r.first > s.first)
  BY <1>1, <1>2
<1>5. /\ Back(arg1, -b) = r
      /\ Back(arg2, -b) = s
  BY <1>1, <1>2 DEF Back, Span
<1>6. ASSUME NEW win \in {2, 5}
      PROVE  /\ Back(Before(arg1, win), -b) = Before(r, win)
             /\ Back(Before(arg2, win), -b) = Before(s, win)
  BY <1>1, <1>2, <1>3 DEF Back, Before, Span
<1>7. ASSUME NEW win \in {2, 5}
      PROVE  /\ Back(After(arg1, win, m), -b) = After(r, win, n)
             /\ Back(After(arg2, win, m), -b) = After(s, win, n)
  BY <1>1, <1>2, <1>3 DEF Back, After, Span
<1>8. /\ Back(Between(arg1, arg2), -b) = Between(r, s)
      /\ Back(Between(arg2, arg1), -b) = Between(s, r)
  BY <1>1, <1>2 DEF Back, Between, Span, Least, Greatest
<1>9. ASSUME NEW a, NEW c, NEW x, NEW y,
             \A win \in {2, 5} : Back(Before(a, win), -b) = Before(x, win),
             \A win \in {2, 5} : Back(After(c, win, m), -b) = After(y, win, n),
             Back(Between(a, c), -b) = Between(x, y)
      PROVE  [k \in DOMAIN Around(a, c, m) |-> Back(Around(a, c, m)[k], -b)]
               = Around(x, y, n)
  BY <1>9 DEF Around
<1>10. Located(Windows(m, arg1, arg2), b) = Windows(n, r, s)
  <2>1. CASE r.first > s.first
    <3>1. Windows(m, arg1, arg2) =
            [seed |-> 100000, arg1 |-> arg1, arg2 |-> arg2,
             around |-> Around(arg2, arg1, m)]
      BY <1>4, <2>1 DEF Windows
    <3>2. [k \in DOMAIN Around(arg2, arg1, m) |->
             Back(Around(arg2, arg1, m)[k], -b)] = Around(s, r, n)
      BY <1>6, <1>7, <1>8, <1>9
    <3>3. QED
      BY <1>5, <2>1, <3>1, <3>2 DEF Located, Windows
  <2>2. CASE ~(r.first > s.first)
    <3>1. Windows(m, arg1, arg2) =
            [seed |-> 0, arg1 |-> arg1, arg2 |-> arg2,
             around |-> Around(arg1, arg2, m)]
      BY <1>4, <2>2 DEF Windows
    <3>2. [k \in DOMAIN Around(arg1, arg2, m) |->
             Back(Around(arg1, arg2, m)[k], -b)] = Around(r, s, n)
      BY <1>6, <1>7, <1>8, <1>9
    <3>3. QED
      BY <1>5, <2>2, <3>1, <3>2 DEF Located, Windows
  <2>3. QED
    BY <2>1, <2>2
<1> QED
  BY <1>10 DEF n, r, s, b, m

\* A crop keeps what the invariant says of the tokens and the arguments.
LEMMA CropKeepsMargin ==
  ASSUME SentenceOK, WordsOK, ArgumentsOK, MarginOK, Crop,
         UNCHANGED sentence
  PROVE  SentenceOK' /\ WordsOK' /\ ArgumentsOK' /\ MarginOK'
<1> DEFINE n == sentence.size
           r == sentence.arg1
           s == sentence.arg2
           b == words.first
           e == words.second
           begin == CropBegin(arg1, arg2)
           end == CropEnd(arg1, arg2, Size(words))
<1>1. /\ n \in Nat /\ b \in Nat /\ e \in Nat /\ e <= n
      /\ r.first \in Nat /\ r.second \in Nat /\ r.first < r.second
      /\ s.first \in Nat /\ s.second \in Nat /\ s.first < s.second
      /\ Size(words) = e - b
      /\ arg1 = Span(r.first - b, r.second - b)
      /\ arg2 = Span(s.first - b, s.second - b)
  BY ArgumentNumbers DEF WordsOK, ArgumentsOK, Back, Size
<1>2. /\ arg1.first = r.first - b /\ arg1.second = r.second - b
      /\ arg2.first = s.first - b /\ arg2.second = s.second - b
  BY <1>1 DEF Span
<1>3. /\ r.first >= b /\ r.second <= e
      /\ s.first >= b /\ s.second <= e
      /\ b = 0 \/ (r.first - b >= 5 /\ s.first - b >= 5)
      /\ e = n \/ (r.second + 5 <= e /\ s.second + 5 <= e)
  BY <1>1, <1>2 DEF ArgumentsOK, MarginOK
<1>4. /\ begin \in Nat
      /\ begin <= r.first - b /\ begin <= s.first - b
      /\ begin = 0 \/ (begin + 5 <= r.first - b /\ begin + 5 <= s.first - b)
  BY <1>1, <1>2, <1>3 DEF CropBegin, Least
<1>5. /\ end \in Nat
      /\ end <= e - b
      /\ r.second - b <= end /\ s.second - b <= end
      /\ end = e - b \/ (r.second - b + 5 <= end /\ s.second - b + 5 <= end)
  BY <1>1, <1>2, <1>3 DEF CropEnd, Least, Greatest
<1>6. /\ words' = Span(b + begin, b + end)
      /\ arg1' = Back(arg1, begin)
      /\ arg2' = Back(arg2, begin)
      /\ sentence' = sentence
  BY DEF Crop
<1> HIDE DEF n, r, s, b, e, begin, end
<1>7. /\ words'.first = b + begin /\ words'.second = b + end
      /\ Size(words') = end - begin
  BY <1>1, <1>4, <1>5, <1>6 DEF Span, Size
<1>8. /\ arg1' = Span(r.first - (b + begin), r.second - (b + begin))
      /\ arg2' = Span(s.first - (b + begin), s.second - (b + begin))
  <2>1. /\ (r.first - b) - begin = r.first - (b + begin)
        /\ (r.second - b) - begin = r.second - (b + begin)
        /\ (s.first - b) - begin = s.first - (b + begin)
        /\ (s.second - b) - begin = s.second - (b + begin)
    BY <1>1, <1>4
  <2>2. QED
    BY <1>2, <1>6, <2>1 DEF Back
<1>9. /\ arg1'.first = r.first - (b + begin)
      /\ arg1'.second = r.second - (b + begin)
      /\ arg2'.first = s.first - (b + begin)
      /\ arg2'.second = s.second - (b + begin)
  BY <1>8 DEF Span
<1>10. SentenceOK'
  BY <1>6 DEF SentenceOK
<1>11. WordsOK'
  BY <1>1, <1>4, <1>5, <1>6, <1>7 DEF WordsOK, n
<1>12. ArgumentsOK'
  <2>1. /\ arg1'.first >= 0 /\ arg1'.second <= end - begin
        /\ arg2'.first >= 0 /\ arg2'.second <= end - begin
    BY <1>1, <1>4, <1>5, <1>9
  <2>2. /\ arg1' = Back(sentence.arg1, words'.first)
        /\ arg2' = Back(sentence.arg2, words'.first)
    BY <1>7, <1>8 DEF Back, r, s
  <2>3. QED
    BY <1>6, <1>7, <2>1, <2>2 DEF ArgumentsOK
<1>13. MarginOK'
  <2>1. b + begin = 0 \/ (arg1'.first >= 5 /\ arg2'.first >= 5)
    BY <1>1, <1>3, <1>4, <1>9
  <2>2. \/ b + end = n
        \/ /\ arg1'.second + 5 <= end - begin
           /\ arg2'.second + 5 <= end - begin
    BY <1>1, <1>3, <1>4, <1>5, <1>9
  <2>3. QED
    BY <1>6, <1>7, <2>1, <2>2 DEF MarginOK, n
<1> QED
  BY <1>10, <1>11, <1>12, <1>13

-----------------------------------------------------------------------------
LEMMA WindowInvInit == WindowInit => WindowInv
<1> SUFFICES ASSUME WindowInit PROVE WindowInv
  OBVIOUS
<1>0. PICK n \in Sizes : \E r, s \in Args(n) :
        /\ ~EntitiesOverlap(r, s)
        /\ sentence = [size |-> n, arg1 |-> r, arg2 |-> s]
        /\ words = Span(0, n) /\ arg1 = r /\ arg2 = s
        /\ features = NoFeatures
  BY DEF WindowInit
<1>1. PICK r \in Args(n), s \in Args(n) :
        /\ ~EntitiesOverlap(r, s)
        /\ sentence = [size |-> n, arg1 |-> r, arg2 |-> s]
        /\ words = Span(0, n) /\ arg1 = r /\ arg2 = s
        /\ features = NoFeatures
  BY <1>0
<1>2. /\ n \in Nat
      /\ r = Span(r.first, r.second) /\ s = Span(s.first, s.second)
      /\ r.first \in Nat /\ r.second \in Nat /\ r.second <= n
      /\ s.first \in Nat /\ s.second \in Nat /\ s.second <= n
  BY SizesAssumption DEF Args, Span
<1>3. SentenceOK
  BY <1>1, <1>2 DEF SentenceOK
<1>4. /\ words.first = 0 /\ words.second = n /\ Size(words) = n
      /\ Back(r, 0) = r /\ Back(s, 0) = s
  BY <1>1, <1>2 DEF Span, Size, Back
<1>5. WordsOK /\ ArgumentsOK /\ MarginOK
  BY <1>1, <1>2, <1>4 DEF WordsOK, ArgumentsOK, MarginOK, Span
<1> QED
  BY <1>1, <1>3, <1>5 DEF WindowInv, CroppingChangesNoFeature

LEMMA WindowInvStep == WindowInv /\ [WindowNext]_windowVars => WindowInv'
<1> SUFFICES ASSUME WindowInv, [WindowNext]_windowVars PROVE WindowInv'
  OBVIOUS
<1> USE DEF WindowInv
<1>1. ASSUME UNCHANGED <<sentence, words, arg1, arg2>>
      PROVE  SentenceOK' /\ WordsOK' /\ ArgumentsOK' /\ MarginOK'
  BY <1>1 DEF SentenceOK, WordsOK, ArgumentsOK, MarginOK, Size
<1>2. ASSUME UNCHANGED <<sentence, features>>
      PROVE  CroppingChangesNoFeature'
  BY <1>2 DEF CroppingChangesNoFeature
<1>3. CASE CallDirectly
  BY <1>1, <1>2, <1>3 DEF CallDirectly
<1>4. CASE CallFromPython
  BY <1>2, <1>4, CropKeepsMargin DEF CallFromPython
<1>5. CASE CExtractRelation
  BY <1>2, <1>5, CropKeepsMargin DEF CExtractRelation
<1>6. CASE CAddRelation
  BY <1>1, <1>2, <1>6 DEF CAddRelation
<1>7. CASE ComputeFeatures
  <2>1. features' = Windows(sentence.size, sentence.arg1, sentence.arg2)
    BY <1>7, CroppedWindows DEF ComputeFeatures
  <2>2. UNCHANGED <<sentence, words, arg1, arg2>>
    BY <1>7 DEF ComputeFeatures
  <2>3. QED
    BY <1>1, <2>1, <2>2 DEF CroppingChangesNoFeature
<1>8. CASE UNCHANGED windowVars
  BY <1>1, <1>2, <1>8 DEF windowVars
<1> QED
  BY <1>3, <1>4, <1>5, <1>6, <1>7, <1>8 DEF WindowNext

\* For sentences of every length and every way through the interfaces, the
\* features of a relation are those of the client's whole sentence.
THEOREM CroppingIsInvisible == WindowSpec => []CroppingChangesNoFeature
<1>1. WindowInv => CroppingChangesNoFeature
  BY DEF WindowInv
<1> QED
  BY <1>1, WindowInvInit, WindowInvStep, PTL DEF WindowSpec

\* For sentences of every length, renumbering keeps the arguments inside the
\* tokens, apart from each other, and naming the client's tokens.
THEOREM CroppingKeepsArguments == WindowSpec => []ArgumentsSurviveCropping
<1>1. WindowInv => ArgumentsSurviveCropping
  <2> SUFFICES ASSUME WindowInv PROVE ArgumentsSurviveCropping
    OBVIOUS
  <2> DEFINE r == sentence.arg1
             s == sentence.arg2
             b == words.first
  <2>1. /\ b \in Nat
        /\ r = Span(r.first, r.second) /\ s = Span(s.first, s.second)
        /\ r.first \in Nat /\ r.second \in Nat /\ r.first < r.second
        /\ s.first \in Nat /\ s.second \in Nat /\ s.first < s.second
        /\ arg1 = Span(r.first - b, r.second - b)
        /\ arg2 = Span(s.first - b, s.second - b)
        /\ ~EntitiesOverlap(r, s)
    BY ArgumentNumbers DEF WindowInv, WordsOK, ArgumentsOK, SentenceOK, Back
  <2>2. /\ arg1.first = r.first - b /\ arg1.second = r.second - b
        /\ arg2.first = s.first - b /\ arg2.second = s.second - b
    BY <2>1 DEF Span
  <2> HIDE DEF r, s, b
  <2>3. InsideTokens(arg1, Size(words)) /\ InsideTokens(arg2, Size(words))
    BY <2>1, <2>2 DEF WindowInv, ArgumentsOK, InsideTokens
  <2>4. Back(arg1, -b) = r /\ Back(arg2, -b) = s
    BY <2>1, <2>2 DEF Back, Span
  <2>5. ~EntitiesOverlap(arg1, arg2)
    BY <2>1, <2>2 DEF EntitiesOverlap, Greatest, Least
  <2>6. arg1.first >= 0 /\ arg2.first >= 0
    BY DEF WindowInv, ArgumentsOK
  <2> QED
    BY <2>3, <2>4, <2>5, <2>6 DEF ArgumentsSurviveCropping, r, s, b
<1> QED
  BY <1>1, WindowInvInit, WindowInvStep, PTL DEF WindowSpec

=============================================================================
