------------------------- MODULE PythonHandlesProofs -------------------------
(***************************************************************************)
(* Proofs about ObjectHeap and PythonHandles, for any number of callers,   *)
(* blocks and classes.                                                     *)
(***************************************************************************)
EXTENDS PythonHandles, TLAPS

Classes == Types \cup {Raw}
Pointers == Blocks \cup {NULL}

BlockStates == [used : BOOLEAN, tag : Tags, object : Classes \cup {NULL}]
CallStates ==
  [pc : {"idle", "malloc", "construct", "fill", "second", "text", "return"},
   fn : Functions \cup {NULL}, type : Classes \cup {NULL}, first : Pointers, second : Pointers]

HeapTypes ==
  /\ memory \in [Blocks -> BlockStates]
  /\ call \in [Callers -> CallStates]
  /\ handles \subseteq [block : Blocks, type : Classes]
  /\ objects \subseteq [block : Pointers, type : Types]

\* A block that is whole: mitie_free() will do right by it
Whole(b, type) == memory[b].used /\ memory[b].tag = type /\ memory[b].object = type

\* What a caller has in hand at each place of a function of the interface
CallOK(t) ==
  LET c == call[t] IN
  /\ c.pc \in {"idle", "malloc"} => c.first = NULL
  /\ c.pc \in {"idle", "malloc", "construct", "fill", "second"} => c.second = NULL
  /\ c.pc \in {"construct", "fill", "second", "text"} => c.first # NULL
  /\ c.pc # "idle" => c.fn \in Functions /\ c.type \in Products(c.fn)
  /\ c.pc = "second" => c.fn \in {"offsets", "file"}
  /\ c.pc = "text" => c.fn = "file"
  /\ c.pc \in {"construct", "fill"} => c.fn \notin {"bytes", "offsets", "file"}
  /\ c.first # NULL =>
       IF c.pc = "construct" THEN memory[c.first].used /\ memory[c.first].tag = c.type
       ELSE Whole(c.first, c.type)
  /\ c.second # NULL =>
       /\ c.first # NULL /\ c.first # c.second
       /\ c.type = Raw
       /\ Whole(c.second, Raw)

\* Clients have whole objects
HandleOK(h) == h.block # NULL => Whole(h.block, h.type)

Has(t, b) == call[t].first = b \/ call[t].second = b

\* No two of them have the same block, and a block in use is someone's
CallersApart == \A t, u \in Callers : \A b \in Blocks : Has(t, b) /\ Has(u, b) => t = u
HandlesApart ==
  \A h, k \in handles \cup objects : h.block # NULL /\ h.block = k.block => h = k
HandedOver == \A t \in Callers : \A h \in handles \cup objects : h.block # NULL => ~Has(t, h.block)
NotLeaked ==
  \A b \in Blocks : memory[b].used =>
    (\E t \in Callers : Has(t, b)) \/ (\E h \in handles \cup objects : h.block = b)

HeapInv ==
  /\ HeapTypes
  /\ \A t \in Callers : CallOK(t)
  /\ \A h \in handles \cup objects : HandleOK(h)
  /\ handles \cap objects = {}
  /\ CallersApart /\ HandlesApart /\ HandedOver /\ NotLeaked
  /\ misfreed = FALSE

-----------------------------------------------------------------------------
(* What a step may do to the heap *)

LEMMA HeldIsUsed ==
  ASSUME HeapInv, NEW b \in Blocks,
         \/ \E t \in Callers : Has(t, b)
         \/ \E h \in handles \cup objects : h.block = b
  PROVE  memory[b].used
<1>. b # NULL
  BY PointerAssumption
<1>1. ASSUME NEW t \in Callers, Has(t, b) PROVE memory[b].used
  <2>1. CallOK(t) /\ (call[t].first = b \/ call[t].second = b)
    BY <1>1 DEF HeapInv, Has
  <2>. QED BY <2>1 DEF CallOK, Whole
<1>2. ASSUME NEW h \in handles \cup objects, h.block = b PROVE memory[b].used
  BY <1>2 DEF HeapInv, HandleOK, Whole
<1>. QED BY <1>1, <1>2

\* A caller exchanges blocks it has for free ones.  Only block b changes, and
\* what it lets go of is free.
Hand(t) == {call[t].first, call[t].second}

CallerMoves(t) ==
  /\ call' \in [Callers -> CallStates]
  /\ \A v \in Callers \ {t} : call'[v] = call[v]

LEMMA CallerStep ==
  ASSUME HeapInv, NEW t \in Callers, NEW b \in Pointers,
         CallerMoves(t), UNCHANGED <<handles, objects, misfreed>>,
         memory' \in [Blocks -> BlockStates],
         \A c \in Blocks \ {b} : memory'[c] = memory[c],
         b \in Blocks => Has(t, b) \/ ~memory[b].used,
         \A c \in Hand(t)' \ {NULL} : Has(t, c) \/ ~memory[c].used,
         \A c \in Blocks : (Has(t, c) \/ c = b) /\ memory'[c].used => c \in Hand(t)',
         CallOK(t)'
  PROVE  HeapInv'
<1> DEFINE y == call'[t]
<1>1. HeapTypes'
  BY DEF HeapInv, HeapTypes, CallerMoves
<1>2. \A v \in Callers \ {t} : call'[v] = call[v]
  BY DEF CallerMoves
<1>3. \A v \in Callers \ {t} : \A c \in Blocks : Has(v, c) =>
        c # b /\ c # y.first /\ c # y.second /\ memory'[c] = memory[c]
  <2> SUFFICES ASSUME NEW v \in Callers \ {t}, NEW c \in Blocks, Has(v, c)
               PROVE  c # b /\ c # y.first /\ c # y.second /\ memory'[c] = memory[c]
    OBVIOUS
  <2>1. memory[c].used /\ ~Has(t, c) /\ c # NULL
    BY HeldIsUsed, PointerAssumption DEF HeapInv, CallersApart
  <2>. QED BY <2>1 DEF Hand
<1>4. \A h \in handles \cup objects : h.block \in Pointers
  BY DEF HeapInv, HeapTypes, Pointers
<1>5. \A h \in handles \cup objects : h.block # NULL =>
        /\ h.block # b /\ h.block # y.first /\ h.block # y.second
        /\ memory'[h.block] = memory[h.block]
  <2> SUFFICES ASSUME NEW h \in handles \cup objects, h.block # NULL
               PROVE  /\ h.block # b /\ h.block # y.first /\ h.block # y.second
                      /\ memory'[h.block] = memory[h.block]
    OBVIOUS
  <2>1. h.block \in Blocks
    BY <1>4 DEF Pointers
  <2>2. memory[h.block].used /\ ~Has(t, h.block)
    BY <2>1, HeldIsUsed DEF HeapInv, HandedOver
  <2>. QED BY <2>1, <2>2 DEF Hand
<1>6. ASSUME NEW v \in Callers PROVE CallOK(v)'
  <2>1. CASE v = t
    BY <2>1
  <2>2. CASE v # t
    <3>1. call'[v] = call[v] /\ CallOK(v)
      BY <1>2, <2>2 DEF HeapInv
    <3>2. call[v].first \in Pointers /\ call[v].second \in Pointers
      BY DEF HeapInv, HeapTypes, CallStates
    <3>3. /\ call[v].first # NULL => memory'[call[v].first] = memory[call[v].first]
          /\ call[v].second # NULL => memory'[call[v].second] = memory[call[v].second]
      BY <1>3, <2>2, <3>2 DEF Has, Pointers
    <3>. QED BY <3>1, <3>3 DEF CallOK, Whole
  <2>. QED BY <2>1, <2>2
<1>7. \A h \in handles' \cup objects' : HandleOK(h)'
  BY <1>5 DEF HeapInv, HandleOK, Whole
<1>8. CallersApart'
  BY <1>2, <1>3 DEF HeapInv, CallersApart, Has
<1>9. HandedOver'
  <2> SUFFICES ASSUME NEW v \in Callers, NEW h \in handles \cup objects, h.block # NULL
               PROVE  ~Has(v, h.block)'
    BY DEF HandedOver
  <2>. QED BY <1>2, <1>5 DEF HeapInv, HandedOver, Has
<1>10. NotLeaked'
  <2> SUFFICES ASSUME NEW c \in Blocks, memory'[c].used,
                      \A h \in handles \cup objects : h.block # c
               PROVE  \E v \in Callers : Has(v, c)'
    BY DEF NotLeaked
  <2>1. CASE Has(t, c) \/ c = b
    BY <2>1 DEF Has, Hand
  <2>2. CASE ~Has(t, c) /\ c # b
    <3>1. PICK v \in Callers : Has(v, c)
      BY <2>2 DEF HeapInv, NotLeaked
    <3>. QED BY <1>2, <2>2, <3>1 DEF Has
  <2>. QED BY <2>1, <2>2
<1>. QED BY <1>1, <1>6, <1>7, <1>8, <1>9, <1>10 DEF HeapInv, HandlesApart

\* A caller returns, and what it had in hand becomes clients' or objects'.
LEMMA HandOver ==
  ASSUME HeapInv, NEW t \in Callers, call[t].pc = "return",
         call' = [call EXCEPT ![t] = NoCall], UNCHANGED <<memory, misfreed>>,
         handles' \subseteq [block : Blocks, type : Classes],
         objects' \subseteq [block : Pointers, type : Types],
         handles' \cap objects' = {},
         handles \cup objects \subseteq handles' \cup objects',
         \A h \in (handles' \cup objects') \ (handles \cup objects) : h.block # NULL =>
             h.type = call[t].type /\ Has(t, h.block),
         \A b \in Blocks : Has(t, b) => \E h \in handles' \cup objects' : h.block = b
  PROVE  HeapInv'
<1> DEFINE Old == handles \cup objects
           New == handles' \cup objects'
<1>1. HeapTypes'
  BY DEF HeapInv, HeapTypes, CallStates, NoCall, Pointers
<1>2. /\ call'[t] = NoCall /\ NoCall.pc = "idle"
      /\ NoCall.first = NULL /\ NoCall.second = NULL
      /\ \A v \in Callers \ {t} : call'[v] = call[v]
  BY DEF HeapInv, HeapTypes, NoCall
<1>3. \A v \in Callers : \A b \in Blocks : Has(v, b)' <=> v # t /\ Has(v, b)
  BY <1>2, PointerAssumption DEF Has
<1>4. \A h \in New : h.block # NULL => h.block \in Blocks
  BY DEF Pointers
<1>5. ASSUME NEW v \in Callers PROVE CallOK(v)'
  <2>1. CASE v = t
    BY <1>2, <2>1 DEF CallOK
  <2>2. CASE v # t
    BY <1>2, <2>2 DEF HeapInv, CallOK, Whole
  <2>. QED BY <2>1, <2>2
<1>6. ASSUME NEW h \in New PROVE HandleOK(h)'
  <2>1. CASE h \in Old
    BY <2>1 DEF HeapInv, HandleOK, Whole
  <2>2. CASE h \notin Old /\ h.block # NULL
    <3>1. h.type = call[t].type /\ Has(t, h.block)
      BY <2>2
    <3>2. CallOK(t)
      BY DEF HeapInv
    <3>3. call[t].second = h.block => call[t].type = Raw
      BY <2>2, <3>2 DEF CallOK
    <3>. QED BY <2>2, <3>1, <3>2, <3>3 DEF CallOK, HandleOK, Whole, Has
  <2>. QED BY <2>1, <2>2 DEF HandleOK
<1>7. CallersApart'
  BY <1>3 DEF HeapInv, CallersApart
<1>8. HandedOver'
  <2> SUFFICES ASSUME NEW v \in Callers, v # t, NEW h \in New, h.block # NULL
               PROVE  ~Has(v, h.block)
    BY <1>3, <1>4 DEF HandedOver
  <2>1. CASE h \in Old
    BY <2>1 DEF HeapInv, HandedOver
  <2>2. CASE h \notin Old
    BY <1>4, <2>2 DEF HeapInv, CallersApart
  <2>. QED BY <2>1, <2>2
<1>9. HandlesApart'
  <2> SUFFICES ASSUME NEW h \in New, NEW k \in New, h.block # NULL, h.block = k.block
               PROVE  h = k
    BY DEF HandlesApart
  <2>1. CASE h \in Old /\ k \in Old
    BY <2>1 DEF HeapInv, HandlesApart
  <2>2. CASE h \notin Old /\ k \notin Old
    BY <2>2
  <2>3. CASE (h \in Old) # (k \in Old)
    BY <2>3 DEF HeapInv, HandedOver
  <2>. QED BY <2>1, <2>2, <2>3
<1>10. NotLeaked'
  <2> SUFFICES ASSUME NEW b \in Blocks, memory[b].used, \A h \in New : h.block # b
               PROVE  \E v \in Callers : Has(v, b)'
    BY DEF NotLeaked
  <2>1. ~Has(t, b) /\ \A h \in Old : h.block # b
    OBVIOUS
  <2>2. PICK v \in Callers : Has(v, b)
    BY <2>1 DEF HeapInv, NotLeaked
  <2>. QED BY <1>3, <2>1, <2>2
<1>. QED BY <1>1, <1>5, <1>6, <1>7, <1>8, <1>9, <1>10 DEF HeapInv

LEMMA FreeingWhole ==
  ASSUME HeapInv, NEW b \in Pointers, MitieFree(b),
         b # NULL => \E type \in Classes : Whole(b, type)
  PROVE  /\ UNCHANGED misfreed
         /\ memory' \in [Blocks -> BlockStates]
         /\ \A c \in Blocks \ {b} : memory'[c] = memory[c]
         /\ b # NULL => ~memory'[b].used
<1>1. misfreed' = FALSE /\ misfreed = FALSE
  <2>1. ~Misfreed(b)
    BY DEF Misfreed, Whole
  <2>. QED BY <2>1 DEF HeapInv, MitieFree
<1>2. [used |-> FALSE, tag |-> NotAMitieObject, object |-> NULL] \in BlockStates
  BY DEF BlockStates, Tags
<1>3. memory \in [Blocks -> BlockStates]
  BY DEF HeapInv, HeapTypes
<1>. QED BY <1>1, <1>2, <1>3 DEF MitieFree, Freed, Pointers

\* What clients and objects have is freed once.
LEMMA GiveUp ==
  ASSUME HeapInv, NEW h \in handles \cup objects, MitieFree(h.block), UNCHANGED call,
         \/ handles' = handles \ {h} /\ h \in handles /\ UNCHANGED objects
         \/ objects' = objects \ {h} /\ h \in objects /\ UNCHANGED handles
  PROVE  HeapInv'
<1> DEFINE Rest == (handles \cup objects) \ {h}
<1>1. /\ handles' \cup objects' = Rest /\ handles' \cap objects' = {}
      /\ handles' \subseteq handles /\ objects' \subseteq objects
  BY DEF HeapInv
<1>2. /\ h.block \in Pointers
      /\ h.block # NULL => \E type \in Classes : Whole(h.block, type)
  BY DEF HeapInv, HeapTypes, HandleOK, Pointers, Classes
<1>3. /\ UNCHANGED misfreed
      /\ memory' \in [Blocks -> BlockStates]
      /\ \A c \in Blocks \ {h.block} : memory'[c] = memory[c]
      /\ h.block # NULL => ~memory'[h.block].used
  BY <1>2, FreeingWhole
<1>4. HeapTypes'
  BY <1>1, <1>3 DEF HeapInv, HeapTypes
<1>5. ASSUME NEW v \in Callers PROVE CallOK(v)'
  <2>1. call[v].first \in Pointers /\ call[v].second \in Pointers /\ CallOK(v)
    BY DEF HeapInv, HeapTypes, CallStates
  <2>2. h.block # NULL => call[v].first # h.block /\ call[v].second # h.block
    BY DEF HeapInv, HandedOver, Has
  <2>3. /\ call[v].first # NULL => memory'[call[v].first] = memory[call[v].first]
        /\ call[v].second # NULL => memory'[call[v].second] = memory[call[v].second]
    BY <1>3, <2>1, <2>2 DEF Pointers
  <2>. QED BY <2>1, <2>3 DEF CallOK, Whole
<1>6. ASSUME NEW k \in Rest PROVE HandleOK(k)'
  <2>1. k.block \in Pointers /\ (k.block # NULL => k.block # h.block)
    BY DEF HeapInv, HeapTypes, HandlesApart, Pointers
  <2>. QED BY <1>3, <2>1 DEF HeapInv, HandleOK, Whole, Pointers
<1>7. CallersApart' /\ HandlesApart' /\ HandedOver'
  BY <1>1 DEF HeapInv, CallersApart, HandlesApart, HandedOver, Has
<1>8. NotLeaked'
  <2> SUFFICES ASSUME NEW b \in Blocks, memory'[b].used
               PROVE  (\E v \in Callers : Has(v, b)) \/ (\E k \in Rest : k.block = b)
    BY <1>1 DEF NotLeaked, Has
  <2>1. b # h.block /\ memory[b].used
    BY <1>3, PointerAssumption
  <2>. QED BY <2>1 DEF HeapInv, NotLeaked
<1>. QED BY <1>1, <1>3, <1>4, <1>5, <1>6, <1>7, <1>8 DEF HeapInv

-----------------------------------------------------------------------------
(* Inside a function of the interface *)

\* Only the place changes
LEMMA PlaceStep ==
  ASSUME HeapInv, NEW t \in Callers, CallerMoves(t),
         UNCHANGED <<memory, handles, objects, misfreed>>,
         call'[t].first = call[t].first, call'[t].second = call[t].second, CallOK(t)'
  PROVE  HeapInv'
<1>1. NULL \in Pointers /\ memory' \in [Blocks -> BlockStates]
  BY DEF HeapInv, HeapTypes, Pointers
<1>2. \A c \in Hand(t)' \ {NULL} : Has(t, c)
  BY DEF Has, Hand
<1>3. \A c \in Blocks : (Has(t, c) \/ c = NULL) => c \in Hand(t)'
  BY PointerAssumption DEF Has, Hand
<1>. QED BY <1>1, <1>2, <1>3, PointerAssumption, CallerStep

LEMMA ProductsAreClasses ==
  ASSUME NEW fn \in Functions, NEW type \in Products(fn)
  PROVE  /\ type \in Classes
         /\ fn \in {"bytes", "offsets", "file"} <=> Products(fn) = {Raw}
         /\ fn \in {"bytes", "offsets", "file"} <=> type = Raw
BY TagAssumption DEF Functions, Products, Classes

LEMMA CallKeeps ==
  ASSUME HeapInv, NEW t \in Callers, NEW fn \in Functions, NEW type, Call(t, fn, type),
         UNCHANGED objects
  PROVE  HeapInv'
<1>1. type \in Classes
  BY ProductsAreClasses DEF Call
<1>2. call \in [Callers -> CallStates] /\ call[t].first = NULL /\ call[t].second = NULL
  BY DEF HeapInv, HeapTypes, Call, NoCall
<1>3. /\ call' \in [Callers -> CallStates]
      /\ \A v \in Callers \ {t} : call'[v] = call[v]
      /\ call'[t].pc = "malloc" /\ call'[t].fn = fn /\ call'[t].type = type
      /\ call'[t].first = NULL /\ call'[t].second = NULL
  BY <1>1, <1>2 DEF Call, CallStates
<1>4. CallOK(t)'
  BY <1>3 DEF CallOK, Call
<1>. QED BY <1>2, <1>3, <1>4, PlaceStep DEF CallerMoves, Call

\* Facts every step below starts from
LEMMA InCall ==
  ASSUME HeapInv, NEW t \in Callers
  PROVE  /\ call \in [Callers -> CallStates] /\ memory \in [Blocks -> BlockStates]
         /\ CallOK(t)
         /\ call[t].first \in Pointers /\ call[t].second \in Pointers
         /\ call[t].pc # "idle" => /\ call[t].fn \in Functions
                                  /\ call[t].type \in Products(call[t].fn)
                                  /\ call[t].type \in Classes
         /\ call[t].first # NULL /\ call[t].pc # "construct" => Whole(call[t].first, call[t].type)
         /\ call[t].second # NULL => Whole(call[t].second, Raw)
<1>1. CallOK(t) /\ call \in [Callers -> CallStates] /\ memory \in [Blocks -> BlockStates]
  BY DEF HeapInv, HeapTypes
<1>2. call[t].first \in Pointers /\ call[t].second \in Pointers
  BY <1>1 DEF CallStates
<1>3. call[t].pc # "idle" => /\ call[t].fn \in Functions
                            /\ call[t].type \in Products(call[t].fn)
                            /\ call[t].type \in Classes
  BY <1>1, ProductsAreClasses DEF CallOK
<1>. QED BY <1>1, <1>2, <1>3 DEF CallOK

LEMMA QuietStepKeeps ==
  ASSUME HeapInv, NEW t \in Callers, MallocFails(t) \/ Fill(t) \/ TokenizeFails(t),
         UNCHANGED objects
  PROVE  HeapInv'
<1>1. CallOK(t) /\ call \in [Callers -> CallStates]
  BY InCall
<1>2. \E pc \in {"return", "text"} :
        /\ call' = [call EXCEPT ![t].pc = pc]
        /\ \/ call[t].pc \in {"malloc", "fill"} /\ pc = "return"
           \/ call[t].pc = "second" /\ call[t].fn = "file" /\ pc = "text"
  BY DEF MallocFails, Fill, TokenizeFails, Goes
<1>3. UNCHANGED <<memory, handles, objects, misfreed>>
  BY DEF MallocFails, Fill, TokenizeFails
<1>4. /\ CallerMoves(t)
      /\ \/ call[t].pc \in {"malloc", "fill"} /\ call'[t].pc = "return"
         \/ call[t].pc = "second" /\ call[t].fn = "file" /\ call'[t].pc = "text"
      /\ call'[t].fn = call[t].fn /\ call'[t].type = call[t].type
      /\ call'[t].first = call[t].first /\ call'[t].second = call[t].second
  <2>1. PICK pc \in {"return", "text"} :
          /\ call' = [call EXCEPT ![t].pc = pc]
          /\ \/ call[t].pc \in {"malloc", "fill"} /\ pc = "return"
             \/ call[t].pc = "second" /\ call[t].fn = "file" /\ pc = "text"
    BY <1>2
  <2>. QED BY <1>1, <2>1 DEF CallerMoves, CallStates
<1>5. CallOK(t)'
  BY <1>1, <1>3, <1>4 DEF CallOK, Whole
<1>. QED BY <1>3, <1>4, <1>5, PlaceStep

LEMMA AfterMallocPlaces ==
  ASSUME NEW fn \in Functions, NEW type \in Products(fn)
  PROVE  \/ fn \in {"create", "train", "load"} /\ AfterMalloc(fn) = "construct" /\ type # Raw
         \/ fn = "bytes" /\ AfterMalloc(fn) = "return" /\ type = Raw
         \/ fn \in {"offsets", "file"} /\ AfterMalloc(fn) = "second" /\ type = Raw
<1>1. /\ fn \in {"bytes", "offsets", "file"} <=> Products(fn) = {Raw}
      /\ fn \in {"bytes", "offsets", "file"} <=> type = Raw
  BY ProductsAreClasses
<1>2. CASE fn = "bytes"
  <2>1. Products(fn) = {Raw}
    BY <1>1, <1>2
  <2>2. AfterMalloc(fn) = "return"
    BY <1>2, <2>1 DEF AfterMalloc
  <2>. QED BY <1>1, <1>2, <2>2
<1>3. CASE fn \in {"offsets", "file"}
  <2>1. Products(fn) = {Raw}
    BY <1>1, <1>3
  <2>2. AfterMalloc(fn) = "second"
    BY <1>3, <2>1 DEF AfterMalloc
  <2>. QED BY <1>1, <1>3, <2>2
<1>4. CASE fn \in {"create", "train", "load"}
  BY <1>1, <1>4 DEF AfterMalloc
<1>. QED BY <1>2, <1>3, <1>4 DEF Functions

LEMMA MallocKeeps ==
  ASSUME HeapInv, NEW t \in Callers, NEW b \in Blocks, Malloc(t, b), UNCHANGED objects
  PROVE  HeapInv'
<1>1. /\ CallOK(t) /\ call \in [Callers -> CallStates] /\ memory \in [Blocks -> BlockStates]
      /\ call[t].pc = "malloc" /\ call[t].first = NULL /\ call[t].second = NULL
      /\ call[t].fn \in Functions /\ call[t].type \in Products(call[t].fn)
      /\ call[t].type \in Classes /\ ~memory[b].used /\ b # NULL
  BY InCall, PointerAssumption DEF Malloc, CallOK, Unused
<1> DEFINE fn == call[t].fn
           type == call[t].type
           new == [used |-> TRUE, tag |-> type, object |-> IF type = Raw THEN Raw ELSE NULL]
<1>2. \/ fn \in {"create", "train", "load"} /\ AfterMalloc(fn) = "construct" /\ type # Raw
      \/ fn = "bytes" /\ AfterMalloc(fn) = "return" /\ type = Raw
      \/ fn \in {"offsets", "file"} /\ AfterMalloc(fn) = "second" /\ type = Raw
  BY <1>1, AfterMallocPlaces
<1>3. new \in BlockStates /\ memory' = [memory EXCEPT ![b] = new]
  BY <1>1 DEF Malloc, Tagged, BlockStates, Tags, Classes
<1>4. /\ memory' \in [Blocks -> BlockStates]
      /\ \A c \in Blocks \ {b} : memory'[c] = memory[c]
      /\ memory'[b].used /\ memory'[b].tag = type
      /\ memory'[b].object = IF type = Raw THEN Raw ELSE NULL
  BY <1>1, <1>3
<1>5. /\ CallerMoves(t)
      /\ call'[t].first = b /\ call'[t].second = NULL /\ call'[t].pc = AfterMalloc(fn)
      /\ call'[t].fn = fn /\ call'[t].type = type
  <2>1. AfterMalloc(fn) \in {"construct", "return", "second"}
    BY <1>2
  <2>2. call' = [call EXCEPT ![t].first = b, ![t].pc = AfterMalloc(fn)]
    BY DEF Malloc
  <2> HIDE DEF fn
  <2>. QED BY <1>1, <2>1, <2>2 DEF CallerMoves, CallStates, Pointers
<1> HIDE DEF fn, type
<1>6. call'[t].type \in Products(call'[t].fn) /\ call'[t].fn \in Functions
  BY <1>1, <1>5 DEF fn, type
<1>7. CallOK(t)'
  BY <1>1, <1>2, <1>4, <1>5, <1>6 DEF CallOK, Whole
<1>8. \A c \in Blocks : ~Has(t, c)
  BY <1>1, PointerAssumption DEF Has
<1>9. Hand(t)' = {b, NULL}
  BY <1>5 DEF Hand
<1>. QED
  BY <1>1, <1>4, <1>5, <1>7, <1>8, <1>9, CallerStep DEF Malloc, Pointers

LEMMA SecondMallocKeeps ==
  ASSUME HeapInv, NEW t \in Callers, NEW b \in Blocks, SecondMalloc(t, b), UNCHANGED objects
  PROVE  HeapInv'
<1>1. /\ CallOK(t) /\ call \in [Callers -> CallStates] /\ memory \in [Blocks -> BlockStates]
      /\ call[t].pc = "second" /\ call[t].first \in Blocks /\ call[t].second = NULL
      /\ call[t].fn \in {"offsets", "file"} /\ call[t].type = Raw
      /\ Whole(call[t].first, Raw)
      /\ ~memory[b].used /\ b # NULL
  <2>1. call[t].pc = "second" /\ ~memory[b].used
    BY DEF SecondMalloc, Unused
  <2>2. call[t].fn \in {"offsets", "file"} /\ call[t].second = NULL /\ call[t].first # NULL
    BY <2>1, InCall DEF CallOK
  <2>3. call[t].type = Raw
    BY <2>1, <2>2, InCall, ProductsAreClasses
  <2>. QED BY <2>1, <2>2, <2>3, InCall, PointerAssumption DEF Pointers
<1> DEFINE f == call[t].first
           new == [used |-> TRUE, tag |-> Raw, object |-> Raw]
<1>2. b # f
  BY <1>1 DEF Whole
<1>3. new \in BlockStates /\ memory' = [memory EXCEPT ![b] = new]
  BY DEF SecondMalloc, Tagged, BlockStates, Tags, Classes
<1>4. /\ memory' \in [Blocks -> BlockStates]
      /\ \A c \in Blocks \ {b} : memory'[c] = memory[c]
      /\ memory'[b].used /\ memory'[b].tag = Raw /\ memory'[b].object = Raw
  BY <1>1, <1>3
<1>5. /\ CallerMoves(t)
      /\ call'[t].first = f /\ call'[t].second = b
      /\ call'[t].pc \in {"return", "text"} /\ (call'[t].pc = "text" => call'[t].fn = "file")
      /\ call'[t].fn = call[t].fn /\ call'[t].type = call[t].type
  BY <1>1 DEF SecondMalloc, CallerMoves, CallStates, Pointers
<1>6. /\ f # NULL /\ f \in Blocks
      /\ memory'[f].used /\ memory'[f].tag = Raw /\ memory'[f].object = Raw
  BY <1>1, <1>2, <1>4, PointerAssumption DEF Whole
<1>7. CallOK(t)'
  BY <1>1, <1>2, <1>4, <1>5, <1>6 DEF CallOK, Whole
<1>8. Hand(t)' = {f, b} /\ \A c \in Blocks : Has(t, c) <=> c = f
  BY <1>1, <1>5, PointerAssumption DEF Hand, Has
<1> HIDE DEF f
<1>. QED
  BY <1>1, <1>4, <1>5, <1>6, <1>7, <1>8, CallerStep DEF SecondMalloc, Pointers

LEMMA ConstructKeeps ==
  ASSUME HeapInv, NEW t \in Callers, Construct(t), UNCHANGED objects
  PROVE  HeapInv'
<1> DEFINE f == call[t].first
           type == call[t].type
<1>1. /\ CallOK(t) /\ call \in [Callers -> CallStates] /\ memory \in [Blocks -> BlockStates]
      /\ call[t].pc = "construct" /\ f \in Blocks /\ f # NULL /\ call[t].second = NULL
      /\ call[t].fn \in Functions /\ type \in Products(call[t].fn) /\ type \in Classes
      /\ call[t].fn \notin {"bytes", "offsets", "file"}
      /\ memory[f].used /\ memory[f].tag = type
  BY InCall DEF Construct, CallOK, Pointers
<1>2. /\ memory' \in [Blocks -> BlockStates]
      /\ \A c \in Blocks \ {f} : memory'[c] = memory[c]
      /\ memory'[f].used /\ memory'[f].tag = type /\ memory'[f].object = type
  BY <1>1 DEF Construct, BlockStates
<1>3. /\ CallerMoves(t)
      /\ call'[t].first = f /\ call'[t].second = NULL /\ call'[t].pc \in {"fill", "return"}
      /\ call'[t].fn = call[t].fn /\ call'[t].type = type
  BY <1>1 DEF Construct, Goes, CallerMoves, CallStates
<1>4. CallOK(t)'
  BY <1>1, <1>2, <1>3 DEF CallOK, Whole
<1>5. Hand(t)' = {f, NULL} /\ \A c \in Blocks : Has(t, c) <=> c = f
  BY <1>1, <1>3, PointerAssumption DEF Hand, Has
<1> HIDE DEF f, type
<1>. QED BY <1>1, <1>2, <1>3, <1>4, <1>5, CallerStep DEF Construct, Pointers

\* A block that only its caller has is freed, with or without its tag.
LEMMA ThrowKeeps ==
  ASSUME HeapInv, NEW t \in Callers, ConstructThrows(t) \/ FillThrows(t) \/ OffsetsFail(t),
         UNCHANGED objects
  PROVE  HeapInv'
<1> DEFINE f == call[t].first
<1>1. /\ CallOK(t) /\ call \in [Callers -> CallStates] /\ memory \in [Blocks -> BlockStates]
      /\ call[t].pc \in {"construct", "fill", "second"}
      /\ f \in Blocks /\ f # NULL /\ call[t].second = NULL
  BY InCall DEF ConstructThrows, FillThrows, OffsetsFail, CallOK, Pointers
<1>2. /\ UNCHANGED misfreed
      /\ memory' \in [Blocks -> BlockStates]
      /\ \A c \in Blocks \ {f} : memory'[c] = memory[c]
      /\ ~memory'[f].used
  <2>1. CASE ConstructThrows(t)
    BY <1>1, <2>1 DEF ConstructThrows, BlockStates
  <2>2. CASE FillThrows(t) \/ OffsetsFail(t)
    <3>1. call[t].pc # "construct" /\ call[t].pc # "idle" /\ MitieFree(f)
      BY <2>2 DEF FillThrows, OffsetsFail
    <3>2. Whole(f, call[t].type) /\ call[t].type \in Classes
      BY <1>1, <3>1, InCall
    <3>. QED BY <1>1, <3>1, <3>2, FreeingWhole DEF Pointers
  <2>. QED BY <2>1, <2>2
<1>3. /\ CallerMoves(t) /\ UNCHANGED handles
      /\ call'[t].first = NULL /\ call'[t].second = NULL /\ call'[t].pc = "return"
      /\ call'[t].fn = call[t].fn /\ call'[t].type = call[t].type
  BY <1>1 DEF ConstructThrows, FillThrows, OffsetsFail, CallerMoves, CallStates, Pointers
<1>4. CallOK(t)'
  BY <1>1, <1>3 DEF CallOK
<1>5. Hand(t)' = {NULL} /\ \A c \in Blocks : Has(t, c) <=> c = f
  BY <1>1, <1>3, PointerAssumption DEF Hand, Has
<1> HIDE DEF f
<1>. QED BY <1>1, <1>2, <1>3, <1>4, <1>5, CallerStep DEF Pointers

\* Of two blocks the first is freed.
LEMMA FreeFirstKeeps ==
  ASSUME HeapInv, NEW t \in Callers, FreeText(t) \/ FreeResult(t), UNCHANGED objects
  PROVE  HeapInv'
<1> DEFINE f == call[t].first
           s == call[t].second
<1>1. /\ CallOK(t) /\ call \in [Callers -> CallStates] /\ memory \in [Blocks -> BlockStates]
      /\ call[t].pc \in {"text", "return"}
      /\ f \in Blocks /\ f # NULL /\ s \in Pointers /\ s # f
      /\ call[t].fn \in Functions /\ call[t].type \in Products(call[t].fn)
      /\ Whole(f, call[t].type) /\ call[t].type \in Classes
      /\ s # NULL => Whole(s, Raw) /\ call[t].type = Raw
  BY InCall DEF FreeText, FreeResult, CallOK, Pointers
<1>2. MitieFree(f) /\ UNCHANGED handles
  BY DEF FreeText, FreeResult
<1>3. /\ UNCHANGED misfreed
      /\ memory' \in [Blocks -> BlockStates]
      /\ \A c \in Blocks \ {f} : memory'[c] = memory[c]
      /\ ~memory'[f].used
  BY <1>1, <1>2, FreeingWhole DEF Pointers
<1>4. /\ CallerMoves(t)
      /\ call'[t].first = s /\ call'[t].second = NULL
      /\ \/ call'[t].pc = "idle" /\ s = NULL
         \/ /\ call'[t].pc = "return"
            /\ call'[t].fn = call[t].fn /\ call'[t].type = call[t].type
  <2>1. CASE FreeText(t)
    BY <1>1, <2>1 DEF FreeText, CallerMoves, CallStates, Pointers
  <2>2. CASE FreeResult(t) /\ s = NULL
    BY <1>1, <2>2 DEF FreeResult, CallerMoves, CallStates, Pointers, NoCall
  <2>3. CASE FreeResult(t) /\ s # NULL
    BY <1>1, <2>3 DEF FreeResult, CallerMoves, CallStates, Pointers
  <2>. QED BY <2>1, <2>2, <2>3
<1>5. CallOK(t)'
  <2>1. s # NULL => memory'[s] = memory[s]
    BY <1>1, <1>3 DEF Pointers
  <2>. QED BY <1>1, <1>4, <2>1 DEF CallOK, Whole
<1>6. Hand(t)' = {s, NULL} /\ \A c \in Blocks : Has(t, c) <=> c = f \/ c = s
  BY <1>1, <1>4, PointerAssumption DEF Hand, Has
<1> HIDE DEF f, s
<1>. QED BY <1>1, <1>2, <1>3, <1>4, <1>5, <1>6, CallerStep DEF Pointers

-----------------------------------------------------------------------------
(* Clients *)

LEMMA RaiseKeeps ==
  ASSUME HeapInv, NEW t \in Callers, Raise(t)
  PROVE  HeapInv'
<1>1. /\ call \in [Callers -> CallStates]
      /\ call[t].first = NULL /\ call[t].second = NULL
  BY InCall DEF Raise, CallOK
<1>2. /\ call' \in [Callers -> CallStates]
      /\ \A v \in Callers \ {t} : call'[v] = call[v]
      /\ call'[t].pc = "idle" /\ call'[t].first = NULL /\ call'[t].second = NULL
  BY <1>1 DEF Raise, NoCall, CallStates, Pointers
<1>3. CallOK(t)'
  BY <1>2 DEF CallOK
<1>. QED BY <1>1, <1>2, <1>3, PlaceStep DEF CallerMoves, Raise

LEMMA ReturnKeeps ==
  ASSUME HeapInv, NEW t \in Callers, Return(t), UNCHANGED objects
  PROVE  HeapInv'
<1> DEFINE given == {Handle(b, call[t].type) : b \in {call[t].first, call[t].second} \ {NULL}}
<1>1. /\ call[t].pc = "return" /\ call' = [call EXCEPT ![t] = NoCall]
      /\ UNCHANGED <<memory, misfreed>> /\ handles' = handles \cup given
  BY DEF Return
<1>2. /\ call[t].first \in Pointers /\ call[t].second \in Pointers /\ call[t].type \in Classes
      /\ handles \subseteq [block : Blocks, type : Classes]
      /\ objects \subseteq [block : Pointers, type : Types]
  BY <1>1, InCall DEF HeapInv, HeapTypes
<1>3. \A h \in given : /\ h \in [block : Blocks, type : Classes]
                       /\ h.type = call[t].type /\ Has(t, h.block)
  BY <1>2 DEF Handle, Has, Pointers
<1>4. given \cap objects = {}
  BY <1>3, PointerAssumption DEF HeapInv, HandedOver
<1>5. \A b \in Blocks : Has(t, b) => \E h \in given : h.block = b
  <2> SUFFICES ASSUME NEW b \in Blocks, Has(t, b) PROVE \E h \in given : h.block = b
    OBVIOUS
  <2>1. Handle(b, call[t].type) \in given /\ Handle(b, call[t].type).block = b
    BY PointerAssumption DEF Has, Handle
  <2>. QED BY <2>1
<1>6. handles' \cap objects' = {}
  BY <1>1, <1>4 DEF HeapInv
<1> HIDE DEF given
<1>. QED BY <1>1, <1>2, <1>3, <1>5, <1>6, HandOver

LEMMA WrapKeeps ==
  ASSUME HeapInv, NEW t \in Callers, Wrap(t) \/ WrapNull(t)
  PROVE  HeapInv'
<1> DEFINE o == Handle(call[t].first, call[t].type)
<1>1. /\ call[t].pc = "return" /\ call' = [call EXCEPT ![t] = NoCall]
      /\ UNCHANGED <<memory, misfreed, handles>> /\ objects' = objects \cup {o}
  BY DEF Wrap, WrapNull
<1>2. call[t].first \in Pointers /\ call[t].type \in Types /\ call[t].second = NULL
  <2>1. call[t].type \in Types
    BY <1>1, InCall DEF Wrap, WrapNull, Kept, Products
  <2>. QED BY <1>1, <2>1, InCall, TagAssumption DEF CallOK
<1>3. /\ handles \subseteq [block : Blocks, type : Classes]
      /\ objects \subseteq [block : Pointers, type : Types]
      /\ o \in [block : Pointers, type : Types]
      /\ o.block = call[t].first /\ o.type = call[t].type
  BY <1>2 DEF HeapInv, HeapTypes, Handle
<1>4. o \notin handles
  <2>1. CASE o.block = NULL
    BY <1>3, <2>1, PointerAssumption
  <2>2. CASE o.block # NULL
    BY <1>3, <2>2 DEF HeapInv, HandedOver, Has
  <2>. QED BY <2>1, <2>2
<1>5. Has(t, o.block) /\ \A b \in Blocks : Has(t, b) => o.block = b
  BY <1>2, <1>3, PointerAssumption DEF Has
<1>6. handles' \cap objects' = {}
  BY <1>1, <1>4 DEF HeapInv
<1> HIDE DEF o
<1>. QED BY <1>1, <1>2, <1>3, <1>5, <1>6, HandOver

-----------------------------------------------------------------------------
LEMMA HeapInvInit == PyInit => HeapInv
<1> SUFFICES ASSUME PyInit PROVE HeapInv
  OBVIOUS
<1>1. \A t \in Callers : call[t] = NoCall
  BY DEF PyInit, HeapInit
<1>2. HeapTypes
  BY DEF PyInit, HeapInit, HeapTypes, BlockStates, CallStates, NoCall, Pointers
<1>3. \A t \in Callers : CallOK(t)
  BY <1>1 DEF CallOK, NoCall
<1>4. \A b \in Blocks : ~memory[b].used /\ \A t \in Callers : ~Has(t, b)
  BY <1>1, PointerAssumption DEF PyInit, HeapInit, Has, NoCall
<1>5. handles = {} /\ objects = {} /\ misfreed = FALSE
  BY DEF PyInit, HeapInit
<1>. QED
  BY <1>2, <1>3, <1>4, <1>5 DEF HeapInv, CallersApart, HandlesApart, HandedOver, NotLeaked

LEMMA HeapInvStep == HeapInv /\ [PyNext]_pyVars => HeapInv'
<1> SUFFICES ASSUME HeapInv, [PyNext]_pyVars PROVE HeapInv'
  OBVIOUS
<1>1. ASSUME NEW t \in Callers, LibraryStep(t), UNCHANGED objects
      PROVE  HeapInv'
  BY <1>1, MallocKeeps, QuietStepKeeps, ConstructKeeps, ThrowKeeps, SecondMallocKeeps,
     FreeFirstKeeps DEF LibraryStep
<1>2. ASSUME NEW t \in Callers, NEW fn \in Functions, NEW type, Call(t, fn, type),
             UNCHANGED objects
      PROVE  HeapInv'
  BY <1>2, CallKeeps
<1>3. ASSUME NEW t \in Callers, UNCHANGED objects,
             Return(t) \/ \E fn \in Functions, type \in Types \cup {Raw} : Call(t, fn, type)
      PROVE  HeapInv'
  BY <1>2, <1>3, ReturnKeeps
<1>4. ASSUME NEW h \in handles, ClientFrees(h), UNCHANGED objects
      PROVE  HeapInv'
  BY <1>4, GiveUp DEF ClientFrees
<1>5. ASSUME NEW t \in Callers,
             \/ \E fn \in Functions, type \in Types \cup {Raw} :
                   PyCall(t, fn, type) /\ UNCHANGED objects
             \/ Wrap(t) \/ Raise(t) \/ WrapNull(t) \/ FreeResult(t)
      PROVE  HeapInv'
  BY <1>2, <1>5, WrapKeeps, RaiseKeeps, FreeFirstKeeps DEF PyCall, FreeResult
<1>6. ASSUME NEW o \in objects, Del(o)
      PROVE  HeapInv'
  BY <1>6, GiveUp DEF Del
<1>7. CASE UNCHANGED pyVars
  BY <1>7 DEF pyVars, heapVars, HeapInv, HeapTypes, CallOK, HandleOK, Whole, CallersApart,
              HandlesApart, HandedOver, NotLeaked, Has
<1>. QED
  BY <1>1, <1>3, <1>4, <1>5, <1>6, <1>7, ThreadAssumption DEF PyNext

LEMMA HeapInvHolds == PySpec => []HeapInv
BY HeapInvInit, HeapInvStep, PTL DEF PySpec

\* However many callers are in the interface at once and whatever throws in
\* it, every block in use has one owner, who will free it, and nobody has a
\* block that is not in use.
THEOREM EveryBlockHasOneOwner == PySpec => []OneOwner
<1>1. ASSUME HeapInv, NEW b \in Blocks PROVE memory[b].used <=> Owners(b) # {}
  <2>1. ASSUME memory[b].used PROVE Owners(b) # {}
    <3>1. CASE \E t \in Callers : Has(t, b)
      <4>1. PICK t \in Callers : call[t]["first"] = b \/ call[t]["second"] = b
        BY <3>1 DEF Has
      <4>2. <<t, "first">> \in Owners(b) \/ <<t, "second">> \in Owners(b)
        BY <4>1 DEF Owners
      <4>. QED BY <4>2
    <3>2. CASE \E h \in handles \cup objects : h.block = b
      <4>1. PICK h \in handles \cup objects : h.block = b
        BY <3>2
      <4>2. <<h, "client">> \in Owners(b) \/ <<h, "object">> \in Owners(b)
        BY <4>1 DEF Owners
      <4>. QED BY <4>2
    <3>. QED BY <1>1, <2>1, <3>1, <3>2 DEF HeapInv, NotLeaked
  <2>2. ASSUME NEW x \in Owners(b) PROVE memory[b].used
    <3>1. (\E t \in Callers : Has(t, b)) \/ (\E h \in handles \cup objects : h.block = b)
      BY DEF Owners, Has
    <3>. QED BY <1>1, <3>1, HeldIsUsed
  <2>. QED BY <2>1, <2>2
<1>2. ASSUME HeapInv, NEW b \in Blocks, NEW x \in Owners(b), NEW y \in Owners(b) PROVE x = y
  <2> b # NULL
    BY PointerAssumption
  <2> DEFINE Calling(z) ==
               \E t \in Callers : \/ z = <<t, "first">> /\ call[t].first = b
                                  \/ z = <<t, "second">> /\ call[t].second = b
             Client(z) == \E h \in handles : z = <<h, "client">> /\ h.block = b
             Object(z) == \E o \in objects : z = <<o, "object">> /\ o.block = b
  <2>1. ASSUME NEW z \in Owners(b) PROVE Calling(z) \/ Client(z) \/ Object(z)
    <3>1. CASE z \in Callers \X {"first", "second"} /\ call[z[1]][z[2]] = b
      <4>1. PICK t \in Callers, slot \in {"first", "second"} : z = <<t, slot>>
        BY <3>1
      <4>2. call[t][slot] = b
        BY <3>1, <4>1
      <4>. QED BY <4>1, <4>2
    <3>2. CASE z \in {h \in handles : h.block = b} \X {"client"}
      BY <3>2
    <3>3. CASE z \in {o \in objects : o.block = b} \X {"object"}
      BY <3>3
    <3>. QED BY <3>1, <3>2, <3>3 DEF Owners
  <2>2. \A t \in Callers : call[t].first = b => call[t].second # b
    BY <1>2 DEF HeapInv, CallOK
  <2>3. CASE Calling(x) /\ Calling(y)
    BY <1>2, <2>2, <2>3 DEF HeapInv, CallersApart, Has
  <2>4. CASE (Client(x) /\ Client(y)) \/ (Object(x) /\ Object(y))
    BY <1>2, <2>4 DEF HeapInv, HandlesApart
  <2>5. ~(Client(x) /\ Object(y)) /\ ~(Object(x) /\ Client(y))
    BY <1>2 DEF HeapInv, HandlesApart
  <2>6. /\ ~(Calling(x) /\ (Client(y) \/ Object(y)))
        /\ ~(Calling(y) /\ (Client(x) \/ Object(x)))
    BY <1>2 DEF HeapInv, HandedOver, Has
  <2> HIDE DEF Calling, Client, Object
  <2>7. /\ Calling(x) \/ Client(x) \/ Object(x)
        /\ Calling(y) \/ Client(y) \/ Object(y)
    BY <2>1
  <2>8. CASE Calling(x)
    BY <2>3, <2>6, <2>7, <2>8
  <2>9. CASE Client(x)
    BY <2>4, <2>5, <2>6, <2>7, <2>9
  <2>10. CASE Object(x)
    BY <2>4, <2>5, <2>6, <2>7, <2>10
  <2>. QED BY <2>7, <2>8, <2>9, <2>10
<1>3. HeapInv => OneOwner
  BY <1>1, <1>2 DEF OneOwner
<1>. QED BY <1>3, HeapInvHolds, PTL

\* mitie_free() runs the destructor of the object it is given, and nothing is
\* freed a second time, by a client in C or by an object of mitie.py.
THEOREM EveryFreeIsRight == PySpec => []FreesAreRight
<1>1. HeapInv => FreesAreRight
  BY DEF HeapInv, HandleOK, Whole, FreesAreRight
<1>. QED BY <1>1, HeapInvHolds, PTL

=============================================================================
