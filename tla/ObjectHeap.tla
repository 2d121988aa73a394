----------------------------- MODULE ObjectHeap -----------------------------
(***************************************************************************)
(* The heap of the C interface.  Every object handed out is preceded by a  *)
(* tag that tells mitie_free() which destructor to run.  Functions of the  *)
(* interface allocate, construct and fill objects, any of which can throw, *)
(* and then return NULL; they come in a few shapes:                        *)
(*                                                                         *)
(*   "create"   mitie_create_*, mitie_load_*_pure_model*                   *)
(*   "train"    mitie_train_*                                              *)
(*   "load"     mitie_load_*, mitie_extract_*: the object is constructed   *)
(*              empty and then filled                                      *)
(*   "bytes"    mitie_load_entire_file, mitie_tokenize,                    *)
(*              mitie_categorize_text*, ..._get_words_in_dictionary        *)
(*   "offsets"  mitie_tokenize_with_offsets                                *)
(*   "file"     mitie_tokenize_file                                        *)
(*                                                                         *)
(* Callers run concurrently, malloc() and free() are atomic.  Clients      *)
(* free what they were given, once.                                        *)
(***************************************************************************)

CONSTANTS
  Blocks,           \* addresses malloc() can return
  NULL,
  Types,            \* the classes allocate() can create
  Temporaries,      \* those whose objects are only made to be filled: detections
  Raw,              \* MITIE_RAW_MEMORY
  NotAMitieObject,  \* MITIE_NOT_A_MITIE_OBJECT
  Callers           \* threads that call the interface

ASSUME PointerAssumption == NULL \notin Blocks

ASSUME TagAssumption == Raw \notin Types

VARIABLES
  memory,    \* of every block: in use, its tag, the object constructed in it
  call,      \* of every caller: the function it is in
  handles,   \* what clients were given and have not freed
  misfreed   \* history: mitie_free() aborted or ran a destructor on no object of its type

heapVars == <<memory, call, handles, misfreed>>

-----------------------------------------------------------------------------

Tags == Types \cup {Raw, NotAMitieObject}

Handle(b, type) == [block |-> b, type |-> type]

\* `first' and `second' are the blocks a call has got, in this order.
NoCall == [pc |-> "idle", fn |-> NULL, type |-> NULL, first |-> NULL, second |-> NULL]

\* What malloc() returns has whatever tag was there before.
HeapInit ==
  /\ memory \in [Blocks -> [used : {FALSE}, tag : Tags, object : {NULL}]]
  /\ call = [t \in Callers |-> NoCall]
  /\ handles = {}
  /\ misfreed = FALSE

Unused == {b \in Blocks : ~memory[b].used}

Goes(t, pc) == call' = [call EXCEPT ![t].pc = pc]

-----------------------------------------------------------------------------
(* allocate(), allocate_bytes(), mitie_free() *)

\* Mutant: allocate_bytes() forgets the tag
TaggedOnlyObjects(b, type) ==
  [memory EXCEPT ![b] = [used |-> TRUE,
                         tag |-> IF type = Raw THEN @.tag ELSE type,
                         object |-> IF type = Raw THEN Raw ELSE NULL]]

\* A block is taken from malloc() and tagged.
Tagged(b, type) ==
  [memory EXCEPT ![b] = [used |-> TRUE, tag |-> type,
                         object |-> IF type = Raw THEN Raw ELSE NULL]]

\* mitie_free(b): the destructor the tag names, and free()
Freed(b) ==
  IF b = NULL THEN memory
  ELSE [memory EXCEPT ![b] = [used |-> FALSE, tag |-> NotAMitieObject, object |-> NULL]]

Misfreed(b) == b # NULL /\ memory[b].tag # memory[b].object

MitieFree(b) ==
  /\ memory' = Freed(b)
  /\ misfreed' = (misfreed \/ Misfreed(b))

-----------------------------------------------------------------------------
(* Inside a function of the interface *)

Functions == {"create", "train", "load", "bytes", "offsets", "file"}

\* What the functions of a shape return pointers to
Products(fn) ==
  CASE fn = "load" -> Types
    [] fn \in {"create", "train"} -> Types \ Temporaries
    [] fn \in {"bytes", "offsets", "file"} -> {Raw}

Call(t, fn, type) ==
  /\ call[t] = NoCall
  /\ type \in Products(fn)
  /\ call' = [call EXCEPT ![t].pc = "malloc", ![t].fn = fn, ![t].type = type]
  /\ UNCHANGED <<memory, handles, misfreed>>

AfterMalloc(fn) ==
  CASE Products(fn) # {Raw} -> "construct"
    [] fn = "bytes" -> "return"
    [] fn \in {"offsets", "file"} -> "second"

Malloc(t, b) ==
  /\ call[t].pc = "malloc"
  /\ b \in Unused
  /\ memory' = Tagged(b, call[t].type)
  /\ call' = [call EXCEPT ![t].first = b, ![t].pc = AfterMalloc(call[t].fn)]
  /\ UNCHANGED <<handles, misfreed>>

\* malloc(), or what the function does before it, fails.
MallocFails(t) ==
  /\ call[t].pc = "malloc"
  /\ Goes(t, "return")
  /\ UNCHANGED <<memory, handles, misfreed>>

Construct(t) ==
  /\ call[t].pc = "construct"
  /\ memory' = [memory EXCEPT ![call[t].first].object = call[t].type]
  /\ Goes(t, IF call[t].fn = "load" THEN "fill" ELSE "return")
  /\ UNCHANGED <<handles, misfreed>>

\* The constructor throws: free() without mitie_free(), the tag stays.
ConstructThrows(t) ==
  /\ call[t].pc = "construct"
  /\ memory' = [memory EXCEPT ![call[t].first].used = FALSE]
  /\ call' = [call EXCEPT ![t].first = NULL, ![t].pc = "return"]
  /\ UNCHANGED <<handles, misfreed>>

Fill(t) ==
  /\ call[t].pc = "fill"
  /\ Goes(t, "return")
  /\ UNCHANGED <<memory, handles, misfreed>>

\* Mutant: the handler returns NULL and no more
FillThrowsLeaks(t) ==
  /\ call[t].pc = "fill"
  /\ call' = [call EXCEPT ![t].first = NULL, ![t].pc = "return"]
  /\ UNCHANGED <<memory, handles, misfreed>>

FillThrows(t) ==
  /\ call[t].pc = "fill"
  /\ MitieFree(call[t].first)
  /\ call' = [call EXCEPT ![t].first = NULL, ![t].pc = "return"]
  /\ UNCHANGED handles

\* mitie_tokenize_with_offsets() has its tokens, or mitie_tokenize_file() its text.
SecondMalloc(t, b) ==
  /\ call[t].pc = "second"
  /\ b \in Unused
  /\ memory' = Tagged(b, Raw)
  /\ call' = [call EXCEPT ![t].second = b,
                          ![t].pc = IF call[t].fn = "offsets" THEN "return" ELSE "text"]
  /\ UNCHANGED <<handles, misfreed>>

OffsetsFail(t) ==
  /\ call[t].pc = "second"
  /\ call[t].fn = "offsets"
  /\ MitieFree(call[t].first)
  /\ call' = [call EXCEPT ![t].first = NULL, ![t].pc = "return"]
  /\ UNCHANGED handles

TokenizeFails(t) ==
  /\ call[t].pc = "second"
  /\ call[t].fn = "file"
  /\ Goes(t, "text")
  /\ UNCHANGED <<memory, handles, misfreed>>

\* mitie_tokenize_file() frees its text, tokens or not.
FreeText(t) ==
  /\ call[t].pc = "text"
  /\ MitieFree(call[t].first)
  /\ call' = [call EXCEPT ![t].first = call[t].second, ![t].second = NULL, ![t].pc = "return"]
  /\ UNCHANGED handles

LibraryStep(t) ==
  \/ \E b \in Blocks : Malloc(t, b)
  \/ MallocFails(t)
  \/ Construct(t)
  \/ ConstructThrows(t)
  \/ Fill(t)
  \/ FillThrows(t)
  \/ \E b \in Blocks : SecondMalloc(t, b)
  \/ OffsetsFail(t)
  \/ TokenizeFails(t)
  \/ FreeText(t)

-----------------------------------------------------------------------------
(* Clients in C *)

Return(t) ==
  /\ call[t].pc = "return"
  /\ handles' = handles \cup
       {Handle(b, call[t].type) : b \in {call[t].first, call[t].second} \ {NULL}}
  /\ call' = [call EXCEPT ![t] = NoCall]
  /\ UNCHANGED <<memory, misfreed>>

ClientFrees(h) ==
  /\ h \in handles
  /\ MitieFree(h.block)
  /\ handles' = handles \ {h}
  /\ UNCHANGED call

=============================================================================
