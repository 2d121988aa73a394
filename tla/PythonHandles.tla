--------------------------- MODULE PythonHandles ----------------------------
(***************************************************************************)
(* mitie.py on top of the C interface.  Its classes keep a pointer, which  *)
(* __del__() gives to mitie_free(); what is not made into an object (text, *)
(* tokens, offsets, detections) is read and freed by the function that     *)
(* asked for it.  ctypes releases the interpreter's lock during calls, so  *)
(* Python threads run in the library concurrently, with clients in C too.  *)
(***************************************************************************)
EXTENDS ObjectHeap

CONSTANT
  PythonThreads  \* the callers that run mitie.py

ASSUME ThreadAssumption == PythonThreads \subseteq Callers

VARIABLE
  objects  \* the Python objects with their pointers

pyVars == <<heapVars, objects>>

-----------------------------------------------------------------------------

PyInit == HeapInit /\ objects = {}

\* The classes of which mitie.py makes objects
Kept(type) == type \in Types \ Temporaries

\* __init__() or extract_binary_relation(): a pointer that is not None
Wrap(t) ==
  /\ call[t].pc = "return"
  /\ Kept(call[t].type)
  /\ call[t].first # NULL
  /\ objects' = objects \cup {Handle(call[t].first, call[t].type)}
  /\ call' = [call EXCEPT ![t] = NoCall]
  /\ UNCHANGED <<memory, handles, misfreed>>

\* Everything but train() raises: it compares with None, or reads through a
\* NULL POINTER.  An object of which __init__() raised frees NULL: no effect.
Raise(t) ==
  /\ call[t].pc = "return"
  /\ call[t].first = NULL
  /\ call[t].fn # "train"
  /\ call' = [call EXCEPT ![t] = NoCall]
  /\ UNCHANGED <<memory, handles, misfreed, objects>>

\* train() compares a c_void_p object with None, and that never is.
WrapNull(t) ==
  /\ call[t].pc = "return"
  /\ call[t].first = NULL
  /\ call[t].fn = "train"
  /\ objects' = objects \cup {Handle(NULL, call[t].type)}
  /\ call' = [call EXCEPT ![t] = NoCall]
  /\ UNCHANGED <<memory, handles, misfreed>>

\* A result that was read is freed; tokenize_with_offsets() has two.
FreeResult(t) ==
  /\ call[t].pc = "return"
  /\ ~Kept(call[t].type)
  /\ call[t].first # NULL
  /\ MitieFree(call[t].first)
  /\ call' = IF call[t].second = NULL
             THEN [call EXCEPT ![t] = NoCall]
             ELSE [call EXCEPT ![t].first = call[t].second, ![t].second = NULL]
  /\ UNCHANGED <<handles, objects>>

\* __del__()
Del(o) ==
  /\ o \in objects
  /\ MitieFree(o.block)
  /\ objects' = objects \ {o}
  /\ UNCHANGED <<call, handles>>

\* mitie.py does not use mitie_tokenize_file().
PyCall(t, fn, type) ==
  /\ fn # "file"
  /\ Call(t, fn, type)

PyNext ==
  \/ \E t \in Callers : LibraryStep(t) /\ UNCHANGED objects
  \/ \E t \in Callers \ PythonThreads :
       /\ Return(t) \/ \E fn \in Functions, type \in Types \cup {Raw} : Call(t, fn, type)
       /\ UNCHANGED objects
  \/ \E h \in handles : ClientFrees(h) /\ UNCHANGED objects
  \/ \E t \in PythonThreads :
       \/ \E fn \in Functions, type \in Types \cup {Raw} : PyCall(t, fn, type) /\ UNCHANGED objects
       \/ Wrap(t)
       \/ Raise(t)
       \/ WrapNull(t)
       \/ FreeResult(t)
  \/ \E o \in objects : Del(o)

PySpec == PyInit /\ [][PyNext]_pyVars

-----------------------------------------------------------------------------
(* Properties *)

Owners(b) ==
  {c \in Callers \X {"first", "second"} : call[c[1]][c[2]] = b}
    \cup ({h \in handles : h.block = b} \X {"client"})
    \cup ({o \in objects : o.block = b} \X {"object"})

\* Whatever fails and however calls interleave, a block is in use exactly as
\* long as somebody will free it, and that somebody is one: no call that
\* returned NULL has left a block behind.
OneOwner ==
  \A b \in Blocks :
    /\ memory[b].used <=> Owners(b) # {}
    /\ \A x, y \in Owners(b) : x = y

\* mitie_free() is never called with a pointer whose tag is not that of the
\* object there, and every client's pointer is to an object of its class.
FreesAreRight ==
  /\ ~misfreed
  /\ \A h \in handles \cup objects :
       h.block # NULL => /\ memory[h.block].object = h.type
                         /\ memory[h.block].tag = h.type

=============================================================================
