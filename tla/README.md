# A verification project for MITIE

MITIE trains and runs three kinds of statistical models over text: named entity
recognizers (`named_entity_extractor`), binary relation detectors
(`binary_relation_detector`) and text categorizers (`text_categorizer`). All of
them read text through a `total_word_feature_extractor`, a table of word vectors
that is built once from a huge corpus by `wordrep`. A model is a set of weights
that only means something when the words reach it through the extractor it was
trained with, and models, extractors and files travel separately.

The library is C++; programs in other languages reach it through a C API
(`mitielib/include/mitie.h`, `mitielib/src/mitie.cpp`), a ctypes wrapper
(`mitielib/mitie.py`), a SWIG layer for Java and an R package.

## 1. Inventory

| component | state it keeps | operations | what makes it correct |
|---|---|---|---|
| `named_entity_extractor` (NER) and its files | weights, extractor, version, recorded extractor fingerprint, own fingerprint | construct, serialize, deserialize, three ways to load, `save_pure_model`, `predict`, `operator()` | a prediction uses the extractor the weights were trained on, or is refused; fingerprints survive files |
| `binary_relation_detector` | weights, fingerprint of the NER object it was trained with | extract, train, save, load, `operator()` | a relation is only scored by a detector of the same NER object |
| `text_categorizer` and its files | weights, extractor, version (0 bag of words, 1 with extractor), fingerprint | as for NER | as for NER; bag of words models need no extractor |
| C API heap | objects with a type tag in a header | allocate, destroy, `mitie_free`, all load and train functions | each object is freed once, with its own destructor; a failing function leaks nothing |
| Python wrapper | handles inside Python objects | constructors, `__del__`, save, train | a handle is valid as long as its object lives |
| relation windows | none (pure) | cropping in C and Python, windows of 2 and 5 tokens | cropping changes no token a feature is computed from |
| NER training data | parallel vectors of sentences, chunks and labels | `add_entity`, `add`, `train` | chunks do not overlap and stay in their sentence; label numbers are consistent |
| CoNLL files, labels and tagging tool | lines, sentences, labels of the tokens | `parse_conll_data`, BIO/BILOU conversions, `print_conll_data`, `tag_conll_file` | chunks are preserved by every conversion, and by a file that is printed and read |
| `conll_tokenizer` | stream, offset, look-ahead | `operator()` | offsets are those of the token's first byte |
| corpus readers | list of files, position, state of the parser | `operator()`, `reset` | every document is delivered once, in order |
| `count_min_sketch` | table of counters | `increment`, `get_count`, `absorb`, `zero` | an estimate is never below the true count |
| `wordrep` | sketch, candidate heap, word vectors, patterns | `get_top_word_counts`, `word_vects`, `basic_morph`, `cca_morph` | the words and patterns kept are the most frequent ones; every pattern a word is asked for was learned |
| `approximate_substring_set` | hash table of patterns | `add_substring`, `find_substrings` | a pattern that was added is found in every word that has it |
| threads (dlib's threader and `thread_pool`) | functions to start, threads of the pool, slots of tasks | `create_new_thread`, `thread_starter`, `add_task`, `wait_for_all_tasks`, `shutdown_pool` | no function, task or wake-up is lost; nothing outlives what it works on |
| optimizers (dlib's structural SVM, cross-validation) | sums of all samples, caches of the oracle's answers, `skip_cache` | `get_risk`, `call_oracle`, `optimization_status`, `cross_validate_trainer_threaded` | every sample counts once; training stops only after the oracle was asked |

### Operations and interactions

```
   Python, ctypes        Java, SWIG        C client        ner_conll, wordrep, ...
        |                    |                |                     |
        |   crops, reads     |                |                     |
        |   and frees        |                |                     |
        +-------> C interface: heap, tags, crops, error codes       |
                             |                |                     |
                             +--------+-------+---------------------+
                                      v
     named_entity_extractor <--- ner_trainer <--- ner_training_instance
        |        |                  | solvers, folds: thread_pool, threader (dlib)
        |        ^                                     ^
        |        | fingerprint                         | conll_parser, labels
        |  total_word_feature_extractor <--- wordrep (files only)
        v                                               | tokenizers, sketch
     binary_relation  <-> binary_relation_detector      v
     text_categorizer (the same persistence)           corpus
```

* A **model is bound to its extractor by numbers**. Training records the 64 bit
  fingerprint of the extractor (`tfe_fingerprint`), hashes it into the
  fingerprint of the model, and `predict()` compares. Full files hold the
  extractor, pure files only its fingerprint, and the older version 0 of the
  pure files not even that. Relations and detectors copy the number and compare
  it with each other.
* **Objects change hands as pointers.** The C interface tags every block with
  the destructor it needs; Python objects keep such a pointer until `__del__()`.
* **Sentences are cropped on the way**, in Python and again in C, before the
  features of a relation are computed from windows around its arguments; what is
  trained in C is not cropped.
* **Parallel vectors** hold training data: a sentence, its chunks and their label
  numbers are related by nothing but their positions.
* **Every training is a sequence of jobs with threads.** A solver or a
  cross-validation makes a thread pool, gives it tasks that work on the stack frame
  of the caller, waits, and destroys the pool. One global threader, which starts
  threads and keeps them for 30 seconds after use, serves all of them.
* **Readers have state.** A tokenizer keeps half a token for its next call, a
  group of files keeps its place in the list, and `wordrep` goes over one corpus
  three times and relies on getting the same tokens.

### Hard behaviours

* Long sequences of legal calls: save, load without an extractor, save again,
  load with one. Which checks apply depends on the whole history of an object.
* Partial failure: every allocation, constructor and read can throw; the C
  interface turns the exception into NULL or an error code and the objects live
  on. A save truncates the old file first.
* Concurrency inside training: callers, workers and the threader meet at four
  mutexes and six condition variables; a thread times out while it is being
  signalled, waits end without a reason, a thread cannot be started.
* Concurrency from the callers: MITIE's own code has no lock; ctypes releases the
  interpreter's lock in every call, and const member functions of an extractor
  write into scratch space, so objects must not be shared between threads.
* Progress: the sleepers of a pool depend on each other's signals, and the program's
  end on all threads having left.
* Algorithms that overwrite what they read (label conversions), or keep two
  records of one set (the queue of top words).
* Limits and ends: cropping at both ends of a sentence, a full queue with ties,
  a map whose size is read while it grows, multi-byte quotes.

There are no messages between processes. The full list of hazards, each at its
line, with the properties that cover it or the reason why none does, is in
`PROJECT.json`. Four more are known and covered by nothing: an exception of Python
itself between a call and `mitie_free()` (`mitie.py:310`), quotients 0/0 among the
metrics (`ner_trainer.cpp:680`), the parser's state in `gigaword_reader`, and the
parallel vectors of the other two trainers after a failed `push_back`.

## 2. Modules

```
ModelCatalog <-implements- ModelStore  <-EXTENDS- CategorizerStore
                                       <-EXTENDS- RelationDetectors
SketchTable  <-EXTENDS- CountMinSketch <-EXTENDS- TopWords <-EXTENDS- WordRep
                                                     ^----INSTANCE---- |
                                       SubstringSet <-----EXTENDS------+
ConllLabels  <-EXTENDS- ConllFile
             <-EXTENDS- ConllTagging
ObjectHeap   <-EXTENDS- PythonHandles
Threader     <-EXTENDS- ThreadPool <-EXTENDS- ParallelTraining
RelationWindow, NerTraining, ConllTokenizer
```

`M` is instantiated for TLC by `MCM` and `MCM.cfg`, and its theorems are in
`MProofs`, with those of the modules it is composed of: `ModelStoreProofs` goes on to
`RelationDetectors` and `CategorizerStore`, `WordRepProofs` begins with
`CountMinSketch` and `TopWords` and has `SubstringSet` too, `ConllFileProofs` begins
with `ConllLabels`, `ParallelTrainingProofs` with `Threader` and `ThreadPool`, from
which it goes on to the tasks their threads are given, and `PythonHandlesProofs` is
about `ObjectHeap` too. Compositions are checked in place of
their parts: `MCWordRep` for the sketch and the top words, `MCRelationDetectors` for
`RelationWindow` (it follows each of the two from the initial states of the other), `MCConllFile` for the
labels, `MCParallelTraining` for threader and pool. Absorbing, copying and swapping
sketches, which `wordrep` does not do, is left to the proofs about `CountMinSketch`.
`PROJECT.json` maps every definition to the lines it models.

| module | variables | actions and the code they stand for |
|---|---|---|
| `ModelStore` | `model`: the object behind each handle; `disk`: model files; `reply`: what the last call returned; `careful`: whether every call kept to the rules (history) | `Train` (training constructor), `SaveFull`, `SavePure`, `TrainSeparateModels` (Java), `LoadFull`, `LoadPure`, `LoadPureWithoutFe`, `Extract`, `ExtractWith`, `Free`. A save can fail with the old file intact, fail with a damaged one, or lose its last buffer and report success |
| `ModelCatalog` | `held`, `shelf`, `answer`, `honest` | the promise to careful clients, see below |
| `RelationDetectors` | `relation`, `trainer`, `detector`, `detectorDisk`, `verdict` | `ExtractRelation`, `CreateTrainer`, `AddExample`, `TrainDetector`, `SaveDetector`, `LoadDetector`, `Classify`, freeing each; interleaved with all of `ModelStore` |
| `CategorizerStore` | those of `ModelStore` | those of `ModelStore` with `TrainedVersion = 0`, its own rules for careful clients, training without an extractor, and categorization |
| `RelationWindow` | `sentence`: the client's call; `words`, `arg1`, `arg2`: what is passed on; `stage`; `features` | `CallDirectly`, `CallFromPython` (its cropping), `CExtractRelation` (the C cropping), `CAddRelation` (none), `ComputeFeatures` |
| `SketchTable`, `CountMinSketch` | `hash`, `counts`, `total`, `truth` (history) | `Increment`, `SetCountsToZero`, `Absorb`, `Assign`, `Swap` |
| `WordRep` | `step`, `dictionary`, `vectors`, a second copy of the variables of `TopWords` for patterns, `substrs`, `table`, `rows`, `asked` | the commands of `wordrep -e` in order: `CountWords` (all of `TopWords`), `WordVects` or `WordVectsFails`, `CountParts` (`TopWords` over patterns), `SortSubstrings`, `AddSubstring`, `CcaMorph` or `CcaFails`, and then `GetFeatureVector` of any word |
| `SubstringSet` | none (operators) | `PatternsOf` (`populate_substr()`), `Added` (`add_substring()`), `StringsLookedUp` (the moving hashes of `find_substrings()`) |
| `TopWords` | `corpus`, `pass`, `next`, `counts`, `best`, `curWords`, `topWords` | one iteration of either loop of `get_top_word_counts()`: `CountToken`, `StartSelecting`, `SkipMember`, `SkipRare`, `Add`, `Replace`, `Deliver` |
| `ConllLabels` | `original`, `labels`, `phase`, `i` | one iteration of `convert_from_BIO_to_BILOU()` or of `convert_from_BILOU_to_BIO()`, in place |
| `ConllFile` | and `file`, `line`, `sentence`, `result`, `reader`, `taken`, `printed` (history) | `ReadTokenLine`, `ReadEmptyLine`, `ReadThrows`, `EndOfFile` of `parse_conll_data()`; taking, converting and putting back the labels of a sentence; printing, with and without extra labels |
| `ConllTagging` | and `ranges` | one sentence of `tag_conll_file()` |
| `NerTraining` | annotations (`entities`, `entityLabels`), the trainer's vectors (`sentences`, `chunks`, `chunk_labels`, `label_to_id`), the place in `add()` (`pc`, `item`, `temp`), `outcome`, `tags`, histories `given`, `failed` | `AddEntity` and its failure; `add()` as `PushSentence`, `PushChunks`, `NumberLabel`, `PushLabels`, and `AddFails` between any two; `Train` |
| `ObjectHeap`, `PythonHandles` | `memory`, `call` of every thread, `handles` of C clients, `objects` of Python, `misfreed` (history) | `malloc()`, constructor, filling, second allocation and every catch block of the interface's function shapes, one step each; returning, wrapping, raising, reading and freeing a result, `__del__()` |
| `ConllTokenizer` | the stream (`in`, `offset`), the token under way, the waiting half (`nextToken` with its offset and padding), `nextFile`, `passes` (history) | every branch of `conll_tokenizer::operator()`, `unigram_tokenizer`, `group_tokenizer` and `reset()` |

| `Threader` | `function_pointer`, `pool_count`, `total_count`, `destruct`, `os`: where each thread is in `thread_starter()`, `running`, `data_empty`, `destructed`: who waits | one action per stretch of code under `data_mutex`: `HandOver`, `SpawnFails`, `WaitUntilEmpty` (`create_new_thread()`), `TakeFunction`, `WaitForWork`, `Leave` (`thread_starter()`), `Return`, `DestructIfReady`; `DestroyThreader`, `AwaitThreads` (`~threader()`); time outs and spurious wake-ups |
| `ThreadPool` | `object`: the life of each pool, `tasks`: its slots, `threads_started`, `dead_threads`, `we_are_destructing`, the waiters of its condition variables, `worker` and `task` of each thread, `crashed` | `Construct`, `StartThread`, `StartThrows`; `AddTask`; `FetchTask`, `ClearSlot`, `ThreadEnds`, `LeavePool` of a worker; `TellThreadsToEnd`, `WaitForThreads`, `Destroy` |
| `ParallelTraining` | `plan`: the jobs of each caller, `pc`, `next`, `ids` (futures), the solver's `counter`, `skip_cache`, `count_below_eps`, `cached`, the sums (`total`, `accum_mutex`, `local`, `seen`), `answer`: where each sample's answer came from (history), `program` | `StartJob` to `JoinPool` for the caller; `CallOracle`, `LockAndRead`, `AddAndUnlock`, `RunFold` for the workers; `GetRisk` and `OptimizationStatus` of the solver; `MainReturns`, `DeleteThreader`, `ThreaderIsGone` |

**Threads.** Everything between locking a mutex and unlocking it, or waiting, is one
action. A condition variable is the set of those who wait on it: `signal()` removes
one, whichever, `broadcast()` all, and whoever was removed competes for the mutex
like everybody else. Only the sums are added to in two steps, reading and writing,
so that the mutex around them matters.

**The promise behind ModelStore.** In `ModelCatalog` a model *is* its weights,
and weights know the extractor they were trained on. There are no fingerprints,
no versions and no stored extractors: a file opens with the training extractor and
with no other, and a prediction uses it. `ModelStore` implements this as long as
the client is careful; after the first broken rule the catalog promises nothing.
The refinement mapping (end of `ModelStore`) forgets every fingerprint and every
extractor, so the step from a number that was compared to the extractor that is
right is the content of the refinement. Three weaknesses of the code remain
visible in the promise: models without an extractor, files without a fingerprint,
and damaged files announced as saved.

**Careful clients.** `careful` becomes false when a client (1) loads a version 0
file with another extractor than its own, (2) predicts with the own extractor of
a version 0 object that has none, or (3) saves an object loaded without an
extractor. Rules 1 and 2 are those of `mitie.h`; rule 3 is written nowhere, and
is what run `resaved_pure_model` is about. The calls are made all the same, and
`VersionedObjectCarriesItsExtractor` holds whatever clients do.

### Abstractions and assumptions

* Vectors, losses and gaps of the optimizers are reduced to which samples are in a
  sum and how often. Whether a gap is below its bound, whether a cached answer is
  good enough, whether workers buffer (a question of timing) is free at each step.
* What a worker runs does not throw. (An exception in a thread ends the program.)
* Sums of one job are not used by another: `total`, `cached` and the solver's state
  begin anew, as the objects are new.
* The global threader is destroyed as on POSIX systems; on Windows it never is.
* Hash functions of the substring set are chosen among some that keep strings apart,
  crowd them, or confuse them; which of it holds is said in the properties.
* The murmur hash has no collisions: an extractor is its fingerprint, and the
  fingerprint of a model is the pair of what is hashed. An uninitialized field
  holds any fingerprint or `Junk`.
* Weights, feature vectors and decision functions are reduced to what they were
  computed from. Doubles do not occur.
* 64 bit counters count tokens of files and do not wrap.
* `malloc()` and `free()` are atomic; memory that is reused may hold the tag of its
  last object.
* A load reads its file in one step. (The loaders open a file twice, `mitie.cpp:453`
  and on; a file replaced in between is not modelled.)
* Files of a corpus do not change between passes; one that cannot be opened is an
  empty one. Bytes are of a dozen kinds, those the tokenizer distinguishes.
* The segmenter may propose any ranges, and dlib's trainers work on any samples as
  long as there are some.
* `Null` and the model values differ from every record (`SentinelAssumption`,
  `NullAssumption`); the other `ASSUME`s give constants their types.

## 3. What TLC checks

| run | question | bounds, and why they are enough |
|---|---|---|
| `model_store` | For any client, is a version 1 object usable with the extractor it was loaded with (`VersionedObjectCarriesItsExtractor`)? For careful ones, are predictions made with the training extractor (`PredictionUsesTrainingExtractor`), do fingerprints survive files (`FingerprintSurvivesFiles`), is the training extractor never refused (`TrainingExtractorAccepted`), and does the store implement `ModelCatalog` (`ImplementsCatalog`)? | 2 handles, 1 path, 2 extractors, an ordinary and a legacy corpus: a model meets the wrong extractor, a file is overwritten by another model, and both formats exist. The theorems cover every size |
| `resaved_pure_model` | Violation: `SavedModelsLoad` without rule 3 | 1 handle; train, save pure, free, load without extractor, save pure |
| `relation_detectors` | Is a relation only scored by a detector whose features came from the same extractor (`ScoreFromMatchingFeatures`), and are matching ones never refused (`CompatibleModelsClassify`)? Does cropping, once or twice or not at all, change a feature (`CroppingChangesNoFeature`) or lose an argument (`ArgumentsSurviveCropping`)? | one pointer of each class, 2 extractors; objects and files outlive each other through re-use of the pointers. All pairs of ranges in sentences of 2 to 15 tokens: 15 = 6 + 1 + 1 + 1 + 6 has one token cropped on both sides and one between the arguments; proved for all. 675,881 states |
| `categorizer_store` | The same persistence with version 0, where careful clients may train, save and load without an extractor: do models without extractor need none, and take none (`BagOfWordsSelfSufficient`)? | as `model_store`. 131,316 states |
| `categorizer_fallback` | Violation: `FallsBackToBagOfWords` | 1 handle, 2 extractors; train with an extractor, save pure, load without extractor, categorize |
| `wordrep` | Are counts never too small (`NeverUnderestimates`) and exact for words without collision (`ExactWithoutCollision`)? Do the queue and the set agree (`QueueMatchesCurWords`), does the queue hold the best so far (`BestSoFar`), the result the most frequent (`TopWordsAreTheMostFrequent`)? Is every selected pattern found in the words that have it (`SelectedPatternsAreFound`), does the more frequent of two patterns with one place survive (`FrequentPatternsSurvive`), and are only rows read that were assigned (`FeaturesAreLearned`)? | every corpus of up to 5 tokens over 3 words under all 64 families of 2 hash functions into 2 columns (an item collides in one row, both or none), queues of 2 words and 3 patterns: ties, a replaced word that comes again. Words of 2 and 5 letters, of which 4 are read: patterns with a star on either side, on both, and cut off; words asked for with a digit and with a literal `*`; hash functions that keep apart, crowd and confuse strings. 414,196 states |
| `label_conversions` | `ChunksSurvive`, `BILOUShowsChunks`; do the printed sentences come back, or the reading fail where it must (`PrintedFileReadsBack`)? | every file of up to 3 lines of 9 kinds (labels no reader takes, two labels, no empty line at the end), every sentence of up to 5 tokens with 2 kinds, pairs of sentences; printed in both codes, with extra labels, and read twice. A rule looks at one neighbour on either side. 216,727 states |
| `parallel_training` | Are the threader's counters right (`CountsAreRight`); has every function put down a thread to take it (`PendingFunctionHasATaker`); does every sample and fold count once (`EverySampleCountsOnce`); is no worker in a task whose caller has gone on (`NoTaskOutlivesItsCall`), or in a pool that is gone (`PoolOutlivesItsThreads`); does the solver stop only on a gap for which the oracle was asked about every sample (`StopsOnTrueOracle`)? Does the program end (`ProgramEnds`)? | 3 threads, 2 callers, 8 plans of jobs: pools of 0, 1 and 2 threads, up to 4 samples or folds (more blocks and more folds than slots, so that `AddTask` waits; blocks of two samples whose workers buffer), 5 iterations (the whole course of `skip_cache`), a second job that finds the first one's threads, two callers at one threader; refused threads, time outs and wake-ups anywhere. 162,551 states |
| `tag_conll_file` | Violation: `TaggedCopyShowsRanges` | up to 3 tokens; two adjacent ranges of one kind, the second of two tokens |
| `ner_training` | Are labels and ranges kept together (`SamplesTellTheTruth`), does training stay in its vectors (`TrainingSucceeds`), do tags keep their numbers after failures (`TagsKeepTheirIds`)? | sentences of 2 and 1 tokens, 2 labels, `MaxEntities` 2, `MaxAdds` 2: one label twice, two in both orders, the same instance twice |
| `object_heap` | Has every block one owner (`OneOwner`), is it freed as what it is (`FreesAreRight`)? | 3 blocks, a C client and a Python thread, a wrapped class and detections: a call that needs two blocks competes with another that fails |
| `corpus_tokens` | Is every offset right (`OffsetsAreRight`), is nothing lost (`NothingIsLost`), are passes alike (`PassesAreAlike`)? | every text of up to 3 characters of 12 kinds, up to 5 of a few kinds, and pairs of files, 2 passes with a reset anywhere: a token is split at most at what stands next to it |

Type invariants are checked where a type says something of the code: in
`ner_training` (`TypeOK` bounds label numbers and chunks) and `corpus_tokens` (the
waiting half of a token). Those of `ModelStore` and `ConllLabels` are proved, and
the others are part of the inductive invariants of the proofs. Symmetry is used for
handles, extractors and blocks, which no property orders. Deadlock is checked except
in `relation_detectors`, `wordrep`, `label_conversions` and `tag_conll_file`, which
model calls and programs that end. In `parallel_training` an ended program stutters
explicitly, so that any other state without a step is reported.

**Fairness** is assumed in `ParallelTraining` alone: weak fairness of what each caller
does (`CallerStep`), of what each thread does (`ThreadStep`) and of the end of
`main()` (`Exit`). It says that the operating system runs every thread that can run,
and that a mutex that becomes free again and again is obtained. Time outs, wake-ups
without a signal and refused threads are outside of it: they may happen at any time
and never have to, so that `ProgramEnds` holds by signals alone: those of the pools,
of the threader, and the one a leaving thread sends to `~threader()`. A crash (see
`PoolOutlivesItsThreads`) ends the behaviour.

Every property has a mutant, a plausible slip in the code (a dropped comparison,
fields hashed in another order, a test on the wrong neighbour, a missing free),
defined next to the definition it replaces; under it the property fails.

### Where the code and its documents part

Three disagreements are counterexamples of runs:

* **`resaved_pure_model`** — `mitie_save_named_entity_extractor_pure_model`
  (`mitie.cpp:1096`) writes the fingerprint of the extractor the object carries,
  instead of the one it recorded. A model loaded without its extractor is stamped
  with 0, and then refuses the extractor it was trained on, contrary to
  `mitie.h:614`.
* **`categorizer_fallback`** — `text_categorizer::predict()` and `operator()`
  (`text_categorizer.cpp:135`, `:174`) compare fingerprints before they look at the
  extractor, so a categorizer that was trained with an extractor and is loaded
  without one throws, where `text_categorizer.h:113` (also 85, 154) has it fall back
  to bag of words.
* **`tag_conll_file`** — `ner_conll`'s `main.cpp:151` tests for an adjacent range
  in front without looking at the token, so every token of the second range is
  tagged B, and the copy read back has as many chunks as tokens.

Others were met while modelling and have no run:

* `multithreaded_object_extension.cpp:115`: when the system refuses a thread, `start()`
  throws out of the pool's constructor; threads that were started go on in memory
  that is released, and the assertion of `~multithreaded_object()` (line 31) is
  broken. `PoolOutlivesItsThreads` and the theorem about it hold with this
  exception, which they state: `crashed` implies that a caller's training failed so.
* `mitie.py:547` (also 666, 825): a failed `train()` is compared with `None` after it
  was wrapped in `c_void_p`, and becomes an object around NULL. (`WrapNull` in
  `PythonHandles` does what the code does.)
* `count_min_sketch.h:314`: `absorb()` promises that estimates add up. The counters
  do; a minimum of sums can be more than the sum of the minima, so only the bounds
  of `NeverUnderestimates` and `ExactWithoutCollision` hold.
* `named_entity_extractor.cpp:82` and `:117`: for version 0 files an uninitialized
  `tfe_fingerprint` is hashed, so that two loads of one file may have different
  fingerprints, contrary to `named_entity_extractor.h:92`.
* `structural_svm_problem.h:161`: after the oracle was asked, the best cached vector is
  used if its risk is larger, also with `skip_cache`, of which the comment at line 243
  says that "we won't use the oracle cache". `StopsOnTrueOracle` says what holds: the
  oracle was asked about every sample, and its answer or a better one is in the sums.
* `mitie.h:116` has the text equal to the token at its offset; the quote ’ is
  returned as `'`. `OffsetsAreRight` states what holds.
* `approximate_substring_set.h` and `basic_morph.cpp:19`: patterns for whole short
  words (a star on both sides) are stored and never looked up;
  `SelectedPatternsAreFound` excepts them (`WholeWord`). Of a word, 49 characters are
  looked at.
* `cca_morph.cpp:92`: rows for ids no dictionary word has stay uninitialized.
  `FeaturesAreLearned` holds under five conditions, each of which can fail: all
  words of the dictionary have vectors, none is longer than 49 characters, one of
  them has a digit, the word asked for has no literal `*` (the tokenizer lets it
  pass, and `x*a*y` hits the pattern of the whole word `a`, which no word without
  stars does), and no hash confuses two strings.
* `ner_trainer.h:317` promises values between 0 and 1; they can be 0/0.
* `binary_relation_detector_trainer.cpp:208`: six folds with fewer than six negative
  examples.
* `text_categorizer_trainer.cpp:29`: the class name in an extractor file is read and
  not compared.

## 4. What is proved

TLAPS checks these for every value of the constants.

| module | theorems | argument |
|---|---|---|
| `ModelStoreProofs` | `TypeCorrect`; `OwnExtractorStaysAccepted` (any client); `CarefulProvenance`, `CarefulPrediction`, `CarefulFingerprint`, `CarefulAcceptance`; `Refinement`: `Spec => ImplementsCatalog` | `Provenance`: every object's extractor is the one of its weights or none, and every recorded fingerprint is that of its weights, in objects and in files. It is inductive only along careful steps, so the invariant is `careful => Provenance`. Under it each step of the store is a request to the catalog; once `careful` is false, every step maps to the step that gives the promise up |
| `ModelStoreProofs`, relations | `ScoresMatch`, `CompatibleModels` | `RelInv`: a relation and a detector, in memory or in a file, are labelled with the fingerprint of an NER object, which determines the extractor its features were, or its examples are, computed with; for careful clients the label is also that of the weights' training. The store is not disturbed by the calls about relations (`StoreUnderRelations`), so its theorems hold beneath them |
| `ModelStoreProofs`, categorizers | `CategorizerTypes` (any client); `CategorizerStamps`, `CategorizerBagOfWords` | every step but training is a step of `ModelStore` (`CategorizerStep`). `Provenance` fails here, as an object without a stamp may carry any extractor or none; `Stamps` says only what a stamp is worth, that of training whose weights it stands beside, and the rules of careful clients cover the objects that have none |
| `RelationWindowProofs` | `CroppingIsInvisible`, `CroppingKeepsArguments`, `OverlapIsSharing` | where tokens were dropped on a side, five are left there; no window reaches farther, and a second cropping drops nothing more there |
| `WordRepProofs`, sketch | `CountsNeverTooSmall`, `CountsExactWhenApart` | both bounds hold of every single counter, which is inductive where the bound on the minimum is not; `get_count()` returns one of the counters, a least one (`GetCountIsLeast`) |
| `WordRepProofs`, top words | `QueueAndSetAgree`, `QueueHoldsTheBest`; `WordsAreCountedByASketch`: `Spec => SketchSpec` | entries have current hits because nothing is counted in the second pass; a word turned away stays dominated because the queue's least entry only gives way to a larger one. The words are counted by a sketch as specified, so its bounds hold here too |
| | `MostFrequentWords` | the true counts in the sketch are the occurrences among the tokens counted so far, in the end in the corpus (`TrueCounts`, `OneMoreOccurrence`); what is queued was seen, and what was seen and is not queued is dominated by `BestSoFar`. A queue has one entry for each of its words, so its size, compared with the limit at every entry, is that of the set of words reported |
| `WordRepProofs`, patterns | `PatternsFound` | the row of hashes, a recursive function, is determined by least counterexample: before the iteration t + 1 it holds the front of the word behind a star and every window of t characters (`RowOf`), so what is looked up is known without it (`AllLookedUp`), and every `populate_substr()` but the whole word is among it (`PatternIsLookedUp`) |
| | `FrequentKept` | `WordRepInv`: the first strings in the order of `std::sort` are in the table, but for those a later one displaced (`AddedUpTo`). That the order exists and has every pattern once is proved for any finite set (`SortExists`, `SortIsComplete`), as the specification only chooses it |
| | `OnlyLearnedRows` | the invariant follows the patterns from the words of the dictionary through both loops into the table, so a string that hits, if nothing is confused, is a pattern of a dictionary word; looked up in a word without a star of its own, it is not the pattern of a whole word, so it was looked up in that dictionary word when the rows were counted, as the lookup is known, and the largest row looked up is below `rows` |
| `ConllTokenizerProofs` | `Convention`, `TokensAreWhereTheySay` | `TokenInv`: the token under way and the half that waits are pieces of the text (`Piece`), byte for byte but for a quote that became `'`, with nothing but blanks between them and the offset of the stream. Cutting pieces at quotes gives pieces; a padding of two is one of a piece that starts with `'`, and is never met by a split at quotes of the other kinds, because a token that ends in one is split there first |
| | `NoByteIsLost` | `PassInv`: a pass has accounted for every byte in front of the place where the next token can start (`Frontier`), in this file and all before it. Every step leaves it where it is, moves it over blanks, over a token that is delivered, or from the end of a file to the start of the next |
| | `ResetStartsOver` | a step of the tokenizers is a function `Step` of the text and of those variables that are current (`Machine`), and `reset()` gives `Start` back. So a pass is a sequence of such steps (`Reading`), each with what had been delivered by then; two of them agree as far as both go, by least counterexample, and neither takes back what it delivered |
| `ConllFileProofs`, labels | `TypeCorrect`, `ConversionsKeepChunks`, `BILOUIsReadable` | a sentence's chunks are determined token by token, by the kind and by whether the token continues its left neighbour; the invariant says how tokens left and right of the index encode that in the two codes |
| `ConllFileProofs` | `SentencesOfFiles` | the sentences of a file are labels as they were read, so the invariant of the conversions holds beneath the reader, the printers and the client that puts labels back |
| | `PrintedIsReadAgain` | the recursive functions are taken by least counterexample: `convert_sentence()` has, at every token that continues nothing, the chunks from there on (`FinderFinds`), and the printers put each sentence where it belongs (`LaidOut`). The reader is in one of these places and has the sentences in front of it (`ReadAt`), or has failed in a file that is not `Plain` |
| `NerTrainingProofs` | `TypeCorrect`, `TagsAreStable`, `SamplesAreTrue`, `TrainingNeverAsserts` | label numbers are dense, `label_to_id` is injective, vectors are aligned up to the statement `add()` has reached unless a call failed, and every number is used by some chunk |
| `ParallelTrainingProofs`, threader | `CountsStayRight` | the set of threads in the pool changes by the one thread that moves, so its size follows `pool_count` (`OneThreadMoves`); likewise for all threads |
| `ParallelTrainingProofs` | `ThreaderIsImplemented`: `Spec => ThreaderSpec`; `TrainingCountsThreads`, `PoolsOutliveThreads`, `FunctionsAreTaken` | every step of callers, workers and pools is a step of the threader or leaves it alone, so the threader's theorem holds in every training. `Bookkeeping`: `threads_started` is the number of threads that run a pool's function, and one more while the function is put down; a pool is destroyed at 0, hence with no thread in it. A function is put down only before `main()` returns, when `destruct` is still false, so that a thread with the mutex takes it, whatever its time out |
| `ParallelTrainingProofs`, tasks | `TasksStayInTheirCall` | `TasksInv`: a task names the slot it is in and the caller that waits for it, is about samples this caller has given away (of a validation: about one fold, not before the one waited for), and no two tasks of a pool are about the same sample; a thread at a task has a copy of a slot marked as being processed, and no two threads have copies of one slot. So a caller that sees no task of its own, or its last future finished, leaves no thread in a task |
| | `SamplesCountOnce` | `SumsInv`: a sample that was given away is counted once, or is in exactly one place where it still has to be: an untouched slot, the rest of a task in a thread's hand, or the buffer of a thread that has read the sum and holds `accum_mutex`, and then what it read is still the sum |
| | `GapIsAskedOfTheOracle` | `CacheInv`: what has entered the sums, or is on its way to them in the buffer of a thread, was answered in this evaluation; with `skip_cache`, or without a cache, no answer of the evaluation was the cache's alone. A gap is only believed in such an evaluation, when every sample is in the sums (`EverySampleCountsOnce`), so every one was asked of the oracle, whose answer or the better cached one was used |
| `PythonHandlesProofs` | `EveryBlockHasOneOwner`, `EveryFreeIsRight` | `HeapInv`: a used block belongs to one call that has not returned, or to one handle of a C client or object of Python, is not in two of them, and has the tag of what was constructed in it as soon as anything but its call can free it; every catch block frees exactly what its call has so far |

They assume the named `ASSUME`s of the modules, which TLC evaluates in the runs,
and nothing else: no sentinel is a value it stands in for (`SentinelAssumption`,
`NullAssumption`: no thread is "no caller"; `PointerAssumption`: no block is at NULL;
`TokenizerAssumption`: the end of a file is not a byte),
a tag is not the empty header (`TagAssumption`), plans are sequences of jobs, and the
like.

`WordRepAssumption` has the hashes of what is hashed among the places of the table, a
spelling for every pattern, and `SubstringAssumption` that the places end somewhere
(`hash & mask`).

Every invariant and action property of the runs is thus proved. Only model-checked
are `ProgramEnds`, liveness under fairness, which is out of the prover's reach, as is
`ENABLED`; and the three violations, TLC's counterexamples.

## 5. Not modelled

* The numerical work: what the structural SVM solver minimizes, the parameter
  search around it, linear algebra of word vectors, metrics. Modelled of it is who
  computes what when, and when it stops.
* Pure functions to numbers: NER features, `stemmer` (adapted third-party code).
* Most of dlib. The repository vendors the whole library (image processing, windows,
  networking, matrices, statistics), by far the largest part of the lines under
  `src/`; MITIE uses a small part of it, and the map therefore covers a small share
  of the repository. Of dlib, what has state and concurrency and runs in every
  training is modelled, with the code as the reference.
* Generated code: the SWIG layer where it only forwards, R.
* Programs that call other components in sequence and print: `ner_stream`, the
  examples, `train_freebase_relation_detector`, `--train` and `--test` of `ner_conll`.
* `get_count_at_top_n()` and the serialization of sketches, which nothing
  calls; getters of the C interface.

`components` in `PROJECT.json` has the reason for each.

## 6. Plan

The order is that of what goes wrong most expensively: first a model meeting the
wrong extractor (`ModelStore`, its relations and categorizers), then objects and
training data, then the corpus tools. Written so far are the modules of section 2.
What is left, by importance:

1. `gigaword_reader` composed with `ConllTokenizer`: documents across files.
2. The other two trainers: parallel vectors as in `NerTraining`, and how many examples
   of each kind a fold of the cross-validation gets.
3. Scratch space: two threads, copies of an extractor and the rule of one thread per
   object; `ner_stream`.
