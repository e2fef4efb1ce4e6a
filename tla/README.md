# Verification of kscript

TLA+ models of the kscript interpreter (`src/`), their TLC configurations, and
proofs checked by TLAPS.  kscript is a dynamic language with a bytecode
compiler, a stack machine, operating system threads under a global interpreter
lock (the GIL), and a C library of types and modules.

Two parts carry the program's core logic and are hard to test: the way
threads share the interpreter, and the way the compiler and the stack machine
agree on where everything on the stack is, above all when an exception or a
jump leaves the middle of something.  They were modelled first.  Around them
are what feeds them (the parser, import) and what programs are made of (dict
and set, sort, streams, the containers of util).

## 1. Inventory

For each part: its state, its operations, what it interacts with, what is hard
about it, and what makes it correct.

### Threads and locks

| part | state | operations |
|---|---|---|
| os.mutex, `modules/os/mutex.c` | the pthread mutex `pm_`; `owned_by`, the holder's name; `_waitct` | lock, trylock, unlock |
| os.thread, `modules/os/thread.c` | per object `is_active`, `is_queue`, `pth_`; the set `active_threads`; `is_joining_active` | start, join, isalive, the pthread's body, the exit handler |
| the GIL, `ksg_GIL` | an os.mutex | taken and given up by `VM_ALLOW_GIL` (`vm.c:57`) after each bytecode, by blocking I/O, sleep, start and join |

*Interactions.*  start gives the GIL up and waits busily until the new strand
has taken it.  join gives it up, waits for the pthread, takes it again and then
writes to the object.  The exit handler joins what is left in
`active_threads`, which the threads it lets run still change.

*Hard.*  `owned_by` is read by lock and trylock without the mutex and cleared
by unlock after the mutex was released.  The GIL's shortcut for the owner
compares thread objects, and an object can be started again.  `pth_` is read,
and `is_active` written, across a window in which the GIL is free.

*Correct if* no two threads are ever inside; the interpreter executes the
bytecodes of one strand at a time; flags tell the truth about strands; a join
that returns means the thread has finished; the process does not end before
its threads; nobody waits forever unless the program makes threads join in a
cycle.

### Compiler and interpreter

| part | state | operations |
|---|---|---|
| compiler, `compiler.c` | code so far, the believed stack length `LEN`, loops with jumps to patch | one case of `compile` per kind of tree, `assign` |
| interpreter, `vm.c` | per thread: frames, stack `stk`, exception handlers, pending exception `exc`, `assv` | one case per bytecode; the labels `thrown` and `done` |
| calls and exceptions, `kso.c`, `types/func.c`, `types/Exception.c` | closures, defaults; `exc` | `kso_call_ext`, `kso_throw`, `kso_catch`, `kso_catch_ignore` |
| lexer and parser, `lexer.c`, `parser.c`, `types/ast.c` | none between calls | text to syntax tree |

*Interactions.*  The compiler promises that an expression leaves one value and
a statement none, and emits POPU and jumps from what it believes of the stack.
The interpreter believes the bytecode.  Functions, types and imports nest
frames; handlers of all frames are in one array; iterators signal their end
by an exception, which shares `exc` with the program's own.

*Hard.*  Leaving anything early: break out of nested operands, ret out of a
try, an exception out of a display, in a finally clause, in the body of a for.
Each shape is right or wrong as compiled, and there are too many to test.  The
parser tries one thing and goes back to try another (a tuple that turns out to be the
parameters of a lambda, a dict that turns out to be a set), and every rule that fails
must throw, because its callers only pass NULL on.

*Correct if* a source is given the tree its grammar gives it, or is refused with an
exception; the interpreter never reads below its stack, never runs bytecode
that has returned, and what is executed is what the program says.

### Data

| part | state | operations | hard | correct if |
|---|---|---|---|---|
| dict and set, `types/dict.c`, `types/set.c` | buckets of 1, 2, 4 or 8 bytes, entries in insertion order, `len_real` | get, set, delete, iterate, resize | deletion leaves the entry; the width of buckets changes at 127 entries; a key's `==` runs user code in the middle of a search | it is a finite map, iterated in order of insertion |
| list, tuple, slice, range | growing arrays; a position in an iterator | push, pop, insert, index, slice, iterate | negative and out of range indices, change under iteration | a part of a sequence is the places its key means, and a range its terms |
| sort, `sort.c` | the array and a second one, the keys with theirs | insertion for 32 or fewer, merge above | a comparison may throw, answer anything or change the list | result is the stably sorted permutation; an exception loses nothing |
| util, `queue.c` | linked items, iterators with a raw pointer | push, pop, pop(n), step forth and back | popping frees what an iterator is at | it is a queue |
| util, `bst.c` | nodes | get, set, has, iterate | comparisons run bytecode, so other threads are in the tree meanwhile | it is a sorted map |
| util, `graph.c` | a dict of dicts; iterators with a queue or stack | set an edge, walk in breadth or depth | edges come during a walk, lead to what is no node, make circles | walks give what can be reached, once, in their order, and end |
| util, `bitset.c` | one GMP integer | set algebra | | |
| str, bytes | bytes, the number of characters; a position in an iterator | index, slice, iterate, functions of characters | characters of several bytes | a part is whole characters |
| regex, int, float, complex | immutable | functions of values | character classes and arithmetic | out of a model checker's reach, but for regex's automaton |

### Streams, modules and the network

| part | state | operations | hard | correct if |
|---|---|---|---|---|
| io, `modules/io` | buffer, position, end | read, write, seek, close | copies with the GIL free, moves the position after | each byte is read once, none written is lost |
| import, `import.c` | the cache of modules; submodules as attributes | search, load, run | the cache is filled after the body ran; errors travel as a pending exception | a body runs once; nobody sees half a module |
| logger, `types/logger.c` | one logger per name | get, set level | | |
| os files and processes | descriptors, pids | open, wait, signal | waiting twice | |
| net, `modules/net` | sockets, the server loop | accept, serve | serving one at a time; a bad request | the server goes on |
| getarg, gram, regex, lexer | automata, rules | match | longest match, priorities | against a reference |
| nx, m, ffi, ucd, kpm, time | arrays, tables | numerical kernels, foreign calls | | not for TLC, but for nx's broadcasting of shapes |

`PROJECT.json` lists every component with its status, and the hazards with the
lines where they bite.

## 2. The modules

| module | models | extends |
|---|---|---|
| `Lock` | what a client of a mutex is promised | |
| `Mutex` | os.mutex, each load and store a step | instantiates `Lock` |
| `Threads` | os.thread under the GIL | `Buckets` |
| `OrderedMap` | what dict promises | |
| `HashTable` | dict and set: entries, buckets, growth, rehash | `Buckets`, instantiates `OrderedMap` |
| `Buckets` | load factors and sizes of the hash tables | |
| `Values` | the objects, as far as the interpreter tells them apart | |
| `Vm` | the interpreter: frames, stack, handlers, exceptions | `Values` |
| `Compiler` | trees to bytecode | `Values` |
| `Semantics` | what a program means, by recursion on its tree | `Vm`, `Compiler` |
| `SyntaxTrees` | the programs, and which have no known defect (`Sound`) | |
| `ByteStream` | what a stream promises | |
| `Streams` | BytesIO and StringIO used by several threads | instantiates `ByteStream` |
| `Sort` | list.sort: merge sort and insertion sort | |
| `Import` | import: the cache, the search, running bodies | |
| `Writer` | tokens, syntax trees, how a tree is written down | |
| `Grammar` | the grammar at the head of parser.c, as the trees it derives | `Writer` |
| `Parser` | the recursive descent parser | `Grammar` |
| `Fifo`, `Queue` | what util.Queue promises, and queue.c | `Queue` instantiates `Fifo` |
| `SortedMap`, `SearchTree` | what util.BST promises, and bst.c | `SearchTree` instantiates `SortedMap` |
| `Graph` | the walks over a util.Graph | |
| `Indexing` | indices, slices and characters of list, tuple, bytes and str (`kso.c`, `slice.c`, `str.c`) | |
| `Ranges` | range and its iterator (`range.c`, `kso.c`) | |
| `Containers` | a program with an object of one of the five | instantiates `Queue`, `SearchTree`, `Graph`, `Indexing`, `Ranges` |
| `Certificates` | what makes bytecode sound: a certificate of the state at each location | `Vm` |
| `MC...` | instances for TLC; `MCVmPrograms` computes the certificates of compiled programs | |
| `MutexProofs`, `ThreadsProofs`, `SortProofs`, `StreamsProofs`, `ImportProofs`, `HashTableProofs`, `RangesProofs` | theorems about the module of that name | that module, TLAPS |
| `VmProofs` | theorems about `Vm` | `Certificates`, TLAPS |

**Mutex.**  `pc[t]` is between two loads or stores of mutex.c: `inc_load`,
`inc_store` are `_waitct++`, `acquire` the pthread call, `own` the store to
`owned_by`, `dec_load`, `dec_store` are `_waitct--`, `disown` is after
`pthread_mutex_unlock` and before `owned_by = NULL`.  The accesses race, so
every interleaving of them is allowed; single accesses are taken to be atomic, as
they are for a pointer and an int on the targets of the build.  Clients unlock
what they hold; those in `Relockers` also lock what they hold, as a signal
handler or a nested call does with the GIL.

**Lock** is the client's view, `ClientView` in `Mutex` maps `pc` and `pm` to
it: a thread holds the lock from the moment the pthread mutex is granted to
the moment it is released, although the calls begin and end elsewhere.

**Threads** separates thread objects from strands (the pthreads): one object
has a strand for each successful start.  The lock is taken in one step, with
the shortcut for the same object kept, since it is what goes wrong.  That
`Mutex` wipes names is not repeated here: while one object has one strand,
nobody else can pass on its name (`OwnerIsInside`), and a wiped name makes
nobody wait who would not wait otherwise, because the VM never takes the GIL
twice.  A `Script` says who may start and join whom, how often,
who may throw, and whether `pthread_create` may fail; TLC starts from each of a
set of scripts.  `failed`, which has no influence on the steps, is the threads whose
`pthread_create` failed.  `pthread_join` on what has been joined, which POSIX leaves
undefined, may fail or wait.  A set that was deleted from keeps the old
entry (`ents` beside `live`, which a search finds); a resize (`Enlist`) brings
what was deleted back, or fails an assertion if it was added again
(`StartAborts`).  The loop in which start waits for `is_queue` reads a plain field:
where `ReadsOnce`, it may be what `cc -O3`, the default of configure, makes of it, one
read and no way out (`SpinForever`); otherwise each round reads.

**HashTable** is dict.c and set.c, which differ in what clear resets and in values.
A step is a search with what is done on its result, or the rehash of one
entry.  A comparison of two keys that hash equally and are not the same object
may throw wherever the code makes one (`Compares`); it does not change the table, a
restriction of the model.  `flaw` records, without any influence on the steps,
which of three things has happened after which the table is no map any more:
a comparison threw during a rehash ("unhashed"), buckets were rebuilt with a deleted
entry ("revived"), a dict was cleared, which keeps `len_real` ("miscounted").
The properties show that nothing else goes wrong.

**Vm.**  One step is one bytecode, or one frame's part in the way out of an
exception (`Handle` and `Unwind` are the label `thrown`).  Whatever leaves the
interpreter, a C function, an operator, an attribute, an element, a module,
the next value of an iterator, is an event: it is logged with its operands,
and its result, returned or thrown, is any of `Results` of the program: every
one when the program is a single expression, otherwise those that statements differ
by.  What the code can do
only by undefined behaviour or a failed assertion is the mode `crash`, and
running bytecode of a frame that has returned is too.
**Values** has what operations on values the interpreter does by itself depend on: what is true, what can be iterated
and what an iterator gives (the characters of a string, the keys of a dict, an element once of a set),
what can be hashed (a display of a set or dict throws TypeError at a list, a set, a dict, or a tuple with
one in it), which types a catch clause names, in tuples nested up to `Nesting` deep.
Objects with methods `__iter`, `__next`, `__hash` or `__bool` of their own are not among the values of the programs.

**Compiler** is `compile` and `assign` case by case, with `LEN`, the CLEARs,
the patching and the assertions on `LEN`; a failed one leaves no code, and the
program that has none crashes.  A tree the compiler refuses, one with a wrong target of an assignment, wrong
parameters of a function, or break outside of a loop, gives no code either, where the compiler throws a SyntaxError; in the second operand of `&&`
and `||` the error is dropped, as in the code (`compiler.c:1127`), and the code that results
lacks the operand.  The exception which the compiler leaves pending then is not in `Vm`, and
the programs of the runs are compiled without errors.  **Semantics** does not know of any of it.  It
replays a program on the log of an execution and asks whether the
program wants exactly these events, and the same end.

**Certificates** says of bytecode what the compiler believes while it emits it.  A
certificate (`Plan`) has, for every location that is executed, the kinds of the topmost values
that the frame has put on the stack since its last handler (and whether these are
all), what each of its handlers will find, and whether an exception is pending.  `Flows` is what
an instruction makes of such a state, `Ready` what it needs to find; `Certifies` asks that
each state is ready and leads only to states that the certificate has.  Nothing in it is from
the source, but `Vm` is the only module it stands on, and that a certificate is enough is
proved (below).  `MCVmPrograms` finds the certificates by following each code from its start.

**SyntaxTrees** makes the programs: every statement in every place of every
statement, two deep; calls of every small body from operands, loops and try;
signatures against arguments; every expression in every operand, two deep.
Values are distinct wherever mixing them up could be noticed.

**Sort.**  `todo` is the stack of the recursion of `my_mergesort`: the calls that have
not returned, `Sorting` a part or `Merging` its halves, each with the array it writes
to; `Call`, its head, is the one under way, and a call to sort a part that is long puts its two
halves and their merge in its place.  A step is one comparison and the moves that follow from its answer; `elems` and
`keys` hold places in the list that was given, so that an element that is lost,
doubled or parted from its key is seen.  `honest` says whether
comparisons answer by the keys; otherwise every answer is possible, and every comparison
may throw.  The constant `Cutoff` stands for 32.  `skipped` records that the
merge was left out although it was needed (`sort.c:63`).

**Streams.**  One stream, several threads.  A step is what a thread does under
the GIL until it gives it up, or one access to the stream without the GIL:
`WriteBegin` (grow the buffer), `WriteCopy`, `WriteEnd` (move the end), and
`copy`, `copied` of `readb` or `check`, `fetch` of `reads` for
the iterator over lines.  Memory outside of the buffer, or of a buffer that was
moved by realloc in the middle of a copy, is `undefined` and ends the behaviour.  `spoilt` records, without
influence on what is under way, the first thing that happened that the stream does not guard
against; after it nothing new begins.  **ByteStream** is the stream without windows: a write
appends a piece, a read takes the next byte.

**Import.**  A body, or the script of a thread, is a sequence of statements that import a path
or throw, each plain, in a try, or in a finally clause with an exception pending.
`cache` maps what can be looked up to the run of the body it is from; a
submodule is looked up in the run of its module.  `globals` is what else a run of a body has:
the modules its own imports have bound, under their names, while `Attribute` says by which other
names a module has what is no module.  Whatever has the name is taken for the submodule (`import.c:258`);
a path that goes on behind what is no module uses it as one, which is undefined, so that the model ends there.
A name that a built-in module does not have leaves the KeyError of the look-up of its directory.  The GIL is given up in `Search` (the
file is read) and between statements.  Exceptions travel as in the code: `exc`
is what is pending, and `Search` and `Continue` drop, keep or set it as
the calls on the way do.  Cyclic imports run until `MaxDepth` bodies are on
the stack, and crash.

**Parser** has one operator for each rule, which takes a position and the
flags and gives a tree and the position behind it, or a failure: `thrown`, `silent` (NULL without
an exception) or `died`.  Backtracking is as in the code, by position.  A token is what it is
spelled.  `TypeToken` types every sequence of some tokens until one is refused;
`Respell` writes an accepted tree down (`Writer`) and parses that.  **Grammar**
is not a parser: `Derived` is the set of trees the comment's rules give a
part of the tokens, by splitting it in every way.

**Queue, SearchTree, Graph, Containers.**  Items of the queue are cells of
memory that are freed and used again; an iterator that is at a freed cell may
give anything.  In the tree a comparison is a step, so several calls are in
the tree at once; a call (`Calls`) has its key before it reads the root (`Enters`), and the sorted map it
implements remembers in `asked` what each caller has asked for, so that an answer is one for that key; the walk is a call without comparisons and therefore one step.  A graph is every
graph over some names, whose edges may lead to what is no node.
`Containers` puts them, and the next two, side by side for one run.

**Indexing.**  A program asks once for an index, a slice or the characters, in turn, of a
sequence.  An element is its place; a text is narrow and wide characters, and what is given
are bytes, so that a character that is cut or lost is seen.  `ks_slice_get_citer`
and the loops over its result are as in the code; what lies outside of
an array, and the loop that never meets its end, give `Undefined`.  `Meant` is what
a slice means: every step-th of the places between its ends.

**Ranges.**  `Count` is the iterator with C integers of width `2 * Half`, `Add` the exact one;
length and membership are compared with the terms in every state.

## 3. The runs

| run | asks | bounds | states |
|---|---|---|---|
| `mutex` | exclusion, refinement of `Lock`, and that who is blocked waits for others only | 3 threads, 1 relocks, `_waitct` modulo 3 | 52 thousand |
| `threads` | the GIL excludes; flags, joins and exit are right | 3 objects, 3 strands besides main; `Anyhow`, `Again`, `pthread_create` failing or not | 882 thousand |
| `threads_live` | the process ends | `NoCycle`, `Failing`; is_queue is read each round | 33 thousand |
| `threads_one_executes` | the GIL excludes, with two starters: violated | 4 strands | |
| `hash_table` | dict and set are maps, read their buckets in the right width, fail no assertion | 4 keys, 4 entries, 2 deleted, 2 values, widening at 3 | 134 thousand |
| `vm_programs` | every program has a certificate; programs of statements, functions and types run as written, and expressions in which everything may throw | 3 free events | 217 thousand |
| `vm_live` | programs end, the defective ones too | 2 free events | 41 thousand |
| `sort` | nothing lost, sorted and stable, ends | lists to 5 of 3 ranks, lists of 7 of 2; `Cutoff` 3 | 84 thousand |
| `streams` | a stream of bytes while nothing spoils it | 2 threads, 6 bytes written | 545 thousand |
| `import` | the cache holds complete modules; what fails is noticed; scripts end | 2 threads, 14 modules, 3 bodies deep | 583 thousand |
| `parser` | trees are those of the grammar, failures throw, trees are read back | 9 alphabets, 5 or 6 tokens; 3 thousand trees | 68 thousand |
| `containers` | queue, tree, walks, parts of sequences and ranges are what they promise | 3 cells and 2 iterators; 3 keys and 2 callers; 3 names, 1 new edge; 4 elements or characters; C integers from -4 to 3 | 433 thousand |

*Why the bounds are enough.*  Every race in mutex.c needs a thread that
unlocks, one that takes over and one that comes in on a wrong name: three
threads, of which one locks twice.  Width 3 makes the counter wrap.  A race of
start and join needs an object, its old strand, its new strand and one that
watches; main and two more objects give each action every role, three new strands
allow one restart of one beside the other.  An exception that goes astray
does so with one statement in another: two levels meet every pair of
constructs.  Three free events are a condition, an iterator that yields and
one that throws; every later event has its calm result, so that the program ends.

With `Cutoff` 3 a list of 7 is cut into 3 and 4, and the 4 into 2 and 2: a
merge of an insertion with a merge, both arrays as target, an odd half; 5 makes every
merge of 2 and 3.  Merging depends on nothing but the order of two keys, and
three ranks in lists of five make every pattern of smaller, equal and larger.
Two threads are as many as a stream needs to go wrong, and six bytes let
the buffer (4, then twice what is asked) grow twice; a piece ends in a
newline, behind an ASCII character or behind a high byte.  The modules of `import`
are one that imports another, two that import each other, one that throws, one that
catches that, a broken, a missing and a built-in one, and a package with each kind
of submodule, an attribute that is no module, and a module it has imported; the first thread tries one import of each, and goes on with any
import whatever that left pending.  An alphabet has the tokens of neighbouring
rules, so that five or six are enough for an operator inside of
another one's operand and for a bracket that is left open; the written trees
have every expression in every place of every other, and every statement in every place, two deep.
Three cells are a first, a middle and a last item; three keys make every shape of tree
of that size, with two insertions that race for one place; three names make
every circle, fork and dangling edge.  Four places with ends from -6 to 6 and steps from -3 to 3
have every end inside, at, and far behind either end, and steps that divide the way or leave 1
or 2; with wide characters at any of four places every mixture follows every other, and an iterator's
limit of four bytes is met.  C integers from -4 to 3 with bounds from -6 to 6 overflow at both ends.

The keys of `hash_table` are two that compare equal, one that only hashes
equally, and one that only collides in some sizes, with probes that pass the end of
the buckets; four entries go through all of 2, 7 and 11 buckets, two growths and one change
of width.  That buckets grow where their width changes
(`Crosses`) is an assumption of the proofs.  TLC evaluates it for the model's 3 and for the 127 of the code
(`ByteAssumption`); that the table also grows at 32767 and 2147483647 entries (56591 and 3579795259
buckets, fewer than 109229 and 7158278837) is arithmetic.

*Deadlock* is checked everywhere but in `mutex`, where a holder can wait for
itself (below; `~WaitsForItself` is for that), in `parser`, where a source of full length or one
that was refused is the end, and in `containers`, where a walk that is over is.
Ended processes, programs and sorts take the stuttering steps `Halted`, `Over` and
`Ended`.

*Fairness.*  `Mutex`: a thread inside a call goes on when it can (weak, the kernel
schedules it); a holder unlocks in the end, also if it locks again before
(strong, an obligation of clients).  Whom `pthread_mutex_lock` lets in is open: the mutex has the default
attributes, which promise nothing, and a thread may be passed over for ever.  `LockHandedOn` says that being passed over
is all that can happen to it.  `Threads`: weak for each strand, in what it does by itself and in
taking the GIL; since what a strand executes is finite, others take the GIL from it only so often, and `Termination` needs no more.
`Vm` and `Sort`: a step that can be taken is taken; a
comparison returns.  `Import`: weak for each thread, since the GIL is given to
every thread that waits for it and nothing a thread waits for is taken away.
`Containers`: the program that walks goes on asking for the next node.

### Properties

* `MutualExclusion`, `OwnerIsInside`, `LockSpec` of `Mutex`; `LockHandedOn`: the mutex is never lost while a
  thread is blocked in lock; if it stays blocked, others get the mutex again and again, or a holder has come
  to wait for itself.
* `OneExecutes` is the GIL's promise.  `AliveIsActive` and `QueuedHasStrand`
  relate flags to strands; the latter says also that a thread whose `pthread_create` failed stays queued and never
  executes again.  `JoinWaits` is an action property: nothing of the
  thread executes when a join returns to its caller.  `ExitWaits` says that the
  process outlives its threads.  `Termination`.
* `ImplementsMap` says which step of `OrderedMap` each step of a table is: only
  the deletion of a key removes it, and only a set of a key that no entry equals
  adds one.  `WidthAgrees` and `AbortsOnlySpoilt` are the table's own assumptions.
* `NeverCrashes`, `FramesNest` (a callee leaves the stack and the handlers of
  its caller alone), `HandlersBalanced` (no handler outlives its frame),
  `ValueOrException`, and the one that implies most: `RunsAsWritten`.
* `NothingLost` holds in the middle of every move, so that it covers every
  comparison that throws: what is not in an array is the one element the insertion
  holds.  `SortedUnlessSkipped` includes stability.
* `DefinedUnlessSpoilt` and `ImplementsStream`: one reader beside one writer is
  safe although both work without the GIL; the six causes named in `spoilt` are all
  that can break it.  `LinesEndAtNewlines` names its one exception.
* `CachedIsComplete`, `StaysUnlessOverlapped`, `PassedIsImported`: what a
  program may conclude from having passed an import statement.
* `AsGrammar` says both that the parser takes what the grammar derives with the one tree it
  derives, and that it refuses the rest, `FailsLoudly` that it says so; each names its exceptions.
  `RoundTrip` covers the statements, for which the comment gives no grammar that could be checked.
* `ImplementsFifo`, `ImplementsSortedMap`, `SearchesAll`, `WalkEnds`; `PartsAsMeant` and
  `RangesAsMeant`, which name the keys and ranges for which the code does something else.

## 4. What is proved

`tlapm` proves the following for every value of the constants that their assumptions
allow.  Each module has an inductive invariant `IInv` and the theorem
`Invariant == Spec => []IInv`; the others follow from it.

| module | theorem | states |
|---|---|---|
| `MutexProofs` | `TypeCorrect` | `[]TypeOK` |
| | `Exclusion` | `[]MutualExclusion` |
| | `OwnerTrusted` | `[]OwnerIsInside` |
| | `ImplementsLock` | `LockSpec`, the refinement of `Lock` |
| `ThreadsProofs` | `Exclusion` | `[]OneExecutes` |
| | `Activity` | `[]AliveIsActive` |
| | `Queueing` | `[]QueuedHasStrand` |
| | `Joining` | `JoinWaits`, an action property |
| | `Leaving` | `[]ExitWaits` |
| `VmProofs` | `Sure` | `[]NeverCrashes` |
| | `Nests` | `[]FramesNest` |
| | `Balanced` | `[]HandlersBalanced` |
| | `EitherOne` | `[]ValueOrException` |
| `HashTableProofs` | `Width` | `[]WidthAgrees` |
| | `Asserted` | `[]AbortsOnlySpoilt` |
| | `Implements` | `ImplementsMap`, the refinement of `OrderedMap` |
| `SortProofs` | `Keeping` | `[]NothingLost` |
| | `Sorted` | `[]SortedUnlessSkipped` |
| `StreamsProofs` | `Defined` | `[]DefinedUnlessSpoilt` |
| | `LinesEnd` | `[]LinesEndAtNewlines` |
| | `Implements` | `ImplementsStream`, the refinement of `ByteStream` |
| `ImportProofs` | `Complete` | `[]CachedIsComplete` |
| | `Stays` | `StaysUnlessOverlapped`, an action property |
| | `Passing` | `PassedIsImported`, an action property |
| `RangesProofs` | `AsMeant` | `[]RangesAsMeant` of `Ranges`, which `Containers` has for its run |

**Mutex**, for any threads, relockers and width of the counter; `NULL` is no thread,
relockers are threads, the width is positive.  Exclusion is not inductive, because a thread may be let in by
`owned_by` alone.  The invariant adds that whoever is inside has the pthread
mutex (`InsideHasMutex`), that who is outside or about to clear
`owned_by` has not (`OutLacksMutex`), and that `owned_by` names a thread that
has the mutex or is about to clear the name (`OwnerIsInside`).  A thread that
calls lock is at "out" or "in", not at "disown"; so if it finds its own name it has the
mutex, and the shortcut is sound.  Wiping somebody else's name only
ever takes a shortcut away.  The refinement then is one case per action.

**Threads**, for any threads, any number of strands, and both builds of the busy wait.  The
theorems assume of the programs what TLC shows they need (it finds each of the
first four invariants violated otherwise): nobody throws, and each thread is started once or only `main()`
starts and joins (`OrderlyScripts`; the scripts `Anyhow` and `Again` of the run `threads` are such).
`pthread_create` may fail.  The invariant says that who is inside has the GIL
and the other way round (`Locks`), that an object has one strand at a time, which is the last
it was given (`Strands`), that a thread is queued while its strand has not begun,
or for ever if it could not be made (`Queue`), and what a strand in the middle of a join knows of the object it joins (`Joiners`): this
is where the store to `is_active` behind the wait would be harmful, if
the object could have been started again.  `Leaving` assumes further that no three or more threads may join
each other in a cycle (`UntangledScripts`): each would wait for the next, so the exit
handler's joins would all be refused, and the process end while they are alive.  Two that join each other are
no harm, since `pthread_join` refuses to the second.  Its own invariant says that each thread the handler
has passed has ended or is waited for by another (`Left`); when it has passed all, those that still
live each have another that lives and waits for them, which `UntangledScripts` excludes.

**Vm**, for any bytecode that has a certificate, any results of calls, operators, attributes and
iterators, and any depth of calls.  `CertificateAssumption` says that every code object has one (`Certifies`),
that the globals, the constants and the results are among the values of `Base`, whose
parts are values, and that an exception is never NULL.
TLC evaluates it for every program of `vm_programs`, so what the theorems need of the
compiler is shown for each of them, whatever happens when they run.  The programs with the
defects listed below are not among them.  The invariant has two parts.  `Typed`: there is a set of values, closed under taking parts,
from which everything on the stack, in the scopes, closures and
defaults is; this is what makes a code object that is called one of those with a certificate, and a function
on the stack one that exists.
`Controlled`: the frame that executes is where its certificate has a state and is in that state (`Executes`); while an exception
travels its handlers are as recorded when they were set (`Falls`); and of each two neighbouring
frames the lower one awaits one value on top of
what it had below the call (`Awaits`), starting where the upper one's part of the stack and of
the handlers begins.  One lemma per instruction shows that it does to
the stack what `Flows` does to the state.  A catch clause leaves its exception below what it
puts on the stack, so certificates say whether what they know is all there is (`whole`); without
this the invariant is not inductive.

**HashTable**, for any keys, hashes and classes of equal keys, any number of entries and deletions, and
any length at which buckets change their width, if the buckets grow there.  The invariant: a
search for the key of an entry that is in a bucket comes to that bucket, through none that is
empty (`Reached`); no two buckets are of equal keys (`Unlike`); a bucket is empty whenever one is searched for
(`Room`, by counting); the number of buckets is one that `s_resize` chooses (`Sized`); what a rehash or a search
under way has done so far (`Calls`); and what holds while none of the three flaws has
happened (`Unflawed`).  The refinement maps the entries that are in a bucket, in their order, to the map's.

**Sort**, for lists of any length, any cutoff, and any answers of the comparisons, throwing or not; `Sorted` for those that answer by
the keys.  The invariant says what every call on the stack `todo` expects of the two arrays: the parts are nested or apart
(`Nested`), a part that is still to be sorted is as it was given in both arrays (`AllFresh`), the
halves of a merge to come are sorted and hold their own elements (`AllSeen`); an array
holds each element once if one completes what is moved at the moment, the held element of the insertion or the
rest of the merge (`AllKept`).  Where a merge was left out, `skipped` is set and order is not claimed.

**Streams**, for any number of threads, pieces and characters.  While nothing has spoilt the stream, at most one
thread is writing and one reading with the GIL free (`OneEach`), position and end are in the buffer (`Bounded`),
what the writer is about to copy fits (`WriterFits`), and what the reader is about to fetch is written
(`ReaderFits`).  The refinement reads the bytes up to the end as the
abstract stream's.

**Import**, for any modules, bodies, threads and depth.  The frames on a thread's stack are bodies, each the one that the
frame below it is importing at the moment (`Frames`); what travels as an exception is one (`Thrown`); and
everything in the cache, and everything a body has imported, is a run that has finished (`Rest`).  For `Stays` a name
that two imports bring in at the same time is in `overlapped` (`Overlaps`); for `Passing` the parts of a path that
an import has come past are known, in the cache or as what the module before has by the name (`Parts`).

**Ranges**, for any width of C's integers and any bounds and steps.  The terms of a range
are the first so many multiples of its step, because a term before the end has only such terms before it (`AllTerms`).
While another term follows, counting on cannot overflow, since the next lies between the start and
the end (`NoOverflow`); hence the counter is at the next term (`AtNext`) also where the last one
will overflow, what has been given are terms (`Right`), and without overflow none is left out (`Whole`).

*Only model-checked.*  Liveness under fairness (`LockHandedOn`, the `Termination`s, `WalkEnds`), which is out of the
prover's reach.  `RunsAsWritten`, and that every sound tree is compiled to code with a certificate: `Semantics`
and `Compiler` recurse on syntax trees, and the prover has no induction over data.  `Parser`, `Grammar` and `Writer`,
for the same reason.  Of the containers `Graph`, `Queue` and `SearchTree` follow links of any number with recursive operators;
`PartsAsMeant` compares texts that are put together by a recursion on their characters.

## 5. Where the code is wrong

Confirmed by a run that finds the violation:

* **Two strands of one object pass the GIL** (`thread.c:167`).  join clears
  `is_active` of a thread that was restarted meanwhile; a further start makes a
  second strand, and the GIL lets an object in twice.

*Threads*, in the model, kept apart from the passing runs by scripts and constants, and in
the built interpreter: start spins forever in the default build, when the new
strand is slow, because its loop reads `is_queue` once (`thread.c:140`, `SpinForever`); a thread that is
started again and again aborts the process (`set.c:203`, `StartAborts`): join deletes it from `active_threads`,
which keeps its entry, start adds a second one, and the next resize finds the key twice.
In the model alone: a failed `pthread_create` leaves the thread queued (`thread.c:134`) and so not startable, and another start of it that still polls does so for ever; a
join that overlaps a restart returns while the thread runs (`thread.c:161`); unlock
wipes the name the next holder has put in `owned_by` (`mutex.c:98`), which os.h documents as the holder; a failed trylock
leaves `_waitct` raised (`mutex.c:79`); a holder of an os.mutex whose name was wiped
and that locks again waits for itself (`WaitsForItself`).

*Compiler and interpreter*, in the model and in the built interpreter.  The programs are left out of
`vm_programs` (by `Sound`, or by not being generated), so that the rest is checked without them;
one program of each but cont is among the `Defects` that `vm_live` runs:

* ret out of a try leaves its handler (`vm.c:838`); a later exception of a
  caller runs the bytecode of the function that has returned;
* cont jumps by a location instead of a distance (`compiler.c:98`);
* a for in a finally clause swallows the pending exception, with its own end of
  iteration (`vm.c:618`);
* a catch clause in a for hides the iterator under the exception (`compiler.c:1007`);
* two stars in a row in a display or call pop one value too many (`compiler.c:481`);
* what follows a star in a set display is not added (`compiler.c:565`);
* break of an outer loop in the else clause of a for pops one value too many (`compiler.c:932`);
* a submodule that is not found is not noticed (`vm.c:696`);
* ret, break or cont out of a try, a catch that throws before finally: finally is skipped.

Seen while modelling `Compiler`, without a run: an error in the second operand of `&&` or `||` is dropped
(`compiler.c:1127`, `1147`), so that the program is run without it and with the exception pending.

*Dict and set*, where `flaw` names them: a comparison that throws while a
table grows leaves the keys after it unreachable, and a later set adds them a second time
(`dict.c:201`; seen in the built interpreter); a deletion is undone by the next
growth (`dict.c:505`); a cleared dict aborts when it grows again (`dict.c:305`).

*Sort*: the merge is skipped when the last key of the left half is at most the last
key of the right one (`sort.c:63` compares with the last where the first is meant), so that
lists of 33 and more can stay unsorted (`skipped`); a comparison that throws in the middle of
an insertion leaves the list with one element twice and one not at all
(`sort.c:148`; `NothingLost` says which).

*Streams*: two writers, two readers, or a seek, trunc or growth in the
middle of a copy lose or repeat bytes or use freed memory (`BaseIO.c:597`, `390`; `spoilt`); a seek behind the
end and an iteration use memory outside of the buffer; a newline behind a
character that is not ASCII does not end a line of a StringIO (`BaseIO.c:899`).  Seen while reading, not modelled:
eof of both is inverted (`BaseIO.c:237`, `241`); tell of a StringIO is always 0; `read()` of a
binary FileIO throws at its end; a RawIO that writes less than it was given is taken to have written all (`BaseIO.c:649`).

*Import*: modules that import each other run each other's bodies until the stack overflows,
and two threads can run one body twice and replace the module (`import.c:253`, `overlapped`);
`import pk.nosuch` is not noticed, `import pk.sub` leaves a KeyError pending, as does `import io.foo`; `import pk.x` takes any
attribute x for the module, and `import pk.x.y` then reads a module's fields in it (`import.c:258`, `vm.c:694`); an
exception that is pending in a finally clause is swallowed by an import there, or taken for its
failure (`import.c:141`, `logger.c:130`).

*Parser*: `x--` is not taken (`parser.c:1686`); `func f(a b) {}` fails without an
exception, so that the program silently does not run (`1288`); `(a, 1) -> a` uses a null pointer
(`1436`); the flags that forbid `in` behind for and `as` behind catch are
passed on into parentheses, against the comment at `203`; `//=`, `@=`, `!in`, `===` and `break INT` are in the grammar and not
taken; `type extends list {}` makes a type of the name extends.
Accepted, and refused by an assertion of the compiler only: `{*[1]: 2}` (`compiler.c:413`), `func f(*a=1) {}` (`629`), `a++`.

*Containers*: get of a BST goes to the wrong side (`bst.c:67`), so that it finds little
but the root; a pop(n) of too many loses what it popped; an iterator of a queue goes on
from a freed item (`queue.c:241`, `passed`); a breadth first walk may give its start
twice; a walk throws KeyError for an edge to what is no node.  Seen while
reading, not modelled: the length of a BST is its depth; Graph(g) shares the dicts of g.

*Sequences and ranges*, in the model and in the built interpreter: a slice of a list or tuple whose end comes
before its start reads on until the memory ends, or gives what is no part of it, as does one that goes back from behind
the last place; that of an ASCII text gives the rest of the text (`slice.c:130`, `kso.c:559`, `661`: `Opposite`, `FromBehind`).  A start or end
before the first place counts as the first one, also where the slice goes back (`slice.c:105`: `BeforeFirst`).
The index of a text with wide characters gives what is before the one asked for (`kso.c:626`); an iterator gives wide characters
together with what they follow, up to four bytes, and may cut one (`kso.c:1066`); a slice that goes back in such a text
does not go back (`str.c:540`: `BackInWide`).  `len(range(0, 5, 2))` is 2, as `tests/range.ks:14`
wants it, and three numbers are in it (`range.c:104`); a range whose last step overflows goes on
from the other end of the C integers (`kso.c:1121`: `Overflows`).  Of all indices and slices in the model those with a defined
result, 51 thousand, were run in the built interpreter, with the same results.

## 6. What is not modelled

Reference counts and memory; the text of messages and tracebacks; the operators
that call back into bytecode from C (they are events); `enum` and `++`, whose
compilation ends in an assertion; signals.  A thread that runs bytecode in
`Threads` idles, starts or joins; what it computes is in `Vm`, with one
thread.  The lexer, so that `Parser` begins with tokens; comparisons that change the list or table
they are called from; reads of a given size, FileIO and RawIO, which wrap C's streams
and descriptors; set algebra of dict, set and bit sets; list methods that are an
assignment, regular expressions, numbers, the network, and what is listed in `PROJECT.json` with its reason.

The map covers the core, which is a small share of the lines in the
repository: two thirds of these are the tables generated from the Unicode database (`ucd.c`),
and most of the rest are vendored headers (`inuklear.h`, `igl3w`, stb, mini-gmp) and
bindings of libraries.

## 7. Plan

In this order:

1. `Server`: sockets and the loop that serves, one request after another, with a bad
   request and a thread that cannot be started (`net/http/server.c:81`, `108`).
2. `HashTable`: iteration under change, merging and set algebra; that a search ends.
3. Lists: iteration, comparison and sort under change.
4. regex and gram, the lexer, getarg, broadcasting of shapes.
5. That `Compiler` gives every sound tree a certificate: an induction over trees, which the prover
   cannot do, so that TLC's evaluation of it for all trees two deep has to stand for it.
