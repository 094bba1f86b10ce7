# Specifications of the PHP 8.2 kernel

TLA+ specifications of parts of the Zend engine and of FPM as they are found, with comments,
in `src/php-8.2.5-源码中文注释/` (called `php/` below; there is no `ext/`
directory). `src/辅助文档/` and `src/原稿/` are notes and chapters of a book about
the same code and hold no program.

The specifications follow the code: an action is a function of the C source, or
the part of one between two points at which something else can run; names are
those of the source. `PROJECT.json` maps every definition to its lines.

## 1. The system

PHP serves requests one after the other in a process. The engine is single
threaded (the thread-safe build adds TSRM and is not modelled), yet three things
interrupt its straight line: **signals**, which arrive between any two
instructions; **destructors, handlers, callbacks and coroutines**, by which the engine calls
the program in the middle of its own work; and **fatal errors**, which `longjmp` out of
anything to the end of the request (`_zend_bailout`). FPM adds processes: a
master, its children, and memory they share.

| Component | State | Operations | Hard because | Correct when | Status |
|---|---|---|---|---|---|
| Root buffer of the collector (`zend_gc.c`) | `gc_globals`: slots, free list, thresholds, flags; an address in every value | root, remove, collect, compact, grow, enable, reset | the program runs inside of a collection; fatal errors abort it; addresses are compressed | address and slot agree, counts are exact, loops without bounds stop, phases find the tags they assert | `GcRootBuffer` |
| Trial deletion (`zend_gc.c`) | counts, colors, trace stacks, tags | mark, scan, scan black, collect white, remove nested | shared children, tables expanded in place, roots in any order, a full buffer | counts restored, exactly the unreachable is condemned, destructors see nothing that is freed, it ends | `GcTrace` |
| Collector and program together | the heap, which destructors change | assign, unset, delete, collect, destructors, second run | resurrection; a collection inside of an operation or of a deletion | nothing reachable is freed, nothing unreachable forgotten | `ZendGC`, in part |
| Deferred signals (`zend_signal.c`) | depth, blocked, running, a queue of cells, dispositions | block, unblock, defer, handle, activate, deactivate | a signal between any two memory accesses, and in a handler | no handler in a critical section, no lost cell, order kept, none stranded | `ZendSignal` |
| Object store (`zend_objects_API.c`) | buckets, free list of handles, per-object flags | put, del, destroy all, free all | destructors create, keep and kill objects during the loops | each destructor at most once, none missed, counts and handles exact | `ObjectsStore`, in part |
| Hash tables, iterators (`zend_hash.c`) | buckets, chains, tombstones, iterator positions | insert, delete, rehash, resize, convert, duplicate, iterate | positions over deletion, rehash, separation; a saturating count | variables do not share; an iterator skips nothing and repeats nothing | `ZendHash`, in part |
| Fibers (`zend_fibers.c`) | status, caller, active fiber, saved VM state, `switch_blocking` | start, resume, suspend, throw, destroy | nesting, destruction while suspended, bailouts through contexts | one runs, errors go to the resumer, closed for good | `ZendFiber`, in part |
| Generators (`zend_generators.c`) | tree of delegation, cached top, flags | resume, delegate, throw, finish, destroy | trees change while calls into them are on the C stack | the cached top is the right one, no value is skipped | `ZendGenerator`, in part |
| FPM process control, events, signals, scoreboard | pool state, children, timers, signal socket, shared stages, spinlock | signals, kill, reap, fork, maintenance, trace | any order of deaths, signals, timers; a bounded socket; a lock without owner | no death forgotten, escalation ends, pools full | `Fpm`, in part |
| Execution timeouts (`zend_execute_API.c`, `main.c`) | timer, `timed_out`, `vm_interrupt`, hard timeout | set, unset, handler, interrupt helper | a timer against the code that re-arms it | a timeout is not lost and does not kill a request that ended in time | planned |
| Weak references | `EG(weakrefs)`: tagged pointers | register, unregister, notify | maps that free each other's keys | no dangling entry | planned |
| Output layer (`output.c`) | stack of handlers, flags, `running` | start, write, flush, clean, end | callbacks that re-enter, fatal errors | nothing lost or doubled, re-entry refused | planned |
| Memory manager, ini, exceptions | chunks and bins; entries; chain | allocate; alter, restore; chain | limits and retries; refusal half way | no overlap; originals restored | planned last |
| Request lifecycle (`main.c`, `zend.c`) | order of startup and shutdown | activate, deactivate | fatal error in any step | its calls are actions of the modelled parts | in part, as actions of the modules above |
| Lists and stacks, SAPI, FastCGI, streams, TSRM, CLI server | – | – | little interleaving, or input and output | – | not modelled |
| Compiler, VM, optimizer, other SAPIs, win32, assembler, build | – | – | translation, generated code, glue | – | not modelled |

How the modelled parts meet: `gc_possible_root` is called on every decrement to a non-zero
count and may start a collection; a collection calls `GcTrace`'s traversals while
`GcRootBuffer` is in phases `trace` to `nested`; `ZendGC` puts both, as what they come to, under a program with
destructors. The object store deletes an object whose count reaches zero, and takes it off the root buffer; the
collector's destructor phase is a third caller of `dtor_obj`. Fibers and generators are objects whose `dtor_obj`
runs program code: both are called by the store's deletion and by its sweep at the end of a request, with fiber
switching blocked around them. A fatal error runs `gc_protect`, marks all objects as destructed, and unwinds fiber by fiber;
the end of a request calls `gc_reset` and `zend_signal_deactivate`, its begin `zend_signal_activate`.
The memory manager and others enclose their critical sections in `HANDLE_BLOCK_INTERRUPTIONS`. An FPM child
serves requests with all of that inside of `Execute`; it shares with its master only the scoreboard, signals, and its death.

## 2. Modules

| Module | Role |
|---|---|
| `GcRootBuffer`, `GcRootSet` | the root buffer; its contract: a tag for every value, changed one value at a time |
| `GcTrace` | the traversals of one collection |
| `ZendGC`, `ManagedHeap` | counts, destructors and collections under a program; what they promise it about its objects |
| `ZendSignal`, `SignalQueue` | deferred signals; their contract: a bounded first-in first-out queue per request |
| `ObjectsStore` | the object store and the end of a request |
| `ZendHash`, `OrderedArrays` | hash tables and iterators; their contract: an ordered map per variable |
| `ZendFiber`, `Coroutines` | fibers; their contract: one stack of coroutines |
| `ZendGenerator`, `Delegation` | generators that delegate; their contract: who is resumed runs the one it delegates to |
| `Fpm` | a pool of FPM: master, children, scoreboard |
| `MC…` | the instances: heaps, symmetry, bounds on events |
| `GcRootBufferProofs`, `GcTraceProofs`, `ZendGCProofs`, `ZendSignalProofs`, `ObjectsStoreProofs`, `ZendHashProofs`, `ZendFiberProofs`, `FpmProofs` | theorems |

A definition with the comment "Faulty variant" is not part of any specification. It is
what the definition of the code would be after a plausible mistake; putting it in place
of the right one makes the property that `PROJECT.json` names under `mutants` fail.

### GcRootBuffer

`buf` is the array from slot 1 (`GC_FIRST_ROOT`), an entry being a value with a tag, an
unused entry with a link, or memory never written. `info` is the address and color in
a value's header. `pc` is the place in `zend_gc_collect_cycles`; `calls` its callers:
PHP's `gc_collect_cycles()`, or `gc_possible_root_when_full` with the value it holds.

The loops over the array are one step per slot where the program can run in between
(destructors, free handlers) or where the order matters (compaction, the two loops of
`gc_collect_roots`), else one step. What a trace finds is left open (`CollectWhite…`,
`Trace`): any set of values may turn out white. The program between two of the
collector's steps is `ProgramRuns`: it roots and frees values, as the destructor it stands for does.
That a trace met a destructor (`GC_HAS_DESTRUCTORS`) is a flag of its own: with the buffer full, the object it met may have no slot to tag.
A fatal error (`Bailout`) may come from any call of the program. `gc_reset` begins a new request.
The sizes (`GC_MAX_UNCOMPRESSED` and so on) are constants; the
proofs need of them only `SizesAssumption`, which the `#define`s satisfy.

Left out: an error handler of the program for the warning that `gc_grow_root_buffer` raises once, when the buffer has
reached `GC_MAX_BUF_SIZE` (`zend_gc.c:915`). The warning and the flags set after it are one step.

### GcTrace

One step visits one value: what the code does between two pops of its `gc_stack`. The
stacks and the roots not yet visited are sets, so every order in which the code's
tail calls, its stack and the buffer could visit them is allowed. `Slot`s are the edges.
A slot in `Table` is the `properties` table of an object, which `get_gc` returns
on its own and the traversals expand on the spot; `SharedTables` says whether an array
value may share it, as `zend_proptable_to_symtable` makes it. `Holds`
are references from outside; `freeing` objects whose free handler runs. `room` is what
the buffer can grow to, one of `Rooms`, so that `gc_add_garbage` may drop a value.

### ZendGC

`stack` holds the calls in progress: a deletion, a destructor, the freeing of an object's properties one by one, the wait
of `gc_possible_root_when_full`, a collection. Whatever is on top moves; in a destructor, or with an empty stack, the program does:
it assigns and unsets variables and properties it can reach, creates objects, and asks for a collection. Where a decrement
leaves a count above zero the object is rooted, and the buffer may be full then (a choice, as the threshold moves).
A trace is one step (`Trace`), since nothing else runs in it: `Black` is what `gc_scan` finds alive, `Nested` what
destructors could reach and is therefore spared. An object whose destructor is called becomes an ordinary root again (`CallDestructor`), so
that a revived one is looked at like any other, and a collection that called destructors runs a second time (`Reclaim`).

### ZendSignal

Each access to the globals that a signal could separate from the next is a step. A
signal pushes a frame on `frames` and masks every signal; only the top frame moves; the
program moves when there is none. The queue is built of cells with `next` pointers as in
the code. `ZEND_SIGNAL_UNBLOCK_INTERRUPTIONS` reads `depth--` and `blocked` in one
expression without a sequence point: a build may store `depth` before it loads `blocked`
or the other way round; `build` is the one at hand, chosen once from `Order`. `Stealable` are handlers
that others may have installed over those of `zend_signal`, which `zend_signal_deactivate` finds.

Left out: the contents of `siginfo` and `context`; the thread-safe build; phpdbg's handlers
that jump out of a handler; `SIGG(reset)` is 1, its default. `SIGG(check)`, a debugging
aid, only prints. A fatal error leaves a section only during a request, as code
outside of one does not call the program. Handlers themselves are not modelled, except
that `zend_timeout_handler` may install itself again, which unmasks its signal while it runs.

### ObjectsStore

A bucket is an object, an object being deleted (its pointer tagged), or a link of the free list.
The phases are those of `php_request_shutdown`: `script`, shutdown `functions`, the pass over the
global `table` and the `sweep` over the store (`shutdown_destructors`), `output` callbacks, then,
with `EG(active)` cleared, `destroy` and `release` (`zend_shutdown_executor_values`), or in a fast shutdown `discard`.
`stack` holds the calls in progress: `zend_objects_store_del` at each of its four places,
and `dtor_obj`. Destructors nest, as fiber switching is blocked around them; the running one is
any program: it creates objects in unused globals, stores, unsets and links what it can reach,
and bails out. A bailout drops the calls and what they held, and goes to the next phase's `zend_try`.

`HasDestructor` are objects whose `dtor_obj` is `zend_objects_destroy_object`;
`Generators` have a handler of their own that runs a `finally` block, and not once the request has bailed out.
Left out: clones, guards, weak references and the properties table; static variables,
constants and resources, which the executor destroys after the globals; an order of new entries in the global
table (any unused one); exceptions; the cycle collector; and what a late generator's `finally` block does beyond returning or failing.

### ZendHash

`table` is what is at every address a `HashTable` may have; a table that its last variable leaves is `Free`, and its
address may be used again, which is what makes an iterator that kept it dangerous. `at` are the buckets, `Hole` a tombstone, `chain` the
collision chains. Writes go through `SEPARATE_ARRAY` and `zend_array_dup`, growth through `zend_hash_do_resize` with its
choice between rehashing and doubling, and integer keys in order keep a table packed until one is not. A loop by reference
takes an entry of `EG(ht_iterators)` and fetches position by position; the entry follows its variable to another table
(`zend_hash_iterator_pos`) and is poisoned when its table is destroyed. `Value` is the array a table stands for, which `OrderedArrays` is about: its
keys in order and how many of them the internal pointer has passed. That contract has two exceptions. A pointer at the end starts over when the variable gets its own copy of a shared
table. And a pointer that has come to stand before a gap is `late`: see *Arrays* under "Where the properties stop". A table starts uninitialized with the minimal size, as `[]` does. Values are left out, and so are sorting, merging, the apply functions,
conversion back to packed, and destructors of elements.

### ZendFiber

`frames[c]` is the part of the C stack of context `c` that matters: calls of destructors, and on top the switch in which it waits, with the
VM state that the switch will restore. `Arrive` is the return into the context below, by a value, an error, or a bailout, which goes on there
(`bailing`). `blocking` is `zend_fiber_switch_blocking`, raised around destructors and lowered when they return normally. `phase` is that of
`php_request_shutdown`: the script, shutdown functions, destructors with the sweep over the store, output callbacks. Left out: what a transfer carries, the VM
stack, and the traversal by the collector.

### ZendGenerator

`parent` is the delegation, `ptr` the union that caches: in a generator with a parent its top (`root`), in one without the generator that has
it cached (`leaf`). `code` is `execute_data`, of which only the last opcode matters. `stack` is the C stack: methods that have still to
ask for the current generator, bodies that run, `zend_generator_close` while it destroys what a body leaves, and deletions. `Settled` says
when `zend_generator_get_current` changes nothing; else `UpdateRoot` and `UpdateCurrent` are steps of their own,
since what they release is deleted before the next one. `Dying` is what nothing refers to: it is deleted at once.
`Depth` bounds the C stack where PHP code may call.

Left out: yielded values, except that there is one (a destructor that runs when `zend_generator_update_current` drops the old value of the generator that goes on, `zend_generators.c:908`, is left out with it); delegation to arrays and iterators; references that generators hold in their variables;
fibers; fatal errors; `AT_FIRST_YIELD`, which only `rewind` reads. `Oddities` lets two programs in that the code does not stand (section 3).

### Fpm

One pool. The master is one thread: `pc` is where it waits or may be overtaken. Its `timers`, its signal `socket`, which holds `SocketSize`
bytes and drops what does not fit, and `edge`, the event of the listening socket, are what an iteration of the loop serves. A child goes round
the loop of `fpm_main.c` (`at`), has signals pending (`sigs`) and dies in any place; `proc` is what `waitpid` will report. The scoreboard is `stage`,
updated in two steps under `lock`; a child that dies with it leaves it `Lost`. A child looks at
`in_shutdown` before it asks for the lock (`TestShutdown`), so a stop may come in between. Style, children and spare servers are those of
`static`, `dynamic` and `ondemand` pools, with slow requests that are traced, and requests that are terminated,
also when they have finished (`request_terminate_timeout_track_finished`). The number of signals of
the administrator, connections, crashes and failures of `fork` is bounded (`Bound`, `Total`); everything else is not.

Left out: several pools; how many segmentation faults it takes for an emergency restart (any may); the counters of the status page;
`fpm_pctl_exec` and what follows it.

## 3. Runs

| Run | Instance | States | Asks |
|---|---|---|---|
| `root_buffer` | 4 values, 3 slots reached by one growth, every address compressed to the same number, threshold 2 | 445,115 | the buffer's invariants and its contract, also at the limit |
| `trace` | two objects (one with a destructor), two arrays, a reference; every heap of two kinds, in one of which a table may be shared; buffers of 3 and 4 | 936,818 | the traversals of a collection, and that they end |
| `gc` | a variable, three objects with a property each, two with destructors | 234,068 | programs, destructors and collections on one heap |
| `signal` | 2 signals, 2 cells, sections and handlers nested twice, both orders of the macro, fair | 113,944 | cells, sections, handlers, the queue's contract, liveness |
| `store` | an object with a destructor, a generator, 2 globals, 4 handles, a store of 2, slow and fast shutdown, bailouts or none | 239,237 | the store's invariants |
| `hash` | 2 variables, 3 addresses, 5 integer keys and a string that collides, tables from 4 buckets on, 2 loops, 3 writes | 137,073 | tables, iterators, the arrays' contract |
| `fiber` | 3 fibers, 2 destructors on each stack | 335,136 | contexts, closing, the coroutines' contract |
| `generators` | 3 generators, 3 calls deep | 773,624 | the tree, the contract of delegation |
| `fpm` | 2 children, all three styles, slow requests, 2 events of signals, a crash, a failing fork, a connection | 1,588,418 | what the master knows of its children |
| `fpm_stop` | 1 child, slow requests and terminated ones, 3 events, fair | 311,295 | a stop ends |
| `trace_shared` | as `trace`, a buffer of 4 | counterexample | finding 1 |
| `signal_race` | as `signal`, depth stored first | counterexample | finding 2 |

**Root buffer.** `BufferSound`: a value with an address is in one slot, the one
`gc_decompress` finds; counts and sizes agree, also after a collection was aborted. `FreeListExact`: the unused list holds the unused slots,
each once. `FingersStop`: the unbounded inner loops of `gc_compact` stop in the array. `RootsFound`: what one collection leaves is what
the next one assumes, tags find roots where `gc_collect_roots` asserts them, and a collection started by a
destructor returns at once and does not compact what its caller is looping over.
`ImplementsRootSet`: no operation changes the tag of a value that it is not about.

Three slots are enough for a hole, a growth and a limit, and as all addresses collide each is found by probing;
four values overflow them. `MaxCalls` = 2 lets a destructor collect again; the third call would find what the second does.
The system may stop: nothing obliges the program to go on, and deadlock is not checked there.

**Trial deletion.** `Restored`: every count is what the heap says less what the present phase has taken from it, and no value keeps a color that a later
collection would misread. `GarbageUnreachable` and `GarbageAccounted` bound the condemned set, and what `gc_collect_cycles()` returns, from both sides: what only garbage leads to is garbage
(garbage behind something that unrooted garbage leads to as well waits for another collection); the second not with a full buffer, and the count not with properties tables. `ForgetsOnlyUsedRoots`: a root that is dropped from the buffer is in use.
`DestructorsSafe`: nothing is freed whose destructor has not run, nor what a destructor can reach, while no properties table is shared and the buffer has room.
`StepsDown`: each step lowers a measure, so every collection ends; no fairness is needed for that but that the loop goes on.

In the heaps of the first kind an object with a destructor, another object, an array of two elements and a reference refer to each other in every way; in
those of the second the object has a table and there is a second array. That holds two cycles that share a value, a cycle with a tail, a value reached by two
paths and a shared table; every set of roots, and one value held or being freed. With `room` 3 `gc_add_garbage` leaves a value out.

**Collector and program.** `ReferencesSound`: counts are exact whatever destructors, revivals and collections do; nothing
that is held is freed; and every unreachable object is below a root of the buffer or held by a call in progress, so that a collection will find it.
`CollectsAll`: a collection that calls no destructor leaves no garbage. `ImplementsManagedHeap`: what the program can reach stays as it
left it, destructors run once and before the object goes. Three objects make a cycle with a tail; two destructors revive each other's objects. One variable is enough
to hold or not to hold them.

**Signals.** `QueueSound`: every cell is in exactly one list, however handlers are interrupted, and, in builds that store depth first,
the code that leaves the outermost section leaves nothing behind. `Exclusive`: handlers exclude sections and each other.
`ImplementsSignalQueue`: deferred signals are handled in order, once, and dropped at the end of the request. `DeferredHandled`: what was deferred is handled.

Two signals tell the timeout apart from the others; two cells make a full queue, a head that is
not the tail, and a drained list with a new one beside it; two levels of sections and of handlers are what tells
"outermost" and "nested" apart. `FairSpec`: a handler that can go on does, per level of nesting,
since signals come slower than the thread runs (strong fairness, as each signal disables the level below); the macro,
once entered, is left, and so is `zend_signal_deactivate`; every section is closed although it may hold others; and a request whose
sections are all closed but whose count a fatal error has left too high is ended.

In a build that loads `blocked` first, a signal between the load and the store is queued, the comparison has its old value, and the
signal waits for the next section to be left: `DeferredHandled` and the last part of `QueueSound` are about the other build. The compilers' usual code stores first;
C permits both.

**Object store.** `StoreSound`: objects and handles name one another, and the free list visits each free bucket
once, while deletions nest; the count of an object is the number of its holders, the calls
around its destructor included; nothing in use refers to freed memory, however destructors revive and nest; contents are freed in any order without deleting an
object twice. The last leaves out the objects with `zend_object_std_dtor` of a fast shutdown, to which the code adds no reference
(`php/Zend/zend_objects_API.c:150`). `DestructorsCalled`: each once, and no object that a destructor creates escapes the sweep, which is what not reusing handles is for.

Two globals and one property per object make any object reachable two ways, a cycle and a chain; the store of 2
doubles once; four handles let a destructor create objects twice during the sweep. After a bailout or not, the
executor shuts down slowly or fast; both are followed to the end, as `fast_shutdown` depends on the build and the memory manager in use.

**Hash tables.** `TablesSound`: chains find exactly the elements, counts and the next free index are right, and `nIteratorsCount` is the number of
iterators that point to a table, none to one that was destroyed. `ImplementsArrays`: a variable's array is its own and keeps its order and current
element through sharing, growth, compaction and conversion. `IteratorsFollow`: what a loop has passed is never ahead of it again; alone on its table and past its first hole it misses nothing.

Tables start with four buckets and literals with two elements that `next` has passed, so that three writes open a gap, convert, double and compact one; two loops share and part with a table; three addresses let one be
reused. The bound is on writes; loops may fetch as often as they like.

**Fibers.** `FibersSound`: one context has status running, it is the one whose stack runs and, but for a bailout on its way, the active fiber; no destructor
is left suspended and the counter of blocked switches is exact until an error is fatal; a closed fiber is not suspended again nor freed while a
context waits for it; after the request no stack is left. `ImplementsCoroutines`: all of it is a stack of coroutines. Three fibers make a
chain with a middle; two destructors on a stack tell nested blocks from one.

**Generators.** `TreeSound`: the cached top is the top and knows who has it cached, in every tree that programs can make; a body runs
once and at a top; what is freed has left its tree. `ImplementsDelegation`: who runs is who the resumed generator delegates to. `ValuesSeen`: a generator that begins to
delegate to one that has a value shows it before it runs it on. `TypeOK` says also that no generator is freed under a call or a body. Three generators make a chain, and a tree with two
branches; at a depth of four the run is three times as long and finds the same.

**FPM.** `ChildrenAccounted`: while a child waits to be buried the master has been told of it or is at it, although the socket loses signals; the master ends after its
children; a static pool is full whenever nothing is left to do. `NeverBacksOff`: no signal, death or timer takes a stop back to a gentler signal. `TypeOK` says also
that slots and children correspond and never exceed `pm.max_children`. `Stops`: a stop or reload ends, unless a child died or was stopped in an update of the scoreboard.

Two children tell the last death from others; a socket of two or three bytes overflows; two administrator's signals escalate and repeat. Requests that are
terminated make `fpm` half as large again and only add deaths to its crashes and exits: `fpm_stop` has them, and the proofs. Fairness: the loop serves each kind of event again and
again (strong, as events overtake each other) and its handlers go on, the lock included, whose holder moves; a child in the middle of an update commits it, and SIGKILL is delivered. Nothing obliges a
child to end a request.

### Findings

1. `trace_shared`. `gc_remove_nested_data_from_buffer` stops at a value without an address
   (`php/Zend/zend_gc.c:2369`), but `gc_collect_white` expands a properties table without
   giving it one. When the table is shared by an array (`$o->prop = $o; $d->p = (array) $o;
   $d->self = $d;` and both variables unset), what lies behind it stays tagged as garbage although the destructor of `$d` can
   reach it through the array, and is freed after that destructor has run.
2. `signal_race`. A signal between the test of the macro and the masking of signals in
   `zend_signal_handler_unblock` handles and empties the queue; its head is `NULL` when
   it is dereferenced (`php/Zend/zend_signal.c:163`).

### Where the properties stop

The properties are stated as far as the code keeps them. Beyond that, met while modelling:

- *Root buffer.* When a collection finds a buffer of `GC_MAX_BUF_SIZE` full, a value left out ends the descent to nested data as a shared table does (finding 1), and counts of `gc_collect_cycles()` differ.
- *Shutdown.* Output callbacks run after the destructors. The `finally` block of a generator left there does run with `EG(active)` cleared ("No PHP callback functions should be called after this point",
  `php/Zend/zend_execute_API.c:370`), and an object with a destructor raises a fatal error in `shutdown_executor`.
- *Iterators.* `zend_hash_rehash` carries iterators from the lowest position on: one before the first hole goes where that hole is filled, and elements inserted later are behind it;
  deletion lowers `nNumUsed` below iterators (`zend_hash.c:2452`) with the same effect. A count of 255 iterators sticks; `zend_hash_iterator_pos` asks the new table for that, not the one it takes an iterator from.
- *Arrays.* `zend_hash_rehash` moves the internal pointer with its element (`zend_hash.c:2226`). A pointer at the end of a packed array gets no element when the next key leaves a gap: it stands on a hole, and is
  not moved. After `$a = []; $a[1] = 1; next($a); $a[3] = 3;` the current element is that of 3; after `$a['x'] = 'x'` it is `'x'`. `OrderedArrays` lets an insertion do that to an array that is `late`.
- *Fibers.* A fatal error in a destructor leaves `zend_fiber_switch_blocking` raised to the end of the request; a fiber suspended then, or started by an output callback, keeps its stack. `exit` in the `finally` block of a fiber that is closed is swallowed.
- *Generators.* `DO_INIT` is set in the generator that delegates and tested in the one that was resumed: a delegation begun deeper in a chain does skip a waiting value, and a flag left over makes the next direct resumption, that for a `finally` block included, return without running.
  With `Oddities = {"aborted"}`: `ZEND_YIELD_FROM` ignores the exception that `zend_generator_get_current` raises for a generator whose own delegate was aborted, goes on to delegate with it, and the generator is closed while it has a parent; later calls resume what has no `execute_data`.
  With `{"reenter"}`: a destructor called by `zend_generator_close` can resume or delete what delegates to the closed generator, which is freed under the resumption on the C stack. Both make `TypeOK` or `TreeSound` fail.
- *FPM.* The spinlock of the scoreboard has no owner: a child killed or stopped while it holds it leaves the master spinning, who then serves no signal, although "SIGINT,SIGTERM" stand for "immediate termination" (`php/sapi/fpm/php-fpm.8.in:163`); `Stops` excepts that. The event of an on-demand pool
  that is dropped because a child is idle is not raised again when that child dies (`fpm_process_ctl.c:541`).

## 4. Proofs

The proofs hold for every value of the constants that the named assumptions allow. Of the runs' invariants and refinements they state those of
`GcRootBuffer`, `GcTrace`, `ZendGC`, `ZendSignal`, `ObjectsStore`, `ZendHash`, `ZendFiber` and `Fpm`.

**Instead of induction over data.** The code follows links: free lists, the queue of cells, chains of contexts. What such a walk computes for every list
would need induction over data, which the installed provers cannot instantiate. The proofs use two other forms. A list is *whole* when its links are one to one and no smaller set that holds
its head is closed under them (`ListWhole`, `FreeListLinked`): a step changes one link, and closed sets of the new links give closed sets of the old ones. The walk in the property
visits a closed set, and that it visits nothing twice follows by counting (`FollowEnds`, `ListExact`). Or a list is a *sequence*
that the links spell out (`ListsAre`, `ChainInv`), which a step appends to or takes from. Counts are sums of cardinalities, one for each kind of holder.

**GcRootBufferProofs.** `IInv` adds to the properties what they rest on: `Allocation` (the
threshold never exceeds the size; only a protected buffer is unallocated),
`Control` (who waits, and how the loop of each phase relates to the array),
`Fingers` (left of the free finger all slots are used, between them is a hole), `FreeListLinks` (the
list has no fork and no link out of the unused slots), `SlotsWellFormed`, and `WhitesReachable`
(a value without an address is only colored while `gc_collect_roots` can still find it). From `Inductive`:
`TypeCorrect`, `BufferIsSound`, `FingersAlwaysStop`, `CallbacksAreSafe`. `PhaseInv` is inductive with it (`PhasesInductive`): the tags an entry can have in each phase, by its place before, in or behind the loop,
and `ListWhole`. From it: `RootsAreFound` and `FreeListIsExact`. For `BufferRefines` each step keeps all entries but one
(`gc_compact` moves them), so the set of values and tags that `RootTags` reads changes as `GcRootSet` says or not at all.

**GcTraceProofs.** `RefcountsExact` is inductive with the sets of each phase. For the others the
invariant keeps trails: `LedTo(C, From)` says that every value of color `C` is reached
through such values from a place the loop has yet to visit; `CyclesStay` that an isolated set of
values behind the roots loses no grey or white; `Condemned` that all tags lie in a set
nothing outside refers to. From `Inductive`: `TypeCorrect`, `AllRestored`,
`OnlyUnreachableTagged`, `OnlyUsedForgotten`, `NoneUndestructed`, and `AlwaysDown`: as colors change in one direction within a phase and every visit takes
a value from a stack, a step shrinks one set and leaves those before it in `StepsDown`'s order alone. `TraceInv` follows what is condemned: when the scan ends the white values are a
set `W` that holds all that only `W` leads to (`Whole`), and from then on each member of `W` is white, on the stack, or has what `gc_add_garbage` gives it (`CollectExact`). In the last phase `Trail` says that every set
that holds the roots and the stack yet to be visited, and with each value that does not end the descent what that leads to, holds the garbage that destructors can reach; no path is followed,
a step adds its value and the value's tables to the set. Here `Unshared` is used: a table then has one slot, so that a trail that enters it has come through its object. With nothing left to
visit the empty set is such a set, and no garbage can be reached. From `TraceInductive`: `GarbageIsAccounted` and `DestructorsAreSafe`.

**ZendGCProofs.** What a heap reaches is defined by closed sets (`Closed`, `Reach`), so that no path is followed: `Anchored` says that a closed set which holds what variables, dying objects, calls and
the buffer name holds every live object. `StackInv` says which call may be on top of which, among others no collection in a collection, and that nothing below one is condemned; `CallsInv` what a call relies on
while others run on top of it; `MemoryInv` that nothing refers to what is free or dying; `GarbageInv` that only garbage refers to garbage. A trace is where they meet (`WhiteIs`, `TraceTags`, `TraceAnchors`): as counts are
exact, a count that traced slots make up entirely is held by no call and no other slot, so what is white is held by what is white; and a grey object with a greater count is held from outside, by a call or by an object
that needs another anchor, so what is not white needs no entry any more. From `Inductive`: `TypeCorrect` and `ReferencesAreSound`. Assumed is `GCAssumption`: finitely many slots, any objects, owners and destructors.
`HeapRefines` maps the same steps to `ManagedHeap`: the program knows the same objects by either definition of reach (`KnownIs`), what dies or is chosen for destruction is not among them (`WhiteUnknown`, `Unreached`), and a step
that moves no value, no object and no destructor is a stutter (`Stutters`). `FinalizedInv` is what this needs besides `IInv`: that those a collection has chosen are alive, and that a deletion goes on only with an object whose destructor was called.
`CollectionsAreComplete` is an action property: of the step that ends a collection without destructors. `CleanInv` leads to it: while such a collection is in progress the calls on top of it free garbage or delete it (`Disposed`), never anything else, since
an object that is not garbage is referred to from outside (`FreeSlotClean`), so that no program runs before the end; and what is not garbage stays reached from variables and from the calls below, as a trace leaves it (`TraceKeeps`).

**ZendSignalProofs.** The handler that runs holds `running` and was let in at depth 0 (`HandlersInv`); the program never is in
more sections than `depth` says (`SectionsInv`). As the program stands still while
a frame exists, both are inductive. From `Inductive`: `HandlersExclusive`. `QueueInv` is about the cells: those that a handler has taken from the
queue, the pending and the available ones are three sequences that partition the storage (`ListsInv`), spelled out by `next`; only one frame holds a cell
(`FramesInv`); between requests nothing waits (`RequestInv`); and while something waits at depth zero a frame or the program itself is about to see it (`WaitInv`, in builds that store first).
From `QueueInductive`: `TypesCorrect`, `QueueIsSound`, and `QueueRefines`: the signals of the taken cells before those of the pending ones are the queue of `SignalQueue`, to which
a step appends, from which it takes the first, which it clears with the request, or which it leaves alone.

**ObjectsStoreProofs.** `HandlesExact` and `FreeListLinked` are the store. `CountsExact` counts an object's holders by variables, properties, calls and the loop of the sweep, each a
cardinality that a step changes by one; it is inductive only with what the calls in progress rely on: `FrameOK` says for each place of `zend_objects_store_del` and of `dtor_obj`
what is known of its object there (its bucket, its count, whether its destructor was called), `Nested` which call may be below which, so that a call on top cannot
break one below: an object is freed by one call, and those that wait for its destructor hold it. `ReleasedHeld` says that what the release has freed the contents of
has a reference too many, so that no deletion follows. `References` says who can be referred to, `Fresh` what memory is before an object takes it, `RunsOnce` relates the flag to the runs of the destructor, and `Control`
phase, cursor and calls. From `Inductive`: `TypeCorrect`, `StoreIsSound` and `CalledOnce`. `NoneMissed` is inductive as it stands, because during the sweep `Put` only appends.
Assumed is `StoreAssumption`: finitely many objects, any number of handles and globals, any nesting.

**ZendHashProofs.** `HashInv`: the allocated tables are those the variables hold and each is `Sound` (`Owned`), each counts the entries that point to it (`Counted`), and the entries in use are those of
loops over variables (`Iterating`). `Sound` says of one table that keys are unique and below the next free index, that a packed element is at its key, and that a chain is, last first, what belongs to it
(`Chains`), as a walk along `Z_NEXT` finds it; and that an uninitialized table has no elements and the minimal size, since
`zend_hash_real_init_mixed_ex` overwrites the count of iterators in a larger one (`zend_hash.c:313`). The rest is about one table. Its array is its elements in order of their indexes, and what an operation does to the
indexes in use shows in the numbers below each (`InOrderIs`: the n-th element has n - 1 below it). Compaction, growth and conversion keep that (`Kept`), insertion puts a key last (`Grown`), deletion takes one out (`Shrunk`), a copy may lose
a pointer at the end (`Copied`). So every operation is a step of `OrderedArrays` for the variable (`Stepped`), and by `SeparatedIs` for no other. From `Inductive`: `TypeCorrect`, `TablesAreSound` and `ArraysRefine`.

`LoopsFollow` adds the positions of the iterators. What a position has passed (`Past`) must stay passed (`KeepsBehind`) and, for the only one on a table that stands
well (`Fine`), nothing else may join it (`KeepsAhead`). Where elements move down, `Carriage` says after each element that a position stays or goes where an element not
before it goes, so it gives up nothing that it passed, and `Escorted` that the only position goes with the first element that it has not passed; `Carried` is a
recursive function, whose values are built up to any number (`CarriedRuns`, by the least number without one). Each operation then keeps what is behind and ahead (`Trails`, or `Onward` where it
keeps the elements as well), and each action does so for every loop that stays (`Followed`), whichever variable it writes.

All assume `Iterators < Saturated`: with 255 entries on a table its count sticks, as `zend_hash.h:99` means it to, and is exact no more. The other assumptions are on keys and sizes (`KeysAssumption`, `SizesAssumption`) and on
addresses (`TablesAssumption`); any hash values, so any collisions, and any minimal size are allowed.

**ZendFiberProofs.** `ChainInv`: the callers of the running context, one below the other, are the fibers that have a caller, each once, down to the main
context. `WaitsInv` says of every frame on a C stack what it will restore (the active fiber and the bailout buffer of the context it lies on) and where on the stack it may lie; `TopsInv` that who
waits has such a frame on top and who has not begun or has ended has none; `BlockingInv` that the counter is the number of frames that raised it, until an error is fatal;
`ObjectsInv` and `SweepInv` follow objects: what is on the chain is alive, and whom the sweep has passed will not be left suspended. A step switches to a fiber (`CallKeeps`), back from one (`ReturnKeeps`), or changes the frames of
the running context alone (`LocalKeeps`); each action is one of the three. `Unwinding` (a bailout is caught before the request is over) is what the phase needs. From `Inductive`: `TypeCorrect`, `FibersAreSound`, and `Implements`: the chain that
`ImplementsCoroutines` computes is the one of `ChainInv` (`ChainIs`), so a switch is a `Call`, a `Suspend` or an `End`, and every other step a stutter.
Assumed is `FiberAssumption` only: finitely many fibers, and room for one call on a stack.

**FpmProofs.** `NoneForgotten` is inductive because a byte that does not fit is only lost from a full socket, and a full socket holds a `C`: of the other bytes, the administrator's, there are too few to fill it (`RoomForDeaths`).
That is the assumption `Bound["admin"] < SocketSize` of `FpmAssumption`: a socket of hundreds of bytes is not filled by signals to the master before it reads one; without it a death may
wait for the next. `StaticPool` strengthens `StaticFull` to every step: the pool is full, or the burial in progress is about to fill it. `StopUnderWay` is what
`NeverBacksOff` needs of the timers. From `Inductive`: `TypeCorrect`, `NoChildLost` and `StopsEscalate`.

**Only model-checked.** All of `ZendGenerator`: the top of a tree is recursive there, and its contract compares the tops before and after a step.
`Stops` and `DeferredHandled` are liveness under fairness, which the prover does not reach; nor does it reach `ENABLED`. The modules with proofs use no recursive operators.

## 5. Plan

What is left, in this order:

1. `ZendTimeout`: `zend_set_timeout`, `zend_timeout_handler`, `timed_out`, `vm_interrupt`, the hard
   timeout and the requests' begin and end, with `ZendSignal`'s contract below it.
2. `Weakrefs`, `OutputLayer`.
3. A `GcTrace` whose stack may run out of memory and the code that runs afterwards; arrays and references in `ZendGC`.
4. Generators in fibers, and the references generators hold, in `ZendGenerator`.
5. Proofs: `TypeOK` and `TreeSound` of `ZendGenerator`, with closed sets in place of its walks.

### Not modelled

Execution timeouts, weak references, the output layer, the memory manager, ini entries and exceptions are within reach and planned. Lists and stacks, SAPI, FastCGI, streams and the CLI server are sequential
or input and output, and tests reach them. The compiler, the virtual machine, and the optimizer make up most of the lines of the repository (their generated part alone a third): their state space is that of PHP
programs, and the models take the program as their environment instead. TSRM concerns thread-safe builds, which the other modules leave out.
