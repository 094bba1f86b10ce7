---------------------------- MODULE GcRootBuffer ----------------------------
(***************************************************************************)
(* The root buffer of the cycle collector, Zend/zend_gc.c.                 *)
(*                                                                         *)
(* A value whose reference count was decremented to a non-zero number may  *)
(* be the entry of a garbage cycle.  gc_possible_root stores it in a slot  *)
(* of one global array, and stores the (compressed) index of the slot in   *)
(* the header of the value.  Freed slots form a list threaded through the  *)
(* array; a collection compacts the array, marks its entries with tags,    *)
(* adds the garbage it finds, runs destructors that may in turn add and    *)
(* remove entries, and gives the slots back.                               *)
(*                                                                         *)
(* The heap the collector traces is not in this module (see GcTrace): the  *)
(* outcome of a trace is any set of white values, and the program that     *)
(* allocates and frees values between the collector's steps is the pair of *)
(* actions PossibleRoot and RemoveFromBuffer.                              *)
(***************************************************************************)
EXTENDS Naturals, FiniteSets, Sequences

CONSTANTS
    Ref,               \* collectable values: arrays and objects
    NoRef,             \* not a value
    MaxUncompressed,   \* GC_MAX_UNCOMPRESSED, a power of two
    DefaultBufSize,    \* GC_DEFAULT_BUF_SIZE
    BufGrowStep,       \* GC_BUF_GROW_STEP
    MaxBufSize,        \* GC_MAX_BUF_SIZE
    ThresholdDefault,  \* GC_THRESHOLD_DEFAULT
    ThresholdStep,     \* GC_THRESHOLD_STEP
    ThresholdMax,      \* GC_THRESHOLD_MAX
    MaxCalls           \* bound: nested calls of gc_collect_cycles

ASSUME RefAssumption == NoRef \notin Ref

\* The #defines of zend_gc.c satisfy these: 512K, 16K, 128K, 0x40000000,
\* 10001, 10000 and 1000000000.
ASSUME SizesAssumption ==
    /\ MaxUncompressed \in Nat \ {0}
    /\ DefaultBufSize \in Nat \ {0}
    /\ BufGrowStep \in Nat \ {0}
    /\ MaxBufSize \in Nat
    /\ ThresholdDefault \in Nat \ {0}
    /\ ThresholdStep \in Nat
    /\ ThresholdMax \in Nat
    /\ MaxCalls \in Nat
    /\ ThresholdDefault <= DefaultBufSize
    /\ DefaultBufSize <= MaxBufSize
    /\ ThresholdStep <= ThresholdDefault

VARIABLES
    buf,           \* GC_G(buf): one entry per slot
    info,          \* GC_INFO of every value: slot address and colour
    unused,        \* head of the list of freed slots, 0 when empty
    first_unused,  \* first slot never used since the last compaction
    num_roots,     \* number of slots in use
    gc_threshold,  \* a collection starts when first_unused reaches it
    buf_size,      \* allocated slots, 0 while buf is NULL
    gc_enabled, gc_active, gc_protected, gc_full,
    pc,            \* where zend_gc_collect_cycles is, "idle" outside
    ret,           \* where gc_compact returns to
    idx, end,      \* the loop over the slots of one phase
    free, scan,    \* the two fingers of gc_compact
    should_rerun, did_rerun,
    calls          \* callers waiting for gc_collect_cycles: the value that
                   \* gc_possible_root_when_full holds, NoRef for PHP code

bufVars  == <<buf, info, unused, first_unused, num_roots>>
sizeVars == <<gc_threshold, buf_size>>
flagVars == <<gc_active, gc_protected, gc_full>>
compactVars == <<ret, free, scan>>
phaseVars   == <<idx, end, should_rerun, did_rerun>>
loopVars    == <<compactVars, phaseVars>>
ctlVars  == <<pc, calls>>
vars == <<bufVars, sizeVars, gc_enabled, flagVars, loopVars, ctlVars>>

-----------------------------------------------------------------------------
(* Entries, addresses and colours.                                         *)

Slots == 1 .. (MaxBufSize - 1)
LiveTags == {"root", "garbage", "dtor"}
Colors == {"black", "white", "grey", "purple"}

Entry == [tag : LiveTags \cup {"unused", "fresh"},
          ref : Ref \cup {NoRef},
          next : Nat]

Live(t, r)  == [tag |-> t, ref |-> r, next |-> 0]
Unused(n)   == [tag |-> "unused", ref |-> NoRef, next |-> n]
Fresh       == [tag |-> "fresh", ref |-> NoRef, next |-> 0]

Info(a, c) == [addr |-> a, color |-> c]
NoInfo     == Info(0, "black")

IsLive(i)    == buf[i].tag \in LiveTags
IsRoot(i)    == buf[i].tag = "root"
IsUnused(i)  == buf[i].tag = "unused"
IsGarbage(i) == buf[i].tag = "garbage"

\* Faulty variant: tests the bit GC_GARBAGE, which GC_DTOR_GARBAGE contains.
IsDtorGarbageBit(i) == buf[i].tag \in {"garbage", "dtor"}
IsDtorGarbage(i)    == buf[i].tag = "dtor"

\* gc_compress: an index that needs more than its share of bits is kept
\* modulo MaxUncompressed, in the upper half of the address range.
Compress(i) == IF i < MaxUncompressed THEN i
               ELSE (i % MaxUncompressed) + MaxUncompressed

\* The slots gc_decompress may visit, and the first that holds r.
Probes(a) == {i \in Slots : \E k \in 0 .. MaxBufSize : i = a + k * MaxUncompressed}
\* Faulty variant: the address is taken for the slot.
DecompressDirect(r, a) == a
Decompress(r, a) ==
    CHOOSE i \in Probes(a) : /\ buf[i].ref = r
                             /\ \A j \in Probes(a) : j < i => buf[j].ref # r

\* The slot gc_remove_from_buffer computes from the address of r.
SlotOf(r) == IF first_unused >= MaxUncompressed
             THEN Decompress(r, info[r].addr)
             ELSE info[r].addr

SetColor(R, c) == [r \in Ref |-> IF r \in R THEN [info[r] EXCEPT !.color = c]
                                 ELSE info[r]]

-----------------------------------------------------------------------------
(* Taking and returning slots.                                             *)

HasUnused == unused # 0
HasNextUnused == first_unused # buf_size
HasNextUnusedUnderThreshold == first_unused < gc_threshold

\* Store r in slot i.
Store(i, r, tag, color) ==
    /\ buf' = [buf EXCEPT ![i] = Live(tag, r)]
    /\ info' = [info EXCEPT ![r] = Info(Compress(i), color)]
    /\ num_roots' = num_roots + 1

\* GC_FETCH_UNUSED
StoreInUnused(r, tag, color) ==
    /\ HasUnused
    /\ unused' = buf[unused].next
    /\ Store(unused, r, tag, color)
    /\ UNCHANGED first_unused

\* GC_FETCH_NEXT_UNUSED
StoreInNext(r, tag, color) ==
    /\ ~HasUnused
    /\ first_unused' = first_unused + 1
    /\ Store(first_unused, r, tag, color)
    /\ UNCHANGED unused

GrownSize ==
    LET wanted == IF buf_size < BufGrowStep THEN buf_size * 2
                  ELSE buf_size + BufGrowStep
    IN IF wanted > MaxBufSize THEN MaxBufSize ELSE wanted

\* gc_grow_root_buffer: the first failure disables the collector for good.
GrowRootBuffer ==
    IF buf_size >= MaxBufSize /\ ~gc_full
    THEN /\ gc_active' = TRUE
         /\ gc_protected' = TRUE
         /\ gc_full' = TRUE
         /\ UNCHANGED buf_size
    ELSE /\ buf_size' = GrownSize
         /\ UNCHANGED flagVars

\* A slot for r whatever the threshold says; without one r is dropped.
\* The common tail of gc_possible_root_when_full and gc_add_garbage.
StoreOrGrow(r, tag, color, dropped) ==
    \/ /\ \/ StoreInUnused(r, tag, color)
          \/ HasNextUnused /\ StoreInNext(r, tag, color)
       /\ UNCHANGED <<buf_size, flagVars>>
    \/ /\ ~HasUnused /\ ~HasNextUnused
       /\ GrowRootBuffer
       /\ \/ first_unused # buf_size' /\ StoreInNext(r, tag, color)
          \/ /\ first_unused = buf_size'
             /\ info' = dropped
             /\ UNCHANGED <<buf, unused, first_unused, num_roots>>

\* gc_remove_from_roots, and the header of the value it held.
Unlink(i, r) ==
    /\ buf' = [buf EXCEPT ![i] = Unused(unused)]
    /\ unused' = i
    /\ num_roots' = num_roots - 1
    /\ info' = [info EXCEPT ![r] = NoInfo]
    /\ UNCHANGED first_unused

-----------------------------------------------------------------------------
(* gc_compact, entered from the phase that precedes ret.                   *)

\* Faulty variant: the list of freed slots survives the compaction.
CompactDoneKeepList == first_unused' = num_roots + 1 /\ UNCHANGED unused

\* What is left when the fingers met, or when there is nothing to move.
CompactDone ==
    /\ unused' = 0
    /\ first_unused' = num_roots + 1

\* Faulty variant: a buffer without roots is scanned like any other.
NothingToMoveNever == FALSE
NothingToMove == num_roots = 0

EnterCompact(next) ==
    IF num_roots + 1 = first_unused
    THEN /\ pc' = next
         /\ UNCHANGED <<unused, first_unused, free, scan, ret>>
    ELSE IF NothingToMove
    THEN /\ CompactDone
         /\ pc' = next
         /\ UNCHANGED <<free, scan, ret>>
    ELSE /\ free' = 1
         /\ scan' = first_unused - 1
         /\ ret' = next
         /\ pc' = "compact"
         /\ UNCHANGED <<unused, first_unused>>

\* Where the inner loops leave the two fingers.
FreeFinger == CHOOSE i \in Slots : /\ i >= free /\ IsUnused(i)
                                   /\ \A j \in Slots : j \in free .. (i - 1) => ~IsUnused(j)
ScanFinger == CHOOSE i \in Slots : /\ i <= scan /\ ~IsUnused(i)
                                   /\ \A j \in Slots : j \in (i + 1) .. scan => IsUnused(j)

\* The break out of the outer loop: everything right of the last root has
\* moved.
AllMoved(s) == s <= num_roots

LeaveCompact == /\ CompactDone
                /\ pc' = ret
                /\ free' = 0 /\ scan' = 0 /\ ret' = "idle"

\* One iteration of the outer loop that moves an entry.
CompactMove ==
    /\ pc = "compact"
    /\ free < scan
    /\ FreeFinger < ScanFinger
    /\ LET r == buf[ScanFinger].ref IN
         /\ buf' = [buf EXCEPT ![FreeFinger] = buf[ScanFinger]]
         /\ info' = [info EXCEPT ![r].addr = Compress(FreeFinger)]
    /\ IF AllMoved(ScanFinger - 1)
       THEN LeaveCompact
       ELSE /\ free' = FreeFinger + 1
            /\ scan' = ScanFinger - 1
            /\ UNCHANGED <<unused, first_unused, pc, ret>>
    /\ UNCHANGED <<num_roots, sizeVars, gc_enabled, flagVars, calls, phaseVars>>

\* The fingers crossed inside the iteration.
CompactCross ==
    /\ pc = "compact"
    /\ free < scan
    /\ FreeFinger >= ScanFinger
    /\ free' = FreeFinger
    /\ scan' = ScanFinger
    /\ UNCHANGED <<bufVars, sizeVars, gc_enabled, flagVars, ctlVars, ret, phaseVars>>

CompactFinish ==
    /\ pc = "compact"
    /\ free >= scan
    /\ LeaveCompact
    /\ UNCHANGED <<buf, info, num_roots, sizeVars, gc_enabled, flagVars, calls, phaseVars>>

-----------------------------------------------------------------------------
(* The initial state and the operations of the running program.            *)

\* gc_globals_ctor_ex: no buffer, and protected until there is one.
Init ==
    /\ buf = [i \in Slots |-> Fresh]
    /\ info = [r \in Ref |-> NoInfo]
    /\ unused = 0 /\ first_unused = 0 /\ num_roots = 0
    /\ gc_threshold = 0 /\ buf_size = 0
    /\ gc_enabled = FALSE /\ gc_active = FALSE
    /\ gc_protected = TRUE /\ gc_full = FALSE
    /\ pc = "idle" /\ ret = "idle"
    /\ idx = 0 /\ end = 0 /\ free = 0 /\ scan = 0
    /\ should_rerun = FALSE /\ did_rerun = FALSE
    /\ calls = <<>>

\* The program runs outside a collection, and inside one in the destructor
\* or the free handler of the object in slot idx.
ProgramRuns == pc \in {"idle", "calling", "freeing"}

\* Values that cannot be freed: gc_possible_root_when_full, or the collector
\* around a destructor, holds a reference.
Held == {calls[i] : i \in DOMAIN calls} \ {NoRef}
Called(r) == pc = "calling" /\ buf[idx].ref = r

\* gc_reset
ResetGlobals ==
    /\ gc_active' = FALSE /\ gc_protected' = FALSE /\ gc_full' = FALSE
    /\ unused' = 0 /\ first_unused' = 1 /\ num_roots' = 0

\* gc_enable: the first time it also allocates the buffer.
GcEnable(enable) ==
    /\ ProgramRuns
    /\ gc_enabled' = enable
    /\ IF enable /\ ~gc_enabled /\ buf_size = 0
       THEN /\ buf_size' = DefaultBufSize
            /\ gc_threshold' = ThresholdDefault
            /\ ResetGlobals
            /\ UNCHANGED <<buf, info>>
       ELSE UNCHANGED <<bufVars, sizeVars, flagVars>>
    /\ UNCHANGED <<loopVars, ctlVars>>

\* The next request: the heap of the last one is gone, and zend_activate
\* calls gc_reset, which leaves the old entries in the array.
Reset ==
    /\ pc = "idle"
    /\ buf_size # 0
    /\ ResetGlobals
    /\ info' = [r \in Ref |-> NoInfo]
    /\ UNCHANGED <<buf, sizeVars, gc_enabled, loopVars, ctlVars>>

\* The local variables of zend_gc_collect_cycles are gone.
LocalsDie == /\ idx' = 0 /\ end' = 0
             /\ should_rerun' = FALSE /\ did_rerun' = FALSE

\* Faulty variant: tidies gc_active up.
BailoutInactive ==
    /\ ProgramRuns
    /\ gc_protected' = TRUE /\ gc_active' = FALSE
    /\ pc' = "idle"
    /\ calls' = <<>>
    /\ LocalsDie
    /\ UNCHANGED <<bufVars, sizeVars, gc_enabled, gc_full, compactVars>>

\* _zend_bailout: a fatal error abandons whatever was running; the flag
\* gc_active keeps its value.
Bailout ==
    /\ ProgramRuns
    /\ gc_protected' = TRUE
    /\ pc' = "idle"
    /\ calls' = <<>>
    /\ LocalsDie
    /\ UNCHANGED <<bufVars, sizeVars, gc_enabled, gc_active, gc_full, compactVars>>

\* zend_gc_collect_cycles begins.
Call(r) ==
    /\ Len(calls) < MaxCalls
    /\ calls' = Append(calls, r)
    /\ pc' = "start"
    /\ LocalsDie
    /\ UNCHANGED <<bufVars, sizeVars, flagVars, compactVars>>

\* gc_possible_root, reached when GC_MAY_LEAK(r).  zend_gc_root_tmpvars
\* calls it too, at the end of a collection.
PossibleRoot(r) ==
    /\ ProgramRuns \/ pc = "finish"
    /\ info[r] = NoInfo
    /\ ~gc_protected
    /\ \/ /\ \/ StoreInUnused(r, "root", "purple")
             \/ HasNextUnusedUnderThreshold /\ StoreInNext(r, "root", "purple")
          /\ UNCHANGED <<sizeVars, flagVars, loopVars, ctlVars>>
       \/ /\ ~HasUnused /\ ~HasNextUnusedUnderThreshold
          /\ IF gc_enabled /\ ~gc_active
             THEN Call(r)
             ELSE /\ StoreOrGrow(r, "root", "purple", info)
                  /\ UNCHANGED <<gc_threshold, loopVars, ctlVars>>
    /\ UNCHANGED gc_enabled

\* A garbage value the destroy loop has reached has lost its type: it is
\* only freed by FreeSlot.
Destroyed(r) == pc = "freeing" /\ \E i \in 1 .. idx : IsGarbage(i) /\ buf[i].ref = r

\* Faulty variant: calls gc_remove_from_buffer without the macro's test.
RemoveUntested(r) ==
    /\ ProgramRuns
    /\ r \notin Held
    /\ ~Called(r) /\ ~Destroyed(r)
    /\ Unlink(SlotOf(r), r)
    /\ UNCHANGED <<sizeVars, gc_enabled, flagVars, loopVars, ctlVars>>

\* GC_REMOVE_FROM_BUFFER, when the program frees a value.
RemoveFromBuffer(r) ==
    /\ ProgramRuns
    /\ info[r] # NoInfo
    /\ r \notin Held
    /\ ~Called(r) /\ ~Destroyed(r)
    /\ Unlink(SlotOf(r), r)
    /\ UNCHANGED <<sizeVars, gc_enabled, flagVars, loopVars, ctlVars>>

\* The PHP function gc_collect_cycles().
CollectCycles == /\ ProgramRuns /\ UNCHANGED gc_enabled
                 /\ num_roots = 0 \/ ~gc_active   \* otherwise it returns 0
                 /\ Call(NoRef)

-----------------------------------------------------------------------------
(* zend_gc_collect_cycles.                                                 *)

Caller == calls[Len(calls)]
Pop == SubSeq(calls, 1, Len(calls) - 1)

\* Back to the code that started the collection.  A nested collection was
\* started by the last step of the one below it.
Resume == /\ calls' = Pop
          /\ pc' = IF Len(calls) = 1 THEN "idle" ELSE "finish"
ReturnToCaller == IF Caller = NoRef THEN Resume
                  ELSE pc' = "adjust" /\ UNCHANGED calls

\* rerun_gc: with roots, gc_mark_roots compacts first; without, gc_compact
\* is all there is to do.
Start ==
    /\ pc = "start"
    /\ gc_active' = (num_roots # 0 \/ gc_active)
    /\ EnterCompact(IF num_roots # 0 THEN "trace" ELSE "finish")
    /\ UNCHANGED <<buf, info, num_roots, sizeVars, gc_enabled, gc_protected, gc_full,
                   calls, phaseVars>>

\* gc_mark_roots and gc_scan_roots: every root is white or black after
\* them, and so is every value they reached.  A held value is referenced
\* from outside and stays black.
Trace ==
    /\ pc = "trace"
    /\ \E W \in SUBSET (Ref \ Held) :
         /\ (\E r \in W : info[r].addr = 0) => (\E r \in W : info[r].addr # 0)
         /\ info' = [r \in Ref |-> Info(info[r].addr, IF r \in W THEN "white" ELSE "black")]
    /\ pc' = "unroot" /\ idx' = 1 /\ end' = first_unused
    /\ UNCHANGED <<buf, unused, first_unused, num_roots, sizeVars, gc_enabled, flagVars,
                   calls, should_rerun, did_rerun, compactVars>>

\* gc_collect_roots, first loop: roots that are not garbage leave.
UnrootSlot ==
    /\ pc = "unroot" /\ idx # end
    /\ IF IsRoot(idx) /\ info[buf[idx].ref].color = "black"
       THEN Unlink(idx, buf[idx].ref)
       ELSE UNCHANGED bufVars
    /\ idx' = idx + 1
    /\ UNCHANGED <<sizeVars, gc_enabled, flagVars, ctlVars, end, should_rerun, did_rerun,
                   compactVars>>

UnrootDone ==
    /\ pc = "unroot" /\ idx = end
    /\ EnterCompact("tag")
    /\ UNCHANGED <<buf, info, num_roots, sizeVars, gc_enabled, flagVars, calls, phaseVars>>

\* ... second loop; end is taken after the compaction.
TagBegin ==
    /\ pc = "tag"
    /\ pc' = "tagging" /\ idx' = 1 /\ end' = first_unused
    /\ UNCHANGED <<bufVars, sizeVars, gc_enabled, flagVars, calls, should_rerun, did_rerun, compactVars>>

TagSlot ==
    /\ pc = "tagging" /\ idx # end
    /\ buf' = [buf EXCEPT ![idx].tag = "garbage"]
    /\ LET r == buf[idx].ref IN
         IF info[r].color = "white"
         THEN /\ info' = [info EXCEPT ![r].color = "black"]
              /\ pc' = "collect"
         ELSE UNCHANGED <<info, pc>>
    /\ idx' = idx + 1
    /\ UNCHANGED <<unused, first_unused, num_roots, sizeVars, gc_enabled, flagVars, calls,
                   end, should_rerun, did_rerun, compactVars>>

\* gc_collect_white from the root in the slot just tagged: gc_add_garbage
\* for the values it reaches that have no slot ...
AddGarbage(r) ==
    /\ pc = "collect"
    /\ info[r] = Info(0, "white")
    /\ StoreOrGrow(r, "garbage", "black", [info EXCEPT ![r].color = "black"])
    /\ UNCHANGED <<gc_threshold, gc_enabled, loopVars, ctlVars>>

\* ... the others (rooted already, references, objects freed before) only
\* become black.  Whatever is white was reached from a white root.
CollectWhiteDone ==
    /\ pc = "collect"
    /\ \E B \in SUBSET {r \in Ref : info[r].color = "white"} :
         /\ LET left == {r \in Ref \ B : info[r].color = "white"} IN
              left # {} => \E i \in idx .. (end - 1) : buf[i].ref \in left
         /\ info' = SetColor(B, "black")
    /\ pc' = "tagging"
    /\ UNCHANGED <<buf, unused, first_unused, num_roots, sizeVars, gc_enabled, flagVars,
                   calls, loopVars>>

\* After gc_collect_roots: nothing to free, or objects with destructors
\* (their entries become DTOR_GARBAGE and purple), or neither.  has_destructors
\* is GC_HAS_DESTRUCTORS, which those set as well that found no room.
Collected ==
    /\ pc = "tagging" /\ idx = end
    /\ idx' = 1 /\ end' = first_unused
    /\ IF num_roots = 0
       THEN /\ gc_active' = FALSE
            /\ pc' = "finish"
            /\ UNCHANGED <<buf, info, should_rerun>>
       ELSE \E D \in SUBSET {i \in 1 .. (first_unused - 1) : IsGarbage(i)},
               has_destructors \in BOOLEAN :
              /\ D # {} => has_destructors
              /\ has_destructors => D # {} \/ gc_full
              /\ buf' = [i \in Slots |-> IF i \in D THEN [buf[i] EXCEPT !.tag = "dtor"] ELSE buf[i]]
              /\ info' = SetColor({buf[i].ref : i \in D}, "purple")
              /\ should_rerun' = (should_rerun \/ has_destructors)
              /\ pc' = IF has_destructors THEN "nested" ELSE "destroy"
              /\ UNCHANGED gc_active
    /\ UNCHANGED <<unused, first_unused, num_roots, sizeVars, gc_enabled, gc_protected,
                   gc_full, calls, did_rerun, compactVars>>

\* gc_remove_nested_data_from_buffer: what a destructor may reach leaves.
RemoveNested(r) ==
    /\ pc = "nested"
    /\ info[r].addr # 0 /\ info[r].color = "black"
    /\ Unlink(SlotOf(r), r)
    /\ UNCHANGED <<sizeVars, gc_enabled, flagVars, loopVars, ctlVars>>

NestedDone ==
    /\ pc = "nested"
    /\ pc' = "dtor"
    /\ UNCHANGED <<bufVars, sizeVars, gc_enabled, flagVars, calls, loopVars>>

\* The object in one slot: its entry is an ordinary root again and, unless
\* another destructor did so before, its destructor is called.
DtorSlot ==
    /\ pc = "dtor" /\ idx # end
    /\ IF IsDtorGarbage(idx)
       THEN /\ buf' = [buf EXCEPT ![idx].tag = "root"]
            /\ \/ pc' = "calling" /\ UNCHANGED idx
               \/ idx' = idx + 1 /\ UNCHANGED pc
       ELSE idx' = idx + 1 /\ UNCHANGED <<buf, pc>>
    /\ UNCHANGED <<info, unused, first_unused, num_roots, sizeVars, gc_enabled, flagVars,
                   calls, end, should_rerun, did_rerun, compactVars>>

DtorReturns ==
    /\ pc = "calling"
    /\ pc' = "dtor" /\ idx' = idx + 1
    /\ UNCHANGED <<bufVars, sizeVars, gc_enabled, flagVars, calls, end, should_rerun, did_rerun,
                   compactVars>>

\* All called.  "something went wrong": the run ends as it is, active.
DtorDone ==
    /\ pc = "dtor" /\ idx = end
    /\ IF gc_protected
       THEN ReturnToCaller /\ LocalsDie
       ELSE /\ pc' = "destroy" /\ idx' = 1
            /\ UNCHANGED <<calls, end, should_rerun, did_rerun>>
    /\ UNCHANGED <<bufVars, sizeVars, gc_enabled, flagVars, compactVars>>

\* Destroying the contents of the garbage value in one slot, in which its
\* free handler runs; the entry stays.
DestroySlot ==
    /\ pc = "destroy" /\ idx # end
    /\ IF IsGarbage(idx) THEN pc' = "freeing" /\ UNCHANGED idx
       ELSE idx' = idx + 1 /\ UNCHANGED pc
    /\ UNCHANGED <<bufVars, sizeVars, gc_enabled, flagVars, calls, end, should_rerun, did_rerun,
                   compactVars>>

DestroyReturns ==
    /\ pc = "freeing"
    /\ pc' = "destroy" /\ idx' = idx + 1
    /\ UNCHANGED <<bufVars, sizeVars, gc_enabled, flagVars, calls, end, should_rerun, did_rerun,
                   compactVars>>

DestroyDone ==
    /\ pc = "destroy" /\ idx = end
    /\ pc' = "free" /\ idx' = 1
    /\ UNCHANGED <<bufVars, sizeVars, gc_enabled, flagVars, calls, end, should_rerun, did_rerun,
                   compactVars>>

\* Giving back the slot and the memory of one garbage value.
FreeSlot ==
    /\ pc = "free" /\ idx # end
    /\ IF IsGarbage(idx) THEN Unlink(idx, buf[idx].ref)
       ELSE UNCHANGED bufVars
    /\ idx' = idx + 1
    /\ UNCHANGED <<sizeVars, gc_enabled, flagVars, ctlVars, end, should_rerun, did_rerun,
                   compactVars>>

FreeDone ==
    /\ pc = "free" /\ idx = end
    /\ gc_active' = FALSE
    /\ EnterCompact("after")
    /\ UNCHANGED <<buf, info, num_roots, sizeVars, gc_enabled, gc_protected, gc_full, calls,
                   phaseVars>>

\* One rerun, when destructors were called.
After ==
    /\ pc = "after"
    /\ IF should_rerun /\ ~did_rerun THEN did_rerun' = TRUE /\ pc' = "start"
       ELSE pc' = "finish" /\ UNCHANGED did_rerun
    /\ UNCHANGED <<bufVars, sizeVars, gc_enabled, flagVars, calls, idx, end, should_rerun, compactVars>>

Finish ==
    /\ pc = "finish"
    /\ ReturnToCaller
    /\ LocalsDie
    /\ UNCHANGED <<bufVars, sizeVars, gc_enabled, flagVars, compactVars>>

-----------------------------------------------------------------------------
(* gc_possible_root_when_full after the collection it started.             *)

\* gc_adjust_threshold; few: fewer than GC_THRESHOLD_TRIGGER were freed.
AdjustThreshold(few) ==
    /\ pc = "adjust"
    /\ pc' = "place"
    /\ LET more == IF gc_threshold + ThresholdStep > ThresholdMax THEN ThresholdMax
                   ELSE gc_threshold + ThresholdStep
           less == IF gc_threshold - ThresholdStep < ThresholdDefault THEN ThresholdDefault
                   ELSE gc_threshold - ThresholdStep
       IN CASE few /\ gc_threshold < ThresholdMax ->
                 /\ IF more > buf_size THEN GrowRootBuffer ELSE UNCHANGED <<buf_size, flagVars>>
                 /\ gc_threshold' = IF more <= buf_size' THEN more ELSE gc_threshold
            [] ~few /\ gc_threshold > ThresholdDefault ->
                 /\ gc_threshold' = less
                 /\ UNCHANGED <<buf_size, flagVars>>
            [] OTHER -> UNCHANGED <<sizeVars, flagVars>>
    /\ UNCHANGED <<bufVars, gc_enabled, calls, loopVars>>

\* The held value is stored now, unless its last reference is gone or it
\* was rooted meanwhile.
PlaceHeld ==
    /\ pc = "place"
    /\ info[Caller] = NoInfo
    /\ StoreOrGrow(Caller, "root", "purple", info)
    /\ Resume
    /\ UNCHANGED <<gc_threshold, gc_enabled, loopVars>>

DropHeld ==
    /\ pc = "place"
    /\ Resume
    /\ UNCHANGED <<bufVars, sizeVars, gc_enabled, flagVars, loopVars>>

-----------------------------------------------------------------------------
Program == \/ \E enable \in BOOLEAN : GcEnable(enable)
           \/ \E r \in Ref : PossibleRoot(r) \/ RemoveFromBuffer(r)
           \/ Reset \/ Bailout \/ CollectCycles

Collector == \/ Start \/ Trace \/ UnrootSlot \/ UnrootDone
             \/ TagBegin \/ TagSlot \/ CollectWhiteDone \/ Collected
             \/ \E r \in Ref : AddGarbage(r) \/ RemoveNested(r)
             \/ NestedDone \/ DtorSlot \/ DtorReturns \/ DtorDone
             \/ DestroySlot \/ DestroyReturns \/ DestroyDone
             \/ FreeSlot \/ FreeDone \/ After \/ Finish
             \/ CompactMove \/ CompactCross \/ CompactFinish
             \/ \E few \in BOOLEAN : AdjustThreshold(few)
             \/ PlaceHeld \/ DropHeld

Next == Program \/ Collector

Spec == Init /\ [][Next]_vars
-----------------------------------------------------------------------------
(* Properties.                                                             *)

PCs == {"idle", "start", "compact", "trace", "unroot", "tag", "tagging", "collect",
        "nested", "dtor", "calling", "destroy", "freeing", "free", "after", "finish", "adjust", "place"}

\* Every variable has its type.
TypeOK ==
    /\ buf \in [Slots -> Entry]
    /\ info \in [Ref -> [addr : Nat, color : Colors]]
    /\ unused \in Nat /\ first_unused \in Nat /\ num_roots \in Nat
    /\ gc_threshold \in Nat /\ buf_size \in Nat
    /\ gc_enabled \in BOOLEAN /\ gc_active \in BOOLEAN
    /\ gc_protected \in BOOLEAN /\ gc_full \in BOOLEAN
    /\ pc \in PCs /\ ret \in PCs
    /\ idx \in Nat /\ end \in Nat /\ free \in Nat /\ scan \in Nat
    /\ should_rerun \in BOOLEAN /\ did_rerun \in BOOLEAN
    /\ calls \in Seq(Ref \cup {NoRef})

\* The part of the array that counts: while gc_compact runs, the slots
\* right of the scanning finger hold copies of entries moved already.
Top == IF pc = "compact" THEN scan ELSE first_unused - 1
InUse == {i \in 1 .. Top : IsLive(i)}

\* Address and slot agree: a value with an address is in exactly one slot
\* in use, the one its compressed address stands for, and a slot in use
\* holds a value with that address.
AddressesMatchSlots ==
    /\ \A i \in InUse : info[buf[i].ref].addr = Compress(i)
    /\ \A i, j \in InUse : buf[i].ref = buf[j].ref => i = j
    /\ \A r \in Ref : info[r].addr # 0 => \E i \in InUse : buf[i].ref = r

\* num_roots counts the slots in use in every phase: gc_compact and the
\* threshold of a run rely on it.
NumRootsExact == num_roots = Cardinality(InUse)

\* The list of freed slots, followed from its head.
FreeList ==
    LET next[n \in 0 .. MaxBufSize] ==
            IF n = 0 THEN unused
            ELSE IF next[n - 1] \in Slots THEN buf[next[n - 1]].next ELSE 0
    IN {next[n] : n \in 0 .. MaxBufSize} \ {0}

\* No slot is lost and none is listed twice: outside gc_compact the slots
\* below first_unused that are not in use are those on the free list.
FreeListExact ==
    pc # "compact" => FreeList = {i \in 1 .. (first_unused - 1) : ~IsLive(i)}

\* The fast path of gc_possible_root compares with the threshold only, and
\* gc_fetch_next_unused with /=: both stay inside the allocation.
WithinAllocation ==
    /\ first_unused <= buf_size \/ buf_size = 0
    /\ gc_threshold <= buf_size
    /\ ~gc_protected => buf_size # 0
    /\ buf_size <= MaxBufSize

\* The inner loops of gc_compact have no bound of their own: there is
\* always an unused entry for one and a used one for the other to stop at.
FingersStop ==
    pc = "compact" /\ free < scan =>
        /\ \E i \in free .. scan : IsUnused(i)
        /\ \E i \in 1 .. scan : IsLive(i) /\ i >= free - 1

\* Between collections every entry is a root and purple, so that the next
\* gc_mark_roots takes all of them.
RootsPurpleAtRest ==
    pc \in {"idle", "start", "finish"} /\ ~gc_active =>
        \A i \in InUse : IsRoot(i) /\ info[buf[i].ref].color = "purple"

\* gc_collect_roots asserts that every entry it is about to condemn is still
\* a plain root, although gc_add_garbage appends entries to the same array and
\* an aborted run leaves garbage in it.
TagFindsRoots == pc = "tagging" => \A i \in idx .. (end - 1) : IsRoot(i)

\* A program called back by a running collection finds roots in the buffer:
\* gc_collect_cycles() called there returns 0 and does not compact.
CallbackFindsRoots == pc \in {"calling", "freeing"} => gc_active /\ num_roots # 0

\* The buffer is sound: values and slots name one another, num_roots counts
\* them, no slot outside of the allocation is handed out.
BufferSound == WithinAllocation /\ AddressesMatchSlots /\ NumRootsExact

\* Each phase finds the roots it counts on, at rest, when gc_collect_roots tags
\* them, and when a destructor starts another collection.
RootsFound == RootsPurpleAtRest /\ TagFindsRoots /\ CallbackFindsRoots

-----------------------------------------------------------------------------
(* The inductive invariant.  Its parts AddressesMatchSlots and              *)
(* NumRootsExact are the properties; the others are what they rest on.     *)

\* The phases between the flag gc_active being set and being cleared.
InRun == \/ pc \in {"trace", "unroot", "tag", "tagging", "collect", "nested", "dtor",
                     "calling", "destroy", "freeing", "free"}
         \/ pc = "compact" /\ ret \in {"trace", "tag"}

\* The slots the free list may contain, and its links: nothing points to
\* the head, and no two entries point to the same one.
UnusedSlots == {i \in 1 .. (first_unused - 1) : IsUnused(i)}
FreeListLinks ==
    pc # "compact" =>
        /\ unused \in UnusedSlots \cup {0}
        /\ \A i \in UnusedSlots : /\ buf[i].next \in UnusedSlots \cup {0}
                                  /\ buf[i].next = unused => unused = 0
        /\ \A i, j \in UnusedSlots : buf[i].next = buf[j].next => i = j \/ buf[i].next = 0

\* Slots below Top are in use by a value or freed, never uninitialised.
SlotsWellFormed == \A i \in 1 .. Top : \/ IsLive(i) /\ buf[i].ref \in Ref
                                       \/ IsUnused(i) /\ buf[i].ref = NoRef

Allocation ==
    /\ buf_size <= MaxBufSize
    /\ gc_threshold <= buf_size
    /\ buf_size # 0 => first_unused \in 1 .. buf_size
    /\ buf_size = 0 => /\ gc_protected /\ num_roots = 0 /\ first_unused \in {0, 1}
                       /\ pc \in {"idle", "start", "finish"}
                       /\ \A i \in DOMAIN calls : calls[i] = NoRef

\* Control: who waits, and how the loops relate to the array.
Control ==
    /\ pc = "idle" <=> calls = <<>>
    /\ pc \in {"adjust", "place"} => Caller \in Ref
    /\ InRun => gc_active
    /\ pc \in {"trace", "tag", "tagging", "collect"} => num_roots + 1 = first_unused
    /\ pc = "unroot" => idx \in 1 .. end /\ end = first_unused
    /\ pc \in {"tagging", "collect", "dtor", "destroy", "free"} =>
           idx \in 1 .. end /\ end <= first_unused
    /\ pc \in {"calling", "freeing"} => idx \in 1 .. (end - 1) /\ end <= first_unused
    /\ pc = "nested" => idx = 1 /\ end \in 1 .. first_unused
    /\ pc = "calling" => IsRoot(idx)
    /\ pc = "freeing" => IsGarbage(idx)

\* Left of the free finger every slot is in use; while the fingers have not
\* met there is a hole between them.
Fingers ==
    pc = "compact" =>
        /\ ret \in {"trace", "tag", "after"}
        /\ num_roots # 0
        /\ free \in 1 .. (scan + 1) /\ scan < first_unused
        /\ \A i \in 1 .. (free - 1) : IsLive(i)
        /\ free < scan => num_roots < scan

\* From gc_scan_roots to the end of gc_collect_roots.
Whitening == \/ pc \in {"unroot", "tag", "tagging", "collect"}
             \/ pc = "compact" /\ ret = "tag"

\* A value without an address has a colour only while gc_collect_roots can
\* still find it from a white root.
WhitesReachable ==
    /\ \/ Whitening
       \/ \A r \in Ref : info[r].addr = 0 => info[r].color = "black"
    /\ Whitening => \A r \in Ref : info[r].color \in {"black", "white"}
    /\ Whitening /\ pc \notin {"tagging", "collect"} =>
           ((\E r \in Ref : info[r].color = "white") =>
                \E r \in Ref : info[r].color = "white" /\ info[r].addr # 0)
    /\ pc = "tagging" =>
           ((\E r \in Ref : info[r].color = "white") =>
                \E i \in idx .. (end - 1) : info[buf[i].ref].color = "white")

IInv == /\ TypeOK /\ Allocation /\ Control /\ Fingers /\ WhitesReachable
        /\ AddressesMatchSlots /\ NumRootsExact /\ FreeListLinks /\ SlotsWellFormed

-----------------------------------------------------------------------------
(* Two more invariants, inductive with the first: what each phase leaves of *)
(* the tags, and that nothing is lost from the list of freed slots.         *)

Purple(i) == info[buf[i].ref].color = "purple"
PurpleRoots == \A i \in InUse : IsRoot(i) /\ Purple(i)

\* Between gc_mark_roots and the second loop of gc_collect_roots.
RootPhase == \/ pc \in {"trace", "unroot", "tag"}
             \/ pc = "compact" /\ ret \in {"trace", "tag"}

\* The tags an entry can have in the phase that runs: roots until the loop
\* of gc_collect_roots condemns them one by one, roots and the garbage not
\* yet dealt with afterwards, and purple roots only once the flag is off.
TagsOfPhase ==
    /\ ~gc_active => PurpleRoots
    /\ pc = "start" => num_roots = 0 \/ ~gc_active
    /\ pc = "after" \/ (pc = "compact" /\ ret = "after") => ~gc_active
    /\ RootPhase => \A i \in InUse : IsRoot(i)
    /\ pc \in {"tagging", "collect"} =>
           \A i \in InUse : IF i \in idx .. (end - 1) THEN IsRoot(i) ELSE IsGarbage(i)
    /\ pc \in {"nested", "dtor", "calling", "destroy", "freeing", "free"} =>
           \A i \in InUse :
               \/ IsRoot(i) /\ Purple(i)
               \/ /\ IsDtorGarbage(i) /\ Purple(i)
                  /\ pc \in {"nested", "dtor", "calling"} /\ i \in idx .. (end - 1)
               \/ IsGarbage(i) /\ i < end /\ (pc = "free" => idx <= i)

\* A set of freed slots that contains the head of the list, and with a slot
\* the next one, is all of them: no slot was cut off, and there is no cycle
\* beside the list.
Closed(S) == /\ unused # 0 => unused \in S
             /\ \A i \in S : buf[i].next # 0 => buf[i].next \in S
ListWhole == pc # "compact" => \A S \in SUBSET UnusedSlots : Closed(S) => S = UnusedSlots

PhaseInv == TagsOfPhase /\ ListWhole

-----------------------------------------------------------------------------
(* Refinement.                                                             *)

\* The abstract root set this buffer stores: a value has an entry when its
\* address and a slot say so.
RootTags ==
    [r \in Ref |->
        IF info[r].addr = 0 \/ ~\E i \in InUse : buf[i].ref = r THEN "none"
        ELSE buf[CHOOSE i \in InUse : buf[i].ref = r].tag]

RootSet == INSTANCE GcRootSet WITH tags <- RootTags

\* The buffer implements the root set: compaction, growth and reuse of slots
\* change no entry, and each operation changes the entry it is about, which
\* a wrong address or a broken list would not.
ImplementsRootSet == RootSet!Spec
=============================================================================
