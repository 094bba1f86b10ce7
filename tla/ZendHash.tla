------------------------------ MODULE ZendHash ------------------------------
(***************************************************************************)
(* Arrays: the hash tables of Zend/zend_hash.c with the iterators that     *)
(* foreach by reference keeps in them (Zend/zend_vm_def.h).                *)
(*                                                                         *)
(* A table is allocated on first use, starts packed (the bucket's index is *)
(* its key) while keys are small integers in order, becomes a real hash    *)
(* table otherwise, doubles when full and is compacted when it has holes.  *)
(* Variables share a table until one of them is written to (SEPARATE_ARRAY,*)
(* zend_array_dup).  An iterator is an entry of EG(ht_iterators) that      *)
(* points to the table by address and holds a position in it; it does not  *)
(* keep the table alive.  nIteratorsCount tells a table that positions     *)
(* must follow its buckets, and that its iterators must be poisoned when   *)
(* it is destroyed.                                                        *)
(*                                                                         *)
(* A collision chain is the sequence of bucket indexes that following      *)
(* Z_NEXT from the chain's head visits.  Values are left out: writing to a *)
(* key that exists changes no field.                                       *)
(***************************************************************************)
EXTENDS Integers, FiniteSets, Sequences, SequencesExt

CONSTANTS
    Tables,             \* addresses of HashTables
    Vars,               \* PHP variables that hold an array
    Names, HashOf,      \* string keys, their hash values
    Ints,               \* integer keys the program uses
    MinSize,            \* HT_MIN_SIZE
    Saturated,          \* 0xff, the iterator count that sticks
    Iterators,          \* foreach loops by reference at one time
    Literals,           \* array literals to start from: their numbers of elements,
                        \* and of those that next() has passed
    Writes,             \* bound on what the program does
    Hole, Nobody, Poisoned

Keys == Ints \cup Names

ASSUME KeysAssumption ==
    /\ Ints \subseteq Nat
    /\ Names \cap Ints = {}
    /\ HashOf \in [Names -> Nat]
    /\ Hole \notin Keys

ASSUME SizesAssumption ==
    /\ MinSize \in Nat \ {0} /\ Saturated \in Nat \ {0}
    /\ Iterators \in Nat /\ Writes \in Nat
    /\ Literals \subseteq Nat \X Nat
    /\ \A a \in Literals : a[2] <= a[1] /\ 0 .. a[1] - 1 \subseteq Ints

ASSUME TablesAssumption ==
    /\ IsFiniteSet(Tables) /\ IsFiniteSet(Vars)
    /\ {Nobody, Poisoned} \cap Tables = {}
    /\ Nobody # Poisoned

VARIABLES
    table,      \* the HashTable at every address
    vars,       \* the table every variable holds
    iter,       \* EG(ht_iterators); over: the variable of the entry's loop
    used,       \* EG(ht_iterators_used)
    writes
allvars == <<table, vars, iter, used, writes>>

\* What an address holds where no table is.
Free == [kind |-> "free"]

Slots == 0 .. Iterators - 1
NoIterator == [ht |-> Nobody, pos |-> 0, over |-> Nobody]

-----------------------------------------------------------------------------
(* Reading a table                                                         *)

Least(S) == CHOOSE x \in S : \A y \in S : x <= y

Indices(h) == {i \in 0 .. h.nNumUsed - 1 : h.at[i] # Hole}
Holes(h) == {i \in 0 .. h.nNumUsed - 1 : h.at[i] = Hole}
Before(h, pos) == {i \in Indices(h) : i < pos}
Elements(h) == {h.at[i] : i \in Indices(h)}

\* The first element at pos or later, where nNumUsed and beyond is the end.
ValidPos(h, pos) ==
    IF pos >= h.nNumUsed THEN pos
    ELSE Least({i \in Indices(h) : i >= pos} \cup {h.nNumUsed})

\* Bucket indexes in ascending order.
InOrder(S) == [n \in 1 .. Cardinality(S) |->
                  CHOOSE i \in S : Cardinality({j \in S : j < i}) = n - 1]

Hash(k) == IF k \in Names THEN HashOf[k] ELSE k
Chain(h, k) == Hash(k) % (2 * h.nTableSize)
Reset(h) == [c \in 0 .. 2 * h.nTableSize - 1 |-> <<>>]

\* Every bucket in turn becomes the head of its chain.
Rechained(h) == [h EXCEPT !.chain =
    [c \in DOMAIN Reset(h) |-> Reverse(InOrder({i \in Indices(h) : Chain(h, h.at[i]) = c}))]]

\* What a search of k's chain finds.
Found(h, k) == IF h.kind # "hash" THEN {i \in Indices(h) : h.at[i] = k}
               ELSE {i \in ToSet(h.chain[Chain(h, k)]) : h.at[i] = k}

-----------------------------------------------------------------------------
(* A table with its iterators' positions: w.h and w.pos                    *)

HasIterators(h) == h.nIteratorsCount # 0

LowerPos(h, pos, start) ==
    Least({pos[x] : x \in {x \in DOMAIN pos : pos[x] >= start /\ pos[x] < h.nNumUsed}}
          \cup {h.nNumUsed})

Update(w, from, to) ==
    IF ~HasIterators(w.h) THEN w
    ELSE [w EXCEPT !.pos = [x \in DOMAIN @ |-> IF @[x] = from THEN to ELSE @[x]]]

\* Faulty variant: positions stay where they were.
CarriedNot(w) == w.pos

\* The element at i moves; s.low is the lowest position still to be looked at.
Carry(h, s, i) ==
    LET moved == [x \in DOMAIN s.pos |->
            IF s.pos[x] = s.low \/ (s.low < s.pos[x] /\ s.pos[x] < i)
            THEN Cardinality(Before(h, i)) ELSE s.pos[x]]
    IN IF i < s.low THEN s
       ELSE [pos |-> moved, low |-> LowerPos(h, moved, IF i = s.low THEN i + 1 ELSE i)]

\* Elements move down into the holes.  Positions are carried along, one after
\* the other from the lowest of all, as the elements behind them move.
Carried(w) ==
    LET order == InOrder({i \in Indices(w.h) : i > Least(Holes(w.h))})
        carried[n \in 0 .. Len(order)] ==
            IF n = 0 THEN [pos |-> w.pos, low |-> LowerPos(w.h, w.pos, 0)]
            ELSE Carry(w.h, carried[n - 1], order[n])
    IN IF HasIterators(w.h) THEN carried[Len(order)].pos ELSE w.pos

\* Faulty variant: the internal pointer stays at its index.
CompactStill(h) ==
    LET order == InOrder(Indices(h))
        n == Len(order)
    IN [h EXCEPT !.at = [i \in 0 .. n - 1 |-> h.at[order[i + 1]]], !.nNumUsed = n]

Compact(h) ==
    LET order == InOrder(Indices(h))
        n == Len(order)
    IN [h EXCEPT !.at = [i \in 0 .. n - 1 |-> h.at[order[i + 1]]],
                 !.nNumUsed = n,
                 !.nInternalPointer =
                     IF @ \in Indices(h) THEN Cardinality(Before(h, @)) ELSE @]

Rehash(w) ==
    IF w.h.nNumOfElements = 0
    THEN [w EXCEPT !.h.nNumUsed = 0, !.h.at = <<>>, !.h.chain = Reset(w.h)]
    ELSE IF w.h.nNumUsed = w.h.nNumOfElements THEN [w EXCEPT !.h = Rechained(@)]
    ELSE Update([h |-> Rechained(Compact(w.h)), pos |-> Carried(w)],
                w.h.nNumUsed, Cardinality(Indices(w.h)))

Double(w) == [w EXCEPT !.h.nTableSize = 2 * @]

DoResize(w) == IF w.h.nNumUsed > w.h.nNumOfElements + w.h.nNumOfElements \div 32
               THEN Rehash(w) ELSE Rehash(Double(w))

PackedToHash(w) == Rehash([w EXCEPT !.h.kind = "hash"])

\* zend_hash_real_init: that of a hash table of another than the minimal size
\* overwrites the iterator count with the flags.
RealInit(w, kind) ==
    [w EXCEPT !.h.kind = kind,
              !.h.chain = IF kind = "hash" THEN Reset(w.h) ELSE <<>>,
              !.h.nIteratorsCount = IF kind = "hash" /\ w.h.nTableSize # MinSize THEN 0 ELSE @]

-----------------------------------------------------------------------------
(* Insertion                                                               *)

NextFree(h, k) ==
    IF k \in Ints /\ k >= h.nNextFreeElement THEN k + 1 ELSE h.nNextFreeElement

\* A bucket of a hash table and of a packed array is filled.
PutLast(h, k) ==
    LET i == h.nNumUsed
    IN [h EXCEPT !.nNumUsed = i + 1,
                 !.nNumOfElements = @ + 1,
                 !.at = [j \in 0 .. i |-> IF j = i THEN k ELSE @[j]],
                 !.chain[Chain(h, k)] = <<i>> \o @,
                 !.nNextFreeElement = NextFree(h, k)]

PutAt(h, k) ==
    [h EXCEPT !.nNumUsed = k + 1,
              !.nNumOfElements = @ + 1,
              !.at = [j \in 0 .. k |-> IF j = k THEN k
                                       ELSE IF j < h.nNumUsed THEN @[j] ELSE Hole],
              !.nNextFreeElement = k + 1]

AddToHash(w, k) == [w EXCEPT !.h = PutLast(@, k)]
AddToPacked(w, k) == [w EXCEPT !.h = PutAt(@, k)]

IfFullDoResize(w) == IF w.h.nNumUsed >= w.h.nTableSize THEN DoResize(w) ELSE w

\* _zend_hash_add_or_update_i, k a string that is not there yet
AddName(w, k) ==
    CASE w.h.kind = "uninit" -> AddToHash(RealInit(w, "hash"), k)
      [] w.h.kind = "packed" -> AddToHash(IfFullDoResize(PackedToHash(w)), k)
      [] w.h.kind = "hash"   -> AddToHash(IfFullDoResize(w), k)

\* Faulty variant: a full table is not doubled when it becomes a hash table.
AddIndexFull(w, k) ==
    LET h == w.h
    IN CASE h.kind = "uninit" ->
                IF k < h.nTableSize THEN AddToPacked(RealInit(w, "packed"), k)
                ELSE AddToHash(RealInit(w, "hash"), k)
         [] h.kind = "packed" ->
                IF k < h.nNumUsed THEN AddToHash(PackedToHash(w), k)
                ELSE IF k < h.nTableSize THEN AddToPacked(w, k)
                ELSE AddToHash(PackedToHash(w), k)
         [] h.kind = "hash" -> AddToHash(IfFullDoResize(w), k)

\* _zend_hash_index_add_or_update_i, k an integer that is not there yet
AddIndex(w, k) ==
    LET h == w.h
    IN CASE h.kind = "uninit" ->
                IF k < h.nTableSize THEN AddToPacked(RealInit(w, "packed"), k)
                ELSE AddToHash(RealInit(w, "hash"), k)
         [] h.kind = "packed" ->
                IF k < h.nNumUsed THEN AddToHash(PackedToHash(w), k)
                ELSE IF k < h.nTableSize THEN AddToPacked(w, k)
                ELSE IF k \div 2 < h.nTableSize /\ h.nTableSize \div 2 < h.nNumOfElements
                THEN AddToPacked(Double(w), k)
                ELSE AddToHash(PackedToHash(IF h.nNumUsed >= h.nTableSize
                                            THEN Double(w) ELSE w), k)
         [] h.kind = "hash" -> AddToHash(IfFullDoResize(w), k)

Add(w, k) == IF Found(w.h, k) # {} THEN w
             ELSE IF k \in Names THEN AddName(w, k) ELSE AddIndex(w, k)

-----------------------------------------------------------------------------
(* Deletion                                                                *)

\* The pointer and the iterators on the element move to the next one; when
\* it is the last, the holes before it are given up with it.
Advance(w, i) ==
    Update([w EXCEPT !.h.nInternalPointer = IF @ = i THEN ValidPos(w.h, i + 1) ELSE @],
           i, ValidPos(w.h, i + 1))

Trim(h, i) ==
    LET n == IF Before(h, i) = {} THEN 0
             ELSE 1 + CHOOSE x \in Before(h, i) : \A y \in Before(h, i) : y <= x
    IN IF h.nNumUsed - 1 # i
       THEN [h EXCEPT !.at[i] = Hole]
       ELSE [h EXCEPT !.nNumUsed = n,
                      !.at = [j \in 0 .. n - 1 |-> @[j]],
                      !.nInternalPointer = IF @ < n THEN @ ELSE n]

\* Faulty variant: a deleted bucket stays in its chain.
UnchainNot(h, i) == h

OffChain(chain, i) == RemoveAt(chain, CHOOSE n \in DOMAIN chain : chain[n] = i)

Unchain(h, i) == IF h.kind # "hash" THEN h
                 ELSE [h EXCEPT !.chain[Chain(h, h.at[i])] = OffChain(@, i)]

DelEl(w, i) ==
    LET moved == Advance([w EXCEPT !.h.nNumOfElements = @ - 1], i)
    IN [moved EXCEPT !.h = Trim(Unchain(@, i), i)]

Del(w, k) == IF Found(w.h, k) = {} THEN w ELSE DelEl(w, Least(Found(w.h, k)))

-----------------------------------------------------------------------------
(* Sharing                                                                 *)

Empty(next) ==
    [kind |-> "uninit", nTableSize |-> MinSize, nNumUsed |-> 0, nNumOfElements |-> 0,
     nNextFreeElement |-> next, nInternalPointer |-> 0, nIteratorsCount |-> 0,
     at |-> <<>>, chain |-> <<>>]

Dup(h) ==
    LET pointer == IF h.nInternalPointer < h.nNumUsed THEN h.nInternalPointer ELSE 0
        target == [h EXCEPT !.nIteratorsCount = 0, !.nInternalPointer = pointer]
    IN IF h.nNumOfElements = 0 THEN Empty(h.nNextFreeElement)
       ELSE IF h.kind = "packed" THEN target
       ELSE Rechained(Compact(target))

Shared(v) == \E x \in Vars \ {v} : vars[x] = vars[v]

\* SEPARATE_ARRAY: the tables and variables once v has a table of its own.
Separated(v) ==
    IF ~Shared(v) THEN {[table |-> table, vars |-> vars]}
    ELSE {[table |-> [table EXCEPT ![t] = Dup(table[vars[v]])],
           vars |-> [vars EXCEPT ![v] = t]] : t \in {t \in Tables : table[t] = Free}}

Attached(t) == {x \in Slots : x < used /\ iter[x].ht = t}
With(h, t) == [h |-> h, pos |-> [x \in Attached(t) |-> iter[x].pos]]
Positions(w) == [x \in Slots |-> IF x \in DOMAIN w.pos
                                 THEN [iter[x] EXCEPT !.pos = w.pos[x]] ELSE iter[x]]

\* v gets a table of its own and Op changes it.
Write(v, Op(_)) ==
    \E own \in Separated(v) :
        LET t == own.vars[v]
            w == Op(With(own.table[t], t))
        IN /\ table' = [own.table EXCEPT ![t] = w.h]
           /\ vars' = own.vars
           /\ iter' = Positions(w)
           /\ UNCHANGED used

\* The variable lets go of its table; nobody else holds it: it is destroyed.
Released(tb, v) == IF Shared(v) THEN tb ELSE [tb EXCEPT ![vars[v]] = Free]
IteratorsRemove(v) ==
    iter' = IF Shared(v) \/ ~HasIterators(table[vars[v]]) THEN iter
            ELSE [x \in Slots |-> IF x \in Attached(vars[v])
                                  THEN [iter[x] EXCEPT !.ht = Poisoned] ELSE iter[x]]

-----------------------------------------------------------------------------
(* Iterators                                                               *)

Inc(h) == IF h.nIteratorsCount = Saturated THEN h ELSE [h EXCEPT !.nIteratorsCount = @ + 1]
Dec(h) == IF h.nIteratorsCount = Saturated THEN h ELSE [h EXCEPT !.nIteratorsCount = @ - 1]

\* zend_hash_iterator_del, given the tables
Deleted(tb, t) == IF t \in Tables THEN [tb EXCEPT ![t] = Dec(@)] ELSE tb

LastUsed(it, x) ==
    IF x # used - 1 THEN used
    ELSE IF \A y \in Slots : y < x => it[y].ht = Nobody THEN 0
    ELSE 1 + CHOOSE y \in Slots : /\ y < x /\ it[y].ht # Nobody
                                  /\ \A z \in Slots : y < z /\ z < x => it[z].ht = Nobody

\* zend_hash_iterator_pos_ex: an iterator whose variable holds another table
\* by now is attached to that one, at its internal pointer.  The test for a
\* saturated count reads the new table, not the one that is left.
Reattached(x, v) ==
    LET old == iter[x].ht
        left == IF old \in Tables /\ table[vars[v]].nIteratorsCount # Saturated
                THEN [table EXCEPT ![old].nIteratorsCount = @ - 1] ELSE table
    IN IF old = vars[v]
       THEN {[table |-> table, vars |-> vars, pos |-> iter[x].pos]}
       ELSE IF ~Shared(v)
       THEN {[table |-> [left EXCEPT ![vars[v]] = Inc(@)], vars |-> vars,
              pos |-> ValidPos(table[vars[v]], table[vars[v]].nInternalPointer)]}
       ELSE {[table |-> [left EXCEPT ![t] = Inc(Dup(left[vars[v]]))],
              vars |-> [vars EXCEPT ![v] = t],
              pos |-> ValidPos(Dup(table[vars[v]]), Dup(table[vars[v]]).nInternalPointer)] :
                t \in {t \in Tables : table[t] = Free}}

-----------------------------------------------------------------------------
(* The program                                                             *)

Spend == writes < Writes /\ writes' = writes + 1

\* $v[k] = ...
Set(v, k) == Spend /\ Write(v, LAMBDA w : Add(w, k))

\* $v[] = ...
Push(v) == LET k == table[vars[v]].nNextFreeElement
           IN k \in Ints /\ Spend /\ Write(v, LAMBDA w : Add(w, k))

\* unset($v[k])
Unset(v, k) == Spend /\ Write(v, LAMBDA w : Del(w, k))

\* reset($v), end($v), next($v)
Rewind(v) == Spend /\ Write(v, LAMBDA w :
                 [w EXCEPT !.h.nInternalPointer = ValidPos(w.h, 0)])
GoToEnd(v) == Spend /\ Write(v, LAMBDA w :
    [w EXCEPT !.h.nInternalPointer =
         IF Indices(w.h) = {} THEN w.h.nNumUsed
         ELSE CHOOSE i \in Indices(w.h) : \A j \in Indices(w.h) : j <= i])
MoveForward(v) == Spend /\ Write(v, LAMBDA w :
    LET p == ValidPos(w.h, w.h.nInternalPointer)
    IN [w EXCEPT !.h.nInternalPointer =
            IF p < w.h.nNumUsed THEN ValidPos(w.h, p + 1) ELSE @])

\* $v = $x
Assign(v, x) ==
    /\ vars[v] # vars[x]
    /\ Spend
    /\ vars' = [vars EXCEPT ![v] = vars[x]]
    /\ table' = Released(table, v)
    /\ IteratorsRemove(v)
    /\ UNCHANGED used

\* $v = []
Clear(v) ==
    /\ Spend
    /\ \E t \in {t \in Tables : table[t] = Free} :
          /\ vars' = [vars EXCEPT ![v] = t]
          /\ table' = Released([table EXCEPT ![t] = Empty(0)], v)
    /\ IteratorsRemove(v)
    /\ UNCHANGED used

\* FE_RESET_RW: foreach ($v as &...) begins
IteratorAdd(v) ==
    /\ \E x \in Slots : iter[x].ht = Nobody
    /\ \E own \in Separated(v) :
          LET x == Least({y \in Slots : iter[y].ht = Nobody})
              t == own.vars[v]
          IN /\ table' = [own.table EXCEPT ![t] = Inc(@)]
             /\ vars' = own.vars
             /\ iter' = [iter EXCEPT ![x] = [ht |-> t, pos |-> 0, over |-> v]]
             /\ used' = IF x + 1 > used THEN x + 1 ELSE used
    /\ UNCHANGED writes

\* FE_FETCH_RW: the next element, or the end of the loop (FE_FREE)
Fetch(x) ==
    /\ iter[x].ht # Nobody
    /\ \E r \in Reattached(x, iter[x].over) :
          LET t == r.vars[iter[x].over]
              pos == ValidPos(r.table[t], r.pos)
              done == [iter EXCEPT ![x] = NoIterator]
          IN /\ vars' = r.vars
             /\ \/ /\ pos < r.table[t].nNumUsed
                   /\ table' = r.table
                   /\ iter' = [iter EXCEPT ![x].ht = t, ![x].pos = pos + 1]
                   /\ UNCHANGED used
                \/ /\ pos >= r.table[t].nNumUsed
                   /\ table' = Deleted(r.table, t)
                   /\ iter' = done
                   /\ used' = LastUsed(done, x)
    /\ UNCHANGED writes

\* break
FeFree(x) ==
    LET done == [iter EXCEPT ![x] = NoIterator]
    IN /\ iter[x].ht # Nobody
       /\ table' = Deleted(table, iter[x].ht)
       /\ iter' = done
       /\ used' = LastUsed(done, x)
       /\ UNCHANGED <<vars, writes>>

\* An array literal is packed and full.
Literal(n, passed) ==
    LET size[i \in 0 .. n] == IF i = 0 THEN MinSize ELSE 2 * size[i - 1]
    IN IF n = 0 THEN Empty(0)
       ELSE [Empty(n) EXCEPT !.kind = "packed", !.nNumUsed = n, !.nNumOfElements = n,
                 !.at = [i \in 0 .. n - 1 |-> i], !.nInternalPointer = passed,
                 !.nTableSize = Least({s \in {size[i] : i \in 0 .. n} : s >= n})]

Init ==
    /\ vars \in {f \in [Vars -> Tables] : \A v, x \in Vars : f[v] = f[x] => v = x}
    /\ \E literal \in [Vars -> Literals] :
          table = [t \in Tables |->
              IF \E v \in Vars : vars[v] = t
              THEN LET a == literal[CHOOSE v \in Vars : vars[v] = t] IN Literal(a[1], a[2])
              ELSE Free]
    /\ iter = [x \in Slots |-> NoIterator]
    /\ used = 0
    /\ writes = 0

Next ==
    \/ \E v \in Vars :
          \/ \E k \in Keys : Set(v, k) \/ Unset(v, k)
          \/ Push(v) \/ Rewind(v) \/ GoToEnd(v) \/ MoveForward(v)
          \/ \E x \in Vars : Assign(v, x)
          \/ Clear(v) \/ IteratorAdd(v)
    \/ \E x \in Slots : Fetch(x) \/ FeFree(x)

Spec == Init /\ [][Next]_allvars

-----------------------------------------------------------------------------
(* Properties                                                              *)

Live == {t \in Tables : table[t] # Free}

IsTable(h) ==
    /\ h.kind \in {"uninit", "packed", "hash"}
    /\ h.nTableSize \in Nat \ {0}
    /\ h.nNumUsed \in 0 .. h.nTableSize
    /\ h.nNumOfElements \in 0 .. h.nNumUsed
    /\ h.at \in [0 .. h.nNumUsed - 1 -> Keys \cup {Hole}]
    /\ h.nNextFreeElement \in Nat
    /\ h.nInternalPointer \in Nat
    /\ h.nIteratorsCount \in 0 .. Saturated

\* Every variable of the model keeps its type; no bucket is used beyond the
\* table's size; exactly the tables that a variable holds are allocated.
TypeOK ==
    /\ vars \in [Vars -> Tables]
    /\ \A t \in Tables : table[t] = Free \/ IsTable(table[t])
    /\ Live = {vars[v] : v \in Vars}
    /\ \A x \in Slots : /\ iter[x].ht \in Tables \cup {Nobody, Poisoned}
                        /\ iter[x].pos \in Nat
                        /\ iter[x].over \in Vars \cup {Nobody}
    /\ used \in 0 .. Iterators
    /\ writes \in 0 .. Writes

\* Whatever mix of insertion, deletion, growth, compaction, conversion and
\* copying made a table: every element is found from the head of its chain and
\* nothing else is, no key is there twice, a packed element is at the index
\* that is its key, nNumOfElements counts the elements, nNextFreeElement is
\* beyond every integer key, and the last bucket in use is not a hole.
TablesExact == \A t \in Live :
    LET h == table[t]
    IN /\ h.kind = "hash" => h.chain = Rechained(h).chain
       /\ \A i, j \in Indices(h) : h.at[i] = h.at[j] => i = j
       /\ h.kind = "packed" => \A i \in Indices(h) : h.at[i] = i
       /\ h.nNumOfElements = Cardinality(Indices(h))
       /\ \A k \in Elements(h) \cap Ints : k < h.nNextFreeElement
       /\ h.nNumUsed > 0 => h.nNumUsed - 1 \in Indices(h)

\* A table knows of its iterators.  nIteratorsCount counts the entries of
\* EG(ht_iterators) that point to it, all of them below ht_iterators_used, and
\* no entry points to a table that was destroyed, whose address another table
\* may have by now.
CountCovers ==
    /\ \A x \in Slots : iter[x].ht # Nobody => x < used
    /\ \A x \in Slots : iter[x].ht \in Tables => iter[x].ht \in Live
    /\ \A t \in Live : table[t].nIteratorsCount =
           Cardinality({x \in Slots : iter[x].ht = t})

\* The tables of the program are sound, and know of their iterators.
TablesSound == TablesExact /\ CountCovers

\* The pointer's part of the refinement: where it stands among the elements.
Value(h) ==
    LET order == InOrder(Indices(h))
    IN [keys |-> [n \in DOMAIN order |-> h.at[order[n]]],
        current |-> Cardinality(Before(h, h.nInternalPointer)),
        late |-> h.nInternalPointer \in Holes(h) \ {0}]
Abstract == INSTANCE OrderedArrays WITH array <- [v \in Vars |-> Value(table[vars[v]])]

\* Every variable has an array of its own: writing to one never changes what
\* another one holds, elements keep the order in which they were inserted and
\* the current element stays the current one, although tables are shared,
\* copied, compacted and converted.
ImplementsArrays == Abstract!Spec

Behind(tb, it, x) == {tb[it[x].ht].at[i] : i \in Before(tb[it[x].ht], it[x].pos)}
Ahead(tb, it, x) == Elements(tb[it[x].ht]) \ Behind(tb, it, x)

\* The iterator is attached to the same table before and after the step, and
\* the step is not the loop's own.
Stays(x) == /\ iter[x].ht \in Live /\ iter'[x].ht = iter[x].ht
            /\ table'[iter[x].ht] # Free
            /\ ~Fetch(x)

\* The one iterator of its table, not past its end nor before its first hole.
Alone(x) == LET h == table[iter[x].ht]
            IN /\ \A y \in Slots \ {x} : iter[y].ht # iter[x].ht
               /\ iter[x].pos <= h.nNumUsed
               /\ \A i \in Holes(h) : i <= iter[x].pos

\* Elements move while loops run over them.  What a loop has passed is never
\* ahead of it again.  For the only loop on a table that is at its end or
\* after its first hole, what was ahead stays ahead and what is inserted is
\* ahead too: the loop misses nothing.  Beyond that zend_hash_rehash does not
\* carry iterators along as it means to: it starts at the lowest position, and
\* an iterator before the first hole goes where that hole is filled.
IteratorsFollow == [][\A x \in Slots : Stays(x) =>
    LET now == Elements(table'[iter[x].ht])
        new == now \ Elements(table[iter[x].ht])
    IN /\ Behind(table, iter, x) \cap now \subseteq Behind(table', iter', x)
       /\ Alone(x) => (Ahead(table, iter, x) \cap now) \cup new
                          \subseteq Ahead(table', iter', x)]_allvars
=============================================================================
