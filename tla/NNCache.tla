------------------------------ MODULE NNCache ------------------------------
(***************************************************************************)
(* The NN cache (src/src/utils/cache.h) and the computations that use it   *)
(* (src/src/neural/cache.cc): a hash table with linear probing that evicts *)
(* in insertion order, whose entries are pinned while a lock on them is    *)
(* held.  One step is one section under the spin mutex, or what a thread   *)
(* does before it takes the mutex: the unlocked test of capacity_.         *)
(***************************************************************************)
EXTENDS Integers, Sequences, FiniteSets, FiniteSetsExt, SequencesExt

CONSTANTS
    Clients,        \* CachingComputations, one per search worker
    Keys,           \* position hashes
    Values,         \* addresses of CachedNNRequests
    NoValue,        \* the null pointer
    Capacities,     \* the capacities that are configured
    InitialCapacity,
    MaxBatch        \* bound: lookups of one computation

ASSUME ValuesAssumption == NoValue \notin Values

ASSUME KeysAssumption == Keys \subseteq Nat

ASSUME CapacitiesAssumption ==
    /\ Capacities \subseteq Nat /\ InitialCapacity \in Capacities
    /\ IsFiniteSet(Clients) /\ MaxBatch \in Nat

VARIABLES
    capacity,   \* capacity_, read without the mutex
    table,      \* what the mutex guards: hash_, size_, allocated_,
                \* insertion_order_ and evicted_
    batch,      \* batch_ of each computation: hash and lock of each item
    pc,         \* where each computation is
    key,        \* the key of a lookup past the test of capacity_
    todo,       \* ComputeBlocking: the hashes whose evaluation is not inserted
    fresh       \* ComputeBlocking: the evaluation about to be inserted

client == <<pc, key, todo, fresh>>
vars == <<capacity, table, batch, client>>

---------------------------------------------------------------------------
(* The hash table.                                                         *)

Free == [in_use |-> FALSE, key |-> 0, value |-> NoValue, pins |-> 0]

\* static_cast<size_t>(capacity * 1.9 + 1) unused slots.
EmptyHash(n) == [i \in 0..((19 * n) \div 10) |-> Free]

Slots(hash) == Cardinality(DOMAIN hash)

InUse(hash) == {i \in DOMAIN hash : hash[i].in_use}

\* The probe for k ends at the first slot that is unused or holds k.
ProbeEnds(hash, k) ==
    {d \in DOMAIN hash : LET slot == hash[(k + d) % Slots(hash)]
                         IN  ~slot.in_use \/ slot.key = k}

Find(hash, k) == (k + Min(ProbeEnds(hash, k))) % Slots(hash)

ContainsKey(hash, k) == hash[Find(hash, k)].in_use

\* Mutant: the hole itself counts as a place to stay.
InRangeOrHole(target, start, end) ==
    IF start <= end THEN target >= start - 1 /\ target <= end
                    ELSE target >= start - 1 \/ target <= end

InRange(target, start, end) ==
    IF start <= end THEN target >= start /\ target <= end
                    ELSE target >= start \/ target <= end

\* One turn of the loop that closes the hole at s.idx: the entry at s.next moves
\* back into the hole, unless that is before the slot it hashes to, and the hole
\* moves with it.
ShiftBack(s) ==
    LET after == (s.next + 1) % Slots(s.hash)
    IN  IF ~s.hash[s.next].in_use THEN s
        ELSE IF InRange(s.hash[s.next].key % Slots(s.hash), s.idx + 1, s.next)
        THEN [s EXCEPT !.next = after]
        ELSE [hash |-> [s.hash EXCEPT ![s.idx] = s.hash[s.next], ![s.next] = s.hash[s.idx]],
              idx |-> s.next, next |-> after]

\* Slot idx was freed; the loop has ended before it went round the table twice.
CloseHole(hash, idx) ==
    LET turn[r \in 0..(2 * Slots(hash))] ==
            IF r = 0 THEN [hash |-> hash, idx |-> idx, next |-> (idx + 1) % Slots(hash)]
            ELSE ShiftBack(turn[r - 1])
    IN  turn[2 * Slots(hash)].hash

Vacate(hash, idx) == CloseHole([hash EXCEPT ![idx] = Free], idx)

\* Mutant: the newest entry leaves the table.
EvictNewest(t) ==
    LET k == Last(t.insertion_order)
        idx == Find(t.hash, k)
        entry == t.hash[idx]
        left == [t EXCEPT !.size = @ - 1, !.insertion_order = Front(@), !.hash = Vacate(@, idx)]
    IN  IF entry.pins = 0
        THEN [left EXCEPT !.allocated = @ - 1]
        ELSE [left EXCEPT !.evicted =
                 @ \cup {[key |-> k, value |-> entry.value, pins |-> entry.pins]}]

\* The oldest entry leaves the table; a pinned one moves to evicted_.
EvictItem(t) ==
    LET k == Head(t.insertion_order)
        idx == CHOOSE i \in InUse(t.hash) : t.hash[i].key = k
        entry == t.hash[idx]
        left == [t EXCEPT !.size = @ - 1, !.insertion_order = Tail(@),
                          !.hash = Vacate(@, idx)]
    IN  IF entry.pins = 0
        THEN [left EXCEPT !.allocated = @ - 1]
        ELSE [left EXCEPT !.evicted =
                 @ \cup {[key |-> k, value |-> entry.value, pins |-> entry.pins]}]

EvictToCapacity(t, n) ==
    LET evicted[m \in 0..t.size] == IF m = 0 THEN t ELSE EvictItem(evicted[m - 1])
    IN  IF t.size <= n THEN t ELSE evicted[t.size - n]

RehashItem(new, item) ==
    IF item.in_use THEN [new EXCEPT ![Find(new, item.key)] = item] ELSE new

\* The entries move to a table for capacity n, slot by slot.
Rehash(hash, n) ==
    LET moved[i \in 0..Slots(hash)] ==
            IF i = 0 THEN EmptyHash(n) ELSE RehashItem(moved[i - 1], hash[i - 1])
    IN  moved[Slots(hash)]

InsertNew(t, k, v) ==
    [t EXCEPT !.hash = [@ EXCEPT ![Find(@, k)] =
                          [in_use |-> TRUE, key |-> k, value |-> v, pins |-> 0]],
              !.insertion_order = Append(@, k), !.size = @ + 1, !.allocated = @ + 1]

\* Mutant: the table is searched first, by key alone.
UnpinByKey(t, k, v) ==
    IF ContainsKey(t.hash, k)
    THEN [t EXCEPT !.hash[Find(t.hash, k)].pins = @ - 1]
    ELSE LET entry == CHOOSE e \in t.evicted : e.key = k /\ e.value = v
         IN  IF entry.pins > 1
             THEN [t EXCEPT !.evicted = (@ \ {entry}) \cup {[entry EXCEPT !.pins = @ - 1]}]
             ELSE [t EXCEPT !.evicted = @ \ {entry}, !.allocated = @ - 1]

\* Mutant: an evicted entry is dropped and still counted as allocated.
UnpinUncounted(t, k, v) ==
    IF \E e \in t.evicted : e.key = k /\ e.value = v
    THEN LET entry == CHOOSE e \in t.evicted : e.key = k /\ e.value = v
         IN  IF entry.pins > 1
             THEN [t EXCEPT !.evicted = (@ \ {entry}) \cup {[entry EXCEPT !.pins = @ - 1]}]
             ELSE [t EXCEPT !.evicted = @ \ {entry}]
    ELSE [t EXCEPT !.hash[Find(t.hash, k)].pins = @ - 1]

\* The evicted entries first, then the table; the last pin frees an evicted one.
Unpin(t, k, v) ==
    IF \E e \in t.evicted : e.key = k /\ e.value = v
    THEN LET entry == CHOOSE e \in t.evicted : e.key = k /\ e.value = v
         IN  IF entry.pins > 1
             THEN [t EXCEPT !.evicted = (@ \ {entry}) \cup {[entry EXCEPT !.pins = @ - 1]}]
             ELSE [t EXCEPT !.evicted = @ \ {entry}, !.allocated = @ - 1]
    ELSE [t EXCEPT !.hash[Find(t.hash, k)].pins = @ - 1]

Release(t, item) == IF item.lock = NoValue THEN t ELSE Unpin(t, item.hash, item.lock)

---------------------------------------------------------------------------
(* CachingComputation: lookups, one computation, release.                  *)

Live == {table.hash[i].value : i \in InUse(table.hash)} \cup {e.value : e \in table.evicted}
           \cup {fresh[c] : c \in Clients}

Init ==
    /\ capacity = InitialCapacity
    /\ table = [hash |-> EmptyHash(InitialCapacity), size |-> 0, allocated |-> 0,
                insertion_order |-> <<>>, evicted |-> {}]
    /\ batch = [c \in Clients |-> <<>>]
    /\ pc = [c \in Clients |-> "add"]
    /\ key = [c \in Clients |-> 0]
    /\ todo = [c \in Clients |-> <<>>]
    /\ fresh = [c \in Clients |-> NoValue]

AddItem(c, k, lock) == batch' = [batch EXCEPT ![c] = Append(@, [hash |-> k, lock |-> lock])]

\* AddInput: with capacity 0 a miss without taking the mutex.
AddInput(c, k) ==
    /\ pc[c] = "add"
    /\ Len(batch[c]) < MaxBatch
    /\ IF capacity = 0
       THEN AddItem(c, k, NoValue) /\ UNCHANGED <<pc, key>>
       ELSE /\ pc' = [pc EXCEPT ![c] = "lookup"]
            /\ key' = [key EXCEPT ![c] = k]
            /\ UNCHANGED batch
    /\ UNCHANGED <<capacity, table, todo, fresh>>

LookupAndPin(c) ==
    /\ pc[c] = "lookup"
    /\ IF ContainsKey(table.hash, key[c])
       THEN LET idx == Find(table.hash, key[c])
            IN  /\ table' = [table EXCEPT !.hash[idx].pins = @ + 1]
                /\ AddItem(c, key[c], table.hash[idx].value)
       ELSE AddItem(c, key[c], NoValue) /\ UNCHANGED table
    /\ pc' = [pc EXCEPT ![c] = "add"]
    /\ key' = [key EXCEPT ![c] = 0]
    /\ UNCHANGED <<capacity, todo, fresh>>

\* PopCacheHit and PopLastInputHit undo the last AddInput, if it was a hit.
PopCacheHit(c) ==
    /\ pc[c] = "add"
    /\ batch[c] # <<>>
    /\ Last(batch[c]).lock # NoValue
    /\ table' = Release(table, Last(batch[c]))
    /\ batch' = [batch EXCEPT ![c] = Front(@)]
    /\ UNCHANGED <<capacity, client>>

\* The hashes of the items without a lock, in order.
Misses(items) ==
    LET upTo[i \in 0..Len(items)] ==
            IF i = 0 THEN <<>>
            ELSE IF items[i].lock = NoValue THEN Append(upTo[i - 1], items[i].hash)
            ELSE upTo[i - 1]
    IN  upTo[Len(items)]

\* What is left to do when the evaluations of rest are not inserted yet.
ComputeOrRelease(rest) == IF rest = <<>> THEN "release" ELSE "compute"

\* ComputeBlocking: what the network evaluated goes into the cache in turn.
ComputeBlocking(c) ==
    /\ pc[c] = "add"
    /\ batch[c] # <<>>
    /\ todo' = [todo EXCEPT ![c] = Misses(batch[c])]
    /\ pc' = [pc EXCEPT ![c] = ComputeOrRelease(Misses(batch[c]))]
    /\ UNCHANGED <<capacity, table, batch, key, fresh>>

\* Insert's test of the capacity; with capacity 0 the evaluation is dropped.
BeginInsert(c) ==
    /\ pc[c] = "compute"
    /\ IF capacity = 0
       THEN /\ todo' = [todo EXCEPT ![c] = Tail(@)]
            /\ pc' = [pc EXCEPT ![c] = ComputeOrRelease(Tail(todo[c]))]
            /\ UNCHANGED fresh
       ELSE /\ pc' = [pc EXCEPT ![c] = "insert"]
            /\ \E v \in Values \ Live : fresh' = [fresh EXCEPT ![c] = v]
            /\ UNCHANGED todo
    /\ UNCHANGED <<capacity, table, batch, key>>

\* An existing key is left alone, and the new evaluation freed.
Insert(c) ==
    /\ pc[c] = "insert"
    /\ table' = IF ContainsKey(table.hash, Head(todo[c])) THEN table
                ELSE EvictToCapacity(InsertNew(table, Head(todo[c]), fresh[c]), capacity)
    /\ todo' = [todo EXCEPT ![c] = Tail(@)]
    /\ pc' = [pc EXCEPT ![c] = ComputeOrRelease(Tail(todo[c]))]
    /\ fresh' = [fresh EXCEPT ![c] = NoValue]
    /\ UNCHANGED <<capacity, batch, key>>

\* The computation is destroyed: its items release their locks in order.
ReleaseItem(c) ==
    /\ pc[c] = "release"
    /\ table' = Release(table, Head(batch[c]))
    /\ batch' = [batch EXCEPT ![c] = Tail(@)]
    /\ pc' = [pc EXCEPT ![c] = IF Len(batch[c]) = 1 THEN "add" ELSE "release"]
    /\ UNCHANGED <<capacity, key, todo, fresh>>

---------------------------------------------------------------------------
(* The thread that configures the engine.                                  *)

SetCapacity(n) ==
    /\ capacity # n
    /\ capacity' = n
    /\ table' = LET t == EvictToCapacity(table, n)
                IN  [t EXCEPT !.hash = Rehash(@, n)]
    /\ UNCHANGED <<batch, client>>

\* NewGame clears the cache before it stops the search.
Clear ==
    /\ table' = EvictToCapacity(table, 0)
    /\ UNCHANGED <<capacity, batch, client>>

ClientStep(c) ==
    \/ \E k \in Keys : AddInput(c, k)
    \/ LookupAndPin(c) \/ PopCacheHit(c)
    \/ ComputeBlocking(c) \/ BeginInsert(c) \/ Insert(c) \/ ReleaseItem(c)

Next ==
    \/ \E c \in Clients : ClientStep(c)
    \/ \E n \in Capacities : SetCapacity(n)
    \/ Clear

Spec == Init /\ [][Next]_vars

---------------------------------------------------------------------------
(* What makes the cache correct.                                           *)

Slot == [in_use : BOOLEAN, key : Keys \cup {0}, value : Values \cup {NoValue}, pins : Nat]
Entry == [key : Keys, value : Values, pins : Nat]
Item == [hash : Keys, lock : Values \cup {NoValue}]
Tables(n) == [hash : [DOMAIN EmptyHash(n) -> Slot], size : Nat, allocated : Nat,
              insertion_order : Seq(Keys), evicted : SUBSET Entry]

\* Every variable has its type.
TypeOK ==
    /\ capacity \in Capacities
    /\ table \in Tables(capacity)
    /\ batch \in [Clients -> Seq(Item)]
    /\ pc \in [Clients -> {"add", "lookup", "compute", "insert", "release"}]
    /\ key \in [Clients -> Keys \cup {0}]
    /\ todo \in [Clients -> Seq(Keys)]
    /\ fresh \in [Clients -> Values \cup {NoValue}]

\* The counters account for what the table holds: nothing leaks past the
\* destructor's asserts on size_ and allocated_.
Accounting ==
    /\ table.size = Cardinality(InUse(table.hash))
    /\ table.size = Len(table.insertion_order)
    /\ table.allocated = table.size + Cardinality(table.evicted)
    /\ \A e \in table.evicted : e.pins > 0

\* Every entry is where the probe for its key ends, for all that evictions
\* closed holes behind the probes, and a probe for any key ends.
ProbesReach ==
    /\ InUse(table.hash) # DOMAIN table.hash
    /\ \A i \in InUse(table.hash) : Find(table.hash, table.hash[i].key) = i

\* The items of batches that lock value v under key k.
Holders(k, v) ==
    {p \in Clients \X (1..MaxBatch) :
        p[2] <= Len(batch[p[1]]) /\ batch[p[1]][p[2]] = [hash |-> k, lock |-> v]}

Pins(k, v) == Cardinality(Holders(k, v))

\* Every lock is counted by the entry it is on, so that Unpin finds it and its
\* value lives on after the entry was evicted or its key inserted anew.
LocksHoldValues ==
    /\ \A i \in InUse(table.hash) :
          table.hash[i].pins = Pins(table.hash[i].key, table.hash[i].value)
    /\ \A e \in table.evicted : e.pins = Pins(e.key, e.value)
    /\ \A c \in Clients : \A i \in DOMAIN batch[c] :
          LET item == batch[c][i]
              Holds(e) == e.key = item.hash /\ e.value = item.lock
          IN  item.lock # NoValue =>
                 \/ \E e \in table.evicted : Holds(e)
                 \/ \E j \in InUse(table.hash) : Holds(table.hash[j])

Fifo ==
    [i \in DOMAIN table.insertion_order |->
        LET k == table.insertion_order[i]
        IN  [key |-> k, value |-> table.hash[Find(table.hash, k)].value]]

Ideal == INSTANCE PinnedCache WITH fifo <- Fifo

\* Table, pins and eviction implement the ideal cache: a lookup finds an entry
\* exactly if it was inserted and not evicted, the oldest are evicted first, and
\* the unlocked tests of the capacity change nothing.
ImplementsPinnedCache == Ideal!Spec

=============================================================================
