---------------------------- MODULE PinnedCache ----------------------------
(***************************************************************************)
(* What the NN cache promises its users, with no hash table and no pin     *)
(* counts: a FIFO of evaluations by position, of bounded length, in which  *)
(* an entry is never replaced, and batches of lookups that keep what they  *)
(* found for as long as they need it, evicted or not.                      *)
(***************************************************************************)
EXTENDS Integers, Sequences

CONSTANTS
    Clients,        \* the computations that use the cache
    Keys,           \* position hashes
    Values,         \* addresses at which evaluations live
    NoValue,        \* the null pointer
    Capacities      \* the capacities that are configured

VARIABLES
    capacity,
    fifo,           \* the cached entries, the oldest first
    batch           \* batch[c]: the lookups of client c, what they found locked

vars == <<capacity, fifo, batch>>

Entries == {fifo[i] : i \in DOMAIN fifo}

Cached(k) == \E e \in Entries : e.key = k

Locked == UNION {{batch[c][i] : i \in DOMAIN batch[c]} : c \in Clients}

Live == {e.value : e \in Entries} \cup {item.lock : item \in Locked}

\* What is left of s when only its last n entries are kept.
Newest(s, n) == IF Len(s) <= n THEN s ELSE SubSeq(s, Len(s) - n + 1, Len(s))

Init ==
    /\ capacity \in Capacities
    /\ fifo = <<>>
    /\ batch = [c \in Clients |-> <<>>]

\* Several lookups of one key, or of keys that nobody cached, are all right.
Lookup(c, k) ==
    /\ \E lock \in Values \cup {NoValue} :
        /\ IF Cached(k) THEN [key |-> k, value |-> lock] \in Entries ELSE lock = NoValue
        /\ batch' = [batch EXCEPT ![c] = Append(@, [hash |-> k, lock |-> lock])]
    /\ UNCHANGED <<capacity, fifo>>

DropOldest(c) ==
    /\ batch[c] # <<>>
    /\ batch' = [batch EXCEPT ![c] = Tail(@)]
    /\ UNCHANGED <<capacity, fifo>>

DropNewest(c) ==
    /\ batch[c] # <<>>
    /\ batch' = [batch EXCEPT ![c] = SubSeq(@, 1, Len(@) - 1)]
    /\ UNCHANGED <<capacity, fifo>>

\* An evaluation comes at an address that nobody uses.
Insert(k, v) ==
    /\ ~Cached(k)
    /\ v \notin Live
    /\ fifo' = Newest(Append(fifo, [key |-> k, value |-> v]), capacity)
    /\ UNCHANGED <<capacity, batch>>

SetCapacity(n) ==
    /\ capacity' = n
    /\ fifo' = Newest(fifo, n)
    /\ UNCHANGED batch

Clear ==
    /\ fifo' = <<>>
    /\ UNCHANGED <<capacity, batch>>

Next ==
    \/ \E c \in Clients : (\E k \in Keys : Lookup(c, k)) \/ DropOldest(c) \/ DropNewest(c)
    \/ \E k \in Keys, v \in Values : Insert(k, v)
    \/ \E n \in Capacities : SetCapacity(n)
    \/ Clear

Spec == Init /\ [][Next]_vars

\* A position is cached at most once, within the capacity, and an address holds
\* the evaluation of one position: an evaluation that a lookup of one position
\* locked is never overwritten by that of another.
OneEvaluation ==
    /\ Len(fifo) <= capacity
    /\ \A i, j \in DOMAIN fifo : fifo[i].key = fifo[j].key => i = j
    /\ \A i, j \in DOMAIN fifo : fifo[i].value = fifo[j].value => i = j
    /\ \A e \in Entries, item \in Locked : item.lock = e.value => item.hash = e.key
    /\ \A item, other \in Locked :
          item.lock = other.lock /\ item.lock # NoValue => item.hash = other.hash

=============================================================================
