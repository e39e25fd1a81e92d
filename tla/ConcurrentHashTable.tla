------------------------ MODULE ConcurrentHashTable ------------------------
(***************************************************************************)
(* ConcurrentHashTable (src/src/data_structures/interval_tree.cpp 351-597, *)
(* declared in src/include/data_structures/compressed_trie.h 57-162): an   *)
(* open-addressing table with linear probing whose slots are TableEntry     *)
(* records (key, value, atomic in_use), and an atomic current_size.        *)
(*                                                                         *)
(* insert and remove describe themselves as "a simple non-concurrent       *)
(* version for now" (lines 424, 482) and take no lock, so two writers race  *)
(* on the non-atomic key and value.  This module models the table as the   *)
(* code uses it correctly, from one thread: each public call is one step.  *)
(* The probe loops are RECURSIVE operators that follow the code's loop      *)
(* variables; the state of the table is the record H.                      *)
(*                                                                         *)
(* hashFunction is std::hash<std::string>, whose values the standard leaves *)
(* to the library: it is the constant Hash.  Keys are model values and     *)
(* EmptyKey is the "" of a default-constructed TableEntry.                  *)
(***************************************************************************)
EXTENDS Naturals, Sequences, SequencesExt, FiniteSets

CONSTANTS
    Keys,             \* the keys the calls use
    Values,           \* the values insert stores (natural numbers)
    Hash,             \* hashFunction: Keys -> Nat
    EmptyKey,         \* the key "" of TableEntry()
    InitialSize,      \* the constructor's initial_size
    ResizeCapacities, \* the new_capacity arguments resize is called with
    MaxOps            \* bound on the number of calls

ASSUME /\ Hash \in [Keys -> Nat]
       /\ EmptyKey \notin Keys
       /\ Values \subseteq Nat
       /\ InitialSize \in Nat
       /\ ResizeCapacities \subseteq Nat \ {0}
       /\ MaxOps \in Nat

VARIABLES
    table,         \* table: slot index -> TableEntry
    current_size,  \* current_size
    capacity,      \* capacity
    opsLeft        \* calls still to be made

vars == <<table, current_size, capacity, opsLeft>>

\* TableEntry(): key(""), value(-1), in_use(false).
EmptyEntry == [key |-> EmptyKey, value |-> -1, in_use |-> FALSE]

\* table.assign(n, TableEntry()) / table.resize(n)
EmptyTable(n) == [i \in 0..n - 1 |-> EmptyEntry]

\* The table's state as one record, for the operators below.
H == [table |-> table, size |-> current_size, capacity |-> capacity]

StoredKeys(h) == {h.table[i].key : i \in {j \in DOMAIN h.table : h.table[j].in_use}}

UsedSlots(h) == {i \in DOMAIN h.table : h.table[i].in_use}

TypeOK ==
    /\ capacity \in Nat \ {0}
    /\ table \in [0..capacity - 1 ->
                    [key : Keys \cup {EmptyKey}, value : Values \cup {-1},
                     in_use : BOOLEAN]]
    /\ current_size \in Nat
    /\ opsLeft \in 0..MaxOps

\* The constructor: capacity 1024 when initial_size is 0, every slot empty.
Init ==
    /\ capacity = IF InitialSize = 0 THEN 1024 ELSE InitialSize
    /\ table = EmptyTable(capacity)
    /\ current_size = 0
    /\ opsLeft = MaxOps

-----------------------------------------------------------------------------
(* The probe loops *)

\* current_index after probe_distance steps from initial_index.
Slot(h, init, d) == (init + d) % h.capacity

(***************************************************************************)
(* insert's do-while loop from probe_distance d: claim the first slot whose *)
(* in_use the CAS finds false and write key and value into it, or, at a    *)
(* used slot with the same key, overwrite its value; stop after capacity   *)
(* probes ("Table is full").  The 0.75 load-factor test only prints.       *)
(***************************************************************************)
RECURSIVE InsertFrom(_, _, _, _, _)
InsertFrom(h, k, v, init, d) ==
    LET i == Slot(h, init, d) IN
    IF ~h.table[i].in_use
    THEN [h EXCEPT !.table[i] = [key |-> k, value |-> v, in_use |-> TRUE],
                   !.size = @ + 1]
    ELSE IF h.table[i].key = k
    THEN [h EXCEPT !.table[i].value = v]
    ELSE IF d + 1 >= h.capacity THEN h
    ELSE InsertFrom(h, k, v, init, d + 1)

InsertOp(h, k, v) == InsertFrom(h, k, v, Hash[k] % h.capacity, 0)

(***************************************************************************)
(* remove's loop from probe_distance d: at a used slot with the key, clear *)
(* in_use (the key and value stay) and decrement current_size; at an empty *)
(* slot give up; stop after capacity probes.  The result is the new table  *)
(* and whether remove returned true.                                       *)
(***************************************************************************)
\* A variant of remove's loop that matches a slot's stale key whether or not
\* the slot is in use.
RECURSIVE RemoveIgnoringInUse(_, _, _, _)
RemoveIgnoringInUse(h, k, init, d) ==
    LET i == Slot(h, init, d) IN
    IF h.table[i].key = k
    THEN [ht |-> [h EXCEPT !.table[i].in_use = FALSE, !.size = @ - 1],
          removed |-> TRUE]
    ELSE IF ~h.table[i].in_use THEN [ht |-> h, removed |-> FALSE]
    ELSE IF d + 1 >= h.capacity \/ Slot(h, init, d + 1) = init
    THEN [ht |-> h, removed |-> FALSE]
    ELSE RemoveIgnoringInUse(h, k, init, d + 1)

RECURSIVE RemoveFrom(_, _, _, _)
RemoveFrom(h, k, init, d) ==
    LET i == Slot(h, init, d) IN
    IF ~h.table[i].in_use THEN [ht |-> h, removed |-> FALSE]
    ELSE IF h.table[i].key = k
    THEN [ht |-> [h EXCEPT !.table[i].in_use = FALSE, !.size = @ - 1],
          removed |-> TRUE]
    ELSE IF d + 1 >= h.capacity \/ Slot(h, init, d + 1) = init
    THEN [ht |-> h, removed |-> FALSE]
    ELSE RemoveFrom(h, k, init, d + 1)

RemoveOp(h, k) == RemoveFrom(h, k, Hash[k] % h.capacity, 0)

\* A variant of lookup's loop that gives up at the first empty slot.
RECURSIVE LookupStopAtEmpty(_, _, _, _)
LookupStopAtEmpty(h, k, init, d) ==
    LET i == Slot(h, init, d) IN
    IF ~h.table[i].in_use THEN {}
    ELSE IF h.table[i].key = k THEN {h.table[i].value}
    ELSE IF d + 1 >= h.capacity \/ Slot(h, init, d + 1) = init THEN {}
    ELSE LookupStopAtEmpty(h, k, init, d + 1)

(***************************************************************************)
(* lookup's loop from probe_distance d: the value of the first used slot   *)
(* with the key, skipping empty slots, over at most capacity probes.  The  *)
(* result is {value}, or {} for "Key not found".                           *)
(***************************************************************************)
RECURSIVE LookupFrom(_, _, _, _)
LookupFrom(h, k, init, d) ==
    LET i == Slot(h, init, d) IN
    IF h.table[i].in_use /\ h.table[i].key = k THEN {h.table[i].value}
    ELSE IF d + 1 >= h.capacity \/ Slot(h, init, d + 1) = init THEN {}
    ELSE LookupFrom(h, k, init, d + 1)

LookupOp(h, k) == LookupFrom(h, k, Hash[k] % h.capacity, 0)

\* A variant of resize that does not reset current_size before re-inserting.
ResizeKeepSize(h, n) ==
    LET old == [j \in 1..h.capacity |-> h.table[j - 1]]
        Reinsert(acc, e) == IF e.in_use THEN InsertOp(acc, e.key, e.value) ELSE acc
    IN  FoldLeft(Reinsert, [table |-> EmptyTable(n), size |-> h.size, capacity |-> n], old)

\* A variant of resize whose copy loop stops one slot early.
ResizeSkipLast(h, n) ==
    LET old == [j \in 1..h.capacity - 1 |-> h.table[j - 1]]
        Reinsert(acc, e) == IF e.in_use THEN InsertOp(acc, e.key, e.value) ELSE acc
    IN  FoldLeft(Reinsert, [table |-> EmptyTable(n), size |-> 0, capacity |-> n], old)

(***************************************************************************)
(* resize: move the old table out, install new_capacity empty slots, reset *)
(* current_size to 0, and insert every used old slot in index order.       *)
(***************************************************************************)
ResizeOp(h, n) ==
    LET old == [j \in 1..h.capacity |-> h.table[j - 1]]
        Reinsert(acc, e) == IF e.in_use THEN InsertOp(acc, e.key, e.value) ELSE acc
    IN  FoldLeft(Reinsert, [table |-> EmptyTable(n), size |-> 0, capacity |-> n], old)

-----------------------------------------------------------------------------
(* The public calls *)

Apply(h) ==
    /\ table' = h.table
    /\ current_size' = h.size
    /\ capacity' = h.capacity
    /\ opsLeft' = opsLeft - 1

\* insert(key, value), which returns nothing, also when the table is full.
Insert(k, v) == opsLeft > 0 /\ Apply(InsertOp(H, k, v))

\* remove(key); its bool result is RemoveOp(H, k).removed.
RemoveKey(k) == opsLeft > 0 /\ Apply(RemoveOp(H, k).ht)

\* resize(new_capacity); a capacity not above the current one is accepted too.
Resize(n) == opsLeft > 0 /\ Apply(ResizeOp(H, n))

\* performRcuUpdate(key, value, is_insert): insert or remove, then
\* synchronizeRcu, which only prints.  The value of a remove is unused.
PerformRcuUpdate(k, v, is_insert) ==
    IF is_insert THEN Insert(k, v) ELSE RemoveKey(k)

Next ==
    \/ \E k \in Keys, v \in Values : Insert(k, v)
    \/ \E k \in Keys : RemoveKey(k)
    \/ \E k \in Keys, v \in Values, b \in BOOLEAN : PerformRcuUpdate(k, v, b)
    \/ \E n \in ResizeCapacities : Resize(n)

Spec == Init /\ [][Next]_vars

-----------------------------------------------------------------------------
(* Properties *)

(***************************************************************************)
(* current_size counts the used slots: insert's fetch_add only after a     *)
(* claim, remove's fetch_sub only after clearing a used slot, and resize's *)
(* reset before re-inserting keep the counter and the slots in step.       *)
(***************************************************************************)
SizeMatchesSlots == current_size = Cardinality(UsedSlots(H))

(***************************************************************************)
(* lookup finds a key exactly when some used slot holds it.  remove leaves *)
(* empty slots inside probe chains, so a lookup that stopped at the first  *)
(* empty slot, as remove does, would miss keys that are there.             *)
(***************************************************************************)
LookupAgreesWithSlots ==
    \A k \in Keys : (LookupOp(H, k) # {}) <=> k \in StoredKeys(H)

(***************************************************************************)
(* resize to a capacity at least the current one keeps every stored key:   *)
(* each used old slot is re-inserted and the new table has room for all.   *)
(***************************************************************************)
ResizeKeepsKeys ==
    [][\A n \in ResizeCapacities :
          Resize(n) /\ n >= capacity => StoredKeys(H') = StoredKeys(H)]_vars

=============================================================================
