------------------------------ MODULE KVStore ------------------------------
(***************************************************************************)
(* What the disk storage promises its caller, without the filesystem: a    *)
(* map from keys to payloads.  A call has the effect of the flat map        *)
(* operation: Create puts, Update overwrites an entry unless the payload   *)
(* is empty, Delete removes the key and every key beneath it, Get, List    *)
(* and ListKeys read.  Or it reports an error, returned at the point of    *)
(* failure: then a write may have emptied its own entry, a Delete may have *)
(* removed part of what it was to remove, and nothing else has changed.    *)
(***************************************************************************)
EXTENDS Naturals, Sequences, FiniteSets, SequencesExt

CONSTANTS
    Keys,      \* the keys callers use, sequences of segments
    Payloads   \* the non-empty payloads

VARIABLES
    store,     \* the entries: a function from some keys to payloads
    reply      \* the call that was made last and what it returned

Empty == ""
Contents == Payloads \cup {Empty}
NoItems == [k \in {} |-> Empty]

Under(k, S) == {p \in S : IsPrefix(k, p)}

Reply(op, k, err, data, items) ==
    [op |-> op, key |-> k, err |-> err, data |-> data, items |-> items]

Init ==
    /\ store = NoItems
    /\ reply = Reply("New", <<>>, FALSE, Empty, NoItems)

\* k may be an entry: no entry lies above it or beneath it
CanPut(k) ==
    \A p \in DOMAIN store : ~IsStrictPrefix(p, k) /\ ~IsStrictPrefix(k, p)

\* the stores that a call may leave when it reports an error: the store as
\* it was; for a write also the store with the entry emptied, for a Delete
\* the store without some of the entries beneath the key
AfterError(op, k) ==
    {store} \cup
    CASE op = "Create" /\ CanPut(k) ->
             {[p \in DOMAIN store \cup {k} |-> IF p = k THEN Empty ELSE store[p]]}
      [] op = "Update" /\ k \in DOMAIN store -> {[store EXCEPT ![k] = Empty]}
      [] op = "Delete" ->
             {Restrict(store, DOMAIN store \ gone) :
                  gone \in SUBSET Under(k, DOMAIN store)}
      [] OTHER -> {}

Refuse(op, k) ==
    /\ reply' = Reply(op, k, TRUE, Empty, NoItems)
    /\ store' \in AfterError(op, k)

Put(k, d) ==
    /\ CanPut(k)
    /\ store' = [p \in DOMAIN store \cup {k} |-> IF p = k THEN d ELSE store[p]]
    /\ reply' = Reply("Create", k, FALSE, Empty, NoItems)

Overwrite(k, d) ==
    /\ d = Empty \/ k \in DOMAIN store
    /\ store' = IF d = Empty THEN store ELSE [store EXCEPT ![k] = d]
    /\ reply' = Reply("Update", k, FALSE, Empty, NoItems)

Erase(k) ==
    /\ store' = Restrict(store, DOMAIN store \ Under(k, DOMAIN store))
    /\ reply' = Reply("Delete", k, FALSE, Empty, NoItems)

Read(k) ==
    /\ reply' = Reply("Get", k, FALSE,
                      IF k \in DOMAIN store THEN store[k] ELSE Empty, NoItems)
    /\ UNCHANGED store

Scan(op, k) ==
    /\ op \in {"List", "ListKeys"}
    /\ reply' = Reply(op, k, FALSE, Empty, Restrict(store, Under(k, DOMAIN store)))
    /\ UNCHANGED store

Next ==
    \E k \in Keys :
        \/ \E d \in Contents : Put(k, d) \/ Overwrite(k, d)
        \/ Erase(k)
        \/ Read(k)
        \/ \E op \in {"List", "ListKeys"} : Scan(op, k)
        \/ \E op \in {"Create", "Get", "Update", "Delete", "List", "ListKeys"} :
               Refuse(op, k)

Spec == Init /\ [][Next]_<<store, reply>>

=============================================================================
