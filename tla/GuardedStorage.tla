--------------------------- MODULE GuardedStorage ---------------------------
(***************************************************************************)
(* The disk storage of yurthub under concurrent callers: the proxy writes  *)
(* what it observes (Create, Update, Delete) while it serves reads (Get,   *)
(* List, ListKeys).  A call waits for the guard of the engine, makes its   *)
(* filesystem calls one at a time, and gives the guard back when it        *)
(* returns.  The guard is one lock per engine: a mutating call holds it    *)
(* alone, reading calls share it.                                          *)
(*                                                                         *)
(* Between two filesystem calls of a mutating call the tree is in no state *)
(* that a caller may see: the directories of an entry that is not written  *)
(* yet, an entry that is truncated and not yet written, a subtree that is  *)
(* half removed.  Module DiskStorage is what every caller is to see.       *)
(*                                                                         *)
(* The filesystem may refuse any call that opens, writes, removes or reads *)
(* (permission denial, exhaustion).  The engine does not retry and does    *)
(* not undo: it returns the error at the point of failure.                 *)
(***************************************************************************)
EXTENDS Naturals, Sequences, FiniteSets, SequencesExt

CONSTANTS
    Callers,   \* the goroutines that call the engine
    Keys,      \* the keys callers use, non-empty sequences of segments
    Payloads,  \* the non-empty payloads
    Nobody     \* no caller

ASSUME Nobody \notin Callers

VARIABLES
    dirs,      \* the paths under the root that are directories
    files,     \* the regular files: a function from their paths to contents
    out,       \* the call that returned last and what it returned
    writer,    \* the caller that holds the guard alone, or Nobody
    readers,   \* the callers that share the guard
    call,      \* per caller: the call it is in
    pc,        \* per caller: the filesystem call it makes next
    seen,      \* per caller: what it has read, or the error it met
    left,      \* per caller: the paths its Delete has still to remove
    tree       \* history: the tree as it was when the writer took the guard

vars == <<dirs, files, out, writer, readers, call, pc, seen, left, tree>>

\* the tree itself, and the helpers of the engine that read it
FS == INSTANCE DiskStorage

Empty == FS!Empty
Contents == FS!Contents
Mutating == {"Create", "Update", "Delete"}
Reading == {"Get", "List", "ListKeys"}
Read(err, data, items) == [err |-> err, data |-> data, items |-> items]
Nothing == Read(FALSE, Empty, FS!NoItems)
Failed == Read(TRUE, Empty, FS!NoItems)

Init ==
    /\ FS!Init
    /\ writer = Nobody /\ readers = {}
    /\ call = [c \in Callers |-> Nobody]
    /\ pc = [c \in Callers |-> "idle"]
    /\ seen = [c \in Callers |-> Nothing]
    /\ left = [c \in Callers |-> {}]
    /\ tree = <<dirs, files>>

\* c goes from one filesystem call to the next
Goto(c, from, to) == pc[c] = from /\ pc' = [pc EXCEPT ![c] = to]

\* c's call has failed: it returns the error next
Fail(c, from) == Goto(c, from, "return") /\ seen' = [seen EXCEPT ![c] = Failed]

-----------------------------------------------------------------------------
(* The guard *)

\* the filesystem call that the calls of an operation start with
Entry == [Create |-> "mkdir", Update |-> "stat", Delete |-> "stat",
          Get |-> "read", List |-> "walk", ListKeys |-> "walk"]

\* mutant: an Update with an empty payload is written like any other
FirstStepOfAnyUpdate(cl) == Entry[cl.op]

\* an Update with an empty payload has nothing to do
FirstStep(cl) ==
    IF cl.op = "Update" /\ cl.data = Empty THEN "return" ELSE Entry[cl.op]

\* c is in no call and makes this one
Calls(c, op, k, d) ==
    /\ Goto(c, "idle", FirstStep([op |-> op, key |-> k, data |-> d]))
    /\ call' = [call EXCEPT ![c] = [op |-> op, key |-> k, data |-> d]]

\* mutant: a reading call does not wait for the writer
RLockUnguarded(c, op, k) ==
    /\ op \in Reading
    /\ Calls(c, op, k, Empty)
    /\ readers' = readers \cup {c}
    /\ UNCHANGED <<dirs, files, out, writer, seen, left, tree>>

\* a reading call takes the guard beside other readers, once no mutating
\* call holds it
RLock(c, op, k) ==
    /\ op \in Reading
    /\ writer = Nobody
    /\ Calls(c, op, k, Empty)
    /\ readers' = readers \cup {c}
    /\ UNCHANGED <<dirs, files, out, writer, seen, left, tree>>

\* a mutating call takes the guard alone, once nobody holds it; only
\* Create and Update carry a payload
Lock(c, op, k, d) ==
    /\ op \in Mutating
    /\ d \in IF op = "Delete" THEN {Empty} ELSE Contents
    /\ writer = Nobody /\ readers = {}
    /\ Calls(c, op, k, d)
    /\ writer' = c
    /\ tree' = <<dirs, files>>
    /\ UNCHANGED <<dirs, files, out, readers, seen, left>>

\* the call returns what it has read and gives the guard back
Return(c) ==
    /\ Goto(c, "return", "idle")
    /\ out' = FS!Result(call[c].op, call[c].key,
                        seen[c].err, seen[c].data, seen[c].items)
    /\ writer' = IF writer = c THEN Nobody ELSE writer
    /\ readers' = readers \ {c}
    /\ call' = [call EXCEPT ![c] = Nobody]
    /\ seen' = [seen EXCEPT ![c] = Nothing]
    /\ tree' = IF writer = c THEN <<dirs, files>> ELSE tree
    /\ UNCHANGED <<dirs, files, left>>

-----------------------------------------------------------------------------
(* The filesystem calls of Create and Update *)

\* Create makes the directories of its key, unless one of them is a file
\* or the filesystem refuses
MkdirAll(c) ==
    LET k == call[c].key IN
    \/ /\ Goto(c, "mkdir", "open")
       /\ \A a \in FS!Ancestors(k) : FS!Classify(a) # "File"
       /\ dirs' = dirs \cup FS!Ancestors(k)
       /\ UNCHANGED <<files, out, writer, readers, call, seen, left, tree>>
    \/ /\ Fail(c, "mkdir")
       /\ UNCHANGED <<dirs, files, out, writer, readers, call, left, tree>>

\* Update looks for the entry, Delete for what there is to remove
Stat(c) ==
    LET k == call[c].key IN
    /\ pc[c] = "stat"
    /\ \/ /\ call[c].op = "Update" /\ FS!Classify(k) = "File"
          /\ Goto(c, "stat", "open")
          /\ UNCHANGED <<seen, left>>
       \/ /\ call[c].op = "Update" /\ FS!Classify(k) # "File"
          /\ Fail(c, "stat")
          /\ UNCHANGED left
       \/ /\ call[c].op = "Delete"
          /\ Goto(c, "stat", "remove")
          /\ left' = [left EXCEPT ![c] = FS!Under(k, dirs \cup DOMAIN files)]
          /\ UNCHANGED seen
    /\ UNCHANGED <<dirs, files, out, writer, readers, call, tree>>

\* the file of the entry is opened and truncated, unless the key is a
\* directory or the filesystem refuses
OpenFile(c) ==
    LET k == call[c].key IN
    \/ /\ Goto(c, "open", "write")
       /\ FS!Classify(k) # "Directory"
       /\ files' = [p \in DOMAIN files \cup {k} |->
                       IF p = k THEN Empty ELSE files[p]]
       /\ UNCHANGED <<dirs, out, writer, readers, call, seen, left, tree>>
    \/ /\ Fail(c, "open")
       /\ UNCHANGED <<dirs, files, out, writer, readers, call, left, tree>>

\* the payload is written, unless the filesystem refuses (permissions,
\* exhaustion): then the entry stays as the open has left it
WriteFile(c) ==
    \/ /\ Goto(c, "write", "return")
       /\ files' = [files EXCEPT ![call[c].key] = call[c].data]
       /\ UNCHANGED <<dirs, out, writer, readers, call, seen, left, tree>>
    \/ /\ Fail(c, "write")
       /\ UNCHANGED <<dirs, files, out, writer, readers, call, left, tree>>

-----------------------------------------------------------------------------
(* The filesystem calls of Delete, Get, List and ListKeys *)

\* Delete removes one path of the subtree; the filesystem removes a
\* directory only once nothing is left in it, and it may refuse any
\* removal: then Delete stops, and what it has removed is gone
Unlink(c) ==
    \/ /\ pc[c] = "remove"
       /\ \E p \in left[c] :
              /\ \A q \in left[c] : ~IsStrictPrefix(p, q)
              /\ dirs' = dirs \ {p}
              /\ files' = Restrict(files, DOMAIN files \ {p})
              /\ left' = [left EXCEPT ![c] = @ \ {p}]
       /\ UNCHANGED <<out, writer, readers, call, pc, seen, tree>>
    \/ /\ Fail(c, "remove")
       /\ left[c] # {}
       /\ left' = [left EXCEPT ![c] = {}]
       /\ UNCHANGED <<dirs, files, out, writer, readers, call, tree>>

\* nothing is left to remove
Removed(c) ==
    /\ left[c] = {}
    /\ Goto(c, "remove", "return")
    /\ UNCHANGED <<dirs, files, out, writer, readers, call, seen, left, tree>>

\* Get reads the file of the entry, unless the filesystem refuses; a
\* directory is an error, an absent key gives nothing
ReadFile(c) ==
    LET k == call[c].key IN
    /\ Goto(c, "read", "return")
    /\ \E r \in CASE FS!Classify(k) = "Directory" -> {Failed}
                 [] FS!Classify(k) = "File" ->
                        {Read(FALSE, files[k], FS!NoItems), Failed}
                 [] OTHER -> {Nothing} :
           seen' = [seen EXCEPT ![c] = r]
    /\ UNCHANGED <<dirs, files, out, writer, readers, call, left, tree>>

\* the entries at or beneath the key that the walk has not visited
Unvisited(c) ==
    FS!Under(call[c].key, DOMAIN files) \ DOMAIN seen[c].items

\* List and ListKeys visit the next entry of the subtree and read it, and
\* the walk ends where the filesystem refuses; the order of a walk is that
\* of the directory listings, fixed for a tree
Visit(c) ==
    /\ pc[c] = "walk"
    /\ Unvisited(c) # {}
    /\ \/ /\ LET p == CHOOSE q \in Unvisited(c) : TRUE IN
                 seen' = [seen EXCEPT ![c].items =
                     [q \in DOMAIN @ \cup {p} |-> IF q = p THEN files[p] ELSE @[q]]]
          /\ UNCHANGED pc
       \/ Fail(c, "walk")
    /\ UNCHANGED <<dirs, files, out, writer, readers, call, left, tree>>

\* the walk has visited every entry there is
Walked(c) ==
    /\ Goto(c, "walk", "return")
    /\ Unvisited(c) = {}
    /\ UNCHANGED <<dirs, files, out, writer, readers, call, seen, left, tree>>

-----------------------------------------------------------------------------
Next ==
    \E c \in Callers :
        \/ \E k \in Keys :
               \/ \E op \in Reading : RLock(c, op, k)
               \/ \E op \in Mutating, d \in Contents : Lock(c, op, k, d)
        \/ Return(c)
        \/ MkdirAll(c) \/ Stat(c) \/ OpenFile(c) \/ WriteFile(c)
        \/ Unlink(c) \/ Removed(c)
        \/ ReadFile(c) \/ Visit(c) \/ Walked(c)

Spec == Init /\ [][Next]_vars

-----------------------------------------------------------------------------
\* The tree that callers are to see: the tree as the writer found it while
\* a mutating call holds the guard, the tree on disk otherwise.
SeenDirs == IF writer = Nobody THEN dirs ELSE tree[1]
SeenFiles == IF writer = Nobody THEN files ELSE tree[2]
Seen == INSTANCE DiskStorage WITH dirs <- SeenDirs, files <- SeenFiles
seenVars == <<SeenDirs, SeenFiles, out>>
seenMap == <<SeenFiles, out>>

\* Every call of the engine, made of several filesystem calls beside those
\* of other callers, looks to its callers like one step of DiskStorage
\* taken when the call returns.  A Get or a walk never returns an entry
\* that is truncated and not yet written, a List returns the entries of
\* one tree and not of two, and a call that the filesystem refuses half
\* way leaves what the failing call of DiskStorage leaves: the directories
\* of a Create, the entry of a write without content, the subtree of a
\* Delete without some of its lower parts.  (This is
\* Seen!Spec; the steps that change nothing a caller sees, which are most,
\* are named first so that TLC does not search Seen!Next for them.)
ImplementsDiskStorage ==
    Seen!Init /\ [][seenVars' = seenVars \/ Seen!Next]_seenVars

\* The guarded engine implements the flat key-value map of KVStore, with
\* the files that callers see as the map's entries and the result of the
\* call as its reply: Create is an upsert, Update with an empty payload
\* changes nothing, Delete of a namespace node takes every entry beneath
\* it, List returns exactly the entries of the subtree, and a call that
\* reports an error has changed no entry but its own: a refused write has
\* at most emptied the entry of its key, a refused Delete has at most
\* removed entries beneath its key.
ImplementsKVStore ==
    Seen!KV!Init /\ [][seenMap' = seenMap \/ Seen!KV!Next]_seenMap

=============================================================================
