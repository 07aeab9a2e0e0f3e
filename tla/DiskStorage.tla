---------------------------- MODULE DiskStorage ----------------------------
(***************************************************************************)
(* The disk storage of yurthub: a key-value store kept as files under one  *)
(* cache directory.  A key is a path of segments; an entry is a regular    *)
(* file, a namespace node a directory.  The state is the tree under the    *)
(* cache root; every public operation is one action that classifies the    *)
(* key's path (absent, file, directory) and acts on the tree.              *)
(***************************************************************************)
EXTENDS Naturals, Sequences, FiniteSets, SequencesExt

CONSTANTS
    Keys,      \* the keys callers use, non-empty sequences of segments
    Payloads   \* the non-empty payloads

Empty == ""
Contents == Payloads \cup {Empty}

ASSUME
    /\ \A k \in Keys : k # <<>>
    /\ Empty \notin Payloads

VARIABLES
    dirs,      \* the paths under the root that are directories
    files,     \* the regular files: a function from their paths to contents
    out        \* the call that was made last and what it returned

vars == <<dirs, files, out>>

NoItems == [k \in {} |-> Empty]

\* the directories a file at path k lies in, below the root
Ancestors(k) == {SubSeq(k, 1, i) : i \in 1..(Len(k) - 1)}

\* the paths of S at or beneath k
Under(k, S) == {p \in S : IsPrefix(k, p)}

Classify(k) ==
    CASE k \in dirs -> "Directory"
      [] k \in DOMAIN files /\ k \notin dirs -> "File"
      [] OTHER -> "Absent"

Result(op, k, err, data, items) ==
    [op |-> op, key |-> k, err |-> err, data |-> data, items |-> items]

Init ==
    /\ dirs = {}
    /\ files = NoItems
    /\ out = Result("New", <<>>, FALSE, Empty, NoItems)

-----------------------------------------------------------------------------
\* the tree lets k be written: k is no directory and lies under no file
CanCreate(k) ==
    /\ Classify(k) # "Directory"
    /\ \A a \in Ancestors(k) : Classify(a) # "File"

\* Create: make the missing directories, write the leaf in full
Create(k, d) ==
    /\ CanCreate(k)
    /\ dirs' = dirs \cup Ancestors(k)
    /\ files' = [p \in DOMAIN files \cup {k} |-> IF p = k THEN d ELSE files[p]]
    /\ out' = Result("Create", k, FALSE, Empty, NoItems)

\* k as an entry without content, as the open of a write leaves it
Truncated(k) == [p \in DOMAIN files \cup {k} |-> IF p = k THEN Empty ELSE files[p]]

\* Create fails: the leaf is a directory, an ancestor is a file, or the
\* filesystem refuses (permissions, exhaustion).  The error is returned at
\* the point of failure: directories made on the way stay, and when it is
\* the write that is refused, so does the entry, opened and empty
CreateFails(k) ==
    /\ \/ /\ dirs' \in {dirs} \cup
                        (IF \A a \in Ancestors(k) : Classify(a) # "File"
                         THEN {dirs \cup Ancestors(k)} ELSE {})
          /\ UNCHANGED files
       \/ /\ CanCreate(k)
          /\ dirs' = dirs \cup Ancestors(k)
          /\ files' = Truncated(k)
    /\ out' = Result("Create", k, TRUE, Empty, NoItems)

\* Get: the content of an entry, nothing for an absent key, an error for a
\* namespace node
Get(k) ==
    /\ out' = Result("Get", k, Classify(k) = "Directory",
                     IF Classify(k) = "File" THEN files[k] ELSE Empty, NoItems)
    /\ UNCHANGED <<dirs, files>>

\* Update: overwrite an existing entry; an empty payload changes nothing
Update(k, d) ==
    /\ d = Empty \/ Classify(k) = "File"
    /\ files' = IF d = Empty THEN files ELSE [files EXCEPT ![k] = d]
    /\ out' = Result("Update", k, FALSE, Empty, NoItems)
    /\ UNCHANGED dirs

\* Update of what is not an entry
UpdateFails(k, d) ==
    /\ d # Empty /\ Classify(k) # "File"
    /\ out' = Result("Update", k, TRUE, Empty, NoItems)
    /\ UNCHANGED <<dirs, files>>

\* Update of an entry that the filesystem refuses, at the open or at the
\* write: after the open the entry is empty
UpdateRefused(k, d) ==
    /\ d # Empty /\ Classify(k) = "File"
    /\ files' \in {files, Truncated(k)}
    /\ out' = Result("Update", k, TRUE, Empty, NoItems)
    /\ UNCHANGED dirs

\* Delete: nothing for an absent key, the file of an entry, the whole
\* subtree of a namespace node
Delete(k) ==
    /\ dirs' = dirs \ Under(k, dirs)
    /\ files' = Restrict(files, DOMAIN files \ Under(k, DOMAIN files))
    /\ out' = Result("Delete", k, FALSE, Empty, NoItems)

\* Delete that the filesystem refuses at one of its removals: paths removed
\* before it, each after everything beneath it, are gone
DeleteFails(k) ==
    LET all == Under(k, dirs \cup DOMAIN files) IN
    \E gone \in SUBSET all \ {all} :
        /\ \A p \in gone : Under(p, all) \subseteq gone
        /\ dirs' = dirs \ gone
        /\ files' = Restrict(files, DOMAIN files \ gone)
        /\ out' = Result("Delete", k, TRUE, Empty, NoItems)

\* a read of Get, List or ListKeys that the filesystem refuses
ReadFails(op, k) ==
    /\ op \in {"Get", "List", "ListKeys"}
    /\ IF op = "Get" THEN Classify(k) = "File" ELSE Under(k, DOMAIN files) # {}
    /\ out' = Result(op, k, TRUE, Empty, NoItems)
    /\ UNCHANGED <<dirs, files>>

\* the entries List and ListKeys visit: the entry itself, or every entry
\* of the subtree
Visited(k) == Restrict(files, Under(k, DOMAIN files))

\* List returns the contents, ListKeys the keys, of the visited entries
List(op, k) ==
    /\ op \in {"List", "ListKeys"}
    /\ out' = Result(op, k, FALSE, Empty, Visited(k))
    /\ UNCHANGED <<dirs, files>>

Next ==
    \E k \in Keys :
        \/ \E d \in Contents :
               Create(k, d) \/ Update(k, d) \/ UpdateFails(k, d) \/ UpdateRefused(k, d)
        \/ CreateFails(k)
        \/ Get(k)
        \/ Delete(k) \/ DeleteFails(k)
        \/ \E op \in {"List", "ListKeys"} : List(op, k)
        \/ \E op \in {"Get", "List", "ListKeys"} : ReadFails(op, k)

Spec == Init /\ [][Next]_vars

-----------------------------------------------------------------------------
\* The flat key-value map that the storage is to implement, with the files
\* as the map's entries and the result of the call as its reply
KV == INSTANCE KVStore WITH store <- files, reply <- out

=============================================================================
