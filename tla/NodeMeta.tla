------------------------------ MODULE NodeMeta ------------------------------
(***************************************************************************)
(* LabelNode and AnnotateNode of pkg/yurtctl/util/kubernetes/util.go.      *)
(*                                                                         *)
(* Each of them writes one pair into a map of the *v1.Node its caller      *)
(* hands in and sends the whole object to the apiserver with               *)
(* Nodes().Update.  The apiserver replaces the stored Node by what it is   *)
(* sent when the object carries the resourceVersion of the stored one, and *)
(* answers with a conflict otherwise.  The callers are the yurtctl         *)
(* commands; what they did to come by their object (a Get or List, the     *)
(* node a call returned) and the kubelet that keeps patching the Node's    *)
(* status are the environment.                                             *)
(*                                                                         *)
(* A map without entries arrives from the apiserver as a nil map: the      *)
(* field is left out of the JSON and the decoder allocates nothing.        *)
(***************************************************************************)
EXTENDS Naturals, FiniteSets, TLC

CONSTANTS
    Callers,      \* the yurtctl processes that hold a *v1.Node
    Keys, Vals,   \* label and annotation keys and values
    MaxVersion,   \* bound of the model: the resourceVersions 1..MaxVersion
    NilMap,       \* a Go map that is nil
    NoNode        \* a nil *v1.Node

ASSUME MaxVersion \in Nat \ {0}

VARIABLES
    node,      \* the Node the apiserver stores
    held,      \* per caller: the object its node pointer points to
    ret,       \* per caller: what its last call returned
    panicked,  \* the callers that died of a runtime panic
    asked      \* history, per caller: the <<field, key, val>> it has called
               \* with since it came by the object it holds

vars == <<node, held, ret, panicked, asked>>

Fields == {"labels", "annotations"}
Maps == UNION {[d -> Vals] : d \in SUBSET Keys}
Stored == [labels : Maps, annotations : Maps, rv : 1..MaxVersion]
Objects == [labels : Maps \cup {NilMap}, annotations : Maps \cup {NilMap},
            rv : 1..MaxVersion]

\* the JSON of a map and back: no entries, no field, a nil map
Encoded(m) == IF m = NilMap THEN <<>> ELSE m
Decoded(m) == IF m = <<>> THEN NilMap ELSE m
Received(n) == [n EXCEPT !.labels = Decoded(@), !.annotations = Decoded(@)]

Init ==
    /\ node \in [labels : Maps, annotations : Maps, rv : {1}]
    /\ held = [c \in Callers |-> NoNode]
    /\ ret = [c \in Callers |-> [node |-> NoNode, err |-> FALSE]]
    /\ panicked = {}
    /\ asked = [c \in Callers |-> {}]

-----------------------------------------------------------------------------
(* The apiserver *)

\* what the apiserver stores for obj: an update that changes nothing leaves
\* the resourceVersion as it is
Replaced(obj) ==
    LET new == [obj EXCEPT !.labels = Encoded(@), !.annotations = Encoded(@)]
    IN  IF [new EXCEPT !.rv = node.rv] = node THEN node
        ELSE [new EXCEPT !.rv = node.rv + 1]

\* what client-go hands back beside an error: a Node with nothing in it
EmptyNode == [labels |-> NilMap, annotations |-> NilMap, rv |-> 0]

\* mutant: the object is sent without its resourceVersion, which the
\* apiserver takes for an unconditional update
UpdateUnconditional(obj) ==
    { [stored |-> node, node |-> EmptyNode, err |-> TRUE],
      [stored |-> Replaced(obj), node |-> Received(Replaced(obj)), err |-> FALSE] }

\* cliSet.CoreV1().Nodes().Update(obj): the outcomes of the call, each the
\* Node stored after it and the pair the client returns.  The call fails
\* with the Node as it was (a conflict, or the request never arrived); an
\* object that carries the stored resourceVersion replaces the Node, and
\* the answer may still be lost.
Update(obj) ==
    { [stored |-> node, node |-> EmptyNode, err |-> TRUE] } \cup
    { [stored |-> Replaced(obj), err |-> lost,
       node |-> IF lost THEN EmptyNode ELSE Received(Replaced(obj))] :
        lost \in IF obj.rv = node.rv THEN BOOLEAN ELSE {} }

-----------------------------------------------------------------------------
(* LabelNode and AnnotateNode, called by c *)

\* c is alive and has a node to hand in
Holds(c) == c \notin panicked /\ held[c] # NoNode

\* node.<field>[key] = val on a nil map
PanicOnNilMap(c, field) ==
    /\ held[c][field] = NilMap
    /\ panicked' = panicked \cup {c}
    /\ UNCHANGED <<node, held, ret, asked>>

\* mutant: return newNode, err as Update gave them
ReturnedUnchecked(out) == [node |-> out.node, err |-> out.err]

\* if err != nil { return nil, err }; return newNode, nil
Returned(out) ==
    [node |-> IF out.err THEN NoNode ELSE out.node, err |-> out.err]

\* node.<field>[k] = v, then newNode, err := Update(node) and the return;
\* the caller's object keeps the pair whatever the call returns
SetAndUpdate(c, field, k, v) ==
    /\ held[c][field] # NilMap
    /\ \E obj \in {[held[c] EXCEPT ![field] = (k :> v) @@ @]} :
           /\ held' = [held EXCEPT ![c] = obj]
           /\ \E out \in Update(obj) :
                  /\ out.stored.rv <= MaxVersion
                  /\ node' = out.stored
                  /\ ret' = [ret EXCEPT ![c] = Returned(out)]
    /\ asked' = [asked EXCEPT ![c] =
           {t \in @ : <<t[1], t[2]>> # <<field, k>>} \cup {<<field, k, v>>}]
    /\ UNCHANGED panicked

LabelNode(c, k, v) ==
    /\ Holds(c)
    /\ PanicOnNilMap(c, "labels") \/ SetAndUpdate(c, "labels", k, v)

AnnotateNode(c, k, v) ==
    /\ Holds(c)
    /\ PanicOnNilMap(c, "annotations") \/ SetAndUpdate(c, "annotations", k, v)

-----------------------------------------------------------------------------
(* The environment *)

\* the caller reads the Node from the apiserver
GetNode(c) ==
    /\ c \notin panicked
    /\ held' = [held EXCEPT ![c] = Received(node)]
    /\ asked' = [asked EXCEPT ![c] = {}]
    /\ UNCHANGED <<node, ret, panicked>>

\* the caller goes on with the node its last call returned
Adopt(c) ==
    /\ c \notin panicked
    /\ ret[c].node # NoNode
    /\ held' = [held EXCEPT ![c] = ret[c].node]
    /\ asked' = [asked EXCEPT ![c] = {}]
    /\ UNCHANGED <<node, ret, panicked>>

\* the kubelet patches the status of its Node
Heartbeat ==
    /\ node.rv < MaxVersion
    /\ node' = [node EXCEPT !.rv = @ + 1]
    /\ UNCHANGED <<held, ret, panicked, asked>>

Next ==
    \/ \E c \in Callers, k \in Keys, v \in Vals :
           LabelNode(c, k, v) \/ AnnotateNode(c, k, v)
    \/ \E c \in Callers : GetNode(c) \/ Adopt(c)
    \/ Heartbeat

Spec == Init /\ [][Next]_vars

-----------------------------------------------------------------------------
\* The type of the state.  What a call returns is a Node of the cluster or
\* nil: the empty Node that client-go hands back beside an error has no
\* resourceVersion and is no member of Objects, so the test of err in
\* LabelNode and AnnotateNode is what keeps it from the caller.
TypeOK ==
    /\ node \in Stored
    /\ held \in [Callers -> Objects \cup {NoNode}]
    /\ ret \in [Callers -> [node : Objects \cup {NoNode}, err : BOOLEAN]]
    /\ panicked \subseteq Callers
    /\ asked \in [Callers -> SUBSET (Fields \X Keys \X Vals)]

\* the pairs <<field, key>> whose value differs between the Nodes m and n
Differ(m, n) ==
    {fk \in Fields \X Keys :
        \/ fk[2] \in DOMAIN m[fk[1]] /\ fk[2] \notin DOMAIN n[fk[1]]
        \/ fk[2] \notin DOMAIN m[fk[1]] /\ fk[2] \in DOMAIN n[fk[1]]
        \/ /\ fk[2] \in DOMAIN m[fk[1]] \cap DOMAIN n[fk[1]]
           /\ m[fk[1]][fk[2]] # n[fk[1]][fk[2]]}

\* No step takes a label or an annotation off the cluster's Node, and a pair
\* changes only to a value that a caller has asked for on the object it
\* holds.  LabelNode and AnnotateNode send the whole object with Update, and
\* the object may be older than what other callers have written since; only
\* the resourceVersion it carries keeps such a call from putting the old
\* maps back.  A pair of a call that failed stays in the caller's object
\* and is written by its next call that succeeds: that is a change the
\* caller asked for, and the only kind a call makes beside its own pair.
NoForeignChange ==
    [][ /\ \A f \in Fields : DOMAIN node[f] \subseteq DOMAIN node'[f]
        /\ \A fk \in Differ(node, node') : \E c \in Callers :
               <<fk[1], fk[2], node'[fk[1]][fk[2]]>> \in asked'[c] ]_vars

\* LabelNode and AnnotateNode add the pair to the node they are given, as
\* their comments say, whatever Node of the cluster that is: the assignment
\* node.Labels[key] = val never meets a map that is nil.
AddsToGivenNode == panicked = {}

=============================================================================
