---------------------------- MODULE MCConversion ----------------------------
(***************************************************************************)
(* Conversion instantiated for TLC.                                        *)
(***************************************************************************)
EXTENDS Conversion, TLC

\* Processes are interchangeable.
ProcSymmetry == Permutations(Procs)

\* Of the drop-ins a node may start with, the one on which the script
\* changes most: --bootstrap-kubeconfig and text after the kubeconfig path
\* on the line, and no bootstrap file.  Neither the drop-in the node started
\* with nor the bootstrap file ever changes.
FullDropIn == svc0.bootstrap /\ svc0.rest /\ ~bootstrapFile

\* The conversion of a node that starts with that drop-in.
InitFull == Init /\ FullDropIn
SpecFull == InitFull /\ [][Next]_vars

\* What a step can tell apart.  The error a goroutine returned is written
\* once and read by no action, and the properties ask only whether a return
\* was nil: two states that differ in nothing else have the same future.
\* Whether any goroutine has returned is in the view as well: it adds no
\* state (a goroutine that has returned is "done"), and it has TLC evaluate
\* ret as a whole in every state, which TLC must have done before it can
\* write the state to its queue on disk.
Told ==
    <<action, mainPc, idx, result, wg, jpc, elapsed, jobs, nodeVars, glue,
      ret \in [J!Workers -> {"none"}],
      [w \in J!Workers |-> ret[w] = "nil"]>>

=============================================================================
