-------------------------- MODULE CanaryImplements --------------------------
(***************************************************************************)
(* The commands of Canary, run one at a time, implement CanaryRollout:     *)
(* whatever is refused, times out or dies on the way, the record only ever *)
(* moves as start, promote, rollback and the loss of the file move it.     *)
(***************************************************************************)
EXTENDS Canary

CONSTANT ReadCounts   \* the counts a command may read off stable

\* Between the truncation of the file and its write, the record is what was
\* last saved: a writer that dies there is what loses it.
Recorded(c) == IF \E a \in Callers : At(a, "write") THEN saved[c] ELSE Readable[c]

Api == INSTANCE CanaryRollout WITH
           rollout <- Recorded("api"), ceiling <- Total, step <- Step,
           Weights <- Weights, Steps <- {Step}, Ceilings <- {Total},
           LiveCounts <- ReadCounts, ConfigEdits <- FALSE

\* What is on record moves only as the promise lets it, although a rollout is
\* loaded, carried out and saved in many steps, any of which may fail.
ApiKeepsPromise == Api!Spec

=============================================================================
