------------------------------ MODULE JobBatch ------------------------------
(***************************************************************************)
(* What util.Parallel promises to its caller (src/internal/util/           *)
(* parallel.go): a batch of jobs is executed with at most Limit of them    *)
(* running at any time, the result of a job that ran is recorded exactly   *)
(* once, and the call returns when nothing is running any more and, unless *)
(* the caller's context was cancelled, every job has its result.           *)
(***************************************************************************)
EXTENDS Naturals, Sequences, FiniteSets

CONSTANTS Jobs,   \* the jobs of the batch
          Limit   \* how many of them may run at the same time

VARIABLES running,    \* the jobs being executed
          results,    \* the jobs whose result is recorded, in that order
          cancelled,  \* the context of the call is done
          returned    \* the call has returned

vars == <<running, results, cancelled, returned>>

Recorded == {results[k] : k \in 1..Len(results)}

Init == /\ running = {}
        /\ results = <<>>
        /\ cancelled = FALSE
        /\ returned = FALSE

Begin(j) == /\ ~cancelled
            /\ j \notin running \cup Recorded
            /\ Cardinality(running) < Limit
            /\ running' = running \cup {j}
            /\ UNCHANGED <<results, cancelled, returned>>

Finish(j) == /\ j \in running
             /\ running' = running \ {j}
             /\ results' = Append(results, j)
             /\ UNCHANGED <<cancelled, returned>>

Cancel == /\ ~cancelled
          /\ ~returned
          /\ cancelled' = TRUE
          /\ UNCHANGED <<running, results, returned>>

Return == /\ ~returned
          /\ running = {}
          /\ cancelled \/ Recorded = Jobs
          /\ returned' = TRUE
          /\ UNCHANGED <<running, results, cancelled>>

Next == \/ \E j \in Jobs : Begin(j) \/ Finish(j)
        \/ Cancel
        \/ Return

Spec == Init /\ [][Next]_vars
=============================================================================
