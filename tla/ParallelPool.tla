---------------------------- MODULE ParallelPool ----------------------------
(***************************************************************************)
(* util.Parallel (src/internal/util/parallel.go): one call of              *)
(* RunWithContext over NumJobs jobs.  The dispatcher (the caller's         *)
(* goroutine) takes the jobs in order; for each it creates a worker while  *)
(* fewer than Limit exist, and otherwise receives an idle one from the     *)
(* buffered channel p.workers; it then starts a goroutine that runs the    *)
(* job, appends the result under the mutex, offers its worker back to the  *)
(* channel without blocking, and signals the WaitGroup.  The context may   *)
(* be cancelled at any moment.                                             *)
(***************************************************************************)
EXTENDS Naturals, Sequences, FiniteSets

CONSTANTS NumJobs,   \* len(jobs)
          Limit      \* the parallelization passed to NewParallel

ASSUME PoolAssumption == /\ NumJobs \in Nat
                         /\ Limit \in Nat \ {0}

Jobs == 1..NumJobs
Workers == 1..Limit     \* workers, in the order of their creation
NoWorker == 0           \* a nil *worker
NoJob == 0              \* nobody holds p.mu

(* Where the goroutine of a job stands. *)
Phases == {"unspawned", "spawned", "running", "locking", "appending",
           "requeueing", "finishing", "done"}

VARIABLES
  pc,         \* where the dispatcher stands
  next,       \* index of the job the loop is at
  wkr,        \* the worker it has picked for that job
  active,     \* p.active: workers created so far
  queue,      \* p.workers: the channel of idle workers
  wg,         \* p.wg: the WaitGroup's counter
  mu,         \* p.mu: the job whose goroutine holds it
  slice,      \* the value of p.results that the holder of p.mu has read
  results,    \* p.results, a result standing for its job
  phase,      \* where the goroutine of each job stands
  held,       \* the worker each goroutine was started with
  cancelled   \* ctx.Err() # nil

vars == <<pc, next, wkr, active, queue, wg, mu, slice, results, phase, held,
          cancelled>>

dispatcher == <<pc, next, wkr, active>>
lock == <<mu, slice, results>>

Init == /\ pc = "loop"
        /\ next = 1
        /\ wkr = NoWorker
        /\ active = 0
        /\ queue = <<>>
        /\ wg = 0
        /\ mu = NoJob
        /\ slice = <<>>
        /\ results = <<>>
        /\ phase = [j \in Jobs |-> "unspawned"]
        /\ held = [j \in Jobs |-> NoWorker]
        /\ cancelled = FALSE
-----------------------------------------------------------------------------
(* The dispatcher. *)

(* The loop is over: no job is left, or the context is done. *)
LeaveLoop == /\ pc = "loop"
             /\ next > NumJobs \/ cancelled
             /\ pc' = "wait"
             /\ UNCHANGED <<next, wkr, active, queue, wg, lock, phase, held, cancelled>>

\* Mutant: p.active <= p.limit.
NewWorkerOffByOne == /\ pc = "loop"
                     /\ next <= NumJobs /\ ~cancelled
                     /\ active <= Limit
                     /\ active' = active + 1
                     /\ wkr' = active'
                     /\ pc' = "add"
                     /\ UNCHANGED <<next, queue, wg, lock, phase, held, cancelled>>

NewWorker == /\ pc = "loop"
             /\ next <= NumJobs /\ ~cancelled
             /\ active < Limit
             /\ active' = active + 1
             /\ wkr' = active'
             /\ pc' = "add"
             /\ UNCHANGED <<next, queue, wg, lock, phase, held, cancelled>>

(* Limit workers exist: enter the select that waits for an idle one. *)
AwaitWorker == /\ pc = "loop"
               /\ next <= NumJobs /\ ~cancelled
               /\ active >= Limit
               /\ pc' = "select"
               /\ UNCHANGED <<next, wkr, active, queue, wg, lock, phase, held, cancelled>>

TakeIdle == /\ pc = "select"
            /\ queue # <<>>
            /\ wkr' = Head(queue)
            /\ queue' = Tail(queue)
            /\ pc' = "add"
            /\ UNCHANGED <<next, active, wg, lock, phase, held, cancelled>>

(* The break in the ctx.Done() case leaves the select and not the loop: the *)
(* job is started with a nil worker.                                        *)
TakeNil == /\ pc = "select"
           /\ cancelled
           /\ wkr' = NoWorker
           /\ pc' = "add"
           /\ UNCHANGED <<next, active, queue, wg, lock, phase, held, cancelled>>

\* Mutant: no p.wg.Add(1).
AddToGroupMissing == /\ pc = "add"
                     /\ pc' = "go"
                     /\ UNCHANGED <<next, wkr, active, queue, wg, lock, phase, held, cancelled>>

AddToGroup == /\ pc = "add"
              /\ wg' = wg + 1
              /\ pc' = "go"
              /\ UNCHANGED <<next, wkr, active, queue, lock, phase, held, cancelled>>

Spawn == /\ pc = "go"
         /\ phase' = [phase EXCEPT ![next] = "spawned"]
         /\ held' = [held EXCEPT ![next] = wkr]
         /\ next' = next + 1
         /\ wkr' = NoWorker
         /\ pc' = "loop"
         /\ UNCHANGED <<active, queue, wg, lock, cancelled>>

\* Mutant: no p.wg.Wait().
ReturnAtOnce == /\ pc = "wait"
                /\ pc' = "returned"
                /\ UNCHANGED <<next, wkr, active, queue, wg, lock, phase, held, cancelled>>

(* p.wg.Wait() is over and the call returns p.results. *)
Return == /\ pc = "wait"
          /\ wg = 0
          /\ pc' = "returned"
          /\ UNCHANGED <<next, wkr, active, queue, wg, lock, phase, held, cancelled>>

Dispatch == \/ LeaveLoop \/ NewWorker \/ AwaitWorker \/ TakeIdle \/ TakeNil
            \/ AddToGroup \/ Spawn \/ Return
-----------------------------------------------------------------------------
(* The goroutine of job j. *)

(* worker.do finds the context done: the worker is not offered back. *)
Skip(j) == /\ phase[j] = "spawned"
           /\ cancelled
           /\ phase' = [phase EXCEPT ![j] = "finishing"]
           /\ UNCHANGED <<dispatcher, queue, wg, lock, held, cancelled>>

\* Mutant: worker.do without its check of the context.
BeginJobUnchecked(j) == /\ phase[j] = "spawned"
                        /\ phase' = [phase EXCEPT ![j] = "running"]
                        /\ UNCHANGED <<dispatcher, queue, wg, lock, held, cancelled>>

BeginJob(j) == /\ phase[j] = "spawned"
               /\ ~cancelled
               /\ phase' = [phase EXCEPT ![j] = "running"]
               /\ UNCHANGED <<dispatcher, queue, wg, lock, held, cancelled>>

EndJob(j) == /\ phase[j] = "running"
             /\ phase' = [phase EXCEPT ![j] = "locking"]
             /\ UNCHANGED <<dispatcher, queue, wg, lock, held, cancelled>>

\* Mutant: aggregate without p.mu.
LockMissing(j) == /\ phase[j] = "locking"
                  /\ mu' = j
                  /\ slice' = results
                  /\ phase' = [phase EXCEPT ![j] = "appending"]
                  /\ UNCHANGED <<dispatcher, queue, wg, results, held, cancelled>>

(* aggregate: lock, read the slice; then append, store it, unlock. *)
Lock(j) == /\ phase[j] = "locking"
           /\ mu = NoJob
           /\ mu' = j
           /\ slice' = results
           /\ phase' = [phase EXCEPT ![j] = "appending"]
           /\ UNCHANGED <<dispatcher, queue, wg, results, held, cancelled>>

Store(j) == /\ phase[j] = "appending"
            /\ results' = Append(slice, j)
            /\ mu' = NoJob
            /\ slice' = <<>>
            /\ phase' = [phase EXCEPT ![j] = "requeueing"]
            /\ UNCHANGED <<dispatcher, queue, wg, held, cancelled>>

\* Mutants: a channel of capacity Limit - 1, and an unbuffered one.
RequeueSmallChannel(j) ==
  /\ phase[j] = "requeueing"
  /\ queue' = IF Len(queue) < Limit - 1 THEN Append(queue, held[j]) ELSE queue
  /\ phase' = [phase EXCEPT ![j] = "finishing"]
  /\ UNCHANGED <<dispatcher, wg, lock, held, cancelled>>

RequeueUnbuffered(j) == /\ phase[j] = "requeueing"
                        /\ phase' = [phase EXCEPT ![j] = "finishing"]
                        /\ UNCHANGED <<dispatcher, queue, wg, lock, held, cancelled>>

(* The select with a default: a worker that finds the channel full is lost. *)
Requeue(j) == /\ phase[j] = "requeueing"
              /\ queue' = IF Len(queue) < Limit THEN Append(queue, held[j]) ELSE queue
              /\ phase' = [phase EXCEPT ![j] = "finishing"]
              /\ UNCHANGED <<dispatcher, wg, lock, held, cancelled>>

SignalDone(j) == /\ phase[j] = "finishing"
                 /\ wg' = wg - 1
                 /\ phase' = [phase EXCEPT ![j] = "done"]
                 /\ UNCHANGED <<dispatcher, queue, lock, held, cancelled>>

Goroutine(j) == \/ Skip(j) \/ BeginJob(j) \/ EndJob(j) \/ Lock(j) \/ Store(j)
                \/ Requeue(j) \/ SignalDone(j)
-----------------------------------------------------------------------------
(* The caller's context is done. *)
Cancel == /\ ~cancelled
          /\ pc # "returned"
          /\ cancelled' = TRUE
          /\ UNCHANGED <<dispatcher, queue, wg, lock, phase, held>>

Terminated == pc = "returned" /\ UNCHANGED vars

Next == \/ Dispatch
        \/ \E j \in Jobs : Goroutine(j)
        \/ Cancel
        \/ Terminated

(* The Go scheduler runs every goroutine that can run, the jobs end. *)
Fairness == /\ WF_vars(Dispatch)
            /\ \A j \in Jobs : WF_vars(Goroutine(j))

Spec == Init /\ [][Next]_vars /\ Fairness
-----------------------------------------------------------------------------
Running == {j \in Jobs : phase[j] \in {"running", "locking", "appending"}}

(* Goroutines that were started with a worker and may still offer it back. *)
Holding == {j \in Jobs : phase[j] \in {"spawned", "running", "locking",
                                       "appending", "requeueing"}}

(* Goroutines that the WaitGroup waits for. *)
Unfinished == Holding \cup {j \in Jobs : phase[j] = "finishing"}

Recorded == {results[k] : k \in 1..Len(results)}

(* Variables have values of their types. *)
TypeOK == /\ pc \in {"loop", "select", "add", "go", "wait", "returned"}
          /\ next \in 1..(NumJobs + 1)
          /\ wkr \in Workers \cup {NoWorker}
          /\ active \in 0..Limit
          /\ queue \in Seq(Workers)
          /\ wg \in Nat
          /\ mu \in Jobs \cup {NoJob}
          /\ slice \in Seq(Jobs)
          /\ results \in Seq(Jobs)
          /\ phase \in [Jobs -> Phases]
          /\ held \in [Jobs -> Workers \cup {NoWorker}]
          /\ cancelled \in BOOLEAN

(* Never more than Limit jobs run at the same time, although idle workers   *)
(* are queued while new ones are still being created.                       *)
WithinLimit == Cardinality(Running) <= Limit

(* A job never runs on the nil worker that the select leaves behind when    *)
(* the context is done: offering it back would dereference nil.             *)
NilWorkerIdle == \A j \in Jobs :
  phase[j] \in {"running", "locking", "appending", "requeueing"} => held[j] # NoWorker

(* While the context lives, every worker created is idle in the channel,    *)
(* held by a goroutine or in the dispatcher's hand: the non-blocking send   *)
(* loses none, or the dispatcher would wait for it for ever.                *)
NoWorkerLost == ~cancelled =>
  1..active = {queue[k] : k \in 1..Len(queue)} \cup {held[j] : j \in Holding}
              \cup ({wkr} \ {NoWorker})

(* When the call returns, no goroutine is left to touch the results, and    *)
(* without a cancellation each job has exactly one result.                  *)
ReturnsComplete == pc = "returned" =>
  /\ Unfinished = {}
  /\ ~cancelled => /\ Recorded = Jobs
                   /\ Len(results) = NumJobs

(* The slice handed to the caller is never written to again, and a result   *)
(* once appended is never lost: appends do not overwrite one another.       *)
ResultsOnlyGrow ==
  [][/\ Len(results') >= Len(results)
     /\ SubSeq(results', 1, Len(results)) = results
     /\ pc = "returned" => results' = results]_vars

(* The call returns, cancelled or not: no goroutine waits for ever on the   *)
(* channel, the mutex or the WaitGroup.                                     *)
Terminates == <>(pc = "returned")

(* The pool keeps the promise of JobBatch. *)
Batch == INSTANCE JobBatch WITH running <- Running,
                                returned <- (pc = "returned")
ImplementsBatch == Batch!Spec
=============================================================================
