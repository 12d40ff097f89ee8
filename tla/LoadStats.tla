----------------------------- MODULE LoadStats ------------------------------
(***************************************************************************)
(* The statistics of a verifiable load (src/internal/asset/                *)
(* verifiableLoad.go): ReadStats notes a block, asks for the active upkeeps *)
(* and, for each as a job of the pool, reads its delays, one goroutine per *)
(* bucket and three attempts each, all at that block; collectAndWriteStats *)
(* makes a row of each job's result and a footer.                          *)
(*                                                                         *)
(* The pool is JobBatch, which ParallelPool implements.  The context of a   *)
(* command is never cancelled.  Meanwhile upkeeps go on being performed.    *)
(***************************************************************************)
EXTENDS Integers, Sequences, FiniteSets

CONSTANTS Upkeeps,      \* the active upkeeps at the block that is read
          Limit,        \* workerNum
          Retries,      \* retryNum
          PerBucket,    \* performs in a bucket (100)
          Width,        \* the values of a uint16 (2^16)
          Counts        \* how often the upkeeps may have been performed before

MaxPerforms == Width * PerBucket    \* what the buckets have room for

ASSUME StatsAssumption == /\ IsFiniteSet(Upkeeps)
                          /\ {Limit, Retries, PerBucket, Width} \subseteq Nat \ {0}
                          /\ Counts \subseteq [Upkeeps -> 0..MaxPerforms]

Buckets == 0..(Width - 1)
Performs == 1..MaxPerforms      \* each with its delay

VARIABLES
  performed,  \* how often each upkeep has been performed by now
  pinned,     \* how often it had been at the block that is read
  stats,      \* where the command is
  job,        \* the job of each upkeep
  running, results, cancelled, returned,   \* the pool
  unread      \* the buckets of each upkeep whose attempts all failed (ghost)

Pool == INSTANCE JobBatch WITH Jobs <- Upkeeps

pool == <<running, results, cancelled, returned>>
vars == <<performed, pinned, stats, job, pool, unread>>

NoJob == [last |-> 0, next |-> 0, open |-> {}, tries |-> [b \in Buckets |-> 0],
          delays |-> [b \in Buckets |-> {}], sum |-> {}]

Init == /\ performed \in Counts
        /\ pinned = [u \in Upkeeps |-> 0]
        /\ stats = [pc |-> "start", all |-> {}]
        /\ job = [u \in Upkeeps |-> NoJob]
        /\ Pool!Init
        /\ unread = [u \in Upkeeps |-> {}]
-----------------------------------------------------------------------------
(* The contract. *)

(* The bucket of a perform: the first 100 are in bucket 0, and so on.       *)
BucketOf(k) == (k - 1) \div PerBucket

(* The bucket being filled when there are n performs. *)
CurrentBucket(n) == IF n = 0 THEN 0 ELSE BucketOf(n)

(* GetBucketedDelays at a block with n performs. *)
InBucket(b, n) == {k \in 1..n : BucketOf(k) = b}

(* Upkeeps are performed after the block too: once each is enough to tell.  *)
Perform(u) == /\ stats.pc = "collect"
              /\ performed[u] = pinned[u] /\ performed[u] < MaxPerforms
              /\ performed' = [performed EXCEPT ![u] = @ + 1]
              /\ UNCHANGED <<pinned, stats, job, pool, unread>>
-----------------------------------------------------------------------------
(* ReadStats: the latest block; the active upkeeps are asked for at it.     *)
PinBlock == /\ stats.pc = "start"
            /\ pinned' = performed
            /\ stats' = [stats EXCEPT !.pc = "collect"]
            /\ UNCHANGED <<performed, job, pool, unread>>

(* If the block or the upkeeps cannot be had, the command ends.             *)
NoBlock == /\ stats.pc = "start"
           /\ stats' = [stats EXCEPT !.pc = "dead"]
           /\ UNCHANGED <<performed, pinned, job, pool, unread>>

(* A job begins by reading its counter and its current bucket; if that fails *)
(* the whole program exits.                                                  *)
StartJob(u) == /\ stats.pc = "collect"
               /\ Pool!Begin(u)
               /\ job' = [job EXCEPT ![u].last = CurrentBucket(pinned[u])]
               /\ UNCHANGED <<performed, pinned, stats, unread>>

Fatal == /\ stats.pc = "collect"
         /\ Cardinality(running) < Limit
         /\ Pool!Recorded \cup running # Upkeeps
         /\ stats' = [stats EXCEPT !.pc = "dead"]
         /\ job' = [u \in Upkeeps |-> NoJob]
         /\ UNCHANGED <<performed, pinned, pool, unread>>

Working(u) == stats.pc = "collect" /\ u \in running

Spawning(u) == job[u].next <= job[u].last

(* One goroutine per bucket: the loop counts in a uint16. *)
SpawnBucket(u) ==
  /\ Working(u) /\ Spawning(u)
  /\ job' = [job EXCEPT ![u].open = @ \cup {job[u].next}, ![u].next = (@ + 1) % Width]
  /\ UNCHANGED <<performed, pinned, stats, pool, unread>>

\* Mutant: the call options without the block.
ReadBucketLatest(u, b) ==
  /\ Working(u) /\ b \in job[u].open
  /\ job' = [job EXCEPT ![u].open = @ \ {b}, ![u].delays[b] = InBucket(b, performed[u]),
                        ![u].tries[b] = 0]
  /\ unread' = [unread EXCEPT ![u] = @ \ {b}]
  /\ UNCHANGED <<performed, pinned, stats, pool>>

(* getBucketData: the delays of the bucket at the block ... *)
ReadBucket(u, b) ==
  /\ Working(u) /\ b \in job[u].open
  /\ job' = [job EXCEPT ![u].open = @ \ {b}, ![u].delays[b] = InBucket(b, pinned[u]),
                        ![u].tries[b] = 0]
  /\ unread' = [unread EXCEPT ![u] = @ \ {b}]
  /\ UNCHANGED <<performed, pinned, stats, pool>>

\* Mutant: one attempt too many.
RetryOneMore(u, b) ==
  /\ Working(u) /\ b \in job[u].open
  /\ job[u].tries[b] <= Retries - 1
  /\ job' = [job EXCEPT ![u].tries[b] = @ + 1]
  /\ UNCHANGED <<performed, pinned, stats, pool, unread>>

(* ... or another attempt ... *)
Retry(u, b) ==
  /\ Working(u) /\ b \in job[u].open
  /\ job[u].tries[b] < Retries - 1
  /\ job' = [job EXCEPT ![u].tries[b] = @ + 1]
  /\ UNCHANGED <<performed, pinned, stats, pool, unread>>

\* Mutant: attempts begin anew after the last one.
GiveUpNever(u, b) ==
  /\ Working(u) /\ b \in job[u].open
  /\ job[u].tries[b] = Retries - 1
  /\ job' = [job EXCEPT ![u].tries[b] = 0]
  /\ UNCHANGED <<performed, pinned, stats, pool, unread>>

(* ... or, after the last one, nothing: the bucket counts as empty. *)
GiveUp(u, b) ==
  /\ Working(u) /\ b \in job[u].open
  /\ job[u].tries[b] = Retries - 1
  /\ job' = [job EXCEPT ![u].open = @ \ {b}, ![u].delays[b] = {}, ![u].tries[b] = 0]
  /\ unread' = [unread EXCEPT ![u] = @ \cup {b}]
  /\ UNCHANGED <<performed, pinned, stats, pool>>

\* Mutant: the group is not waited for.
FinishJobUnwaited(u) ==
  /\ Working(u) /\ ~Spawning(u)
  /\ job' = [job EXCEPT ![u] =
               [NoJob EXCEPT !.sum = UNION {job[u].delays[b] : b \in 0..job[u].last}]]
  /\ Pool!Finish(u)
  /\ UNCHANGED <<performed, pinned, stats, unread>>

(* The group is waited for, and the buckets are put together. *)
FinishJob(u) ==
  /\ Working(u) /\ ~Spawning(u)
  /\ job[u].open = {}
  /\ job' = [job EXCEPT ![u] =
               [NoJob EXCEPT !.sum = UNION {job[u].delays[b] : b \in 0..job[u].last}]]
  /\ Pool!Finish(u)
  /\ UNCHANGED <<performed, pinned, stats, unread>>

(* collectAndWriteStats: rows and footer of the results there are. *)
WriteStats == /\ stats.pc = "collect"
              /\ Pool!Return
              /\ stats' = [pc |-> "printed", all |-> UNION {{u} \X job[u].sum : u \in Pool!Recorded}]
              /\ UNCHANGED <<performed, pinned, job, unread>>

Work(u) == \/ StartJob(u) \/ SpawnBucket(u) \/ FinishJob(u)
           \/ \E b \in Buckets : ReadBucket(u, b) \/ Retry(u, b) \/ GiveUp(u, b)

Next == \/ PinBlock \/ NoBlock \/ Fatal \/ WriteStats
        \/ \E u \in Upkeeps : Work(u) \/ Perform(u)

(* The scheduler runs every goroutine that can run. *)
Spec == /\ Init /\ [][Next]_vars
        /\ WF_vars(PinBlock) /\ WF_vars(WriteStats)
        /\ \A u \in Upkeeps : WF_vars(Work(u))
-----------------------------------------------------------------------------
Job == [last : Buckets, next : Buckets, open : SUBSET Buckets,
        tries : [Buckets -> 0..(Retries - 1)], delays : [Buckets -> SUBSET Performs],
        sum : SUBSET Performs]

(* Variables have values of their types. *)
TypeOK == /\ performed \in [Upkeeps -> 0..MaxPerforms]
          /\ pinned \in [Upkeeps -> 0..MaxPerforms]
          /\ stats \in [pc : {"start", "collect", "printed", "dead"},
                        all : SUBSET (Upkeeps \X Performs)]
          /\ job \in [Upkeeps -> Job]
          /\ running \subseteq Upkeeps
          /\ results \in Seq(Upkeeps)
          /\ cancelled = FALSE
          /\ returned \in BOOLEAN
          /\ unread \in [Upkeeps -> SUBSET Buckets]

Reported(u) == {k \in 1..pinned[u] : BucketOf(k) \notin unread[u]}

(* The row of an upkeep has the delay of every perform up to the block the   *)
(* title names, and of none after it, in whatever order the buckets came:    *)
(* but for those in a bucket that could not be read.                         *)
RowsAtBlock == stats.pc # "dead" =>
  \A u \in Pool!Recorded : job[u].sum = Reported(u)

(* The footer is made of all the upkeeps there were at the block. *)
FooterComplete == stats.pc = "printed" =>
  stats.all = UNION {{u} \X Reported(u) : u \in Upkeeps}

(* The command ends, unless some upkeep is at the last bucket a uint16 can   *)
(* number: its loop never ends.                                              *)
StatsEnd ==
  stats.pc = "collect" ~> \/ stats.pc \in {"printed", "dead"}
                          \/ \E u \in Upkeeps : CurrentBucket(pinned[u]) = Width - 1
=============================================================================
