--------------------------- MODULE LoadStatsProofs ---------------------------
(***************************************************************************)
(* Proofs about LoadStats: for any upkeeps and counts of performs, any     *)
(* number of jobs at once and of attempts, any size and number of buckets. *)
(***************************************************************************)
EXTENDS LoadStats, SequenceTheorems, FiniteSetTheorems, TLAPS

Recorded == Pool!Recorded

(* What the answers say that a job has of a bucket. *)
Answer(u, b) == IF b \in unread[u] THEN {} ELSE InBucket(b, pinned[u])

(* The command and the pool: no job before the block is known, none twice. *)
PoolInv ==
  /\ running \cap Recorded = {}
  /\ stats.pc = "start" => running = {} /\ Recorded = {}

(* The rows of a job that has not begun, runs, or is done.  A job at the    *)
(* last bucket there can be counts on from zero, and is never done.         *)
Fresh(u) == job[u] = NoJob
Gathering(u) ==
  /\ job[u].last = CurrentBucket(pinned[u])
  /\ job[u].last < Width - 1 =>
       /\ job[u].next <= job[u].last + 1
       /\ \A b \in job[u].open : b < job[u].next
       /\ \A b \in Buckets : b < job[u].next =>
            b \in job[u].open \/ job[u].delays[b] = Answer(u, b)

JobOf(u) ==
  /\ u \notin running \cup Recorded => Fresh(u)
  /\ u \in running => Gathering(u)
  /\ u \in Recorded => job[u].sum = Reported(u)

JobInv == \A u \in Upkeeps : JobOf(u)

IInv == TypeOK /\ PoolInv /\ (stats.pc # "dead" => JobInv) /\ FooterComplete
-----------------------------------------------------------------------------
(* Division: the buckets have room for all performs, and come in order.     *)
LEMMA Quotient ==
  ASSUME NEW a \in Nat, NEW p \in Nat \ {0}
  PROVE  a \div p \in Nat /\ p * (a \div p) <= a /\ a < p * (a \div p) + p
OBVIOUS

LEMMA QuotientBelow ==
  ASSUME NEW a \in Nat, NEW p \in Nat \ {0}, NEW w \in Nat \ {0}, a < w * p
  PROVE  a \div p \in Nat /\ a \div p <= w - 1
<1> DEFINE q == a \div p
<1>1. q \in Nat /\ p * q <= a
  BY Quotient
<1> HIDE DEF q
<1>2. ASSUME q >= w
      PROVE  FALSE
  <2>1. p * q >= p * w
    BY <1>1, <1>2
  <2> QED BY <1>1, <2>1
<1> QED BY <1>1, <1>2 DEF q

LEMMA QuotientsOrdered ==
  ASSUME NEW a \in Nat, NEW b \in Nat, NEW p \in Nat \ {0}, a <= b
  PROVE  a \div p <= b \div p
<1> DEFINE q == a \div p
           r == b \div p
<1>1. q \in Nat /\ p * q <= a /\ r \in Nat /\ b < p * r + p
  BY Quotient
<1> HIDE DEF q, r
<1>2. ASSUME q >= r + 1
      PROVE  FALSE
  <2>1. p * q >= p * (r + 1)
    BY <1>1, <1>2
  <2>2. p * (r + 1) = p * r + p
    BY <1>1
  <2> QED BY <1>1, <2>1, <2>2
<1> QED BY <1>1, <1>2 DEF q, r

LEMMA Constants ==
  /\ Limit \in Nat \ {0} /\ Retries \in Nat \ {0} /\ PerBucket \in Nat \ {0}
  /\ Width \in Nat \ {0} /\ MaxPerforms \in Nat
  /\ Counts \subseteq [Upkeeps -> 0..MaxPerforms]
  /\ 0 \in Buckets /\ Buckets \subseteq Nat
BY StatsAssumption DEF MaxPerforms, Buckets

LEMMA BucketTyped ==
  ASSUME NEW k \in Performs
  PROVE  BucketOf(k) \in Buckets
<1>1. k - 1 \in Nat /\ k - 1 < Width * PerBucket
  BY Constants DEF Performs, MaxPerforms
<1> QED BY <1>1, QuotientBelow, Constants DEF BucketOf, Buckets

(* The current bucket is a bucket, and no perform is in a later one. *)
LEMMA CurrentTyped ==
  ASSUME NEW n \in 0..MaxPerforms
  PROVE  /\ CurrentBucket(n) \in Buckets
         /\ \A k \in 1..n : BucketOf(k) \in Buckets /\ BucketOf(k) <= CurrentBucket(n)
         /\ \A b : InBucket(b, n) \subseteq Performs
<1>1. n = 0 \/ n \in Performs
  BY Constants DEF Performs
<1>2. CurrentBucket(n) \in Buckets
  BY <1>1, BucketTyped, Constants DEF CurrentBucket
<1>3. ASSUME NEW k \in 1..n
      PROVE  k \in Performs /\ BucketOf(k) <= BucketOf(n)
  <2>1. k \in Performs /\ k - 1 \in Nat /\ n - 1 \in Nat /\ k - 1 <= n - 1
    BY Constants DEF Performs
  <2> QED BY <2>1, QuotientsOrdered, Constants DEF BucketOf
<1>4. ASSUME NEW k \in 1..n
      PROVE  BucketOf(k) \in Buckets /\ BucketOf(k) <= CurrentBucket(n)
  BY <1>3, <1>4, BucketTyped DEF CurrentBucket
<1>5. \A b : InBucket(b, n) \subseteq Performs
  BY <1>3 DEF InBucket
<1> QED BY <1>2, <1>4, <1>5

(* All the answers together are the report. *)
LEMMA AnswersAll ==
  ASSUME NEW u, NEW last \in Buckets, pinned[u] \in 0..MaxPerforms, last = CurrentBucket(pinned[u])
  PROVE  UNION {Answer(u, b) : b \in 0..last} = Reported(u)
<1>1. ASSUME NEW k \in 1..pinned[u]
      PROVE  BucketOf(k) \in 0..last
  BY <1>1, CurrentTyped, Constants DEF Buckets
<1>2. \A b : Answer(u, b) \subseteq Reported(u)
  BY DEF Answer, Reported, InBucket
<1>3. \A k \in Reported(u) : k \in Answer(u, BucketOf(k))
  BY DEF Answer, Reported, InBucket
<1>4. Reported(u) \subseteq 1..pinned[u]
  BY DEF Reported
<1> QED BY <1>1, <1>2, <1>3, <1>4
-----------------------------------------------------------------------------
LEMMA JobTyped ==
  ASSUME TypeOK, NEW u \in Upkeeps
  PROVE  job[u] \in Job /\ pinned[u] \in 0..MaxPerforms /\ unread[u] \subseteq Buckets
BY DEF TypeOK

LEMMA NoJobTyped == NoJob \in Job
<1>1. 0 \in 0..(Retries - 1)
  BY Constants
<1> QED BY <1>1, Constants DEF NoJob, Job

LEMMA PoolVars ==
  /\ Pool!vars = <<running, results, cancelled, returned>>
  /\ Recorded = {results[k] : k \in 1..Len(results)}
BY DEF Pool!vars, Recorded, Pool!Recorded

LEMMA RecordedTyped ==
  ASSUME TypeOK
  PROVE  Recorded \subseteq Upkeeps
BY PoolVars, ElementOfSeq DEF TypeOK

LEMMA ResultAdded ==
  ASSUME NEW v \in Upkeeps, results \in Seq(Upkeeps), results' = Append(results, v)
  PROVE  results' \in Seq(Upkeeps) /\ Recorded' = Recorded \cup {v}
<1>1. /\ results' \in Seq(Upkeeps) /\ Len(results') = Len(results) + 1 /\ Len(results) \in Nat
      /\ \A i \in 1..Len(results) : results'[i] = results[i]
      /\ results'[Len(results) + 1] = v
  BY AppendProperties, LenProperties
<1>2. Recorded' = {results'[k] : k \in 1..Len(results')}
  BY DEF Recorded, Pool!Recorded
<1> QED BY <1>1, <1>2, PoolVars

(* A job that nothing happens to. *)
LEMMA JobKept ==
  ASSUME NEW u, JobOf(u), job'[u] = job[u], pinned'[u] = pinned[u], unread'[u] = unread[u],
         u \in running <=> u \in running', u \in Recorded <=> u \in Recorded'
  PROVE  JobOf(u)'
BY DEF JobOf, Fresh, Gathering, Answer, Reported

(* A step of the job of one upkeep, and of no other. *)
LEMMA OneJob ==
  ASSUME IInv, stats.pc = "collect", NEW u \in Upkeeps, TypeOK', JobOf(u)',
         stats' = stats, pinned' = pinned, running' \cap Recorded' = {},
         \A o \in Upkeeps : o # u =>
           /\ job'[o] = job[o] /\ unread'[o] = unread[o]
           /\ o \in running <=> o \in running'
           /\ o \in Recorded <=> o \in Recorded'
  PROVE  IInv'
<1>1. JobInv'
  BY JobKept DEF IInv, JobInv
<1>2. PoolInv' /\ FooterComplete'
  BY DEF PoolInv, FooterComplete
<1> QED BY <1>1, <1>2 DEF IInv

LEMMA StartJobStep ==
  ASSUME IInv, NEW u \in Upkeeps, StartJob(u)
  PROVE  IInv'
<1> DEFINE last == CurrentBucket(pinned[u])
<1>1. /\ stats.pc = "collect" /\ running' = running \cup {u} /\ u \notin running \cup Recorded
      /\ UNCHANGED <<results, cancelled, returned, performed, pinned, stats, unread>>
      /\ job' = [job EXCEPT ![u].last = last]
  BY DEF StartJob, Pool!Begin, Recorded
<1>2. Recorded' = Recorded
  BY <1>1, PoolVars DEF Pool!Recorded, Recorded
<1>3. /\ job[u] = NoJob /\ NoJob \in Job /\ last \in Buckets /\ job \in [Upkeeps -> Job]
  <2>1. job[u] = NoJob
    BY <1>1 DEF IInv, JobInv, JobOf, Fresh
  <2>2. NoJob \in Job
    BY NoJobTyped
  <2>3. job \in [Upkeeps -> Job]
    BY JobTyped DEF IInv, TypeOK
  <2>4. last \in Buckets
    BY CurrentTyped DEF IInv, TypeOK
  <2> QED BY <2>1, <2>2, <2>3, <2>4
<1>4. /\ job'[u] \in Job /\ job' \in [Upkeeps -> Job] /\ job'[u].last = last /\ job'[u].next = 0
      /\ job'[u].open = {} /\ \A o \in Upkeeps : o # u => job'[o] = job[o]
  <2> HIDE DEF last
  <2> DEFINE j == [NoJob EXCEPT !.last = last]
  <2>1. NoJob.next = 0 /\ NoJob.open = {}
    BY DEF NoJob
  <2>2. j \in Job /\ j.last = last /\ j.next = NoJob.next /\ j.open = NoJob.open
    BY <1>3 DEF Job
  <2>3. job' = [job EXCEPT ![u] = j]
    BY <1>1, <1>3
  <2> HIDE DEF j
  <2> QED BY <1>3, <2>1, <2>2, <2>3
<1>5. TypeOK'
  BY <1>1, <1>4 DEF IInv, TypeOK
<1>6. JobOf(u)'
  <2>1. Gathering(u)'
    BY <1>1, <1>3, <1>4, Constants DEF Gathering
  <2> QED BY <1>1, <1>2, <2>1 DEF JobOf
<1>7. running' \cap Recorded' = {}
  BY <1>1, <1>2 DEF IInv, PoolInv
<1> QED BY <1>1, <1>2, <1>4, <1>5, <1>6, <1>7, OneJob

(* Steps of a running job leave the pool alone. *)
LEMMA RunningJob ==
  ASSUME IInv, NEW u \in Upkeeps, Working(u), TypeOK', Gathering(u)',
         UNCHANGED <<stats, pinned, pool>>,
         \A o \in Upkeeps : o # u => job'[o] = job[o] /\ unread'[o] = unread[o]
  PROVE  IInv'
<1>1. stats.pc = "collect" /\ u \in running /\ UNCHANGED <<running, results>>
  BY DEF Working, pool
<1>2. Recorded' = Recorded
  BY <1>1, PoolVars DEF Pool!Recorded, Recorded
<1>3. JobOf(u)' /\ running' \cap Recorded' = {}
  BY <1>1, <1>2 DEF JobOf, IInv, PoolInv
<1> QED BY <1>1, <1>2, <1>3, OneJob

LEMMA SpawnBucketStep ==
  ASSUME IInv, NEW u \in Upkeeps, SpawnBucket(u)
  PROVE  IInv'
<1> DEFINE next == (job[u].next + 1) % Width
           open == job[u].open \cup {job[u].next}
<1>1. /\ Working(u) /\ job[u].next <= job[u].last
      /\ UNCHANGED <<performed, pinned, stats, pool, unread>>
      /\ job' = [job EXCEPT ![u] = [job[u] EXCEPT !.open = open, !.next = next]]
  BY DEF SpawnBucket, Spawning
<1>2. /\ job \in [Upkeeps -> Job] /\ job[u] \in Job /\ job[u].next \in Buckets /\ job[u].last \in Buckets
      /\ job[u].open \subseteq Buckets
  BY JobTyped DEF IInv, TypeOK, Job
<1>3. next \in Buckets /\ open \subseteq Buckets
  BY <1>2, Constants DEF Buckets
<1>4. /\ job' \in [Upkeeps -> Job] /\ job'[u].open = open /\ job'[u].next = next
      /\ job'[u].last = job[u].last /\ job'[u].delays = job[u].delays
      /\ \A o \in Upkeeps : o # u => job'[o] = job[o]
  <2> HIDE DEF next, open
  <2> QED BY <1>1, <1>2, <1>3 DEF Job
<1>5. TypeOK'
  BY <1>1, <1>4 DEF IInv, TypeOK, pool
<1>6. Gathering(u)
  BY <1>1 DEF Working, IInv, JobInv, JobOf
<1>7. Gathering(u)'
  <2>1. ASSUME job[u].last < Width - 1
        PROVE  next = job[u].next + 1
    BY <1>1, <1>2, <2>1, Constants DEF Buckets
  <2>2. ASSUME job[u].last < Width - 1
        PROVE  /\ next <= job[u].last + 1
               /\ \A b \in open : b < next
               /\ \A b \in Buckets : b < next => b \in open \/ job[u].delays[b] = Answer(u, b)
    <3>1. job[u].next \in Nat /\ job[u].last \in Nat /\ \A b \in Buckets : b \in Nat
      BY <1>2, Constants
    <3> QED BY <1>1, <1>2, <1>6, <2>1, <2>2, <3>1 DEF Gathering
  <2>3. \A b : Answer(u, b)' = Answer(u, b)
    BY <1>1 DEF Answer
  <2> HIDE DEF next, open
  <2> QED BY <1>1, <1>4, <1>6, <2>2, <2>3 DEF Gathering
<1> QED BY <1>1, <1>4, <1>5, <1>7, RunningJob

(* An attempt that fails and is not the last. *)
LEMMA RetryStep ==
  ASSUME IInv, NEW u \in Upkeeps, NEW b \in Buckets, Retry(u, b)
  PROVE  IInv'
<1> DEFINE tries == [job[u].tries EXCEPT ![b] = job[u].tries[b] + 1]
<1>1. /\ Working(u) /\ job[u].tries[b] < Retries - 1
      /\ UNCHANGED <<performed, pinned, stats, pool, unread>>
      /\ job' = [job EXCEPT ![u] = [job[u] EXCEPT !.tries = tries]]
  BY DEF Retry
<1>2. job \in [Upkeeps -> Job] /\ job[u] \in Job /\ job[u].tries \in [Buckets -> 0..(Retries - 1)]
  BY JobTyped DEF IInv, TypeOK, Job
<1>3. tries \in [Buckets -> 0..(Retries - 1)]
  <2>1. job[u].tries[b] + 1 \in 0..(Retries - 1)
    BY <1>1, <1>2, Constants
  <2> QED BY <1>2, <2>1
<1>4. /\ job' \in [Upkeeps -> Job] /\ job'[u].open = job[u].open /\ job'[u].next = job[u].next
      /\ job'[u].last = job[u].last /\ job'[u].delays = job[u].delays
      /\ \A o \in Upkeeps : o # u => job'[o] = job[o]
  <2> HIDE DEF tries
  <2> QED BY <1>1, <1>2, <1>3 DEF Job
<1>5. TypeOK'
  BY <1>1, <1>4 DEF IInv, TypeOK, pool
<1>6. Gathering(u)
  BY <1>1 DEF Working, IInv, JobInv, JobOf
<1>7. Gathering(u)'
  BY <1>1, <1>4, <1>6 DEF Gathering, Answer
<1> QED BY <1>1, <1>4, <1>5, <1>7, RunningJob

(* A bucket that is read, or given up: its answer is noted. *)
LEMMA AnswerStep ==
  ASSUME IInv, NEW u \in Upkeeps, NEW b \in Buckets, ReadBucket(u, b) \/ GiveUp(u, b)
  PROVE  IInv'
<1>1. PICK answer \in {{}, InBucket(b, pinned[u])} :
        /\ Working(u) /\ UNCHANGED <<performed, pinned, stats, pool>>
        /\ job' = [job EXCEPT ![u] = [job[u] EXCEPT
             !.open = job[u].open \ {b}, !.delays = [job[u].delays EXCEPT ![b] = answer],
             !.tries = [job[u].tries EXCEPT ![b] = 0]]]
        /\ \/ unread' = [unread EXCEPT ![u] = unread[u] \ {b}] /\ answer = InBucket(b, pinned[u])
           \/ unread' = [unread EXCEPT ![u] = unread[u] \cup {b}] /\ answer = {}
  <2>1. CASE ReadBucket(u, b)
    <3>1. /\ Working(u) /\ UNCHANGED <<performed, pinned, stats, pool>>
          /\ unread' = [unread EXCEPT ![u] = unread[u] \ {b}]
      BY <2>1 DEF ReadBucket
    <3>2. job' = [job EXCEPT ![u] = [job[u] EXCEPT
             !.open = job[u].open \ {b},
             !.delays = [job[u].delays EXCEPT ![b] = InBucket(b, pinned[u])],
             !.tries = [job[u].tries EXCEPT ![b] = 0]]]
      BY <2>1, ZenonT(60) DEF ReadBucket
    <3> WITNESS InBucket(b, pinned[u]) \in {{}, InBucket(b, pinned[u])}
    <3> QED BY <3>1, <3>2
  <2>2. CASE GiveUp(u, b)
    <3>1. /\ Working(u) /\ UNCHANGED <<performed, pinned, stats, pool>>
          /\ unread' = [unread EXCEPT ![u] = unread[u] \cup {b}]
      BY <2>2 DEF GiveUp
    <3>2. job' = [job EXCEPT ![u] = [job[u] EXCEPT
             !.open = job[u].open \ {b}, !.delays = [job[u].delays EXCEPT ![b] = {}],
             !.tries = [job[u].tries EXCEPT ![b] = 0]]]
      BY <2>2, ZenonT(60) DEF GiveUp
    <3> WITNESS {} \in {{}, InBucket(b, pinned[u])}
    <3> QED BY <3>1, <3>2
  <2> QED BY <2>1, <2>2
<1>2. /\ job \in [Upkeeps -> Job] /\ job[u] \in Job /\ unread \in [Upkeeps -> SUBSET Buckets]
      /\ job[u].open \subseteq Buckets /\ job[u].delays \in [Buckets -> SUBSET Performs]
      /\ job[u].tries \in [Buckets -> 0..(Retries - 1)]
  BY JobTyped DEF IInv, TypeOK, Job
<1> DEFINE tries == [job[u].tries EXCEPT ![b] = 0]
           delays == [job[u].delays EXCEPT ![b] = answer]
<1>3. /\ tries \in [Buckets -> 0..(Retries - 1)] /\ delays \in [Buckets -> SUBSET Performs]
  <2>1. 0 \in 0..(Retries - 1) /\ answer \subseteq Performs
    BY CurrentTyped, JobTyped, Constants DEF IInv
  <2> QED BY <1>2, <2>1
<1>4. /\ job' \in [Upkeeps -> Job] /\ job'[u].open = job[u].open \ {b} /\ job'[u].next = job[u].next
      /\ job'[u].last = job[u].last /\ job'[u].delays = delays
      /\ \A o \in Upkeeps : o # u => job'[o] = job[o]
  <2>1. job' = [job EXCEPT ![u] = [job[u] EXCEPT
                  !.open = job[u].open \ {b}, !.delays = delays, !.tries = tries]]
    BY <1>1
  <2> HIDE DEF tries, delays
  <2> QED BY <1>2, <1>3, <2>1 DEF Job
<1>5. /\ unread' \in [Upkeeps -> SUBSET Buckets] /\ \A o \in Upkeeps : o # u => unread'[o] = unread[o]
  BY <1>1, <1>2
<1>6. TypeOK'
  BY <1>1, <1>4, <1>5 DEF IInv, TypeOK, pool
<1>7. Gathering(u)
  BY <1>1 DEF Working, IInv, JobInv, JobOf
<1>8. \A c \in Buckets : delays[c] = IF c = b THEN Answer(u, b)' ELSE job[u].delays[c]
  BY <1>1, <1>2 DEF Answer
<1>9. \A c \in Buckets : c # b => Answer(u, c)' = Answer(u, c)
  BY <1>1, <1>2 DEF Answer
<1>10. Gathering(u)'
  <2> HIDE DEF delays
  <2>1. ASSUME job[u].last < Width - 1, NEW c \in Buckets, c < job[u].next, c \notin job[u].open \ {b}
        PROVE  delays[c] = Answer(u, c)'
    BY <1>7, <1>8, <1>9, <2>1 DEF Gathering
  <2> QED BY <1>1, <1>4, <1>7, <2>1 DEF Gathering
<1> QED BY <1>1, <1>4, <1>5, <1>6, <1>10, RunningJob

(* The buckets of a job that is done are all answered. *)
LEMMA FinishJobStep ==
  ASSUME IInv, NEW u \in Upkeeps, FinishJob(u)
  PROVE  IInv'
<1> DEFINE sum == UNION {job[u].delays[b] : b \in 0..job[u].last}
<1>1. /\ Working(u) /\ stats.pc = "collect" /\ u \in running /\ ~(job[u].next <= job[u].last)
      /\ job[u].open = {} /\ running' = running \ {u} /\ results' = Append(results, u)
      /\ UNCHANGED <<cancelled, returned, performed, pinned, stats, unread>>
      /\ job' = [job EXCEPT ![u] = [NoJob EXCEPT !.sum = sum]]
  BY DEF FinishJob, Working, Spawning, Pool!Finish
<1>2. /\ job \in [Upkeeps -> Job] /\ job[u].last \in Buckets /\ job[u].next \in Buckets
      /\ job[u].delays \in [Buckets -> SUBSET Performs] /\ pinned[u] \in 0..MaxPerforms
      /\ results \in Seq(Upkeeps)
  BY JobTyped DEF IInv, TypeOK, Job
<1>3. 0..job[u].last \subseteq Buckets /\ job[u].last < Width - 1
  BY <1>1, <1>2, Constants DEF Buckets
<1>4. Gathering(u)
  BY <1>1 DEF IInv, JobInv, JobOf
<1>5. sum = Reported(u)
  <2>1. \A b \in 0..job[u].last : job[u].delays[b] = Answer(u, b)
    <3>1. \A b \in 0..job[u].last : b \in Buckets /\ b < job[u].next
      BY <1>1, <1>2, <1>3, Constants
    <3> QED BY <1>1, <1>3, <1>4, <3>1 DEF Gathering
  <2>2. sum = UNION {Answer(u, b) : b \in 0..job[u].last}
    BY <2>1
  <2>3. UNION {Answer(u, b) : b \in 0..job[u].last} = Reported(u)
    BY <1>2, <1>4, AnswersAll DEF Gathering
  <2> QED BY <2>2, <2>3
<1>6. sum \subseteq Performs
  BY <1>2, <1>3
<1>7. /\ job' \in [Upkeeps -> Job] /\ job'[u].sum = sum
      /\ \A o \in Upkeeps : o # u => job'[o] = job[o]
  <2> HIDE DEF sum
  <2> QED BY <1>1, <1>2, <1>6, NoJobTyped DEF NoJob, Job
<1>8. /\ results' \in Seq(Upkeeps) /\ Recorded' = Recorded \cup {u}
  BY <1>1, <1>2, ResultAdded
<1>9. TypeOK'
  BY <1>1, <1>7, <1>8 DEF IInv, TypeOK
<1>10. running' \cap Recorded' = {}
  BY <1>1, <1>8 DEF IInv, PoolInv
<1>11. JobOf(u)'
  BY <1>1, <1>5, <1>7, <1>8 DEF JobOf, Reported
<1> QED BY <1>1, <1>7, <1>8, <1>9, <1>10, <1>11, OneJob

(* Before the block is known, and at the end. *)
LEMMA PinBlockStep ==
  ASSUME IInv, PinBlock
  PROVE  IInv'
<1>1. /\ stats.pc = "start" /\ pinned' = performed /\ stats' = [stats EXCEPT !.pc = "collect"]
      /\ UNCHANGED <<performed, job, running, results, cancelled, returned, unread>>
  BY DEF PinBlock, pool
<1>2. stats'.pc = "collect" /\ TypeOK'
  BY <1>1 DEF IInv, TypeOK
<1>3. Recorded' = Recorded
  BY <1>1, PoolVars DEF Pool!Recorded, Recorded
<1>4. PoolInv' /\ FooterComplete'
  BY <1>1, <1>2, <1>3 DEF IInv, PoolInv, FooterComplete
<1>5. JobInv'
  BY <1>1, <1>3 DEF IInv, PoolInv, JobInv, JobOf, Fresh
<1> QED BY <1>2, <1>4, <1>5 DEF IInv

LEMMA DeadStep ==
  ASSUME IInv, NoBlock \/ Fatal
  PROVE  IInv'
<1>1. /\ stats' = [stats EXCEPT !.pc = "dead"]
      /\ UNCHANGED <<performed, pinned, running, results, cancelled, returned, unread>>
      /\ job' \in {job, [u \in Upkeeps |-> NoJob]}
  BY DEF NoBlock, Fatal, pool
<1>2. stats'.pc = "dead" /\ TypeOK'
  BY <1>1, NoJobTyped DEF IInv, TypeOK
<1>3. Recorded' = Recorded
  BY <1>1, PoolVars DEF Pool!Recorded, Recorded
<1>4. PoolInv' /\ FooterComplete'
  BY <1>1, <1>2, <1>3 DEF IInv, PoolInv, FooterComplete
<1> QED BY <1>2, <1>4 DEF IInv

LEMMA WriteStatsStep ==
  ASSUME IInv, WriteStats
  PROVE  IInv'
<1> DEFINE all == UNION {{u} \X job[u].sum : u \in Recorded}
<1>1. /\ stats.pc = "collect" /\ returned' = TRUE /\ Recorded = Upkeeps
      /\ UNCHANGED <<performed, pinned, job, running, results, cancelled, unread>>
      /\ stats' = [pc |-> "printed", all |-> all]
  BY DEF WriteStats, Pool!Return, Recorded, IInv, TypeOK
<1>2. Recorded' = Recorded
  BY <1>1, PoolVars DEF Pool!Recorded, Recorded
<1>3. \A u \in Upkeeps : job[u].sum = Reported(u) /\ job[u].sum \subseteq Performs
  BY <1>1, JobTyped DEF IInv, JobInv, JobOf, Job
<1>4. all = UNION {{u} \X Reported(u) : u \in Upkeeps} /\ all \subseteq Upkeeps \X Performs
  BY <1>1, <1>3
<1>5. TypeOK'
  <2> HIDE DEF all
  <2> QED BY <1>1, <1>4 DEF IInv, TypeOK
<1>6. FooterComplete'
  BY <1>1, <1>4 DEF FooterComplete, Reported
<1>7. PoolInv'
  BY <1>1, <1>2 DEF IInv, PoolInv
<1>8. JobInv'
  BY <1>1, <1>2, JobKept DEF IInv, JobInv
<1> QED BY <1>5, <1>6, <1>7, <1>8 DEF IInv

(* What is performed after the block changes no answer. *)
LEMMA PerformStep ==
  ASSUME IInv, NEW u \in Upkeeps, Perform(u)
  PROVE  IInv'
<1>1. /\ stats.pc = "collect" /\ performed[u] < MaxPerforms
      /\ performed' = [performed EXCEPT ![u] = performed[u] + 1]
      /\ UNCHANGED <<pinned, stats, job, running, results, cancelled, returned, unread>>
  BY DEF Perform, pool
<1>2. TypeOK'
  <2>1. performed[u] + 1 \in 0..MaxPerforms
    BY <1>1, Constants DEF IInv, TypeOK
  <2> QED BY <1>1, <2>1 DEF IInv, TypeOK
<1>3. Recorded' = Recorded
  BY <1>1, PoolVars DEF Pool!Recorded, Recorded
<1>4. PoolInv' /\ FooterComplete'
  BY <1>1, <1>3 DEF IInv, PoolInv, FooterComplete
<1>5. JobInv'
  BY <1>1, <1>3, JobKept DEF IInv, JobInv
<1> QED BY <1>2, <1>4, <1>5 DEF IInv

LEMMA InvariantInit == Init => IInv
<1> SUFFICES ASSUME Init
             PROVE  IInv
  OBVIOUS
<1>1. /\ performed \in Counts /\ pinned = [u \in Upkeeps |-> 0] /\ stats = [pc |-> "start", all |-> {}]
      /\ job = [u \in Upkeeps |-> NoJob] /\ unread = [u \in Upkeeps |-> {}]
      /\ running = {} /\ results = <<>> /\ cancelled = FALSE /\ returned = FALSE
  BY DEF Init, Pool!Init
<1>2. Recorded = {}
  BY <1>1, PoolVars, EmptySeq
<1>3. TypeOK
  <2>1. 0 \in 0..MaxPerforms /\ performed \in [Upkeeps -> 0..MaxPerforms]
    BY <1>1, Constants
  <2> QED BY <1>1, <2>1, NoJobTyped, EmptySeq DEF TypeOK
<1>4. PoolInv /\ JobInv /\ FooterComplete
  BY <1>1, <1>2 DEF PoolInv, JobInv, JobOf, Fresh, FooterComplete
<1> QED BY <1>3, <1>4 DEF IInv

LEMMA InvariantStep == IInv /\ [Next]_vars => IInv'
<1> SUFFICES ASSUME IInv, [Next]_vars
             PROVE  IInv'
  OBVIOUS
<1>1. CASE PinBlock \/ NoBlock \/ Fatal \/ WriteStats
  BY <1>1, PinBlockStep, DeadStep, WriteStatsStep
<1>2. ASSUME NEW u \in Upkeeps, Work(u) \/ Perform(u)
      PROVE  IInv'
  <2>1. CASE StartJob(u) \/ SpawnBucket(u) \/ FinishJob(u) \/ Perform(u)
    BY <2>1, StartJobStep, SpawnBucketStep, FinishJobStep, PerformStep
  <2>2. ASSUME NEW b \in Buckets, ReadBucket(u, b) \/ Retry(u, b) \/ GiveUp(u, b)
        PROVE  IInv'
    BY <2>2, AnswerStep, RetryStep
  <2> QED BY <1>2, <2>1, <2>2 DEF Work
<1>3. CASE UNCHANGED vars
  <2>1. UNCHANGED <<performed, pinned, stats, job, running, results, cancelled, returned, unread>>
    BY <1>3 DEF vars, pool
  <2>2. Recorded' = Recorded
    BY <2>1, PoolVars DEF Pool!Recorded, Recorded
  <2>3. TypeOK' /\ PoolInv' /\ FooterComplete'
    BY <2>1, <2>2 DEF IInv, TypeOK, PoolInv, FooterComplete, Reported
  <2>4. stats.pc # "dead" => JobInv'
    BY <2>1, <2>2, JobKept DEF IInv, JobInv
  <2> QED BY <2>1, <2>3, <2>4 DEF IInv
<1> QED BY <1>1, <1>2, <1>3 DEF Next
-----------------------------------------------------------------------------
(* The inductive invariant holds in every reachable state, for any upkeeps, *)
(* counts, attempts and sizes, though upkeeps are performed meanwhile.      *)
THEOREM Invariance == Spec => []IInv
<1> QED BY InvariantInit, InvariantStep, PTL DEF Spec

(* Every variable keeps its type: the uint16 that counts the buckets, the   *)
(* attempts, and the performs that a row is made of.                        *)
THEOREM TypeCorrect == Spec => []TypeOK
<1>1. IInv => TypeOK
  BY DEF IInv
<1> QED BY <1>1, Invariance, PTL

(* A row has every delay up to the block of the title, and none after it,   *)
(* but for those of buckets that could not be read, in whatever order the   *)
(* buckets and the jobs came, and the upkeeps being performed meanwhile.    *)
THEOREM RowsOfBlock == Spec => []RowsAtBlock
<1>1. IInv => RowsAtBlock
  <2>1. IInv => Recorded \subseteq Upkeeps
    BY RecordedTyped DEF IInv
  <2> QED BY <2>1 DEF IInv, JobInv, JobOf, RowsAtBlock, Recorded
<1> QED BY <1>1, Invariance, PTL

(* The footer is made of the rows of all the upkeeps there were: the pool's *)
(* promise that nothing is missing when it returns.                         *)
THEOREM FooterOfAll == Spec => []FooterComplete
<1>1. IInv => FooterComplete
  BY DEF IInv
<1> QED BY <1>1, Invariance, PTL
-----------------------------------------------------------------------------
(* The guards of what a job, and the command, can do next.                   *)
JobCan(u) ==
  \/ u \notin running \cup Recorded /\ Cardinality(running) < Limit
  \/ u \in running /\ Spawning(u)
  \/ u \in running /\ job[u].open # {}
  \/ u \in running /\ ~Spawning(u) /\ job[u].open = {}
PrintCan == ~returned /\ running = {} /\ Recorded = Upkeeps

GoesOn == stats.pc = "collect" =>
  /\ PrintCan \/ \E u \in Upkeeps : JobCan(u)
  /\ \A u \in running : JobCan(u)

NotReturned == stats.pc \in {"start", "collect"} => ~returned

LEMMA NotReturnedStep == IInv /\ NotReturned /\ [Next]_vars => NotReturned'
<1> SUFFICES ASSUME IInv, NotReturned, [Next]_vars
             PROVE  NotReturned'
  OBVIOUS
<1> USE DEF IInv, TypeOK, NotReturned
<1>1. CASE PinBlock \/ NoBlock \/ Fatal
  BY <1>1 DEF PinBlock, NoBlock, Fatal, pool
<1>2. CASE WriteStats
  BY <1>2 DEF WriteStats
<1>3. ASSUME NEW u \in Upkeeps, Work(u) \/ Perform(u)
      PROVE  NotReturned'
  <2>1. CASE StartJob(u) \/ FinishJob(u)
    BY <2>1 DEF StartJob, FinishJob, Pool!Begin, Pool!Finish
  <2>2. CASE SpawnBucket(u) \/ Perform(u)
    BY <2>2 DEF SpawnBucket, Perform, pool
  <2>3. ASSUME NEW b \in Buckets, ReadBucket(u, b) \/ Retry(u, b) \/ GiveUp(u, b)
        PROVE  NotReturned'
    BY <2>3 DEF ReadBucket, Retry, GiveUp, pool
  <2> QED BY <1>3, <2>1, <2>2, <2>3 DEF Work
<1>4. CASE UNCHANGED vars
  BY <1>4 DEF vars, pool
<1> QED BY <1>1, <1>2, <1>3, <1>4 DEF Next

(* Until the statistics are printed, some upkeep's job can begin or go on,   *)
(* or the results can be written: neither the limit of the pool nor the      *)
(* group that waits for the buckets ever stops everything (ReadStats,        *)
(* getAllBuckets), even with an upkeep whose loop never ends.                *)
THEOREM NobodyStuck == Spec => []GoesOn
<1>1. Init => NotReturned
  BY DEF Init, Pool!Init, NotReturned
<1>2. Spec => []NotReturned
  BY <1>1, NotReturnedStep, Invariance, PTL DEF Spec
<1>3. ASSUME IInv, NotReturned, stats.pc = "collect"
      PROVE  GoesOn
  <2>1. \A u \in running : JobCan(u)
    BY DEF JobCan
  <2>2. CASE running # {}
    BY <1>3, <2>1, <2>2 DEF GoesOn, IInv, TypeOK
  <2>3. CASE running = {}
    <3>1. Cardinality(running) < Limit
      BY <2>3, FS_EmptySet, Constants
    <3>2. Recorded = Upkeeps \/ \E u \in Upkeeps : u \notin running \cup Recorded
      BY <1>3, <2>3, RecordedTyped DEF IInv
    <3> QED BY <1>3, <2>1, <2>3, <3>1, <3>2 DEF GoesOn, PrintCan, JobCan, NotReturned
  <2> QED BY <2>2, <2>3
<1>4. IInv /\ NotReturned => GoesOn
  BY <1>3 DEF GoesOn
<1> QED BY <1>2, <1>4, Invariance, PTL
-----------------------------------------------------------------------------
(* How far a job is, and how many attempts it has left for a bucket.         *)
Stage(u) == IF u \in Recorded THEN 0 ELSE IF u \in running THEN 1 ELSE 2
Left(u, b) ==
  IF u \in Recorded \/ (u \in running /\ b > job[u].last) THEN 0
  ELSE IF u \notin running \/ b >= job[u].next THEN Retries + 1
  ELSE IF b \in job[u].open THEN Retries - job[u].tries[b] ELSE 0

Counted == \A u \in Upkeeps : Stage(u) \in Nat /\ \A b \in Buckets : Left(u, b) \in Nat

LastBucket(u) == CurrentBucket(pinned[u]) = Width - 1

NotHigher(u) == Stage(u)' <= Stage(u) /\ \A b \in Buckets : Left(u, b)' <= Left(u, b)
Lower(u) == \/ Stage(u)' < Stage(u)
            \/ \E b \in Buckets : Left(u, b)' < Left(u, b)
Nearer == stats.pc = "collect" /\ stats'.pc = "collect" =>
  \A u \in Upkeeps : ~LastBucket(u) => NotHigher(u) /\ (Work(u) => Lower(u))

LEMMA CountedTyped == IInv => Counted
<1>1. ASSUME IInv, NEW u \in Upkeeps, NEW b \in Buckets
      PROVE  Left(u, b) \in Nat
  <2>1. Retries \in Nat \ {0} /\ job[u].tries[b] \in 0..(Retries - 1)
    BY <1>1, JobTyped, Constants DEF IInv, Job
  <2> QED BY <2>1 DEF Left
<1>2. \A u : Stage(u) \in Nat
  BY DEF Stage
<1> QED BY <1>1, <1>2 DEF Counted

(* A job that nothing happens to is as far as it was. *)
LEMMA StillThere ==
  ASSUME IInv, NEW u \in Upkeeps, job'[u] = job[u],
         u \in running <=> u \in running', u \in Recorded <=> u \in Recorded'
  PROVE  NotHigher(u)
<1>1. Stage(u)' = Stage(u) /\ \A b \in Buckets : Left(u, b)' = Left(u, b)
  BY DEF Stage, Left
<1>2. Stage(u) \in Nat /\ \A b \in Buckets : Left(u, b) \in Nat
  BY CountedTyped DEF Counted
<1> QED BY <1>1, <1>2 DEF NotHigher

(* A step of a job changes no other one's. *)
LEMMA OthersStill ==
  ASSUME IInv, NEW v \in Upkeeps, Work(v), NEW u \in Upkeeps, u # v
  PROVE  NotHigher(u)
<1> USE DEF IInv, TypeOK
<1>1. job'[u] = job[u]
  BY DEF Work, StartJob, SpawnBucket, FinishJob, ReadBucket, Retry, GiveUp
<1>2. u \in running <=> u \in running'
  BY DEF Work, StartJob, SpawnBucket, FinishJob, ReadBucket, Retry, GiveUp, pool, Pool!Begin, Pool!Finish
<1>3. u \in Recorded <=> u \in Recorded'
  <2>1. CASE FinishJob(v)
    <3>1. /\ results' = Append(results, v) /\ results \in Seq(Upkeeps)
      BY <2>1 DEF FinishJob, Pool!Finish
    <3> QED BY <3>1, ResultAdded
  <2>2. CASE UNCHANGED results
    BY <2>2, PoolVars DEF Recorded, Pool!Recorded
  <2>3. FinishJob(v) \/ UNCHANGED results
    BY DEF Work, StartJob, SpawnBucket, ReadBucket, Retry, GiveUp, pool, Pool!Begin
  <2> QED BY <2>1, <2>2, <2>3
<1> QED BY <1>1, <1>2, <1>3, StillThere

(* What the job of an upkeep does next takes it further. *)
LEMMA WorkLower ==
  ASSUME IInv, NEW u \in Upkeeps, ~LastBucket(u), Work(u)
  PROVE  NotHigher(u) /\ Lower(u)
<1>1. /\ job \in [Upkeeps -> Job] /\ job[u] \in Job /\ stats.pc = "collect"
      /\ running \cap Recorded = {} /\ Retries \in Nat \ {0}
      /\ job[u].next \in Nat /\ job[u].last \in Nat /\ Buckets \subseteq Nat
      /\ job[u].tries \in [Buckets -> 0..(Retries - 1)] /\ Width \in Nat \ {0}
  <2>1. stats.pc = "collect"
    BY DEF Work, StartJob, SpawnBucket, FinishJob, ReadBucket, Retry, GiveUp, Working
  <2>2. job[u].next \in Buckets /\ job[u].last \in Buckets /\ Buckets \subseteq Nat
    BY JobTyped, Constants DEF IInv, Job
  <2>3. job[u].next \in Nat /\ job[u].last \in Nat
    BY <2>2
  <2> QED BY <2>1, <2>2, <2>3, JobTyped, Constants DEF IInv, PoolInv, TypeOK, Job
<1>2. \A b \in Buckets : b \in Nat /\ Left(u, b) \in Nat
  BY <1>1, CountedTyped DEF Counted
<1>3. u \in running => /\ job[u].last < Width - 1 /\ job[u].next <= job[u].last + 1
                       /\ \A b \in job[u].open : b < job[u].next
  <2>1. u \in running => Gathering(u)
    BY <1>1 DEF IInv, JobInv, JobOf
  <2>2. u \in running => job[u].last # Width - 1
    BY <2>1 DEF Gathering, LastBucket
  <2>3. job[u].last \in 0..(Width - 1)
    BY <1>1 DEF Job, Buckets
  <2> QED BY <1>1, <2>1, <2>2, <2>3 DEF Gathering
<1>4. CASE StartJob(u)
  <2>1. /\ u \notin running \cup Recorded /\ u \in running' /\ UNCHANGED results
        /\ job[u] = NoJob /\ job'[u] = [job[u] EXCEPT !.last = CurrentBucket(pinned[u])]
    BY <1>1, <1>4 DEF StartJob, Pool!Begin, Recorded, IInv, JobInv, JobOf, Fresh
  <2>2. u \notin Recorded' /\ job'[u].next = 0
    BY <1>1, <2>1, PoolVars DEF Recorded, Pool!Recorded, NoJob
  <2>3. Stage(u) = 2 /\ Stage(u)' = 1
    BY <2>1, <2>2 DEF Stage
  <2>4. \A b \in Buckets : Left(u, b) = Retries + 1 /\ Left(u, b)' \in {0, Retries + 1}
    BY <1>2, <2>1, <2>2 DEF Left
  <2> QED BY <1>1, <2>3, <2>4 DEF NotHigher, Lower
<1>5. CASE FinishJob(u)
  <2>1. u \in running /\ results' = Append(results, u) /\ results \in Seq(Upkeeps)
    BY <1>5 DEF FinishJob, Working, Pool!Finish, IInv, TypeOK
  <2>2. u \in Recorded' /\ u \notin Recorded
    BY <1>1, <2>1, ResultAdded
  <2>3. Stage(u) = 1 /\ Stage(u)' = 0 /\ \A b \in Buckets : Left(u, b)' = 0
    BY <2>1, <2>2 DEF Stage, Left
  <2> QED BY <1>2, <2>3 DEF NotHigher, Lower
<1>6. ASSUME u \in running, UNCHANGED pool
      PROVE  /\ u \in running' /\ u \notin Recorded /\ u \notin Recorded'
             /\ Stage(u) = 1 /\ Stage(u)' = 1
  BY <1>1, <1>6, PoolVars DEF pool, Recorded, Pool!Recorded, Stage
<1>7. CASE SpawnBucket(u)
  <2>1. u \in running /\ job[u].next <= job[u].last /\ UNCHANGED pool
    BY <1>7 DEF SpawnBucket, Working, Spawning
  <2>2. (job[u].next + 1) % Width = job[u].next + 1
    <3>1. job[u].next + 1 \in 0..(Width - 1)
      BY <1>1, <1>3, <2>1
    <3> QED BY <1>1, <3>1
  <2>3. job'[u] = [job[u] EXCEPT !.open = job[u].open \cup {job[u].next}, !.next = job[u].next + 1]
    BY <1>1, <1>7, <2>2 DEF SpawnBucket
  <2>4. /\ job'[u].open = job[u].open \cup {job[u].next} /\ job'[u].next = job[u].next + 1
        /\ job'[u].last = job[u].last /\ job'[u].tries = job[u].tries
    BY <1>1, <2>3 DEF Job
  <2>5. job[u].next \in Buckets
    BY <1>1 DEF Job
  <2>6. ASSUME NEW b \in Buckets
        PROVE  /\ b # job[u].next => Left(u, b)' = Left(u, b)
               /\ b = job[u].next => Left(u, b)' \in Nat /\ Left(u, b)' < Left(u, b)
    <3>1. job[u].tries[b] \in 0..(Retries - 1) /\ b \in Nat
      BY <1>1
    <3>2. CASE b > job[u].last
      BY <1>6, <2>1, <2>4, <3>1, <3>2, <1>1 DEF Left
    <3>3. CASE b <= job[u].last /\ b > job[u].next
      BY <1>6, <2>1, <2>4, <3>1, <3>3, <1>1 DEF Left
    <3>4. CASE b < job[u].next
      BY <1>6, <2>1, <2>4, <3>1, <3>4, <1>1 DEF Left
    <3>5. CASE b = job[u].next
      <4>1. Left(u, b) = Retries + 1
        BY <1>1, <1>6, <2>1, <3>1, <3>5 DEF Left
      <4>2. Left(u, b)' = Retries - job[u].tries[b]
        BY <1>1, <1>6, <2>1, <2>4, <3>1, <3>5 DEF Left
      <4> QED BY <1>1, <3>1, <3>5, <4>1, <4>2
    <3> QED BY <1>1, <3>1, <3>2, <3>3, <3>4, <3>5
  <2> QED BY <1>2, <1>6, <2>1, <2>5, <2>6 DEF NotHigher, Lower
<1>8. ASSUME NEW c \in Buckets, ReadBucket(u, c) \/ Retry(u, c) \/ GiveUp(u, c)
      PROVE  NotHigher(u) /\ Lower(u)
  <2>1. u \in running /\ c \in job[u].open /\ UNCHANGED pool
    BY <1>8 DEF ReadBucket, Retry, GiveUp, Working
  <2>2. /\ job'[u].next = job[u].next /\ job'[u].last = job[u].last
        /\ \A b \in Buckets : b # c =>
             (b \in job'[u].open <=> b \in job[u].open) /\ job'[u].tries[b] = job[u].tries[b]
        /\ c \notin job'[u].open \/ job'[u].tries[c] = job[u].tries[c] + 1
    <3>1. CASE ReadBucket(u, c)
      BY <1>1, <3>1 DEF ReadBucket, Job
    <3>2. CASE Retry(u, c)
      BY <1>1, <3>2 DEF Retry, Job
    <3>3. CASE GiveUp(u, c)
      BY <1>1, <3>3 DEF GiveUp, Job
    <3> QED BY <1>8, <3>1, <3>2, <3>3
  <2>3. \A b \in Buckets : b # c => Left(u, b)' = Left(u, b)
    BY <1>6, <2>1, <2>2 DEF Left
  <2>4. Left(u, c)' \in Nat /\ Left(u, c)' < Left(u, c)
    <3>1. c \in Nat /\ c < job[u].next /\ c <= job[u].last /\ job[u].tries[c] \in 0..(Retries - 1)
      BY <1>1, <1>3, <2>1
    <3>2. Left(u, c) = Retries - job[u].tries[c]
      BY <1>1, <1>6, <2>1, <3>1 DEF Left
    <3>3. Left(u, c)' \in {0, Retries - (job[u].tries[c] + 1)}
      BY <1>1, <1>6, <2>1, <2>2, <3>1 DEF Left
    <3> QED BY <1>1, <3>1, <3>2, <3>3
  <2> QED BY <1>2, <1>6, <2>1, <2>3, <2>4 DEF NotHigher, Lower
<1> QED BY <1>4, <1>5, <1>7, <1>8 DEF Work

(* Each step of a job - its begin, its end, a goroutine for a bucket, an     *)
(* attempt, an answer - is one of a bounded number, and nothing another job  *)
(* does takes it back (getAllBuckets, getBucketData): but for an upkeep at   *)
(* the last bucket there can be, where the counter goes on from zero.  With  *)
(* NobodyStuck, all of StatsEnd but that the goroutines go on being run.     *)
THEOREM StepsRunOut == Spec => []Counted /\ [][Nearer]_vars
<1>1. IInv => Counted
  BY CountedTyped
<1>2. ASSUME IInv, Next
      PROVE  Nearer
  <2> SUFFICES ASSUME stats.pc = "collect", stats'.pc = "collect", NEW u \in Upkeeps, ~LastBucket(u)
               PROVE  NotHigher(u) /\ (Work(u) => Lower(u))
    BY DEF Nearer
  <2>1. CASE Work(u)
    BY <1>2, <2>1, WorkLower
  <2>2. CASE ~Work(u)
    <3>1. ~(PinBlock \/ NoBlock \/ Fatal \/ WriteStats)
      BY <1>2 DEF PinBlock, NoBlock, Fatal, WriteStats, IInv, TypeOK
    <3>2. PICK v \in Upkeeps : Work(v) \/ Perform(v)
      BY <1>2, <3>1 DEF Next
    <3>3. CASE Work(v)
      BY <1>2, <2>2, <3>3, OthersStill
    <3>4. CASE Perform(v)
      <4>1. UNCHANGED <<job, running, results>>
        BY <3>4 DEF Perform, pool
      <4>2. Recorded' = Recorded
        BY <4>1, PoolVars DEF Recorded, Pool!Recorded
      <4> QED BY <1>2, <2>2, <4>1, <4>2, StillThere
    <3> QED BY <2>2, <3>2, <3>3, <3>4
  <2> QED BY <2>1, <2>2
<1>3. IInv /\ [Next]_vars => [Nearer]_vars
  BY <1>2
<1> QED BY <1>1, <1>3, Invariance, PTL DEF Spec
=============================================================================
