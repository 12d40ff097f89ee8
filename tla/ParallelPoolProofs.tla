------------------------- MODULE ParallelPoolProofs -------------------------
(***************************************************************************)
(* Proofs about ParallelPool, for every number of jobs and every limit.    *)
(* The inductive invariant Inv is built from six parts, each of which is   *)
(* preserved given the ones before it.                                     *)
(***************************************************************************)
EXTENDS ParallelPool, FiniteSetTheorems, TLAPS

Queued == {queue[k] : k \in 1..Len(queue)}

(* The dispatcher: which jobs are started, and what it has in hand. *)
ControlInv ==
  /\ pc \in {"loop", "select", "wait", "returned"} => wkr = NoWorker
  /\ pc \in {"select", "add", "go"} => next <= NumJobs
  /\ pc \in {"add", "go"} /\ wkr = NoWorker => cancelled
  /\ pc \in {"wait", "returned"} /\ ~cancelled => next = NumJobs + 1
  /\ \A j \in Jobs : phase[j] = "unspawned" <=> j >= next

(* A worker created is in at most one place. *)
WorkerInv ==
  /\ wkr <= active
  /\ \A k \in 1..Len(queue) : queue[k] <= active /\ queue[k] # wkr
  /\ \A k, l \in 1..Len(queue) : queue[k] = queue[l] => k = l
  /\ \A j \in Holding : /\ held[j] <= active
                        /\ held[j] \notin Queued
                        /\ held[j] = wkr => held[j] = NoWorker
                        /\ held[j] = NoWorker => phase[j] = "spawned" /\ cancelled
  /\ \A i, j \in Holding : held[i] = held[j] /\ held[i] # NoWorker => i = j

(* The mutex protects p.results. *)
MutexInv ==
  /\ \A j \in Jobs : phase[j] = "appending" <=> mu = j
  /\ mu # NoJob => slice = results

(* A job's result is recorded once, when its goroutine passes aggregate. *)
ResultInv ==
  /\ \A k, l \in 1..Len(results) : results[k] = results[l] => k = l
  /\ \A j \in Jobs : j \in Recorded => phase[j] \in {"requeueing", "finishing", "done"}
  /\ \A j \in Jobs : phase[j] = "requeueing" => j \in Recorded
  /\ \A j \in Jobs : phase[j] \in {"finishing", "done"} /\ ~cancelled => j \in Recorded

(* The WaitGroup counts the goroutines that are not done, and the one that  *)
(* is about to be started.                                                  *)
GroupInv ==
  /\ wg = Cardinality(Unfinished) + (IF pc = "go" THEN 1 ELSE 0)
  /\ pc = "returned" => wg = 0

Inv == /\ TypeOK
       /\ ControlInv
       /\ WorkerInv
       /\ NoWorkerLost
       /\ MutexInv
       /\ ResultInv
       /\ GroupInv
-----------------------------------------------------------------------------
(* What Append and Tail do to a sequence and to the set of its elements. *)
LEMMA AppendFacts ==
  ASSUME NEW S, NEW s \in Seq(S), NEW e \in S
  PROVE  /\ Append(s, e) \in Seq(S)
         /\ Len(Append(s, e)) = Len(s) + 1
         /\ \A k \in 1..Len(s) : Append(s, e)[k] = s[k]
         /\ Append(s, e)[Len(s) + 1] = e
         /\ {Append(s, e)[k] : k \in 1..Len(Append(s, e))}
              = {s[k] : k \in 1..Len(s)} \cup {e}
<1>1. /\ Append(s, e) \in Seq(S)
      /\ Len(Append(s, e)) = Len(s) + 1
      /\ \A k \in 1..Len(s) : Append(s, e)[k] = s[k]
      /\ Append(s, e)[Len(s) + 1] = e
  OBVIOUS
<1>2. Len(s) \in Nat
  OBVIOUS
<1>3. 1..(Len(s) + 1) = 1..Len(s) \cup {Len(s) + 1}
  BY <1>2
<1> QED
  BY <1>1, <1>3

LEMMA TailFacts ==
  ASSUME NEW S, NEW s \in Seq(S), s # <<>>
  PROVE  /\ Tail(s) \in Seq(S)
         /\ Len(s) \in Nat \ {0}
         /\ Len(Tail(s)) = Len(s) - 1
         /\ Head(s) = s[1]
         /\ \A k \in 1..Len(Tail(s)) : Tail(s)[k] = s[k + 1]
         /\ {s[k] : k \in 1..Len(s)}
              = {Tail(s)[k] : k \in 1..Len(Tail(s))} \cup {Head(s)}
<1>1. /\ Tail(s) \in Seq(S)
      /\ Len(s) \in Nat \ {0}
      /\ Len(Tail(s)) = Len(s) - 1
      /\ Head(s) = s[1]
      /\ \A k \in 1..Len(Tail(s)) : Tail(s)[k] = s[k + 1]
  OBVIOUS
<1>2. ASSUME NEW k \in 1..Len(s), k # 1
      PROVE  s[k] = Tail(s)[k - 1] /\ k - 1 \in 1..Len(Tail(s))
  BY <1>1, <1>2
<1>3. {s[k] : k \in 1..Len(s)} \subseteq
        {Tail(s)[k] : k \in 1..Len(Tail(s))} \cup {Head(s)}
  BY <1>1, <1>2
<1>4. \A k \in 1..Len(Tail(s)) : k + 1 \in 1..Len(s)
  BY <1>1
<1> QED
  BY <1>1, <1>3, <1>4

(* Init establishes every part. *)
LEMMA InitInv == Init => Inv
<1> SUFFICES ASSUME Init PROVE Inv
  OBVIOUS
<1> USE PoolAssumption DEF Init, Jobs, Workers, NoWorker, NoJob
<1>1. TypeOK
  <2>1. <<>> \in Seq(Workers) /\ <<>> \in Seq(Jobs)
    OBVIOUS
  <2>2. phase \in [Jobs -> Phases] /\ held \in [Jobs -> Workers \cup {NoWorker}]
    BY DEF Phases
  <2>3. next \in 1..(NumJobs + 1) /\ active \in 0..Limit /\ wg \in Nat
    OBVIOUS
  <2> HIDE DEF Jobs, Workers
  <2> QED
    BY <2>1, <2>2, <2>3 DEF TypeOK
<1>2. ControlInv
  BY DEF ControlInv
<1>3. WorkerInv
  BY DEF WorkerInv, Holding, Queued
<1>4. NoWorkerLost
  BY DEF NoWorkerLost, Holding
<1>5. MutexInv
  BY DEF MutexInv
<1>6. ResultInv
  BY DEF ResultInv, Recorded
<1>7. GroupInv
  <2>1. Unfinished = {}
    BY DEF Unfinished, Holding
  <2> QED
    BY <2>1, FS_EmptySet DEF GroupInv
<1> QED
  BY <1>1, <1>2, <1>3, <1>4, <1>5, <1>6, <1>7 DEF Inv

(* The WaitGroup's set is finite, and nonempty while a goroutine is left. *)
LEMMA UnfinishedFinite ==
  /\ IsFiniteSet(Unfinished) /\ Cardinality(Unfinished) \in Nat
  /\ Cardinality(Unfinished) = 0 <=> Unfinished = {}
<1>1. IsFiniteSet(Jobs)
  BY PoolAssumption, FS_Interval DEF Jobs
<1>2. Unfinished \subseteq Jobs
  BY DEF Unfinished, Holding
<1> QED
  BY <1>1, <1>2, FS_Subset, FS_CardinalityType, FS_EmptySet

(* Every step preserves the types. *)
LEMMA TypeStep == Inv /\ [Next]_vars => TypeOK'
<1> SUFFICES ASSUME TypeOK, ControlInv, WorkerInv, GroupInv, [Next]_vars PROVE TypeOK'
  BY DEF Inv
<1> USE PoolAssumption DEF TypeOK, Jobs, Workers, NoWorker, NoJob, Phases,
        dispatcher, lock
<1>1. CASE LeaveLoop
  BY <1>1 DEF LeaveLoop
<1>2. CASE NewWorker
  BY <1>2 DEF NewWorker
<1>3. CASE AwaitWorker
  BY <1>3 DEF AwaitWorker
<1>4. CASE TakeIdle
  BY <1>4 DEF TakeIdle
<1>5. CASE TakeNil
  BY <1>5 DEF TakeNil
<1>6. CASE AddToGroup
  BY <1>6 DEF AddToGroup
<1>7. CASE Spawn
  BY <1>7 DEF Spawn, ControlInv
<1>8. CASE Return
  BY <1>8 DEF Return
<1>9. ASSUME NEW j \in Jobs, Skip(j) PROVE TypeOK'
  BY <1>9 DEF Skip
<1>10. ASSUME NEW j \in Jobs, BeginJob(j) PROVE TypeOK'
  BY <1>10 DEF BeginJob
<1>11. ASSUME NEW j \in Jobs, EndJob(j) PROVE TypeOK'
  BY <1>11 DEF EndJob
<1>12. ASSUME NEW j \in Jobs, Lock(j) PROVE TypeOK'
  BY <1>12 DEF Lock
<1>13. ASSUME NEW j \in Jobs, Store(j) PROVE TypeOK'
  BY <1>13 DEF Store
<1>14. ASSUME NEW j \in Jobs, Requeue(j) PROVE TypeOK'
  <2>1. held[j] \in Workers
    BY <1>14 DEF Requeue, WorkerInv, Holding
  <2>2. queue' \in Seq(Workers)
    <3>1. Append(queue, held[j]) \in Seq(Workers)
      BY <2>1, AppendFacts
    <3> QED
      BY <1>14, <3>1 DEF Requeue
  <2>3. phase' = [phase EXCEPT ![j] = "finishing"]
        /\ UNCHANGED <<dispatcher, wg, lock, held, cancelled>>
    BY <1>14 DEF Requeue
  <2> QED
    BY <2>2, <2>3
<1>15. ASSUME NEW j \in Jobs, SignalDone(j) PROVE TypeOK'
  <2>1. wg \in Nat \ {0}
    <3>1. j \in Unfinished
      BY <1>15 DEF SignalDone, Unfinished
    <3> QED
      BY <3>1, UnfinishedFinite DEF GroupInv
  <2> QED
    BY <1>15, <2>1 DEF SignalDone
<1>16. CASE Cancel
  BY <1>16 DEF Cancel
<1>17. CASE UNCHANGED vars
  BY <1>17 DEF vars
<1> QED
  BY <1>1, <1>2, <1>3, <1>4, <1>5, <1>6, <1>7, <1>8, <1>9, <1>10, <1>11,
     <1>12, <1>13, <1>14, <1>15, <1>16, <1>17
     DEF Next, Dispatch, Goroutine, Terminated

(* Every step preserves ControlInv: jobs are started in order, one each. *)
LEMMA ControlStep == Inv /\ [Next]_vars => ControlInv'
<1> SUFFICES ASSUME TypeOK, ControlInv, WorkerInv, [Next]_vars PROVE ControlInv'
  BY DEF Inv
<1> USE PoolAssumption DEF TypeOK, ControlInv, Jobs, Workers, NoWorker, dispatcher
<1>1. CASE LeaveLoop
  BY <1>1 DEF LeaveLoop
<1>2. CASE NewWorker
  BY <1>2 DEF NewWorker
<1>3. CASE AwaitWorker
  BY <1>3 DEF AwaitWorker
<1>4. CASE TakeIdle
  <2>1. wkr' # NoWorker
    BY <1>4, TailFacts DEF TakeIdle
  <2> QED
    BY <1>4, <2>1 DEF TakeIdle
<1>5. CASE TakeNil
  BY <1>5 DEF TakeNil
<1>6. CASE AddToGroup
  BY <1>6 DEF AddToGroup
<1>7. CASE Spawn
  BY <1>7 DEF Spawn
<1>8. CASE Return
  BY <1>8 DEF Return
<1>9. ASSUME NEW j \in Jobs, Skip(j) PROVE ControlInv'
  BY <1>9 DEF Skip
<1>10. ASSUME NEW j \in Jobs, BeginJob(j) PROVE ControlInv'
  BY <1>10 DEF BeginJob
<1>11. ASSUME NEW j \in Jobs, EndJob(j) PROVE ControlInv'
  BY <1>11 DEF EndJob
<1>12. ASSUME NEW j \in Jobs, Lock(j) PROVE ControlInv'
  BY <1>12 DEF Lock
<1>13. ASSUME NEW j \in Jobs, Store(j) PROVE ControlInv'
  BY <1>13 DEF Store
<1>14. ASSUME NEW j \in Jobs, Requeue(j) PROVE ControlInv'
  BY <1>14 DEF Requeue
<1>15. ASSUME NEW j \in Jobs, SignalDone(j) PROVE ControlInv'
  BY <1>15 DEF SignalDone
<1>16. CASE Cancel
  BY <1>16 DEF Cancel
<1>17. CASE UNCHANGED vars
  BY <1>17 DEF vars
<1> QED
  BY <1>1, <1>2, <1>3, <1>4, <1>5, <1>6, <1>7, <1>8, <1>9, <1>10, <1>11,
     <1>12, <1>13, <1>14, <1>15, <1>16, <1>17
     DEF Next, Dispatch, Goroutine, Terminated

(* A worker that is not in the channel leaves room in it: the send of        *)
(* Requeue never takes its default.                                          *)
LEMMA RoomInQueue ==
  ASSUME TypeOK, WorkerInv, NEW w \in Workers, w \notin Queued
  PROVE  Len(queue) < Limit
<1> DEFINE f == [k \in 1..Len(queue) |-> queue[k]]
<1>1. Len(queue) \in Nat /\ Limit \in Nat \ {0}
  BY PoolAssumption DEF TypeOK
<1>2. f \in Injection(1..Len(queue), Workers \ {w})
  <2>1. /\ queue \in Seq(Workers) /\ w \notin Queued
        /\ \A k, l \in 1..Len(queue) : queue[k] = queue[l] => k = l
    BY DEF TypeOK, WorkerInv
  <2>2. \A k \in 1..Len(queue) : queue[k] \in Workers \ {w}
    BY <2>1 DEF Queued
  <2>3. f \in [1..Len(queue) -> Workers \ {w}]
    BY <2>2
  <2>4. \A k, l \in 1..Len(queue) : f[k] = f[l] => k = l
    BY <2>1
  <2> HIDE DEF f
  <2> QED
    BY <2>3, <2>4 DEF Injection, IsInjective
<1>3. IsFiniteSet(Workers) /\ Cardinality(Workers) = Limit
  <2>1. /\ IsFiniteSet(1..Limit)
        /\ Cardinality(1..Limit) = IF 1 > Limit THEN 0 ELSE Limit - 1 + 1
    BY <1>1, FS_Interval
  <2> QED
    BY <1>1, <2>1 DEF Workers
<1>4. /\ IsFiniteSet(Workers \ {w})
      /\ Cardinality(Workers \ {w}) = Limit - 1
  BY <1>3, FS_RemoveElement
<1>5. Cardinality(1..Len(queue)) = Len(queue)
  <2>1. Cardinality(1..Len(queue)) = IF 1 > Len(queue) THEN 0 ELSE Len(queue) - 1 + 1
    BY <1>1, FS_Interval
  <2> QED
    BY <1>1, <2>1
<1> HIDE DEF f
<1>6. Cardinality(1..Len(queue)) <= Cardinality(Workers \ {w})
  BY <1>2, <1>4, FS_Injection
<1> QED
  BY <1>1, <1>4, <1>5, <1>6

LEMMA RequeueSends ==
  ASSUME TypeOK, WorkerInv, NEW j \in Jobs, Requeue(j)
  PROVE  /\ j \in Holding
         /\ held[j] \in Workers
         /\ queue' = Append(queue, held[j])
<1>1. j \in Holding /\ held[j] # NoWorker
  BY DEF Requeue, WorkerInv, Holding
<1>2. held[j] \in Workers /\ held[j] \notin Queued
  BY <1>1 DEF TypeOK, WorkerInv
<1>3. Len(queue) < Limit
  BY <1>2, RoomInQueue
<1> QED
  BY <1>1, <1>2, <1>3 DEF Requeue

(* A step that leaves channel, dispatcher and the goroutines' workers alone *)
(* keeps WorkerInv, if no goroutine comes to hold one and none on the nil   *)
(* worker starts.                                                           *)
LEMMA WorkersUntouched ==
  ASSUME WorkerInv, UNCHANGED <<wkr, active, queue, held>>, cancelled => cancelled',
         Holding' \subseteq Holding,
         \A j \in Holding' : held[j] = NoWorker => phase'[j] = phase[j]
  PROVE  WorkerInv'
<1>1. Queued' = Queued
  BY DEF Queued
<1>2. \A j \in Holding' : /\ held'[j] <= active' /\ held'[j] \notin Queued'
                          /\ held'[j] = wkr' => held'[j] = NoWorker
                          /\ held'[j] = NoWorker => phase'[j] = "spawned" /\ cancelled'
  BY <1>1 DEF WorkerInv
<1>3. \A i, j \in Holding' : held'[i] = held'[j] /\ held'[i] # NoWorker => i = j
  BY DEF WorkerInv
<1> QED
  BY <1>1, <1>2, <1>3 DEF WorkerInv

(* What is received from the channel was in it, and what is left was too. *)
LEMMA ReceiveIdle ==
  ASSUME TypeOK, TakeIdle
  PROVE  wkr' \in Queued /\ Queued' \subseteq Queued
<1>1. /\ queue \in Seq(Workers) /\ queue # <<>>
      /\ queue' = Tail(queue) /\ wkr' = Head(queue)
  BY DEF TypeOK, TakeIdle
<1>2. Queued = Queued' \cup {wkr'}
  BY <1>1, TailFacts DEF Queued
<1> QED
  BY <1>2

(* Every step preserves WorkerInv: no worker is in two places. *)
LEMMA WorkerStep == Inv /\ [Next]_vars => WorkerInv'
<1> SUFFICES ASSUME TypeOK, ControlInv, WorkerInv, [Next]_vars PROVE WorkerInv'
  BY DEF Inv
<1> USE PoolAssumption DEF TypeOK, WorkerInv, Workers, NoWorker, dispatcher
<1>1. CASE LeaveLoop
  <2>1. Holding' = Holding
    BY <1>1 DEF LeaveLoop, Holding
  <2> QED
    BY <1>1, <2>1, WorkersUntouched DEF LeaveLoop
<1>2. CASE NewWorker
  BY <1>2 DEF NewWorker, Holding, Queued
<1>3. CASE AwaitWorker
  <2>1. Holding' = Holding
    BY <1>3 DEF AwaitWorker, Holding
  <2> QED
    BY <1>3, <2>1, WorkersUntouched DEF AwaitWorker
<1>4. CASE TakeIdle
  <2>1. /\ Tail(queue) \in Seq(Workers)
        /\ Len(queue) \in Nat \ {0}
        /\ Len(queue') = Len(queue) - 1
        /\ wkr' = queue[1]
        /\ \A k \in 1..Len(queue') : queue'[k] = queue[k + 1]
    BY <1>4, TailFacts DEF TakeIdle
  <2>2. /\ UNCHANGED <<phase, held, active, cancelled>>
        /\ Holding' = Holding
    BY <1>4 DEF TakeIdle, Holding
  <2>3. wkr' \in Queued /\ Queued' \subseteq Queued
    BY <1>4, ReceiveIdle
  <2>4. /\ 1 \in 1..Len(queue)
        /\ \A k \in 1..Len(queue') : k \in Nat /\ k + 1 \in 1..Len(queue) /\ k + 1 # 1
    <3>1. \A n \in Nat \ {0} : /\ 1 \in 1..n
                             /\ \A k \in 1..(n - 1) : k \in Nat /\ k + 1 \in 1..n /\ k + 1 # 1
      OBVIOUS
    <3> QED
      BY <2>1, <3>1
  <2>5. wkr' <= active' /\ \A k \in 1..Len(queue') : queue'[k] <= active' /\ queue'[k] # wkr'
    <3>1. \A k \in 1..Len(queue') : queue[k + 1] <= active /\ queue[k + 1] # queue[1]
      BY <2>4
    <3> QED
      BY <2>1, <2>2, <2>4, <3>1
  <2>6. ASSUME NEW k \in 1..Len(queue'), NEW l \in 1..Len(queue'), queue'[k] = queue'[l]
        PROVE  k = l
    <3>1. queue[k + 1] = queue[l + 1]
      BY <2>1, <2>6
    <3>2. k + 1 = l + 1
      BY <2>4, <3>1
    <3> QED
      BY <2>4, <3>2
  <2>7. \A j \in Holding' : /\ held'[j] \notin Queued'
                            /\ held'[j] = wkr' => held'[j] = NoWorker
    BY <2>2, <2>3
  <2> QED
    BY <2>2, <2>5, <2>6, <2>7
<1>5. CASE TakeNil
  BY <1>5 DEF TakeNil, Holding, Queued
<1>6. CASE AddToGroup
  <2>1. Holding' = Holding
    BY <1>6 DEF AddToGroup, Holding
  <2> QED
    BY <1>6, <2>1, WorkersUntouched DEF AddToGroup
<1>7. CASE Spawn
  <2>1. next \in Jobs /\ phase[next] = "unspawned"
    BY <1>7 DEF Spawn, ControlInv, Jobs
  <2>2. Holding' = Holding \cup {next} /\ next \notin Holding
    BY <1>7, <2>1 DEF Spawn, Holding
  <2>3. wkr \notin Queued
    BY DEF Queued
  <2>4. wkr = NoWorker => cancelled
    BY <1>7 DEF Spawn, ControlInv
  <2>5. /\ UNCHANGED <<queue, active, cancelled>> /\ Queued' = Queued
        /\ wkr' = NoWorker
        /\ held'[next] = wkr /\ phase'[next] = "spawned"
        /\ \A j \in Holding : held'[j] = held[j] /\ phase'[j] = phase[j]
    BY <1>7, <2>1, <2>2 DEF Spawn, Queued, Holding
  <2>6. \A j \in Holding' : /\ held'[j] <= active'
                            /\ held'[j] \notin Queued'
                            /\ held'[j] = NoWorker => phase'[j] = "spawned" /\ cancelled'
    BY <2>2, <2>3, <2>4, <2>5
  <2>7. \A i, j \in Holding' : held'[i] = held'[j] /\ held'[i] # NoWorker => i = j
    BY <2>2, <2>5
  <2>8. \A k \in 1..Len(queue') : queue'[k] <= active' /\ queue'[k] # wkr'
    BY <2>5
  <2> QED
    BY <2>5, <2>6, <2>7, <2>8
<1>8. CASE Return
  <2>1. Holding' = Holding
    BY <1>8 DEF Return, Holding
  <2> QED
    BY <1>8, <2>1, WorkersUntouched DEF Return
<1>9. ASSUME NEW j \in Jobs, Skip(j) PROVE WorkerInv'
  <2>1. Holding' \subseteq Holding /\ \A i \in Holding' : i = j \/ phase'[i] = phase[i]
    BY <1>9 DEF Skip, Holding
  <2>2. j \in Holding' => held[j] # NoWorker
    BY <1>9 DEF Skip, Holding
  <2> QED
    BY <1>9, <2>1, <2>2, WorkersUntouched DEF Skip
<1>10. ASSUME NEW j \in Jobs, BeginJob(j) PROVE WorkerInv'
  <2>1. Holding' \subseteq Holding /\ \A i \in Holding' : i = j \/ phase'[i] = phase[i]
    BY <1>10 DEF BeginJob, Holding
  <2>2. j \in Holding' => held[j] # NoWorker
    BY <1>10 DEF BeginJob, Holding
  <2> QED
    BY <1>10, <2>1, <2>2, WorkersUntouched DEF BeginJob
<1>11. ASSUME NEW j \in Jobs, EndJob(j) PROVE WorkerInv'
  <2>1. Holding' \subseteq Holding /\ \A i \in Holding' : i = j \/ phase'[i] = phase[i]
    BY <1>11 DEF EndJob, Holding
  <2>2. j \in Holding' => held[j] # NoWorker
    BY <1>11 DEF EndJob, Holding
  <2> QED
    BY <1>11, <2>1, <2>2, WorkersUntouched DEF EndJob
<1>12. ASSUME NEW j \in Jobs, Lock(j) PROVE WorkerInv'
  <2>1. Holding' \subseteq Holding /\ \A i \in Holding' : i = j \/ phase'[i] = phase[i]
    BY <1>12 DEF Lock, Holding
  <2>2. j \in Holding' => held[j] # NoWorker
    BY <1>12 DEF Lock, Holding
  <2> QED
    BY <1>12, <2>1, <2>2, WorkersUntouched DEF Lock
<1>13. ASSUME NEW j \in Jobs, Store(j) PROVE WorkerInv'
  <2>1. Holding' \subseteq Holding /\ \A i \in Holding' : i = j \/ phase'[i] = phase[i]
    BY <1>13 DEF Store, Holding
  <2>2. j \in Holding' => held[j] # NoWorker
    BY <1>13 DEF Store, Holding
  <2> QED
    BY <1>13, <2>1, <2>2, WorkersUntouched DEF Store
<1>14. ASSUME NEW j \in Jobs, Requeue(j) PROVE WorkerInv'
  <2>1. /\ j \in Holding
        /\ held[j] \in Workers
        /\ queue' = Append(queue, held[j])
    BY <1>14, RequeueSends
  <2>2. /\ Len(queue') = Len(queue) + 1
        /\ \A k \in 1..Len(queue) : queue'[k] = queue[k]
        /\ queue'[Len(queue) + 1] = held[j]
        /\ Queued' = Queued \cup {held[j]}
    BY <2>1, AppendFacts DEF Queued
  <2>3. Holding' = Holding \ {j}
    BY <1>14 DEF Requeue, Holding
  <2>4. UNCHANGED <<wkr, active, held, cancelled>>
    BY <1>14 DEF Requeue
  <2>5. \A i \in Holding' : phase'[i] = phase[i]
    BY <1>14, <2>3 DEF Requeue, Holding
  <2>6. \A k \in 1..Len(queue) : queue[k] # held[j]
    BY <2>1 DEF Queued
  <2>7. \A k \in 1..Len(queue') : queue'[k] <= active' /\ queue'[k] # wkr'
    BY <2>1, <2>2, <2>4
  <2>8. ASSUME NEW k \in 1..Len(queue'), NEW l \in 1..Len(queue'), queue'[k] = queue'[l]
        PROVE  k = l
    <3>1. \A m \in 1..Len(queue') : m \in 1..Len(queue) \/ m = Len(queue) + 1
      BY <2>2
    <3> QED
      BY <2>2, <2>6, <2>8, <3>1
  <2>9. \A i \in Holding' : /\ held'[i] <= active'
                            /\ held'[i] \notin Queued'
                            /\ held'[i] = wkr' => held'[i] = NoWorker
                            /\ held'[i] = NoWorker => phase'[i] = "spawned" /\ cancelled'
    BY <2>1, <2>2, <2>3, <2>4, <2>5 DEF Holding
  <2> QED
    BY <2>3, <2>4, <2>7, <2>8, <2>9
<1>15. ASSUME NEW j \in Jobs, SignalDone(j) PROVE WorkerInv'
  <2>1. Holding' \subseteq Holding /\ \A i \in Holding' : i = j \/ phase'[i] = phase[i]
    BY <1>15 DEF SignalDone, Holding
  <2>2. j \in Holding' => held[j] # NoWorker
    BY <1>15 DEF SignalDone, Holding
  <2> QED
    BY <1>15, <2>1, <2>2, WorkersUntouched DEF SignalDone
<1>16. CASE Cancel
  <2>1. Holding' = Holding
    BY <1>16 DEF Cancel, Holding
  <2> QED
    BY <1>16, <2>1, WorkersUntouched DEF Cancel
<1>17. CASE UNCHANGED vars
  <2>1. Holding' = Holding
    BY <1>17 DEF vars, Holding
  <2> QED
    BY <1>17, <2>1, WorkersUntouched DEF vars
<1> QED
  BY <1>1, <1>2, <1>3, <1>4, <1>5, <1>6, <1>7, <1>8, <1>9, <1>10, <1>11,
     <1>12, <1>13, <1>14, <1>15, <1>16, <1>17
     DEF Next, Dispatch, Goroutine, Terminated

(* Every step preserves NoWorkerLost. *)
LEMMA NoWorkerLostStep == Inv /\ [Next]_vars => NoWorkerLost'
<1> SUFFICES ASSUME TypeOK, ControlInv, WorkerInv, NoWorkerLost, [Next]_vars,
                    ~cancelled'
             PROVE  1..active' = Queued' \cup {held'[j] : j \in Holding'}
                                 \cup ({wkr'} \ {NoWorker})
  BY DEF Inv, NoWorkerLost, Queued
<1> DEFINE Held == {held[j] : j \in Holding}
           Goal == 1..active' = Queued' \cup Held' \cup ({wkr'} \ {NoWorker})
<1>0. ~cancelled => 1..active = Queued \cup Held \cup ({wkr} \ {NoWorker})
  BY DEF NoWorkerLost, Queued
<1> USE PoolAssumption DEF dispatcher
<1>1. CASE LeaveLoop
  BY <1>0, <1>1 DEF LeaveLoop, Holding, Queued
<1>2. CASE NewWorker
  <2>1. Queued' = Queued /\ Held' = Held /\ wkr = NoWorker /\ ~cancelled
    BY <1>2 DEF NewWorker, Holding, Queued, ControlInv
  <2>2. active \in Nat /\ active' = active + 1 /\ wkr' = active'
    BY <1>2 DEF NewWorker, TypeOK
  <2>3. 1..active' = 1..active \cup {active'} /\ active' # NoWorker
    BY <2>2 DEF NoWorker
  <2> QED
    BY <1>0, <2>1, <2>2, <2>3
<1>3. CASE AwaitWorker
  BY <1>0, <1>3 DEF AwaitWorker, Holding, Queued
<1>4. CASE TakeIdle
  <2>1. /\ Queued = Queued' \cup {wkr'}
        /\ wkr' \in Workers
    <3>1. /\ queue \in Seq(Workers) /\ queue # <<>>
          /\ queue' = Tail(queue) /\ wkr' = Head(queue)
      BY <1>4 DEF TakeIdle, TypeOK
    <3>2. Queued = Queued' \cup {wkr'}
      BY <3>1, TailFacts DEF Queued
    <3>3. 1 \in 1..Len(queue) /\ wkr' = queue[1]
      BY <3>1, TailFacts
    <3> QED
      BY <3>1, <3>2, <3>3
  <2>2. Held' = Held /\ wkr = NoWorker /\ active' = active /\ ~cancelled
    BY <1>4 DEF TakeIdle, Holding, ControlInv
  <2> QED
    BY <1>0, <2>1, <2>2 DEF Workers, NoWorker
<1>5. CASE TakeNil
  BY <1>0, <1>5 DEF TakeNil
<1>6. CASE AddToGroup
  BY <1>0, <1>6 DEF AddToGroup, Holding, Queued
<1>7. CASE Spawn
  <2>1. next \in Jobs /\ phase[next] = "unspawned" /\ wkr # NoWorker
    BY <1>7 DEF Spawn, ControlInv, Jobs, TypeOK
  <2>2. /\ Holding' = Holding \cup {next}
        /\ held'[next] = wkr
        /\ \A j \in Holding : held'[j] = held[j]
    BY <1>7, <2>1 DEF Spawn, Holding, TypeOK
  <2>3. Held' = Held \cup {wkr}
    BY <2>2
  <2> QED
    BY <1>0, <1>7, <2>1, <2>3 DEF Spawn, Queued
<1>8. CASE Return
  BY <1>0, <1>8 DEF Return, Holding, Queued
<1>9. ASSUME NEW j \in Jobs, Skip(j) PROVE Goal
  BY <1>9 DEF Skip
<1>10. ASSUME NEW j \in Jobs, BeginJob(j) PROVE Goal
  <2>1. Holding' = Holding
    BY <1>10 DEF BeginJob, Holding, TypeOK
  <2> QED
    BY <1>0, <1>10, <2>1 DEF BeginJob, Queued
<1>11. ASSUME NEW j \in Jobs, EndJob(j) PROVE Goal
  <2>1. Holding' = Holding
    BY <1>11 DEF EndJob, Holding, TypeOK
  <2> QED
    BY <1>0, <1>11, <2>1 DEF EndJob, Queued
<1>12. ASSUME NEW j \in Jobs, Lock(j) PROVE Goal
  <2>1. Holding' = Holding
    BY <1>12 DEF Lock, Holding, TypeOK
  <2> QED
    BY <1>0, <1>12, <2>1 DEF Lock, Queued
<1>13. ASSUME NEW j \in Jobs, Store(j) PROVE Goal
  <2>1. Holding' = Holding
    BY <1>13 DEF Store, Holding, TypeOK
  <2> QED
    BY <1>0, <1>13, <2>1 DEF Store, Queued
<1>14. ASSUME NEW j \in Jobs, Requeue(j) PROVE Goal
  <2>1. /\ j \in Holding
        /\ Queued' = Queued \cup {held[j]}
    <3>1. j \in Holding /\ held[j] \in Workers /\ queue' = Append(queue, held[j])
      BY <1>14, RequeueSends
    <3>2. queue \in Seq(Workers)
      BY DEF TypeOK
    <3> QED
      BY <3>1, <3>2, AppendFacts DEF Queued
  <2>2. Holding' = Holding \ {j} /\ UNCHANGED <<held, wkr, active, cancelled>>
    BY <1>14 DEF Requeue, Holding, TypeOK
  <2>3. Held = Held' \cup {held[j]}
    BY <2>1, <2>2
  <2> QED
    BY <1>0, <2>1, <2>2, <2>3
<1>15. ASSUME NEW j \in Jobs, SignalDone(j) PROVE Goal
  <2>1. Holding' = Holding
    BY <1>15 DEF SignalDone, Holding, TypeOK
  <2> QED
    BY <1>0, <1>15, <2>1 DEF SignalDone, Queued
<1>16. CASE Cancel
  BY <1>16 DEF Cancel
<1>17. CASE UNCHANGED vars
  BY <1>0, <1>17 DEF vars, Holding, Queued
<1> QED
  BY <1>1, <1>2, <1>3, <1>4, <1>5, <1>6, <1>7, <1>8, <1>9, <1>10, <1>11,
     <1>12, <1>13, <1>14, <1>15, <1>16, <1>17
     DEF Next, Dispatch, Goroutine, Terminated

(* Every step preserves MutexInv: the holder appends to what p.results is. *)
LEMMA MutexStep == Inv /\ [Next]_vars => MutexInv'
<1> SUFFICES ASSUME TypeOK, ControlInv, MutexInv, [Next]_vars PROVE MutexInv'
  BY DEF Inv
<1> USE PoolAssumption DEF TypeOK, MutexInv, Jobs, NoJob, lock
<1>1. CASE \/ LeaveLoop \/ NewWorker \/ AwaitWorker \/ TakeIdle \/ TakeNil
           \/ AddToGroup \/ Return \/ Cancel \/ UNCHANGED vars
  BY <1>1 DEF LeaveLoop, NewWorker, AwaitWorker, TakeIdle, TakeNil, AddToGroup,
              Return, Cancel, vars
<1>2. CASE Spawn
  BY <1>2 DEF Spawn, ControlInv
<1>3. ASSUME NEW j \in Jobs, Skip(j) \/ BeginJob(j) \/ EndJob(j) \/ Requeue(j)
                             \/ SignalDone(j)
      PROVE  MutexInv'
  BY <1>3 DEF Skip, BeginJob, EndJob, Requeue, SignalDone
<1>4. ASSUME NEW j \in Jobs, Lock(j) PROVE MutexInv'
  BY <1>4 DEF Lock
<1>5. ASSUME NEW j \in Jobs, Store(j) PROVE MutexInv'
  BY <1>5 DEF Store
<1> QED
  BY <1>1, <1>2, <1>3, <1>4, <1>5 DEF Next, Dispatch, Goroutine, Terminated

(* Every step preserves ResultInv. *)
LEMMA ResultStep == Inv /\ [Next]_vars => ResultInv'
<1> SUFFICES ASSUME TypeOK, ControlInv, MutexInv, ResultInv, [Next]_vars
             PROVE  ResultInv'
  BY DEF Inv
<1> USE PoolAssumption DEF TypeOK, ResultInv, lock
<1>1. CASE \/ LeaveLoop \/ NewWorker \/ AwaitWorker \/ TakeIdle \/ TakeNil
           \/ AddToGroup \/ Return \/ Cancel \/ UNCHANGED vars
  <2>1. UNCHANGED <<results, phase, Recorded>> /\ (cancelled => cancelled')
    BY <1>1 DEF LeaveLoop, NewWorker, AwaitWorker, TakeIdle, TakeNil, AddToGroup,
                Return, Cancel, vars, Recorded
  <2> QED
    BY <2>1
<1>2. CASE Spawn
  <2>1. /\ UNCHANGED <<results, Recorded, cancelled>>
        /\ phase' = [phase EXCEPT ![next] = "spawned"]
    BY <1>2 DEF Spawn, Recorded
  <2>2. next \in Jobs /\ phase[next] = "unspawned"
    BY <1>2 DEF Spawn, ControlInv, Jobs
  <2> QED
    BY <2>1, <2>2
<1>3. ASSUME NEW j \in Jobs, Skip(j) \/ BeginJob(j) \/ EndJob(j) \/ Lock(j)
                             \/ Requeue(j) \/ SignalDone(j)
      PROVE  ResultInv'
  <2>1. UNCHANGED <<results, Recorded, cancelled>>
    BY <1>3 DEF Skip, BeginJob, EndJob, Lock, Requeue, SignalDone, Recorded
  <2>2. \A i \in Jobs : i # j => phase'[i] = phase[i]
    BY <1>3 DEF Skip, BeginJob, EndJob, Lock, Requeue, SignalDone
  <2>3. \/ phase[j] = "spawned" /\ phase'[j] = "finishing" /\ cancelled
        \/ phase[j] = "spawned" /\ phase'[j] = "running"
        \/ phase[j] = "running" /\ phase'[j] = "locking"
        \/ phase[j] = "locking" /\ phase'[j] = "appending"
        \/ phase[j] = "requeueing" /\ phase'[j] = "finishing"
        \/ phase[j] = "finishing" /\ phase'[j] = "done"
    BY <1>3 DEF Skip, BeginJob, EndJob, Lock, Requeue, SignalDone
  <2> QED
    BY <2>1, <2>2, <2>3
<1>4. ASSUME NEW j \in Jobs, Store(j) PROVE ResultInv'
  <2>1. results' = Append(results, j)
    BY <1>4 DEF Store, MutexInv, NoJob, Jobs
  <2>2. /\ Len(results') = Len(results) + 1
        /\ \A k \in 1..Len(results) : results'[k] = results[k]
        /\ results'[Len(results) + 1] = j
        /\ Recorded' = Recorded \cup {j}
    BY <2>1, AppendFacts DEF Recorded
  <2>3. j \notin Recorded
    BY <1>4 DEF Store
  <2>4. ASSUME NEW k \in 1..Len(results'), NEW l \in 1..Len(results'),
               results'[k] = results'[l]
        PROVE  k = l
    <3>1. \A m \in 1..Len(results') : m \in 1..Len(results) \/ m = Len(results) + 1
      BY <2>2
    <3> QED
      BY <2>2, <2>3, <2>4, <3>1 DEF Recorded
  <2> QED
    BY <1>4, <2>2, <2>4 DEF Store
<1> QED
  BY <1>1, <1>2, <1>3, <1>4 DEF Next, Dispatch, Goroutine, Terminated

(* Every step preserves GroupInv: Add comes before go, Done comes last. *)
LEMMA GroupStep == Inv /\ [Next]_vars => GroupInv'
<1> SUFFICES ASSUME TypeOK, ControlInv, GroupInv, [Next]_vars PROVE GroupInv'
  BY DEF Inv
<1> USE DEF GroupInv, dispatcher
<1>0. /\ IsFiniteSet(Unfinished) /\ Cardinality(Unfinished) \in Nat
      /\ Cardinality(Unfinished) = 0 <=> Unfinished = {}
  BY UnfinishedFinite
<1>1. CASE \/ LeaveLoop \/ NewWorker \/ AwaitWorker \/ TakeIdle \/ TakeNil
           \/ AddToGroup \/ Return \/ Cancel \/ UNCHANGED vars
  <2>1. Unfinished' = Unfinished
    BY <1>1 DEF LeaveLoop, NewWorker, AwaitWorker, TakeIdle, TakeNil, AddToGroup,
                Return, Cancel, vars, Unfinished, Holding
  <2> QED
    BY <1>0, <1>1, <2>1 DEF LeaveLoop, NewWorker, AwaitWorker, TakeIdle, TakeNil,
                AddToGroup, Return, Cancel, vars, TypeOK
<1>2. CASE Spawn
  <2>1. next \in Jobs /\ phase[next] = "unspawned"
    BY <1>2 DEF Spawn, ControlInv, TypeOK, Jobs
  <2>2. Unfinished' = Unfinished \cup {next} /\ next \notin Unfinished
    BY <1>2, <2>1 DEF Spawn, Unfinished, Holding, TypeOK
  <2>3. Cardinality(Unfinished') = Cardinality(Unfinished) + 1
    BY <1>0, <2>2, FS_AddElement
  <2> QED
    BY <1>0, <1>2, <2>3 DEF Spawn
<1>3. ASSUME NEW j \in Jobs, Skip(j) \/ BeginJob(j) \/ EndJob(j) \/ Lock(j)
                             \/ Store(j) \/ Requeue(j)
      PROVE  GroupInv'
  <2>1. Unfinished' = Unfinished
    BY <1>3 DEF Skip, BeginJob, EndJob, Lock, Store, Requeue, Unfinished, Holding, TypeOK
  <2> QED
    BY <1>3, <2>1 DEF Skip, BeginJob, EndJob, Lock, Store, Requeue
<1>4. ASSUME NEW j \in Jobs, SignalDone(j) PROVE GroupInv'
  <2>1. Unfinished' = Unfinished \ {j} /\ j \in Unfinished
    BY <1>4 DEF SignalDone, Unfinished, Holding, TypeOK
  <2>2. Cardinality(Unfinished') = Cardinality(Unfinished) - 1
    BY <1>0, <2>1, FS_RemoveElement
  <2>3. pc # "returned"
    BY <1>0, <2>1
  <2> QED
    BY <1>0, <1>4, <2>2, <2>3 DEF SignalDone, TypeOK
<1> QED
  BY <1>1, <1>2, <1>3, <1>4 DEF Next, Dispatch, Goroutine, Terminated
-----------------------------------------------------------------------------
(* Inv holds in every reachable state, for every NumJobs and every Limit. *)
THEOREM Invariance == Spec => []Inv
<1>1. Inv /\ [Next]_vars => Inv'
  BY TypeStep, ControlStep, WorkerStep, NoWorkerLostStep, MutexStep, ResultStep,
     GroupStep DEF Inv
<1> QED
  BY InitInv, <1>1, PTL DEF Spec

(* The variables keep their types; with queue in Seq(Workers), a nil worker *)
(* is never sent to the channel.                                            *)
THEOREM TypeCorrect == Spec => []TypeOK
<1>1. Inv => TypeOK
  BY DEF Inv
<1> QED
  BY Invariance, <1>1, PTL

(* Goroutines that hold a worker hold different ones: there are at most     *)
(* Limit of them.                                                           *)
LEMMA HoldersBounded ==
  ASSUME TypeOK, WorkerInv, NEW S \in SUBSET Holding,
         \A j \in S : held[j] # NoWorker
  PROVE  IsFiniteSet(S) /\ Cardinality(S) <= Limit
<1> DEFINE f == [j \in S |-> held[j]]
<1>1. f \in Injection(S, Workers)
  BY DEF Injection, IsInjective, TypeOK, WorkerInv, Holding
<1>2. IsFiniteSet(Workers) /\ Cardinality(Workers) = Limit
  <2>1. /\ IsFiniteSet(1..Limit)
        /\ Cardinality(1..Limit) = IF 1 > Limit THEN 0 ELSE Limit - 1 + 1
    BY PoolAssumption, FS_Interval
  <2> QED
    BY PoolAssumption, <2>1 DEF Workers
<1> HIDE DEF f
<1> QED
  BY <1>1, <1>2, FS_Injection

(* At most Limit jobs run at the same time. *)
THEOREM LimitRespected == Spec => []WithinLimit
<1>1. Inv => WithinLimit
  <2> SUFFICES ASSUME TypeOK, WorkerInv PROVE WithinLimit
    BY DEF Inv
  <2>1. Running \subseteq Holding /\ \A j \in Running : held[j] # NoWorker
    BY DEF Running, Holding, WorkerInv
  <2> QED
    BY <2>1, HoldersBounded DEF WithinLimit
<1> QED
  BY Invariance, <1>1, PTL

(* No job runs on the nil worker a cancelled select leaves behind. *)
THEOREM NilWorkerNeverRuns == Spec => []NilWorkerIdle
<1>1. Inv => NilWorkerIdle
  BY DEF Inv, WorkerInv, NilWorkerIdle, Holding
<1> QED
  BY Invariance, <1>1, PTL

(* Without a cancellation every worker created stays in circulation. *)
THEOREM WorkersKept == Spec => []NoWorkerLost
<1>1. Inv => NoWorkerLost
  BY DEF Inv
<1> QED
  BY Invariance, <1>1, PTL

(* No goroutine is left when the dispatcher passes wg.Wait, and every job    *)
(* has its result unless the context was cancelled.                          *)
LEMMA AllDone ==
  ASSUME Inv, pc \in {"wait", "returned"}, wg = 0
  PROVE  /\ Unfinished = {}
         /\ ~cancelled => Recorded = Jobs
<1>1. Unfinished = {}
  BY UnfinishedFinite DEF Inv, GroupInv
<1>2. ASSUME ~cancelled, NEW j \in Jobs PROVE j \in Recorded
  <2>1. phase[j] # "unspawned"
    BY <1>2, PoolAssumption DEF Inv, ControlInv, Jobs
  <2>2. phase[j] = "done"
    BY <1>1, <2>1 DEF Inv, TypeOK, Phases, Unfinished, Holding
  <2> QED
    BY <1>2, <2>2 DEF Inv, ResultInv
<1>3. Recorded \subseteq Jobs
  BY DEF Recorded, Inv, TypeOK
<1> QED
  BY <1>1, <1>2, <1>3

(* RunWithContext returns only when every goroutine is done and, without a   *)
(* cancellation, with exactly one result per job.                            *)
THEOREM CompleteOnReturn == Spec => []ReturnsComplete
<1>1. ASSUME Inv, pc = "returned" PROVE Unfinished = {} /\ (~cancelled => Recorded = Jobs)
  <2>1. wg = 0
    BY <1>1 DEF Inv, GroupInv
  <2> QED
    BY <1>1, <2>1, AllDone
<1>2. ASSUME Inv, Recorded = Jobs PROVE Len(results) = NumJobs
  <2> DEFINE f == [k \in 1..Len(results) |-> results[k]]
  <2>1. results \in Seq(Jobs) /\ Len(results) \in Nat
    BY <1>2 DEF Inv, TypeOK
  <2>2. f \in Injection(1..Len(results), Jobs)
    BY <1>2, <2>1 DEF Injection, IsInjective, Inv, ResultInv
  <2>3. f \in Surjection(1..Len(results), Jobs)
    BY <1>2, <2>1 DEF Surjection, Recorded
  <2>4. /\ IsFiniteSet(1..NumJobs)
        /\ Cardinality(1..NumJobs) = IF 1 > NumJobs THEN 0 ELSE NumJobs - 1 + 1
    BY PoolAssumption, FS_Interval
  <2>5. IsFiniteSet(Jobs) /\ Cardinality(Jobs) = NumJobs
    BY PoolAssumption, <2>4 DEF Jobs
  <2>6. Cardinality(1..Len(results)) = IF 1 > Len(results) THEN 0 ELSE Len(results) - 1 + 1
    BY <2>1, FS_Interval
  <2> HIDE DEF f
  <2>7. Cardinality(1..Len(results)) = Cardinality(Jobs)
    BY <2>2, <2>3, <2>5, FS_Injection
  <2> QED
    BY <2>1, <2>5, <2>6, <2>7
<1>3. Inv => ReturnsComplete
  BY <1>1, <1>2 DEF ReturnsComplete
<1> QED
  BY Invariance, <1>3, PTL

(* Results are only ever appended, and never after the call has returned.    *)
THEOREM ResultsGrow == Spec => ResultsOnlyGrow
<1> DEFINE Grow == /\ Len(results') >= Len(results)
                   /\ SubSeq(results', 1, Len(results)) = results
                   /\ pc = "returned" => results' = results
<1>1. ASSUME Inv, [Next]_vars PROVE [Grow]_vars
  <2>1. results \in Seq(Jobs)
    BY <1>1 DEF Inv, TypeOK
  <2>2. CASE UNCHANGED results
    <3>1. Len(results) \in Nat /\ SubSeq(results, 1, Len(results)) = results
      BY <2>1
    <3> QED
      BY <2>2, <3>1
  <2>3. ASSUME NEW j \in Jobs, Store(j) PROVE Grow
    <3>1. results' = Append(results, j)
      BY <1>1, <2>3 DEF Store, Inv, MutexInv, NoJob, Jobs, TypeOK
    <3>2. Len(results') >= Len(results) /\ SubSeq(results', 1, Len(results)) = results
      BY <2>1, <3>1
    <3>3. pc # "returned"
      <4>1. j \in Unfinished
        BY <2>3 DEF Store, Unfinished, Holding
      <4> QED
        BY <1>1, <4>1, AllDone DEF Inv, GroupInv
    <3> QED
      BY <3>2, <3>3
  <2>4. UNCHANGED results \/ \E j \in Jobs : Store(j)
    BY <1>1 DEF Next, Dispatch, Goroutine, Terminated, LeaveLoop, NewWorker, AwaitWorker,
       TakeIdle, TakeNil, AddToGroup, Spawn, Return, Skip, BeginJob, EndJob, Lock,
       Requeue, SignalDone, Cancel, vars, lock
  <2> QED
    BY <2>2, <2>3, <2>4
<1>2. Spec => [][Next]_vars
  BY DEF Spec
<1>3. Spec => [][Grow]_vars
  BY Invariance, <1>1, <1>2, PTL
<1> QED
  BY <1>3 DEF ResultsOnlyGrow

(* The pool implements JobBatch: each of its steps is a step of the abstract *)
(* batch or a stutter.                                                       *)
THEOREM PoolImplementsBatch == Spec => ImplementsBatch
<1> USE DEF Batch!Recorded
<1>1. Init => Batch!Init
  BY DEF Init, Batch!Init, Running
<1>2. ASSUME Inv, [Next]_vars PROVE [Batch!Next]_(Batch!vars)
  <2> USE <1>2 DEF Inv, TypeOK, dispatcher, lock
  <2>1. CASE \/ LeaveLoop \/ NewWorker \/ AwaitWorker \/ TakeIdle \/ TakeNil
             \/ AddToGroup \/ UNCHANGED vars
    BY <2>1 DEF LeaveLoop, NewWorker, AwaitWorker, TakeIdle, TakeNil, AddToGroup, vars,
                Batch!vars, Running
  <2>2. CASE Spawn
    <3>1. next \in Jobs /\ phase[next] = "unspawned"
      BY <2>2 DEF Spawn, ControlInv, Jobs
    <3>2. Running' = Running
      BY <2>2, <3>1 DEF Spawn, Running
    <3> QED
      BY <2>2, <3>2 DEF Spawn, Batch!vars
  <2>3. CASE Return
    <3>1. Unfinished = {} /\ (~cancelled => Recorded = Jobs)
      BY <2>3, AllDone DEF Return
    <3>2. Running = {} /\ Running' = {}
      BY <2>3, <3>1 DEF Return, Running, Unfinished, Holding
    <3> QED
      BY <2>3, <3>1, <3>2 DEF Return, Recorded, Batch!Next, Batch!Return
  <2>4. ASSUME NEW j \in Jobs, Skip(j) \/ EndJob(j) \/ Lock(j) \/ Requeue(j)
                               \/ SignalDone(j)
        PROVE  UNCHANGED Batch!vars
    <3>1. Running' = Running
      BY <2>4 DEF Skip, EndJob, Lock, Requeue, SignalDone, Running
    <3> QED
      BY <2>4, <3>1 DEF Skip, EndJob, Lock, Requeue, SignalDone, Batch!vars
  <2>5. ASSUME NEW j \in Jobs, BeginJob(j) PROVE Batch!Begin(j)
    <3>1. /\ j \notin Running /\ Running' = Running \cup {j}
          /\ j \notin Recorded
      BY <2>5 DEF BeginJob, Running, ResultInv
    <3>2. /\ Running \cup {j} \in SUBSET Holding
          /\ \A i \in Running \cup {j} : held[i] # NoWorker
      BY <2>5 DEF BeginJob, Running, Holding, WorkerInv
    <3>3. /\ IsFiniteSet(Running) /\ IsFiniteSet(Running \cup {j})
          /\ Cardinality(Running \cup {j}) <= Limit
      <4>1. IsFiniteSet(Running \cup {j}) /\ Cardinality(Running \cup {j}) <= Limit
        BY <3>2, HoldersBounded
      <4> QED
        BY <4>1, FS_Subset
    <3>4. Cardinality(Running) \in Nat /\ Cardinality(Running \cup {j}) = Cardinality(Running) + 1
      BY <3>1, <3>3, FS_AddElement, FS_CardinalityType
    <3>5. Cardinality(Running) < Limit
      BY <3>3, <3>4, PoolAssumption
    <3>6. j \notin Running \cup {results[k] : k \in 1..Len(results)}
      BY <3>1 DEF Recorded
    <3>7. ~cancelled /\ UNCHANGED <<results, cancelled, pc>>
      BY <2>5 DEF BeginJob
    <3>8. Batch!Cardinality(Running) = Cardinality(Running)
      BY DEF Batch!Cardinality, Cardinality
    <3> HIDE <1>2 DEF Inv, TypeOK
    <3> QED
      BY <3>1, <3>5, <3>6, <3>7, <3>8 DEF Batch!Begin
  <2>6. ASSUME NEW j \in Jobs, Store(j) PROVE Batch!Finish(j)
    <3>1. results' = Append(results, j)
      BY <2>6 DEF Store, MutexInv, NoJob, Jobs
    <3>2. j \in Running /\ Running' = Running \ {j}
      BY <2>6 DEF Store, Running
    <3> QED
      BY <2>6, <3>1, <3>2 DEF Store, Batch!Finish
  <2>7. CASE Cancel
    <3>1. Running' = Running
      BY <2>7 DEF Cancel, Running
    <3> QED
      BY <2>7, <3>1 DEF Cancel, Batch!Next, Batch!Cancel
  <2>8. CASE \E j \in Jobs : Goroutine(j)
    BY <2>4, <2>5, <2>6, <2>8 DEF Goroutine, Batch!Next
  <2> QED
    BY <2>1, <2>2, <2>3, <2>7, <2>8 DEF Next, Dispatch, Terminated
<1> QED
  BY Invariance, <1>1, <1>2, PTL DEF Spec, ImplementsBatch, Batch!Spec
-----------------------------------------------------------------------------
(* Why a call returns, but for the fairness: someone can always go on, and   *)
(* nobody can for ever.                                                      *)

(* The guards of Dispatch and of Goroutine(j). *)
DispatcherCan == \/ pc \in {"loop", "add", "go"}
                 \/ pc = "select" /\ (queue # <<>> \/ cancelled)
                 \/ pc = "wait" /\ wg = 0
GoroutineCan(j) == \/ phase[j] \in {"spawned", "running", "appending", "requeueing", "finishing"}
                   \/ phase[j] = "locking" /\ mu = NoJob

SomeoneCan == pc # "returned" => DispatcherCan \/ \E j \in Jobs : GoroutineCan(j)

(* The dispatcher waits for an idle worker only when all have been made. *)
AllMade == pc = "select" => active = Limit

(* How far the dispatcher and the goroutine of a job have come. *)
Spot == [loop |-> 0, select |-> 1, add |-> 2, go |-> 3, wait |-> 1, returned |-> 2]
Place == 4 * (IF pc \in {"wait", "returned"} THEN NumJobs + 1 ELSE next) + Spot[pc]
Rank == [unspawned |-> 0, spawned |-> 1, running |-> 2, locking |-> 3, appending |-> 4,
         requeueing |-> 5, finishing |-> 6, done |-> 7]

Forward ==
  /\ Place' >= Place /\ \A j \in Jobs : Rank[phase'[j]] >= Rank[phase[j]]
  /\ cancelled => cancelled'
  /\ \/ Place' > Place
     \/ \E j \in Jobs : Rank[phase'[j]] > Rank[phase[j]]
     \/ cancelled' # cancelled

LEMMA AllMadeStep == Inv /\ AllMade /\ [Next]_vars => AllMade'
<1> SUFFICES ASSUME TypeOK, AllMade, [Next]_vars PROVE AllMade'
  BY DEF Inv
<1> USE PoolAssumption DEF AllMade, dispatcher
<1>1. CASE AwaitWorker
  BY <1>1 DEF AwaitWorker, TypeOK
<1>2. CASE \/ LeaveLoop \/ NewWorker \/ TakeIdle \/ TakeNil \/ AddToGroup \/ Spawn \/ Return
  BY <1>2 DEF LeaveLoop, NewWorker, TakeIdle, TakeNil, AddToGroup, Spawn, Return
<1>3. CASE (\E j \in Jobs : Goroutine(j)) \/ Cancel \/ UNCHANGED vars
  BY <1>3 DEF Goroutine, Skip, BeginJob, EndJob, Lock, Store, Requeue, SignalDone, Cancel, vars
<1> QED
  BY <1>1, <1>2, <1>3 DEF Next, Dispatch, Terminated

(* A goroutine that is not done can go on, or waits for one that can.        *)
LEMMA UnfinishedCan ==
  ASSUME Inv, Unfinished # {}
  PROVE  \E j \in Jobs : GoroutineCan(j)
<1>1. PICK j \in Jobs : phase[j] \in {"spawned", "running", "locking", "appending",
                                      "requeueing", "finishing"}
  BY DEF Unfinished, Holding
<1>2. CASE phase[j] # "locking" \/ mu = NoJob
  BY <1>1, <1>2 DEF GoroutineCan
<1>3. CASE mu # NoJob
  <2>1. mu \in Jobs /\ phase[mu] = "appending"
    BY <1>3 DEF Inv, TypeOK, MutexInv
  <2> QED
    BY <2>1 DEF GoroutineCan
<1> QED
  BY <1>2, <1>3

(* The dispatcher and the goroutines never all wait for one another: whoever *)
(* waits for the channel, the mutex or the WaitGroup waits for someone who   *)
(* can go on, for any number of jobs and workers and in any order.           *)
THEOREM NobodyStuck == Spec => []SomeoneCan
<1>1. Init => AllMade
  BY DEF Init, AllMade
<1>2. ASSUME Inv, AllMade, pc # "returned"
      PROVE  DispatcherCan \/ \E j \in Jobs : GoroutineCan(j)
  <2>1. CASE pc \in {"loop", "add", "go"}
    BY <2>1 DEF DispatcherCan
  <2>2. CASE pc = "select" /\ (queue # <<>> \/ cancelled)
    BY <2>2 DEF DispatcherCan
  <2>3. CASE pc = "select" /\ queue = <<>> /\ ~cancelled
    <3>1. 1 \in 1..active
      BY <1>2, <2>3, PoolAssumption DEF AllMade
    <3>2. wkr = NoWorker /\ {queue[k] : k \in 1..Len(queue)} = {}
      BY <1>2, <2>3 DEF Inv, ControlInv
    <3>3. Holding # {}
      BY <1>2, <2>3, <3>1, <3>2 DEF Inv, NoWorkerLost
    <3> QED
      BY <1>2, <3>3, UnfinishedCan DEF Unfinished
  <2>4. CASE pc = "wait" /\ wg = 0
    BY <2>4 DEF DispatcherCan
  <2>5. CASE pc = "wait" /\ wg # 0
    <3>1. Unfinished # {}
      BY <1>2, <2>5, UnfinishedFinite DEF Inv, GroupInv
    <3> QED
      BY <1>2, <3>1, UnfinishedCan
  <2> QED
    BY <1>2, <2>1, <2>2, <2>3, <2>4, <2>5 DEF Inv, TypeOK
<1>3. Inv /\ AllMade => SomeoneCan
  BY <1>2 DEF SomeoneCan
<1> QED
  BY Invariance, AllMadeStep, <1>1, <1>3, PTL DEF Spec

LEMMA HowFar ==
  TypeOK => /\ Place \in Nat /\ Place <= 4 * NumJobs + 7
            /\ \A j \in Jobs : Rank[phase[j]] \in Nat /\ Rank[phase[j]] <= 7
<1> SUFFICES ASSUME TypeOK
             PROVE  /\ Place \in Nat /\ Place <= 4 * NumJobs + 7
                    /\ \A j \in Jobs : Rank[phase[j]] \in Nat /\ Rank[phase[j]] <= 7
  OBVIOUS
<1>1. \A j \in Jobs : Rank[phase[j]] \in Nat /\ Rank[phase[j]] <= 7
  BY DEF TypeOK, Phases, Rank
<1>2. NumJobs \in Nat /\ next \in 1..(NumJobs + 1)
  BY PoolAssumption DEF TypeOK
<1>3. CASE pc \in {"wait", "returned"}
  <2>1. Place = 4 * (NumJobs + 1) + Spot[pc] /\ Spot[pc] \in 1..2
    BY <1>3 DEF Place, Spot
  <2> QED
    BY <1>1, <1>2, <2>1
<1>4. CASE pc \in {"loop", "select", "add", "go"}
  <2>1. Place = 4 * next + Spot[pc] /\ Spot[pc] \in 0..3
    BY <1>4 DEF Place, Spot
  <2> QED
    BY <1>1, <1>2, <2>1
<1> QED
  BY <1>3, <1>4 DEF TypeOK

(* Every step takes the dispatcher, a goroutine or the cancellation forward  *)
(* and none of them back: a call takes at most 11 steps for each job, and    *)
(* some more, whatever the scheduler does.                                   *)
THEOREM StepsRunOut ==
  Spec => [][Forward]_vars /\ [](Place <= 4 * NumJobs + 7 /\ \A j \in Jobs : Rank[phase[j]] <= 7)
<1>2. ASSUME Inv, Next
      PROVE  Forward \/ UNCHANGED vars
  <2>1. TypeOK /\ TypeOK'
    BY <1>2, TypeStep DEF Inv
  <2>2. Place \in Nat /\ Place' \in Nat
        /\ \A j \in Jobs : Rank[phase[j]] \in Nat /\ Rank[phase'[j]] \in Nat
    <3>1. TypeOK' => (/\ Place \in Nat /\ Place <= 4 * NumJobs + 7
                      /\ \A j \in Jobs : Rank[phase[j]] \in Nat /\ Rank[phase[j]] <= 7)'
      BY HowFar, PTL
    <3> QED
      BY <2>1, <3>1, HowFar
  <2>3. CASE \/ LeaveLoop \/ NewWorker \/ AwaitWorker \/ TakeIdle \/ TakeNil \/ AddToGroup
             \/ Return
    <3>1. phase' = phase /\ cancelled' = cancelled
      BY <2>3 DEF LeaveLoop, NewWorker, AwaitWorker, TakeIdle, TakeNil, AddToGroup, Return
    <3>2. Place' > Place
      <4>1. next \in 1..(NumJobs + 1) /\ NumJobs \in Nat /\ next' = next
        BY <2>1, <2>3, PoolAssumption DEF TypeOK, LeaveLoop, NewWorker, AwaitWorker,
           TakeIdle, TakeNil, AddToGroup, Return
      <4>2. \/ pc = "loop" /\ pc' \in {"wait", "add", "select"}
            \/ pc = "select" /\ pc' = "add"
            \/ pc = "add" /\ pc' = "go"
            \/ pc = "wait" /\ pc' = "returned"
        BY <2>3 DEF LeaveLoop, NewWorker, AwaitWorker, TakeIdle, TakeNil, AddToGroup, Return
      <4> QED
        BY <4>1, <4>2 DEF Place, Spot
    <3> QED
      BY <2>2, <3>1, <3>2 DEF Forward
  <2>4. CASE Spawn
    <3>1. Place' > Place /\ cancelled' = cancelled
      <4>1. next \in Nat /\ next' = next + 1 /\ pc = "go" /\ pc' = "loop"
            /\ cancelled' = cancelled
        BY <2>1, <2>4, PoolAssumption DEF TypeOK, Spawn
      <4> QED
        BY <4>1 DEF Place, Spot
    <3>2. next \in Jobs /\ phase[next] = "unspawned"
      BY <1>2, <2>4 DEF Inv, TypeOK, ControlInv, Jobs, Spawn
    <3>3. \A j \in Jobs : phase'[j] = IF j = next THEN "spawned" ELSE phase[j]
      BY <2>1, <2>4 DEF Spawn, TypeOK
    <3>4. \A j \in Jobs : Rank[phase'[j]] >= Rank[phase[j]]
      BY <2>2, <3>2, <3>3 DEF Rank
    <3> QED
      BY <2>2, <3>1, <3>4 DEF Forward
  <2>5. ASSUME NEW j \in Jobs, Goroutine(j)
        PROVE  Forward
    <3>1. UNCHANGED <<dispatcher, cancelled>>
      BY <2>5 DEF Goroutine, Skip, BeginJob, EndJob, Lock, Store, Requeue, SignalDone
    <3>2. Place' = Place
      BY <3>1 DEF Place, dispatcher
    <3>3. \A i \in Jobs : i # j => phase'[i] = phase[i]
      BY <2>1, <2>5
         DEF TypeOK, Goroutine, Skip, BeginJob, EndJob, Lock, Store, Requeue, SignalDone
    <3>4. \/ phase[j] = "spawned" /\ phase'[j] \in {"running", "finishing"}
          \/ phase[j] = "running" /\ phase'[j] = "locking"
          \/ phase[j] = "locking" /\ phase'[j] = "appending"
          \/ phase[j] = "appending" /\ phase'[j] = "requeueing"
          \/ phase[j] = "requeueing" /\ phase'[j] = "finishing"
          \/ phase[j] = "finishing" /\ phase'[j] = "done"
      BY <2>1, <2>5
         DEF TypeOK, Goroutine, Skip, BeginJob, EndJob, Lock, Store, Requeue, SignalDone
    <3>5. Rank[phase'[j]] > Rank[phase[j]]
      BY <3>4 DEF Rank
    <3>6. \A i \in Jobs : Rank[phase'[i]] >= Rank[phase[i]]
      <4>1. \A i \in Jobs : i # j => Rank[phase'[i]] = Rank[phase[i]]
        BY <3>3
      <4> QED
        BY <2>2, <3>5, <4>1
    <3> QED
      BY <2>2, <3>1, <3>2, <3>5, <3>6 DEF Forward
  <2>6. CASE Cancel
    <3>1. UNCHANGED <<pc, next, phase>> /\ ~cancelled /\ cancelled'
      BY <2>6 DEF Cancel, dispatcher
    <3>2. Place' = Place
      BY <3>1 DEF Place
    <3>3. cancelled' # cancelled /\ (cancelled => cancelled')
      BY <3>1, Zenon
    <3>4. Place' >= Place /\ \A j \in Jobs : Rank[phase'[j]] >= Rank[phase[j]]
      BY <2>2, <3>1, <3>2
    <3> QED
      BY <3>3, <3>4, Zenon DEF Forward
  <2> QED
    BY <1>2, <2>3, <2>4, <2>5, <2>6 DEF Next, Dispatch, Terminated
<1>3. ASSUME Inv, [Next]_vars
      PROVE  [Forward]_vars
  BY <1>2, <1>3
<1>4. TypeOK => Place <= 4 * NumJobs + 7 /\ \A j \in Jobs : Rank[phase[j]] <= 7
  BY HowFar
<1>5. Spec => [][Forward]_vars
  BY Invariance, <1>3, PTL DEF Spec
<1>6. Spec => [](Place <= 4 * NumJobs + 7 /\ \A j \in Jobs : Rank[phase[j]] <= 7)
  BY TypeCorrect, <1>4, PTL
<1> QED
  BY <1>5, <1>6
=============================================================================
