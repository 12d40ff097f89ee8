-------------------------- MODULE UpkeepLoadProofs --------------------------
(***************************************************************************)
(* Proofs about UpkeepLoad, for any number of terminals and upkeeps, any   *)
(* counts and intervals, and any sizes of batches and slices.              *)
(*                                                                         *)
(* What a command owes when it ends is followed through its calls: what it *)
(* has still to register, to cancel and to configure is in its record, and *)
(* the calls of other commands take nothing away from what it has done.    *)
(***************************************************************************)
EXTENDS UpkeepLoad, FiniteSetTheorems, TLAPS

Configuring(t) == proc[t].pc \in {"intervals", "prepare", "sendLogs"}

(* Of --count upkeeps, those that are not registered are left. *)
Tally(t) == /\ duty[t].since <= created
            /\ duty[t].new \subseteq 1..created /\ proc[t].todo \subseteq 1..created
            /\ proc[t].pc # "idle" =>
                 Cardinality(duty[t].new) + proc[t].left = duty[t].count

Ready(t) ==
  /\ proc[t].pc \in {"link", "register"} \/ Configuring(t) => proc[t].interval # Unset
  /\ Configuring(t) => proc[t].left = 0
  /\ proc[t].pc = "sendLogs" => proc[t].todo = {}

(* The upkeeps there were when the command began are to be cancelled. *)
Cancelling(t) ==
  proc[t].pc = "cancel" => \A id \in live : id <= duty[t].since => id \in proc[t].todo

(* What the command owes a configuration has it, or is on its list. *)
Covered(t) ==
  Configuring(t) =>
    \A id \in live : id <= duty[t].since \/ id \in duty[t].new =>
      id \in proc[t].todo \/ Configured(id)

Sliced(t) ==
  proc[t].pc = "prepare" =>
    /\ proc[t].slice \subseteq proc[t].todo
    /\ kind = "conditional" => proc[t].slice = proc[t].todo
    /\ \A id \in proc[t].slice \cap live : interval[id] # Unset

(* A command that nobody overlapped, and what it has set so far. *)
Alone(t) ==
  duty[t].alone =>
    /\ \A s \in Terminals \ {t} : proc[s].pc = "idle"
    /\ Configuring(t) =>
         \A id \in live : id \in proc[t].todo \/ interval[id] = proc[t].interval
    /\ proc[t].pc = "prepare" =>
         \A id \in proc[t].slice \cap live : interval[id] = proc[t].interval

Local(t) == /\ Tally(t) /\ Ready(t) /\ Cancelling(t)
            /\ Covered(t) /\ Sliced(t) /\ Alone(t)

(* A late transaction that sets intervals has one to set. *)
LateReady == \A call \in late : call.fn = "intervals" => call.interval # Unset

IInv == TypeOK /\ LateReady /\ \A t \in Terminals : Local(t)
-----------------------------------------------------------------------------
(* What a step may do to the upkeeps without breaking a promise: new ones    *)
(* have new numbers, and what stays active keeps what it has.                *)
Gentle == /\ kind' = kind
          /\ \A id \in live' : id \in live \/ id > created
          /\ \A id \in live \cap live' :
               /\ interval[id] # Unset => interval'[id] # Unset
               /\ id \in ready => id \in ready'

(* The other commands, when one takes a step. *)
LEMMA OthersKept ==
  ASSUME IInv, TypeOK', Gentle, created' >= created, NEW s \in Terminals,
         proc'[s] = proc[s], ~duty'[s].alone,
         duty'[s].count = duty[s].count, duty'[s].since = duty[s].since,
         duty'[s].new = duty[s].new
  PROVE  Local(s)'
<1>1. Tally(s) /\ Ready(s) /\ Cancelling(s) /\ Covered(s) /\ Sliced(s)
  BY DEF IInv, Local
<1>2. /\ duty[s].since \in Nat /\ created \in Nat /\ live \subseteq 1..created
      /\ created' \in Nat /\ live' \subseteq Nat
  BY DEF IInv, TypeOK, Duty
<1>3. Tally(s)' /\ Ready(s)'
  BY <1>1, <1>2 DEF Tally, Ready, Configuring
<1>4. ASSUME NEW id \in live', id <= duty[s].since \/ id \in duty[s].new
      PROVE  id \in live
  <2>1. id > created => ~(id <= duty[s].since) /\ id \notin duty[s].new
    BY <1>1, <1>2, <1>4 DEF Tally, Gentle
  <2> QED BY <2>1, <1>4 DEF Gentle
<1>5. Cancelling(s)'
  BY <1>1, <1>4 DEF Cancelling
<1>6. Covered(s)'
  BY <1>1, <1>4 DEF Covered, Configuring, Configured, Gentle
<1>7. Sliced(s)'
  <2>1. ASSUME proc[s].pc = "prepare", NEW id \in proc[s].slice \cap live'
        PROVE  interval'[id] # Unset
    <3>1. id \in 1..created /\ ~(id > created)
      BY <1>1, <1>2, <2>1 DEF Sliced, Tally
    <3>2. id \in live
      BY <2>1, <3>1 DEF Gentle
    <3> QED BY <1>1, <2>1, <3>2 DEF Sliced, Gentle
  <2> QED BY <1>1, <2>1 DEF Sliced, Gentle
<1>8. Alone(s)'
  BY DEF Alone
<1> QED BY <1>3, <1>5, <1>6, <1>7, <1>8 DEF Local
LEMMA Constants ==
  /\ MaxUpkeeps \in Nat /\ RegisterBatch \in Nat \ {0} /\ SliceSize \in Nat \ {0}
  /\ Counts \subseteq Nat /\ Intervals \subseteq Nat \ {0} /\ Unset \notin Intervals
  /\ MaxLate \in Nat /\ Unset = 0 /\ Kinds \subseteq {"log", "conditional"}
BY LoadAssumption DEF Unset

LEMMA IdleTyped == Idle \in Proc /\ NoDuty \in Duty
BY Constants DEF Idle, NoDuty, Proc, Duty

(* Only the record of one terminal changes, and the upkeeps do not. *)
LEMMA ProcOnly ==
  ASSUME TypeOK, UNCHANGED <<kind, contract>>, late' \subseteq Call,
         proc' \in [Terminals -> Proc], duty' \in [Terminals -> Duty]
  PROVE  TypeOK'
BY DEF TypeOK, contract

(* A command ends. *)
LEMMA EndStep ==
  ASSUME IInv, NEW t \in Terminals, End(t), created' >= created, created' \in Nat
  PROVE  /\ proc' \in [Terminals -> Proc] /\ duty' \in [Terminals -> Duty]
         /\ Local(t)'
         /\ \A s \in Terminals \ {t} : proc'[s] = proc[s] /\ duty'[s] = duty[s]
<1>1. proc \in [Terminals -> Proc] /\ duty \in [Terminals -> Duty]
  BY DEF IInv, TypeOK
<1>2. proc' = [proc EXCEPT ![t] = Idle] /\ duty' = [duty EXCEPT ![t] = NoDuty]
  BY DEF End
<1>3. proc'[t] = Idle /\ duty'[t] = NoDuty
  BY <1>1, <1>2
<1>4. Local(t)'
  <2>1. created \in Nat
    BY DEF IInv, TypeOK
  <2>2. Tally(t)' /\ Ready(t)' /\ Cancelling(t)'
    BY <1>3, <2>1 DEF Idle, NoDuty, Tally, Ready, Cancelling, Configuring
  <2>3. Covered(t)' /\ Sliced(t)' /\ Alone(t)'
    BY <1>3 DEF Idle, NoDuty, Covered, Sliced, Alone, Configuring
  <2> QED BY <2>2, <2>3 DEF Local
<1> QED BY <1>1, <1>2, <1>4, IdleTyped

(* Of a running command's step, what the others must know. *)
LEMMA OneSteps ==
  ASSUME IInv, TypeOK', Gentle, created' >= created, NEW t \in Terminals,
         proc[t].pc # "idle", Local(t)', late' = late \/ LateReady',
         \A s \in Terminals \ {t} : proc'[s] = proc[s] /\ duty'[s] = duty[s]
  PROVE  IInv'
<1>1. ASSUME NEW s \in Terminals \ {t}
      PROVE  Local(s)'
  <2>1. ~duty[s].alone
    BY DEF IInv, Local, Alone
  <2> QED BY <2>1, OthersKept
<1>2. LateReady'
  BY DEF IInv, LateReady
<1> QED BY <1>1, <1>2 DEF IInv
-----------------------------------------------------------------------------
LEMMA BeginStep ==
  ASSUME IInv, NEW t \in Terminals, NEW count \in Nat, NEW ivl \in Intervals \cup {Unset},
         NEW first \in {"listOld", "link", "register"},
         first # "listOld" => ivl # Unset, proc[t].pc = "idle",
         NEW new \in Proc, proc' = [proc EXCEPT ![t] = new],
         new.pc = first, new.left = count, new.interval = ivl, new.todo = {}, new.slice = {},
         DutyBegins(t, count), UNCHANGED <<kind, contract, late>>
  PROVE  IInv'
<1>1. /\ proc \in [Terminals -> Proc] /\ duty \in [Terminals -> Duty] /\ created \in 0..MaxUpkeeps
      /\ created \in Nat
  BY DEF IInv, TypeOK
<1>2. /\ proc'[t].pc = first /\ proc'[t].left = count /\ proc'[t].interval = ivl
      /\ proc'[t].todo = {} /\ proc'[t].slice = {}
      /\ \A s \in Terminals \ {t} : proc'[s] = proc[s]
  BY <1>1
<1>3. proc' \in [Terminals -> Proc]
  BY <1>1
<1>4. /\ duty'[t] = [count |-> count, since |-> created, new |-> {}, alone |-> Running = {}]
      /\ \A s \in Terminals \ {t} :
           /\ duty'[s].count = duty[s].count /\ duty'[s].since = duty[s].since
           /\ duty'[s].new = duty[s].new /\ duty'[s] \in Duty /\ ~duty'[s].alone
  BY <1>1 DEF DutyBegins, Duty
<1>5. [count |-> count, since |-> created, new |-> {}, alone |-> Running = {}] \in Duty
  BY <1>1 DEF Duty
<1>6. duty' \in [Terminals -> Duty]
  <2>1. \A s \in Terminals : duty'[s] \in Duty
    BY <1>4, <1>5
  <2> QED BY <2>1 DEF DutyBegins
<1>7. TypeOK' /\ Gentle /\ created' = created
  BY <1>3, <1>6, ProcOnly DEF IInv, TypeOK, Gentle, contract
<1>8. Local(t)'
  <2>1. Cardinality({}) = 0
    BY FS_EmptySet
  <2>2. duty'[t].since = created /\ duty'[t].new = {} /\ duty'[t].count = count
    BY <1>4
  <2>5. duty'[t].alone => Running = {}
    <3>1. duty'[t].alone = (Running = {})
      BY <1>4
    <3> QED BY <3>1
  <2>3. Tally(t)' /\ Ready(t)' /\ Cancelling(t)' /\ Covered(t)' /\ Sliced(t)'
    BY <1>1, <1>2, <1>7, <2>1, <2>2
    DEF Tally, Ready, Cancelling, Covered, Sliced, Configuring
  <2>4. Alone(t)'
    BY <1>2, <2>5 DEF Alone, Running, Configuring
  <2> QED BY <2>3, <2>4 DEF Local
<1>9. ASSUME NEW s \in Terminals \ {t}
      PROVE  Local(s)'
  BY <1>1, <1>2, <1>4, <1>7, OthersKept
<1>10. LateReady'
  BY DEF IInv, LateReady
<1> QED BY <1>7, <1>8, <1>9, <1>10 DEF IInv
-----------------------------------------------------------------------------
(* cancelAllUpkeeps and what follows it: the command ends, or goes on to     *)
(* register.                                                                 *)
LEMMA AfterCancelStep ==
  ASSUME IInv, NEW t \in Terminals, AfterCancel(t), UNCHANGED <<kind, created, late>>,
         proc[t].pc \in {"listOld", "cancel"}, live' \subseteq live,
         interval' \in [Ids -> Intervals \cup {Unset}], ready' \subseteq live',
         \A id \in live' : interval'[id] = interval[id] /\ (id \in ready => id \in ready')
  PROVE  IInv'
<1>1. /\ proc \in [Terminals -> Proc] /\ duty \in [Terminals -> Duty] /\ created \in Nat
      /\ live \subseteq 1..created /\ created' = created /\ created' >= created
  BY DEF IInv, TypeOK
<1>2. Gentle
  BY DEF Gentle
<1>3. ASSUME proc' \in [Terminals -> Proc], duty' \in [Terminals -> Duty]
      PROVE  TypeOK'
  BY <1>1, <1>3 DEF IInv, TypeOK
<1>4. CASE proc[t].interval = Unset /\ End(t)
  <2>1. /\ proc' \in [Terminals -> Proc] /\ duty' \in [Terminals -> Duty] /\ Local(t)'
        /\ \A s \in Terminals \ {t} : proc'[s] = proc[s] /\ duty'[s] = duty[s]
    BY <1>1, <1>4, EndStep
  <2> QED BY <1>1, <1>2, <1>3, <2>1, OneSteps
<1>5. ASSUME proc[t].interval # Unset, NEW next \in {"link", "register"},
             proc' = [proc EXCEPT ![t].pc = next, ![t].todo = {}], UNCHANGED duty
      PROVE  IInv'
  <2>1. /\ proc'[t].pc = next /\ proc'[t].todo = {} /\ proc'[t].left = proc[t].left
        /\ proc'[t].interval = proc[t].interval
        /\ \A s \in Terminals \ {t} : proc'[s] = proc[s] /\ duty'[s] = duty[s]
    BY <1>1, <1>5 DEF Proc
  <2>2. proc' \in [Terminals -> Proc] /\ duty' \in [Terminals -> Duty]
    <3>1. [proc[t] EXCEPT !.pc = next, !.todo = {}] \in Proc
      BY <1>1 DEF Proc
    <3>2. proc' = [proc EXCEPT ![t] = [proc[t] EXCEPT !.pc = next, !.todo = {}]]
      BY <1>1, <1>5
    <3> QED BY <1>1, <1>5, <3>1, <3>2
  <2>3. Tally(t) /\ Alone(t) /\ duty' = duty
    BY <1>5 DEF IInv, Local
  <2>4. Local(t)'
    BY <1>1, <1>5, <2>1, <2>3
    DEF Local, Tally, Ready, Cancelling, Covered, Sliced, Alone, Configuring
  <2> QED BY <1>1, <1>2, <1>3, <2>1, <2>2, <2>4, OneSteps
<1> QED BY <1>4, <1>5 DEF AfterCancel

LEMMA NothingToCancelStep ==
  ASSUME IInv, NEW t \in Terminals, NothingToCancel(t)
  PROVE  IInv'
<1>1. interval \in [Ids -> Intervals \cup {Unset}] /\ ready \subseteq live
  BY DEF IInv, TypeOK
<1> QED BY <1>1, AfterCancelStep DEF NothingToCancel, contract

LEMMA BatchCancelStep ==
  ASSUME IInv, NEW t \in Terminals, BatchCancel(t)
  PROVE  IInv'
<1>1. /\ interval \in [Ids -> Intervals \cup {Unset}] /\ live \subseteq Ids /\ ready \subseteq live
  BY Constants DEF IInv, TypeOK, Ids
<1>2. /\ live' \subseteq live /\ ready' = ready \cap live'
      /\ interval' = [id \in Ids |-> IF id \in live' THEN interval[id] ELSE Unset]
      /\ AfterCancel(t) /\ proc[t].pc = "cancel" /\ UNCHANGED <<kind, created, late>>
  BY DEF BatchCancel, Cancels
<1>3. interval' \in [Ids -> Intervals \cup {Unset}]
  BY <1>1, <1>2
<1> QED BY <1>1, <1>2, <1>3, AfterCancelStep

LEMMA ListOldStep ==
  ASSUME IInv, NEW t \in Terminals, ListOld(t)
  PROVE  IInv'
<1>1. /\ proc \in [Terminals -> Proc] /\ duty \in [Terminals -> Duty] /\ created \in Nat
      /\ live \subseteq 1..created /\ live \subseteq Ids /\ created' >= created
  BY Constants DEF IInv, TypeOK, ListOld, Ids, contract
<1>2. /\ proc[t].pc = "listOld" /\ UNCHANGED <<kind, contract, late, duty>>
      /\ proc' = [proc EXCEPT ![t].pc = "cancel", ![t].todo = live]
  BY DEF ListOld
<1>3. /\ proc'[t].pc = "cancel" /\ proc'[t].todo = live /\ proc'[t].left = proc[t].left
      /\ \A s \in Terminals \ {t} : proc'[s] = proc[s] /\ duty'[s] = duty[s]
  BY <1>1, <1>2 DEF Proc
<1>4. TypeOK' /\ Gentle
  <2>1. proc' \in [Terminals -> Proc] /\ duty' \in [Terminals -> Duty]
    BY <1>1, <1>2 DEF Proc
  <2> QED BY <1>2, <2>1, ProcOnly DEF IInv, TypeOK, Gentle, contract
<1>5. Tally(t) /\ Alone(t) /\ duty' = duty /\ live' = live /\ created' = created
  BY <1>2 DEF IInv, Local, contract
<1>6. Local(t)'
  BY <1>1, <1>2, <1>3, <1>5
  DEF Local, Tally, Ready, Cancelling, Covered, Sliced, Alone, Configuring
<1> QED BY <1>1, <1>2, <1>3, <1>4, <1>6, OneSteps
-----------------------------------------------------------------------------
LEMMA SendLINKStep ==
  ASSUME IInv, NEW t \in Terminals, SendLINK(t)
  PROVE  IInv'
<1>1. /\ proc \in [Terminals -> Proc] /\ duty \in [Terminals -> Duty] /\ created \in Nat
      /\ created' = created /\ created' >= created
  BY DEF IInv, TypeOK, SendLINK, contract
<1>2. /\ proc[t].pc = "link" /\ UNCHANGED <<kind, contract, late, duty>>
      /\ proc' = [proc EXCEPT ![t].pc = "register"]
  BY DEF SendLINK
<1>3. /\ proc'[t].pc = "register" /\ proc'[t].todo = proc[t].todo
      /\ proc'[t].left = proc[t].left /\ proc'[t].interval = proc[t].interval
      /\ \A s \in Terminals \ {t} : proc'[s] = proc[s] /\ duty'[s] = duty[s]
  BY <1>1, <1>2 DEF Proc
<1>4. TypeOK' /\ Gentle
  <2>1. proc' \in [Terminals -> Proc] /\ duty' \in [Terminals -> Duty]
    BY <1>1, <1>2 DEF Proc
  <2> QED BY <1>2, <2>1, ProcOnly DEF IInv, TypeOK, Gentle, contract
<1>5. Tally(t) /\ Ready(t) /\ Alone(t) /\ duty' = duty
  BY <1>2 DEF IInv, Local
<1>6. Local(t)'
  BY <1>1, <1>2, <1>3, <1>5
  DEF Local, Tally, Ready, Cancelling, Covered, Sliced, Alone, Configuring
<1> QED BY <1>1, <1>2, <1>3, <1>4, <1>6, OneSteps

(* A batch: as many numbers as it has upkeeps, and none that was used. *)
LEMMA BatchRegisterStep ==
  ASSUME IInv, NEW t \in Terminals, BatchRegister(t)
  PROVE  IInv'
<1> DEFINE size == BatchSize(t)
           new == created + 1..created + size
<1>1. /\ proc \in [Terminals -> Proc] /\ duty \in [Terminals -> Duty] /\ created \in Nat
      /\ proc[t].left \in Nat /\ duty[t].new \subseteq 1..created /\ live \subseteq 1..created
      /\ ready \subseteq live
  BY DEF IInv, Local, Tally, TypeOK, Proc
<1>2. /\ proc[t].pc = "register" /\ proc[t].left > 0 /\ created + size <= MaxUpkeeps
      /\ created' = created + size /\ live' = live \cup new
      /\ UNCHANGED <<kind, interval, ready, late>>
      /\ proc' = [proc EXCEPT ![t].left = @ - size]
      /\ duty' = [duty EXCEPT ![t].new = @ \cup new]
  BY DEF BatchRegister, Registers
<1>3. size \in Nat /\ size <= proc[t].left /\ proc[t].left - size \in Nat
  BY <1>1, Constants DEF Least, BatchSize
<1>4. created' \in 0..MaxUpkeeps /\ created' >= created /\ live' \subseteq 1..created'
      /\ new \subseteq 1..created' /\ new \subseteq Ids
  BY <1>1, <1>2, <1>3, Constants DEF Ids
<1> HIDE DEF size
<1>5. /\ proc'[t].pc = "register" /\ proc'[t].todo = proc[t].todo
      /\ proc'[t].left = proc[t].left - size /\ proc'[t].interval = proc[t].interval
      /\ duty'[t].since = duty[t].since /\ duty'[t].count = duty[t].count
      /\ duty'[t].new = duty[t].new \cup new /\ duty'[t].alone = duty[t].alone
      /\ \A s \in Terminals \ {t} : proc'[s] = proc[s] /\ duty'[s] = duty[s]
  BY <1>1, <1>2 DEF Proc, Duty
<1>6. TypeOK'
  <2>1. proc' \in [Terminals -> Proc]
    BY <1>1, <1>2, <1>3 DEF Proc
  <2>2. duty' \in [Terminals -> Duty]
    BY <1>1, <1>2, <1>4 DEF Duty
  <2>3. ready' \subseteq live'
    BY <1>1, <1>2
  <2> QED BY <1>2, <1>4, <2>1, <2>2, <2>3 DEF IInv, TypeOK
<1>7. Gentle
  <2>1. \A id \in new : id > created
    BY <1>1, <1>3
  <2> QED BY <1>2, <2>1 DEF Gentle
<1>8. /\ IsFiniteSet(duty[t].new) /\ Cardinality(duty[t].new) \in Nat
      /\ Cardinality(duty'[t].new) = Cardinality(duty[t].new) + size
  <2>1. IsFiniteSet(1..created)
    BY <1>1, FS_Interval, 1 \in Int, created \in Int
  <2>2. IsFiniteSet(duty[t].new) /\ Cardinality(duty[t].new) \in Nat
    BY <1>1, <2>1, FS_Subset, FS_CardinalityType
  <2>3. IsFiniteSet(new) /\ Cardinality(new) = size
    <3>1. created + 1 \in Int /\ created + size \in Int
      BY <1>1, <1>3
    <3>2. /\ IsFiniteSet(new)
          /\ Cardinality(new) = IF created + 1 > created + size THEN 0
                                ELSE (created + size) - (created + 1) + 1
      BY <3>1, FS_Interval
    <3> QED BY <1>1, <1>3, <3>2
  <2>4. duty[t].new \cap new = {}
    BY <1>1, <1>3
  <2> HIDE DEF new
  <2>5. Cardinality(duty[t].new \cup new) = Cardinality(duty[t].new) + Cardinality(new) - 0
    BY <2>2, <2>3, <2>4, FS_Union, FS_EmptySet
  <2> QED BY <1>3, <1>5, <2>2, <2>3, <2>5
<1>9. Tally(t)'
  <2>1. Tally(t) /\ duty[t].count \in Nat /\ duty[t].since \in Nat
    BY DEF IInv, Local, TypeOK, Duty
  <2> HIDE DEF new
  <2>2. created' \in Nat /\ 1..created \subseteq 1..created'
    BY <1>1, <1>4, Constants
  <2>3. /\ duty'[t].since <= created' /\ duty'[t].new \subseteq 1..created'
        /\ proc'[t].todo \subseteq 1..created'
    <3>1. /\ duty[t].since <= created /\ duty[t].new \subseteq 1..created
          /\ proc[t].todo \subseteq 1..created
      BY <2>1 DEF Tally
    <3>2. duty'[t].since <= created'
      BY <1>1, <1>4, <1>5, <2>1, <2>2, <3>1
    <3>3. duty'[t].new \subseteq 1..created'
      BY <1>4, <1>5, <2>2, <3>1
    <3>4. proc'[t].todo \subseteq 1..created'
      BY <1>5, <2>2, <3>1
    <3> QED BY <3>2, <3>3, <3>4
  <2>4. Cardinality(duty[t].new) + proc[t].left = duty[t].count
    BY <1>2, <2>1 DEF Tally
  <2> QED BY <1>1, <1>3, <1>5, <1>8, <2>3, <2>4 DEF Tally
<1>10. Local(t)'
  <2>1. Ready(t) /\ Alone(t)
    BY DEF IInv, Local
  <2> QED BY <1>2, <1>5, <1>9, <2>1
      DEF Local, Ready, Cancelling, Covered, Sliced, Alone, Configuring
<1> QED BY <1>2, <1>4, <1>5, <1>6, <1>7, <1>10, OneSteps

LEMMA ListActiveStep ==
  ASSUME IInv, NEW t \in Terminals, ListActive(t)
  PROVE  IInv'
<1>1. /\ proc \in [Terminals -> Proc] /\ duty \in [Terminals -> Duty] /\ created \in Nat
      /\ live \subseteq 1..created /\ live \subseteq Ids /\ created' = created
      /\ live' = live /\ created' >= created
  BY Constants DEF IInv, TypeOK, ListActive, Ids, contract
<1>2. PICK pc \in {"sendLogs", "intervals"} :
        /\ proc' = [proc EXCEPT ![t].todo = live, ![t].pc = pc]
        /\ pc = "sendLogs" => live = {}
  BY DEF ListActive
<1>3. proc[t].pc = "register" /\ proc[t].left = 0 /\ UNCHANGED <<kind, contract, late, duty>>
  BY DEF ListActive
<1>4. /\ proc'[t].pc = pc /\ proc'[t].todo = live /\ proc'[t].left = proc[t].left
      /\ proc'[t].interval = proc[t].interval
      /\ \A s \in Terminals \ {t} : proc'[s] = proc[s] /\ duty'[s] = duty[s]
  BY <1>1, <1>2, <1>3 DEF Proc
<1>5. TypeOK' /\ Gentle
  <2>1. proc' \in [Terminals -> Proc] /\ duty' \in [Terminals -> Duty]
    BY <1>1, <1>2, <1>3 DEF Proc
  <2> QED BY <1>3, <2>1, ProcOnly DEF IInv, TypeOK, Gentle, contract
<1>6. Tally(t) /\ Ready(t) /\ Alone(t) /\ duty' = duty
  BY <1>3 DEF IInv, Local
<1>7. Local(t)'
  BY <1>1, <1>2, <1>3, <1>4, <1>6
  DEF Local, Tally, Ready, Cancelling, Covered, Sliced, Alone, Configuring
<1> QED BY <1>1, <1>3, <1>4, <1>5, <1>7, OneSteps
-----------------------------------------------------------------------------
(* One slice of the list gets its interval, and then its data. *)
LEMMA BatchSetIntervalsStep ==
  ASSUME IInv, NEW t \in Terminals, BatchSetIntervals(t)
  PROVE  IInv'
<1>1. /\ proc \in [Terminals -> Proc] /\ duty \in [Terminals -> Duty] /\ created \in Nat
      /\ created' = created /\ live' = live /\ created' >= created
      /\ interval \in [Ids -> Intervals \cup {Unset}] /\ live \subseteq Ids
  BY Constants DEF IInv, TypeOK, BatchSetIntervals, SetsIntervals, Ids
<1>2. PICK slice \in Slices(t) :
        /\ interval' = [id \in Ids |-> IF id \in slice \cap live THEN proc[t].interval
                                       ELSE interval[id]]
        /\ proc' = [proc EXCEPT ![t].pc = "prepare", ![t].slice = slice]
  BY DEF BatchSetIntervals, SetsIntervals
<1>3. proc[t].pc = "intervals" /\ UNCHANGED <<kind, created, live, ready, late, duty>>
  BY DEF BatchSetIntervals, SetsIntervals
<1>4. slice \subseteq proc[t].todo /\ (kind = "conditional" => slice = proc[t].todo)
  BY DEF Slices
<1>5. proc[t] \in Proc /\ slice \subseteq Ids /\ proc[t].interval \in Intervals \cup {Unset}
  BY <1>1, <1>4 DEF Proc
<1>6. /\ Tally(t) /\ Ready(t) /\ Covered(t) /\ Alone(t) /\ duty' = duty
      /\ proc[t].interval # Unset
  BY <1>3 DEF IInv, Local, Ready, Configuring
<1>7. /\ proc'[t].pc = "prepare" /\ proc'[t].slice = slice /\ proc'[t].todo = proc[t].todo
      /\ proc'[t].left = proc[t].left /\ proc'[t].interval = proc[t].interval
      /\ \A s \in Terminals \ {t} : proc'[s] = proc[s] /\ duty'[s] = duty[s]
  BY <1>1, <1>2, <1>3 DEF Proc
<1>8. \A id \in live :
        /\ id \in slice => interval'[id] = proc[t].interval
        /\ id \notin slice => interval'[id] = interval[id]
  BY <1>1, <1>2
<1>9. TypeOK'
  <2>1. [proc[t] EXCEPT !.pc = "prepare", !.slice = slice] \in Proc
    BY <1>5 DEF Proc
  <2>2. proc' = [proc EXCEPT ![t] = [proc[t] EXCEPT !.pc = "prepare", !.slice = slice]]
    BY <1>1, <1>2
  <2>3. proc' \in [Terminals -> Proc]
    BY <1>1, <2>1, <2>2
  <2>4. interval' \in [Ids -> Intervals \cup {Unset}]
    BY <1>1, <1>2, <1>5
  <2> QED BY <1>3, <2>3, <2>4 DEF IInv, TypeOK
<1>10. Gentle
  BY <1>3, <1>6, <1>8 DEF Gentle
<1>11. Local(t)'
  <2>1. Tally(t)' /\ Ready(t)' /\ Cancelling(t)'
    BY <1>1, <1>3, <1>6, <1>7 DEF Tally, Ready, Cancelling, Configuring
  <2>2. Covered(t)'
    BY <1>3, <1>6, <1>7, <1>8 DEF Covered, Configuring, Configured
  <2>3. Sliced(t)'
    BY <1>3, <1>4, <1>6, <1>7, <1>8 DEF Sliced
  <2>4. Alone(t)'
    BY <1>1, <1>3, <1>6, <1>7, <1>8 DEF Alone, Configuring
  <2> QED BY <2>1, <2>2, <2>3, <2>4 DEF Local
<1> QED BY <1>1, <1>3, <1>7, <1>9, <1>10, <1>11, OneSteps

LEMMA BatchUpdatePipelineDataStep ==
  ASSUME IInv, NEW t \in Terminals, BatchUpdatePipelineData(t)
  PROVE  IInv'
<1>1. /\ proc[t].pc = "prepare" /\ ready' = ready \cup (proc[t].slice \cap live) /\ End(t)
      /\ UNCHANGED <<kind, created, live, interval, late>> /\ created' >= created
      /\ created' \in Nat /\ ready \subseteq live
  BY DEF BatchUpdatePipelineData, Prepares, IInv, TypeOK
<1>2. /\ proc' \in [Terminals -> Proc] /\ duty' \in [Terminals -> Duty] /\ Local(t)'
      /\ \A s \in Terminals \ {t} : proc'[s] = proc[s] /\ duty'[s] = duty[s]
  BY <1>1, EndStep
<1>3. TypeOK' /\ Gentle
  BY <1>1, <1>2 DEF IInv, TypeOK, Gentle
<1> QED BY <1>1, <1>2, <1>3, OneSteps

LEMMA BatchPreparingStep ==
  ASSUME IInv, NEW t \in Terminals, BatchPreparing(t)
  PROVE  IInv'
<1> DEFINE rest == proc[t].todo \ proc[t].slice
<1>1. /\ proc \in [Terminals -> Proc] /\ duty \in [Terminals -> Duty] /\ created \in Nat
      /\ created' = created /\ created' >= created /\ ready \subseteq live
  BY DEF IInv, TypeOK, BatchPreparing, Prepares
<1>2. PICK pc \in {"sendLogs", "intervals"} :
        /\ proc' = [proc EXCEPT ![t].todo = rest, ![t].slice = {}, ![t].pc = pc]
        /\ pc = "sendLogs" => rest = {}
  BY DEF BatchPreparing
<1>3. /\ proc[t].pc = "prepare" /\ UNCHANGED <<kind, created, live, interval, late, duty>>
      /\ ready' = ready \cup (proc[t].slice \cap live)
  BY DEF BatchPreparing, Prepares
<1>4. proc[t] \in Proc /\ rest \subseteq Ids
  BY <1>1 DEF Proc
<1>5. /\ Tally(t) /\ Ready(t) /\ Covered(t) /\ Sliced(t) /\ Alone(t)
  BY <1>3 DEF IInv, Local
<1>6. /\ proc'[t].pc = pc /\ proc'[t].todo = rest
      /\ proc'[t].left = proc[t].left /\ proc'[t].interval = proc[t].interval
      /\ \A s \in Terminals \ {t} : proc'[s] = proc[s] /\ duty'[s] = duty[s]
  BY <1>1, <1>2, <1>3 DEF Proc
<1>7. TypeOK' /\ Gentle
  <2> HIDE DEF rest
  <2>1. [proc[t] EXCEPT !.todo = rest, !.slice = {}, !.pc = pc] \in Proc
    BY <1>4 DEF Proc
  <2>2. proc' = [proc EXCEPT ![t] = [proc[t] EXCEPT !.todo = rest, !.slice = {}, !.pc = pc]]
    BY <1>1, <1>2
  <2>3. proc' \in [Terminals -> Proc]
    BY <1>1, <2>1, <2>2
  <2> QED BY <1>1, <1>3, <2>3 DEF IInv, TypeOK, Gentle
<1>8. Local(t)'
  <2>1. Tally(t)' /\ Ready(t)' /\ Cancelling(t)'
    BY <1>1, <1>2, <1>3, <1>5, <1>6 DEF Tally, Ready, Cancelling, Configuring
  <2>2. Covered(t)'
    BY <1>3, <1>5, <1>6 DEF Covered, Sliced, Configuring, Configured
  <2>3. Sliced(t)'
    BY <1>6 DEF Sliced
  <2>4. Alone(t)'
    BY <1>1, <1>3, <1>5, <1>6 DEF Alone, Configuring
  <2> QED BY <2>1, <2>2, <2>3, <2>4 DEF Local
<1> QED BY <1>1, <1>3, <1>6, <1>7, <1>8, OneSteps

(* The last call of a log trigger load, and errors: the upkeeps stay.  What  *)
(* was under way is late from then on.                                       *)
LEMMA SentTyped ==
  ASSUME IInv, NEW t \in Terminals, NEW call \in Sent(t)
  PROVE  call \in Call /\ (call.fn = "intervals" => call.interval # Unset)
<1>1. /\ proc[t].todo \subseteq Ids /\ proc[t].slice \subseteq Ids /\ proc[t].left \in Nat
      /\ proc[t].interval \in Intervals \cup {Unset}
      /\ proc[t].pc = "intervals" => proc[t].interval # Unset
  BY DEF IInv, TypeOK, Proc, Local, Ready, Configuring
<1>2. BatchSize(t) \in Nat
  BY <1>1, Constants DEF BatchSize, Least
<1>3. \A slice \in Slices(t) : slice \subseteq Ids
  BY <1>1 DEF Slices
<1>4. CASE proc[t].pc = "cancel"
  <2>1. call = [fn |-> "cancel", ids |-> proc[t].todo, size |-> 0, interval |-> Unset]
    BY <1>4 DEF Sent
  <2> QED BY <1>1, <2>1 DEF Call
<1>5. CASE proc[t].pc = "register"
  <2>1. call = [fn |-> "register", ids |-> {}, size |-> BatchSize(t), interval |-> Unset]
    BY <1>5 DEF Sent
  <2> QED BY <1>2, <2>1 DEF Call
<1>6. CASE proc[t].pc = "intervals"
  <2>1. PICK slice \in Slices(t) :
          call = [fn |-> "intervals", ids |-> slice, size |-> 0, interval |-> proc[t].interval]
    BY <1>6 DEF Sent
  <2> QED BY <1>1, <1>3, <1>6, <2>1 DEF Call
<1>7. CASE proc[t].pc = "prepare"
  <2>1. call = [fn |-> "prepare", ids |-> proc[t].slice, size |-> 0, interval |-> Unset]
    BY <1>7 DEF Sent
  <2> QED BY <1>1, <2>1 DEF Call
<1> QED BY <1>4, <1>5, <1>6, <1>7 DEF Sent

LEMMA StopStep ==
  ASSUME IInv, NEW t \in Terminals, BatchSendLogs(t) \/ Fail(t) \/ Leave(t)
  PROVE  IInv'
<1>1. /\ proc[t].pc # "idle" /\ End(t) /\ UNCHANGED <<kind, contract>>
      /\ created' = created /\ created' >= created /\ created' \in Nat
  <2>1. created \in Nat
    BY DEF IInv, TypeOK
  <2>2. CASE BatchSendLogs(t) \/ Fail(t)
    BY <2>1, <2>2 DEF BatchSendLogs, Fail, contract
  <2>3. CASE Leave(t)
    <3>1. proc[t].pc = "idle" => Sent(t) = {}
      BY DEF Sent
    <3> QED BY <2>1, <2>3, <3>1 DEF Leave, contract
  <2> QED BY <2>2, <2>3
<1>2. /\ proc' \in [Terminals -> Proc] /\ duty' \in [Terminals -> Duty] /\ Local(t)'
      /\ \A s \in Terminals \ {t} : proc'[s] = proc[s] /\ duty'[s] = duty[s]
  BY <1>1, EndStep
<1>3. late' \subseteq Call /\ (late' = late \/ LateReady')
  <2>1. CASE BatchSendLogs(t) \/ Fail(t)
    BY <2>1 DEF BatchSendLogs, Fail, IInv, TypeOK
  <2>2. CASE Leave(t)
    <3>1. PICK call \in Sent(t) : late' = late \cup {call}
      BY <2>2 DEF Leave
    <3> QED BY <3>1, SentTyped DEF IInv, TypeOK, LateReady
  <2> QED BY <2>1, <2>2
<1>4. TypeOK' /\ Gentle
  BY <1>1, <1>2, <1>3, ProcOnly DEF IInv, Gentle, contract
<1> QED BY <1>1, <1>2, <1>3, <1>4, OneSteps

(* A late transaction is as gentle as those of running commands. *)
LEMMA LandsStep ==
  ASSUME IInv, NEW call \in late, Lands(call)
  PROVE  IInv'
<1>1. /\ call \in Call /\ created \in Nat /\ live \subseteq 1..created /\ live \subseteq Ids
      /\ created \in 0..MaxUpkeeps /\ ready \subseteq live /\ late \subseteq Call
      /\ interval \in [Ids -> Intervals \cup {Unset}]
      /\ duty \in [Terminals -> Duty]
      /\ call.fn = "intervals" => call.interval # Unset
  BY Constants DEF IInv, TypeOK, LateReady, Ids
<1>2. /\ late' = late \ {call} /\ kind' = kind /\ proc' = proc
      /\ duty' = [t \in Terminals |-> [duty[t] EXCEPT !.alone = FALSE]]
  BY DEF Lands
<1>3. /\ created' \in 0..MaxUpkeeps /\ created' >= created /\ live' \subseteq 1..created'
      /\ interval' \in [Ids -> Intervals \cup {Unset}] /\ ready' \subseteq live'
      /\ Gentle
  <2>1. CASE Cancels(call.ids)
    <3>1. /\ created' = created /\ live' = live \ call.ids /\ ready' = ready \cap live'
          /\ interval' = [id \in Ids |-> IF id \in live' THEN interval[id] ELSE Unset]
      BY <2>1 DEF Cancels
    <3> QED BY <1>1, <1>2, <3>1 DEF Gentle
  <2>2. CASE Registers(call.size)
    <3>1. /\ call.size \in Nat /\ created' = created + call.size /\ created' <= MaxUpkeeps
          /\ live' = live \cup created + 1..created + call.size
          /\ interval' = interval /\ ready' = ready
      BY <1>1, <2>2 DEF Registers, Call
    <3>2. created' \in 0..MaxUpkeeps /\ created' >= created
      BY <1>1, <3>1, Constants
    <3>3. \A id \in live' : id \in live \/ id \in created + 1..created + call.size
      BY <3>1
    <3>4. \A id \in created + 1..created + call.size : id > created /\ id \in 1..created'
      BY <1>1, <3>1
    <3>5. \A id \in live : id \in 1..created'
      BY <1>1, <3>1
    <3> QED BY <1>1, <1>2, <3>1, <3>2, <3>3, <3>4, <3>5 DEF Gentle
  <2>3. CASE call.fn = "intervals" /\ SetsIntervals(call.ids, call.interval)
    <3>1. /\ created' = created /\ live' = live /\ ready' = ready
          /\ interval' = [id \in Ids |-> IF id \in call.ids \cap live THEN call.interval
                                         ELSE interval[id]]
          /\ call.interval \in Intervals \cup {Unset} /\ call.interval # Unset
      BY <1>1, <2>3 DEF SetsIntervals, Call
    <3> QED BY <1>1, <1>2, <3>1 DEF Gentle
  <2>4. CASE Prepares(call.ids)
    <3>1. /\ created' = created /\ live' = live /\ interval' = interval
          /\ ready' = ready \cup (call.ids \cap live)
      BY <2>4 DEF Prepares
    <3> QED BY <1>1, <1>2, <3>1 DEF Gentle
  <2> QED BY <2>1, <2>2, <2>3, <2>4 DEF Lands
<1>4. /\ duty' \in [Terminals -> Duty]
      /\ \A t \in Terminals : /\ ~duty'[t].alone /\ duty'[t].count = duty[t].count
                               /\ duty'[t].since = duty[t].since /\ duty'[t].new = duty[t].new
  BY <1>1, <1>2 DEF Duty
<1>5. TypeOK' /\ LateReady'
  BY <1>1, <1>2, <1>3, <1>4 DEF IInv, TypeOK, LateReady
<1>6. ASSUME NEW t \in Terminals
      PROVE  Local(t)'
  BY <1>2, <1>3, <1>4, <1>5, OthersKept
<1> QED BY <1>5, <1>6 DEF IInv
-----------------------------------------------------------------------------
LEMMA InitHolds == Init => IInv
<1> SUFFICES ASSUME Init
             PROVE  IInv
  OBVIOUS
<1>1. TypeOK
  BY IdleTyped, Constants DEF Init, TypeOK
<1>2. ASSUME NEW t \in Terminals
      PROVE  Local(t)
  BY <1>2
  DEF Init, Idle, NoDuty, Local, Tally, Ready, Cancelling, Covered, Sliced, Alone, Configuring
<1>3. LateReady
  BY DEF Init, LateReady
<1> QED BY <1>1, <1>2, <1>3 DEF IInv

LEMMA InductiveStep == IInv /\ [Next]_vars => IInv'
<1> SUFFICES ASSUME IInv, [Next]_vars
             PROVE  IInv'
  OBVIOUS
<1>1. ASSUME NEW t \in Terminals, NEW count \in Counts, NEW ivl \in Intervals,
             NEW first \in {"listOld", "link", "register"},
             BeginRegister(t, count, ivl, first)
      PROVE  IInv'
  <2> DEFINE new == [Idle EXCEPT !.pc = first, !.left = count, !.interval = ivl]
  <2>1. count \in Nat /\ ivl # Unset
    BY Constants
  <2>2. /\ new \in Proc /\ new.pc = first /\ new.left = count /\ new.interval = ivl
        /\ new.todo = {} /\ new.slice = {}
    BY <2>1, IdleTyped DEF Idle, Proc
  <2>3. proc' = [proc EXCEPT ![t] = new]
    BY <1>1 DEF BeginRegister
  <2> HIDE DEF new
  <2> QED BY <1>1, <2>1, <2>2, <2>3, BeginStep DEF BeginRegister
<1>2. ASSUME NEW t \in Terminals, BeginCancel(t)
      PROVE  IInv'
  <2> DEFINE new == [Idle EXCEPT !.pc = "listOld"]
  <2>1. /\ new \in Proc /\ new.pc = "listOld" /\ new.left = 0 /\ new.interval = Unset
        /\ new.todo = {} /\ new.slice = {}
    BY IdleTyped DEF Idle, Proc
  <2>2. proc' = [proc EXCEPT ![t] = new]
    BY <1>2 DEF BeginCancel
  <2> HIDE DEF new
  <2> QED BY <1>2, <2>1, <2>2, BeginStep, 0 \in Nat DEF BeginCancel
<1>3. ASSUME NEW t \in Terminals, Step(t)
      PROVE  IInv'
  BY <1>3, NothingToCancelStep, ListOldStep, BatchCancelStep, SendLINKStep, BatchRegisterStep,
     ListActiveStep, BatchSetIntervalsStep, BatchUpdatePipelineDataStep, BatchPreparingStep,
     StopStep DEF Step
<1>4. ASSUME NEW t \in Terminals, Fail(t) \/ Leave(t)
      PROVE  IInv'
  BY <1>4, StopStep
<1>5. CASE UNCHANGED vars
  <2>1. TypeOK'
    BY <1>5 DEF vars, IInv, TypeOK
  <2>2. ASSUME NEW t \in Terminals
        PROVE  Local(t)'
    <3>1. Local(t)
      BY DEF IInv
    <3> QED BY <1>5, <3>1 DEF vars, Local, Tally, Ready, Cancelling, Covered, Sliced, Alone,
                             Configuring, Configured
  <2>3. LateReady'
    BY <1>5 DEF vars, IInv, LateReady
  <2> QED BY <2>1, <2>2, <2>3 DEF IInv
<1>6. ASSUME NEW call \in late, Lands(call)
      PROVE  IInv'
  BY <1>6, LandsStep
<1> QED BY <1>1, <1>2, <1>3, <1>4, <1>5, <1>6 DEF Next

(* Every command's record says what it still owes, after any interleaving    *)
(* with other commands and any failure of theirs.                            *)
THEOREM Invariance == Spec => []IInv
BY InitHolds, InductiveStep, PTL DEF Spec
-----------------------------------------------------------------------------
(* Every variable keeps its type, and what is configured is active.          *)
THEOREM TypeCorrect == Spec => []TypeOK
<1>1. IInv => TypeOK
  BY DEF IInv
<1> QED BY <1>1, Invariance, PTL

(* However --count divides into batches, a command that goes on to configure *)
(* has registered as many upkeeps as it was asked for, with numbers of its   *)
(* own whoever registers at the same time.                                   *)
THEOREM CountRegistered == Spec => []AllRegistered
<1>1. ASSUME IInv
      PROVE  AllRegistered
  <2> SUFFICES ASSUME NEW t \in Terminals,
                      proc[t].pc \in {"intervals", "prepare", "sendLogs"}
               PROVE  Cardinality(duty[t].new) = duty[t].count
    BY DEF AllRegistered
  <2>1. /\ proc[t].left = 0 /\ Cardinality(duty[t].new) + proc[t].left = duty[t].count
        /\ duty[t].new \subseteq 1..created /\ created \in Nat
    BY <1>1 DEF IInv, TypeOK, Local, Tally, Ready, Configuring
  <2>2. IsFiniteSet(1..created)
    BY <2>1, FS_Interval, 1 \in Int, created \in Int
  <2>3. Cardinality(duty[t].new) \in Nat
    BY <2>1, <2>2, FS_Subset, FS_CardinalityType
  <2> QED BY <2>1, <2>3
<1> QED BY <1>1, Invariance, PTL

(* A register that ends well leaves no upkeep it answers for without its     *)
(* interval or its data: batches, slices and other commands notwithstanding. *)
THEOREM EndConfigures == Spec => AllConfigured
<1>1. ASSUME IInv, NEW t \in Terminals, BatchUpdatePipelineData(t) \/ BatchSendLogs(t),
             NEW id \in live', id <= duty[t].since \/ id \in duty[t].new
      PROVE  Configured(id)'
  <2>1. Covered(t) /\ Sliced(t) /\ Ready(t)
    BY <1>1 DEF IInv, Local
  <2>2. CASE BatchUpdatePipelineData(t)
    <3>1. /\ proc[t].pc = "prepare" /\ kind = "conditional" /\ live' = live
          /\ interval' = interval /\ ready' = ready \cup (proc[t].slice \cap live)
      BY <2>2 DEF BatchUpdatePipelineData, Prepares
    <3>2. proc[t].slice = proc[t].todo
      BY <2>1, <3>1 DEF Sliced
    <3>3. CASE id \in proc[t].todo
      BY <1>1, <2>1, <3>1, <3>2, <3>3 DEF Sliced, Configured
    <3>4. CASE id \notin proc[t].todo
      BY <1>1, <2>1, <3>1, <3>4 DEF Covered, Configuring, Configured
    <3> QED BY <3>3, <3>4
  <2>3. CASE BatchSendLogs(t)
    <3>1. proc[t].pc = "sendLogs" /\ UNCHANGED <<live, interval, ready>> /\ proc[t].todo = {}
      BY <2>1, <2>3 DEF BatchSendLogs, contract, Ready
    <3> QED BY <1>1, <2>1, <3>1 DEF Covered, Configuring, Configured
  <2> QED BY <1>1, <2>2, <2>3
<1>2. IInv => [\A t \in Terminals : BatchUpdatePipelineData(t) \/ BatchSendLogs(t) =>
                 \A id \in live' : id <= duty[t].since \/ id \in duty[t].new
                                   => Configured(id)']_vars
  BY <1>1
<1> QED BY <1>2, Invariance, PTL DEF AllConfigured

(* A register that no command, and no late transaction of one that is gone,  *)
(* overlapped leaves its interval everywhere.                                *)
THEOREM EndSetsInterval == Spec => OneInterval
<1>1. ASSUME IInv, NEW t \in Terminals, BatchUpdatePipelineData(t) \/ BatchSendLogs(t),
             duty[t].alone, NEW id \in live'
      PROVE  interval'[id] = proc[t].interval
  <2>1. Alone(t) /\ Sliced(t) /\ Ready(t)
    BY <1>1 DEF IInv, Local
  <2>2. CASE BatchUpdatePipelineData(t)
    <3>1. /\ proc[t].pc = "prepare" /\ kind = "conditional" /\ live' = live
          /\ interval' = interval
      BY <2>2 DEF BatchUpdatePipelineData, Prepares
    <3>2. proc[t].slice = proc[t].todo
      BY <2>1, <3>1 DEF Sliced
    <3> QED BY <1>1, <2>1, <3>1, <3>2 DEF Alone, Configuring
  <2>3. CASE BatchSendLogs(t)
    <3>1. proc[t].pc = "sendLogs" /\ UNCHANGED <<live, interval>> /\ proc[t].todo = {}
      BY <2>1, <2>3 DEF BatchSendLogs, contract, Ready
    <3> QED BY <1>1, <2>1, <3>1 DEF Alone, Configuring
  <2> QED BY <1>1, <2>2, <2>3
<1>2. IInv => [\A t \in Terminals :
                 (BatchUpdatePipelineData(t) \/ BatchSendLogs(t)) /\ duty[t].alone =>
                   \A id \in live' : interval'[id] = proc[t].interval]_vars
  BY <1>1
<1> QED BY <1>2, Invariance, PTL DEF OneInterval

(* Cancelling leaves none of the upkeeps there were when the command began,  *)
(* though others go on registering between its two calls.                    *)
THEOREM EndCancels == Spec => CancelledGone
<1>1. ASSUME IInv, NEW t \in Terminals, NothingToCancel(t) \/ BatchCancel(t), NEW id \in live'
      PROVE  id > duty[t].since
  <2>1. Cancelling(t) /\ live \subseteq Nat /\ duty[t].since \in Nat
    BY <1>1 DEF IInv, Local, TypeOK, Duty
  <2>2. CASE NothingToCancel(t)
    BY <1>1, <2>2 DEF NothingToCancel, contract
  <2>3. CASE BatchCancel(t)
    <3>1. proc[t].pc = "cancel" /\ id \in live /\ id \notin proc[t].todo
      BY <1>1, <2>3 DEF BatchCancel, Cancels
    <3>2. ~(id <= duty[t].since)
      BY <2>1, <3>1 DEF Cancelling
    <3>3. id \in Nat /\ duty[t].since \in Nat
      BY <2>1, <3>1
    <3> QED BY <3>2, <3>3
  <2> QED BY <1>1, <2>2, <2>3
<1>2. IInv => [\A t \in Terminals : NothingToCancel(t) \/ BatchCancel(t) =>
                 \A id \in live' : id > duty[t].since]_vars
  BY <1>1
<1> QED BY <1>2, Invariance, PTL DEF CancelledGone
=============================================================================
