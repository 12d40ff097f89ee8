----------------------------- MODULE UpkeepLoad -----------------------------
(***************************************************************************)
(* The upkeeps of a verifiable load contract (src/internal/asset/          *)
(* verifiableLoad.go): register-upkeeps, which may cancel the old ones and *)
(* send LINK first, registers in batches, asks the contract for all its    *)
(* active upkeeps and configures those, and cancel-upkeeps.                *)
(*                                                                         *)
(* Each transaction is sent and waited for, and commands of several        *)
(* terminals interleave between them.  How a transaction gets into the     *)
(* chain is the subject of DeployTx: here it is one step, and a command    *)
(* may fail before or after any of them, or while one is under way, which  *)
(* is then mined at any time after.                                        *)
(***************************************************************************)
EXTENDS Integers, FiniteSets

CONSTANTS Terminals,      \* where commands are run
          Kinds,          \* the load contracts considered: "log", "conditional"
          Counts,         \* values of --count
          Intervals,      \* values of --interval
          RegisterBatch,  \* batchSize: upkeeps registered in one transaction
          SliceSize,      \* upkeepIDBatchSize: ids in one call of a log trigger load
          MaxUpkeeps,     \* bound on the upkeeps ever registered
          MaxLate         \* bound on the late transactions at a time

ASSUME LoadAssumption == /\ Kinds \subseteq {"log", "conditional"}
                         /\ Counts \subseteq Nat
                         /\ Intervals \subseteq Nat \ {0}
                         /\ RegisterBatch \in Nat \ {0}
                         /\ SliceSize \in Nat \ {0}
                         /\ {MaxUpkeeps, MaxLate} \subseteq Nat

Ids == 1..MaxUpkeeps
Unset == 0                \* the interval of an upkeep that was never given one

VARIABLES
  kind,      \* which of the two contracts it is
  created,   \* upkeeps registered so far
  live,      \* the active ones
  interval,  \* the interval of each active one
  ready,     \* the active ones that were prepared, or have their pipeline data
  proc,      \* the command of each terminal
  late,      \* transactions of commands that are gone, still to be mined
  duty       \* what each command owes: how many upkeeps, how many there were
             \* when it began, those it made, has nobody overlapped it (ghost)

vars == <<kind, created, live, interval, ready, proc, late, duty>>
contract == <<created, live, interval, ready>>

Idle == [pc |-> "idle", left |-> 0, interval |-> Unset, todo |-> {}, slice |-> {}]
NoDuty == [count |-> 0, since |-> 0, new |-> {}, alone |-> FALSE]

Init == /\ kind \in Kinds
        /\ created = 0
        /\ live = {}
        /\ interval = [id \in Ids |-> Unset]
        /\ ready = {}
        /\ proc = [t \in Terminals |-> Idle]
        /\ late = {}
        /\ duty = [t \in Terminals |-> NoDuty]
-----------------------------------------------------------------------------
Least(m, n) == IF m < n THEN m ELSE n

Running == {t \in Terminals : proc[t].pc # "idle"}

(* The registrations that running commands have still to make. *)
Pending == UNION {{s} \X (1..proc[s].left) : s \in Terminals}

(* What a command that begins owes; others are not alone any more. *)
DutyBegins(t, count) ==
  duty' = [s \in Terminals |->
             IF s = t THEN [count |-> count, since |-> created, new |-> {},
                            alone |-> Running = {}]
             ELSE [duty[s] EXCEPT !.alone = FALSE]]

(* register-upkeeps, first of all cancelling the old ones, sending LINK, or  *)
(* neither.                                                                  *)
BeginRegister(t, count, ivl, first) ==
  /\ proc[t].pc = "idle"
  /\ created + Cardinality(Pending) + count <= MaxUpkeeps
  /\ proc' = [proc EXCEPT ![t] = [Idle EXCEPT !.pc = first, !.left = count, !.interval = ivl]]
  /\ DutyBegins(t, count)
  /\ UNCHANGED <<kind, contract, late>>

BeginCancel(t) ==
  /\ proc[t].pc = "idle"
  /\ proc' = [proc EXCEPT ![t] = [Idle EXCEPT !.pc = "listOld"]]
  /\ DutyBegins(t, 0)
  /\ UNCHANGED <<kind, contract, late>>

(* The command returns, with an error or without. *)
End(t) == /\ proc' = [proc EXCEPT ![t] = Idle]
          /\ duty' = [duty EXCEPT ![t] = NoDuty]

(* Any call may fail; transactions already mined stay. *)
Fail(t) == /\ proc[t].pc # "idle"
           /\ End(t)
           /\ UNCHANGED <<kind, contract, late>>
-----------------------------------------------------------------------------
(* What the calls do to the contract. *)

Cancels(ids) ==
  /\ live' = live \ ids
  /\ interval' = [id \in Ids |-> IF id \in live' THEN interval[id] ELSE Unset]
  /\ ready' = ready \cap live'
  /\ UNCHANGED created

Registers(size) ==
  /\ created + size <= MaxUpkeeps
  /\ created' = created + size
  /\ live' = live \cup created + 1..created + size
  /\ UNCHANGED <<interval, ready>>

SetsIntervals(ids, ivl) ==
  /\ interval' = [id \in Ids |-> IF id \in ids \cap live THEN ivl ELSE interval[id]]
  /\ UNCHANGED <<created, live, ready>>

Prepares(ids) ==
  /\ ready' = ready \cup (ids \cap live)
  /\ UNCHANGED <<created, live, interval>>
-----------------------------------------------------------------------------
(* cancelAllUpkeeps, and what follows it. *)

AfterCancel(t) ==
  \/ proc[t].interval = Unset /\ End(t)
  \/ /\ proc[t].interval # Unset
     /\ \E next \in {"link", "register"} :     \* --send-link or not
          proc' = [proc EXCEPT ![t].pc = next, ![t].todo = {}]
     /\ UNCHANGED duty

\* Mutant: a single upkeep is taken for none.
NothingToCancelOffByOne(t) == /\ proc[t].pc = "listOld"
                              /\ Cardinality(live) <= 1
                              /\ AfterCancel(t)
                              /\ UNCHANGED <<kind, contract, late>>

NothingToCancel(t) == /\ proc[t].pc = "listOld"
                      /\ live = {}
                      /\ AfterCancel(t)
                      /\ UNCHANGED <<kind, contract, late>>

ListOld(t) == /\ proc[t].pc = "listOld"
              /\ live # {}
              /\ proc' = [proc EXCEPT ![t].pc = "cancel", ![t].todo = live]
              /\ UNCHANGED <<kind, contract, late, duty>>

BatchCancel(t) == /\ proc[t].pc = "cancel"
                  /\ Cancels(proc[t].todo)
                  /\ AfterCancel(t)
                  /\ UNCHANGED <<kind, late>>
-----------------------------------------------------------------------------
(* RegisterUpkeeps. *)

SendLINK(t) == /\ proc[t].pc = "link"
               /\ proc' = [proc EXCEPT ![t].pc = "register"]
               /\ UNCHANGED <<kind, contract, late, duty>>

\* Mutant: every batch is a full one.
BatchRegisterUncapped(t) ==
  /\ proc[t].pc = "register"
  /\ proc[t].left > 0
  /\ Registers(RegisterBatch)
  /\ proc' = [proc EXCEPT ![t].left = @ - RegisterBatch]
  /\ duty' = [duty EXCEPT ![t].new = @ \cup created + 1..created']
  /\ UNCHANGED <<kind, late>>

\* Mutant: an if in the place of the for.
BatchRegisterOnce(t) ==
  /\ proc[t].pc = "register"
  /\ proc[t].left > 0
  /\ Registers(Least(RegisterBatch, proc[t].left))
  /\ proc' = [proc EXCEPT ![t].left = 0]
  /\ duty' = [duty EXCEPT ![t].new = @ \cup created + 1..created']
  /\ UNCHANGED <<kind, late>>

BatchSize(t) == Least(RegisterBatch, proc[t].left)

(* registerNewUpkeeps: one transaction per batch ... *)
BatchRegister(t) ==
  /\ proc[t].pc = "register"
  /\ proc[t].left > 0
  /\ Registers(BatchSize(t))
  /\ proc' = [proc EXCEPT ![t].left = @ - BatchSize(t)]
  /\ duty' = [duty EXCEPT ![t].new = @ \cup created + 1..created']
  /\ UNCHANGED <<kind, late>>

\* Mutant: only the upkeeps just registered are configured.
ListOwn(t) ==
  /\ proc[t].pc = "register"
  /\ proc[t].left = 0
  /\ LET own == live \cap duty[t].new
     IN  proc' = [proc EXCEPT ![t].todo = own,
                              ![t].pc = IF kind = "log" /\ own = {} THEN "sendLogs"
                                        ELSE "intervals"]
  /\ UNCHANGED <<kind, contract, late, duty>>

(* ... and at the end all the active upkeeps of the contract are asked for. *)
ListActive(t) ==
  /\ proc[t].pc = "register"
  /\ proc[t].left = 0
  /\ proc' = [proc EXCEPT ![t].todo = live,
                          ![t].pc = IF kind = "log" /\ live = {} THEN "sendLogs"
                                    ELSE "intervals"]
  /\ UNCHANGED <<kind, contract, late, duty>>

(* What one call configures: all upkeeps of a conditional load, the next 25 *)
(* of a log trigger load, in the order in which the contract returned them. *)
Slices(t) ==
  IF kind = "conditional" THEN {proc[t].todo}
  ELSE {slice \in SUBSET proc[t].todo :
          Cardinality(slice) = Least(SliceSize, Cardinality(proc[t].todo))}

BatchSetIntervals(t) ==
  /\ proc[t].pc = "intervals"
  /\ \E slice \in Slices(t) :
       /\ SetsIntervals(slice, proc[t].interval)
       /\ proc' = [proc EXCEPT ![t].pc = "prepare", ![t].slice = slice]
  /\ UNCHANGED <<kind, late, duty>>

(* BatchUpdatePipelineData is the last call of a conditional load. *)
BatchUpdatePipelineData(t) ==
  /\ proc[t].pc = "prepare"
  /\ kind = "conditional"
  /\ Prepares(proc[t].slice)
  /\ End(t)
  /\ UNCHANGED <<kind, late>>

\* Mutant: the last slice, a shorter one, is left out.
BatchPreparingFull(t) ==
  /\ proc[t].pc = "prepare"
  /\ kind = "log"
  /\ Prepares(proc[t].slice)
  /\ LET rest == proc[t].todo \ proc[t].slice
     IN  proc' = [proc EXCEPT ![t].todo = rest, ![t].slice = {},
                              ![t].pc = IF Cardinality(rest) < SliceSize THEN "sendLogs"
                                        ELSE "intervals"]
  /\ UNCHANGED <<kind, late, duty>>

(* BatchPreparingUpkeepsSimple, and on to the next slice. *)
BatchPreparing(t) ==
  /\ proc[t].pc = "prepare"
  /\ kind = "log"
  /\ Prepares(proc[t].slice)
  /\ LET rest == proc[t].todo \ proc[t].slice
     IN  proc' = [proc EXCEPT ![t].todo = rest, ![t].slice = {},
                              ![t].pc = IF rest = {} THEN "sendLogs" ELSE "intervals"]
  /\ UNCHANGED <<kind, late, duty>>

BatchSendLogs(t) == /\ proc[t].pc = "sendLogs"
                    /\ End(t)
                    /\ UNCHANGED <<kind, contract, late>>

-----------------------------------------------------------------------------
(* runContractFunc: sent, a transaction no longer needs its command. *)

(* The transactions that a command may have under way. *)
Sent(t) ==
  LET call(ids, size, ivl) == [fn |-> proc[t].pc, ids |-> ids, size |-> size, interval |-> ivl]
  IN  CASE proc[t].pc = "cancel"    -> {call(proc[t].todo, 0, Unset)}
        [] proc[t].pc = "register"  -> IF proc[t].left = 0 THEN {}
                                       ELSE {call({}, BatchSize(t), Unset)}
        [] proc[t].pc = "intervals" -> {call(slice, 0, proc[t].interval) : slice \in Slices(t)}
        [] proc[t].pc = "prepare"   -> {call(proc[t].slice, 0, Unset)}
        [] OTHER                    -> {}

(* The command is interrupted while it waits, or cannot get the receipt.    *)
Leave(t) == /\ Cardinality(late) < MaxLate
            /\ \E call \in Sent(t) : late' = late \cup {call}
            /\ End(t)
            /\ UNCHANGED <<kind, contract>>

(* It is mined; no command that runs is alone from then on.  (Its nonce     *)
(* puts it before what the account sends later; other accounts, with other  *)
(* nonces, may do so too.)                                                  *)
Lands(call) ==
  /\ late' = late \ {call}
  /\ \/ call.fn = "cancel" /\ Cancels(call.ids)
     \/ call.fn = "register" /\ Registers(call.size)
     \/ call.fn = "intervals" /\ SetsIntervals(call.ids, call.interval)
     \/ call.fn = "prepare" /\ Prepares(call.ids)
  /\ duty' = [t \in Terminals |-> [duty[t] EXCEPT !.alone = FALSE]]
  /\ UNCHANGED <<kind, proc>>

Step(t) == \/ NothingToCancel(t) \/ ListOld(t) \/ BatchCancel(t) \/ SendLINK(t)
           \/ BatchRegister(t) \/ ListActive(t) \/ BatchSetIntervals(t)
           \/ BatchUpdatePipelineData(t) \/ BatchPreparing(t) \/ BatchSendLogs(t)

Next == \/ \E call \in late : Lands(call)
        \/ \E t \in Terminals :
          \/ \E count \in Counts, ivl \in Intervals :
               \E first \in {"listOld", "link", "register"} :
                 BeginRegister(t, count, ivl, first)
          \/ BeginCancel(t)
          \/ Step(t)
          \/ Fail(t) \/ Leave(t)

Spec == Init /\ [][Next]_vars
-----------------------------------------------------------------------------
Proc == [pc : {"idle", "listOld", "cancel", "link", "register", "intervals", "prepare",
               "sendLogs"},
         left : Nat, interval : Intervals \cup {Unset},
         todo : SUBSET Ids, slice : SUBSET Ids]
Call == [fn : {"cancel", "register", "intervals", "prepare"}, ids : SUBSET Ids,
         size : Nat, interval : Intervals \cup {Unset}]
Duty == [count : Nat, since : 0..MaxUpkeeps, new : SUBSET Ids, alone : BOOLEAN]

(* Variables have values of their types; what is active has been registered, *)
(* and what is configured is active.                                         *)
TypeOK == /\ kind \in Kinds
          /\ created \in 0..MaxUpkeeps
          /\ live \subseteq 1..created
          /\ interval \in [Ids -> Intervals \cup {Unset}]
          /\ ready \subseteq live
          /\ proc \in [Terminals -> Proc]
          /\ late \subseteq Call
          /\ duty \in [Terminals -> Duty]

Configured(id) == interval[id] # Unset /\ id \in ready

(* When a register ends well, every active upkeep that it registered or that *)
(* there was when it began has an interval and its data: in whatever batches *)
(* and slices, with whatever other commands in between, whatever an earlier  *)
(* register that failed has left half done, and whatever of it lands late.   *)
AllConfigured ==
  [][\A t \in Terminals : BatchUpdatePipelineData(t) \/ BatchSendLogs(t) =>
       \A id \in live' : id <= duty[t].since \/ id \in duty[t].new => Configured(id)']_vars

(* If nothing overlapped it, no late transaction of an interrupted command   *)
(* either, all active upkeeps have its interval: those of earlier registers  *)
(* lose theirs.                                                              *)
OneInterval ==
  [][\A t \in Terminals : (BatchUpdatePipelineData(t) \/ BatchSendLogs(t)) /\ duty[t].alone =>
       \A id \in live' : interval'[id] = proc[t].interval]_vars

(* A cancel that ends well, and the one before a register, leaves none of    *)
(* the upkeeps there were when the command began.                            *)
CancelledGone ==
  [][\A t \in Terminals : NothingToCancel(t) \/ BatchCancel(t) =>
       \A id \in live' : id > duty[t].since]_vars

(* A command that goes on to configure has registered --count upkeeps.       *)
AllRegistered == \A t \in Terminals :
  proc[t].pc \in {"intervals", "prepare", "sendLogs"} =>
    Cardinality(duty[t].new) = duty[t].count

=============================================================================
