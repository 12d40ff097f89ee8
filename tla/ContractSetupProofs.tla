------------------------- MODULE ContractSetupProofs -------------------------
(***************************************************************************)
(* Proofs about ContractSetup, for any terminals, bases, loads and number  *)
(* of deployments.                                                         *)
(*                                                                         *)
(* DependenciesRecorded and RegistrarsCurrent speak of the file and of the *)
(* copies held by commands.  Both are kept one environment at a time: each *)
(* command makes its copy of one it has read.  GoodEnv states what such an *)
(* environment is, and the first lemmas that every way to make one keeps   *)
(* it.  NothingLost needs to know in addition what the copies contain that *)
(* may still be written: that is Fresh.                                    *)
(***************************************************************************)
EXTENDS ContractSetup, TLAPS

GoodEnv(env) ==
  /\ env \in Env
  /\ \A s \in Slots : env.at[s] # None => Has(env, BuiltOn(s))
  /\ env.at["registrar"] \in Addresses => env.registrars = {env.at["registrar"]}

GoodCopies == /\ GoodEnv(file)
              /\ \A t \in Terminals : GoodEnv(proc[t].env)

Quiet == \A t \in Terminals : proc[t].pc # "writing"

(* While the file is not spoiled: one terminal writes at most; it writes    *)
(* what is on record and its own contract; and so would whoever has acted   *)
(* upon the file as it is.                                                  *)
Fresh ==
  ~spoiled =>
    /\ \A t, u \in Terminals : proc[t].pc = "writing" /\ proc[u].pc = "writing" => t = u
    /\ \A t \in Terminals : proc[t].pc = "writing" => proc[t].env.at = Recorded(proc[t])
    /\ \A t \in Terminals : proc[t].pc = "acted" /\ proc[t].op = "setup" =>
         proc[t].env.at = Recorded(proc[t])
    /\ Quiet => /\ file.at = ledger
                /\ \A t \in Terminals : proc[t].pc = "acted" /\ ~proc[t].stale =>
                     proc[t].env.at = Recorded(proc[t])

IInv == TypeOK /\ GoodCopies /\ Fresh
-----------------------------------------------------------------------------
(* An environment with nothing in it is good. *)
LEMMA EmptyGood == GoodEnv(ZeroEnv) /\ GoodEnv(FreshEnv)
<1>1. ZeroEnv \in Env /\ FreshEnv \in Env
  BY DEF ZeroEnv, FreshEnv, Env, None
<1>2. /\ ZeroEnv.at = [s \in Slots |-> None] /\ ZeroEnv.registrars = {}
      /\ FreshEnv.at = [s \in Slots |-> None] /\ FreshEnv.registrars = {}
  BY DEF ZeroEnv, FreshEnv
<1>3. None \notin Addresses
  BY DEF None, Addresses
<1>4. "registrar" \in Slots
  BY DEF Slots
<1> QED BY <1>1, <1>2, <1>3, <1>4 DEF GoodEnv

(* The three contracts that the others are built on are slots. *)
LEMMA SlotNames ==
  /\ "registry" \in Slots /\ "registrar" \in Slots /\ "linkToken" \in Slots
  /\ "registry" \notin Bases \cup Loads /\ "registrar" \notin Bases \cup Loads
  /\ "linkToken" \in Bases /\ Bases \cap Loads = {}
BY SetupAssumption DEF Slots

(* BuiltOn, DeployNeeds and SetNeeds, case by case. *)
LEMMA Needs ==
  /\ \A s \in Bases : BuiltOn(s) = {}
  /\ BuiltOn("registry") = Bases /\ BuiltOn("registrar") = {"linkToken", "registry"}
  /\ \A s \in Loads : BuiltOn(s) = {"registrar"}
  /\ \A s \in Slots : DeployNeeds(s) = BuiltOn(s)
  /\ \A s \in Slots \ {"registrar"} : SetNeeds(s) = BuiltOn(s)
  /\ SetNeeds("registrar") = {"registry"}
<1>1. \A s \in Bases : BuiltOn(s) = {} /\ SetNeeds(s) = {} /\ DeployNeeds(s) = {}
  BY SlotNames DEF BuiltOn, SetNeeds, DeployNeeds
<1>2. BuiltOn("registry") = Bases /\ SetNeeds("registry") = Bases /\ DeployNeeds("registry") = Bases
  BY SlotNames DEF BuiltOn, SetNeeds, DeployNeeds
<1>3. /\ BuiltOn("registrar") = {"linkToken", "registry"}
      /\ DeployNeeds("registrar") = {"linkToken", "registry"}
      /\ SetNeeds("registrar") = {"registry"}
  BY SlotNames DEF BuiltOn, SetNeeds, DeployNeeds
<1>4. \A s \in Loads : /\ BuiltOn(s) = {"registrar"}
                       /\ SetNeeds(s) = {"registrar"}
                       /\ DeployNeeds(s) = {"registrar"}
  BY SlotNames DEF BuiltOn, SetNeeds, DeployNeeds
<1> QED BY <1>1, <1>2, <1>3, <1>4, SlotNames DEF Slots

(* Recording one more contract, with all it is built on present, keeps      *)
(* what the others are built on.                                            *)
LEMMA OneMore ==
  ASSUME NEW env \in Env, NEW new \in Env, NEW s \in Slots, NEW a \in Recordable,
         \A r \in Slots : env.at[r] # None => Has(env, BuiltOn(r)),
         new.at = [env.at EXCEPT ![s] = a], Has(env, BuiltOn(s))
  PROVE  \A r \in Slots : new.at[r] # None => Has(new, BuiltOn(r))
<1>1. a # None
  BY DEF Recordable, Addresses, Foreign, None
<1>2. env.at \in [Slots -> Recordable \cup {None}]
  BY DEF Env
<1>3. \A r \in Slots : new.at[r] = IF r = s THEN a ELSE env.at[r]
  BY <1>2
<1>4. \A r \in Slots : BuiltOn(r) \subseteq Slots
  BY Needs, SlotNames DEF Slots
<1> QED BY <1>1, <1>3, <1>4 DEF Has

(* Deployed makes a good environment of a good one. *)
LEMMA DeployedGood ==
  ASSUME NEW env, GoodEnv(env), NEW s \in Slots, NEW a \in Addresses, Has(env, DeployNeeds(s))
  PROVE  GoodEnv(Deployed(env, s, a)) /\ Deployed(env, s, a).at = [env.at EXCEPT ![s] = a]
<1> DEFINE new == Deployed(env, s, a)
<1> DEFINE names == CASE s = "registry"  -> {env.at["registrar"]} \ {None}
                      [] s = "registrar" -> {a}
                      [] OTHER           -> env.registrars
<1>1. env \in Env /\ env.at \in [Slots -> Recordable \cup {None}] /\ a \in Recordable
  BY DEF GoodEnv, Env, Recordable
<1>2. new.at = [env.at EXCEPT ![s] = a] /\ new.registrars = names /\ new.configured = env.configured
  BY <1>1 DEF Deployed, Env
<1>3. names \in SUBSET Recordable
  BY <1>1, SlotNames DEF Env
<1>4. new = [env EXCEPT !.at = [env.at EXCEPT ![s] = a], !.registrars = names]
  BY <1>1 DEF Deployed, Env
<1>5. new \in Env
  <2> HIDE DEF names
  <2>1. [env.at EXCEPT ![s] = a] \in [Slots -> Recordable \cup {None}]
    BY <1>1
  <2> QED BY <1>1, <1>3, <1>4, <2>1 DEF Env
<1>6. \A r \in Slots : new.at[r] # None => Has(new, BuiltOn(r))
  BY <1>1, <1>2, <1>5, OneMore, Needs DEF GoodEnv
<1>7. new.at["registrar"] \in Addresses => new.registrars = {new.at["registrar"]}
  <2>1. CASE s = "registry"
    BY <2>1, <1>1, <1>2, SlotNames DEF GoodEnv, None, Addresses
  <2>2. CASE s = "registrar"
    BY <2>2, <1>1, <1>2, SlotNames DEF GoodEnv
  <2>3. CASE s # "registry" /\ s # "registrar"
    BY <2>3, <1>1, <1>2, SlotNames DEF GoodEnv
  <2> QED BY <2>1, <2>2, <2>3
<1> QED BY <1>2, <1>5, <1>6, <1>7 DEF GoodEnv

(* So does SetByHand: the registrar asks for a registry alone, but no       *)
(* registry is recorded without a token.                                    *)
LEMMA SetByHandGood ==
  ASSUME NEW env, GoodEnv(env), NEW s \in Slots, Has(env, SetNeeds(s))
  PROVE  GoodEnv(SetByHand(env, s)) /\ SetByHand(env, s).at = [env.at EXCEPT ![s] = Foreign]
<1> DEFINE new == SetByHand(env, s)
<1>1. env \in Env /\ env.at \in [Slots -> Recordable \cup {None}] /\ Foreign \in Recordable
  BY DEF GoodEnv, Env, Recordable
<1>2. new = [configured |-> env.configured, at |-> [env.at EXCEPT ![s] = Foreign],
             registrars |-> env.registrars]
  BY <1>1 DEF SetByHand, Env
<1>3. new \in Env
  BY <1>1, <1>2 DEF Env
<1>4. Has(env, BuiltOn(s))
  <2>1. CASE s = "registrar"
    BY <2>1, Needs, SlotNames DEF Has, GoodEnv
  <2>2. CASE s # "registrar"
    BY <2>2, Needs
  <2> QED BY <2>1, <2>2
<1>5. \A r \in Slots : new.at[r] # None => Has(new, BuiltOn(r))
  BY <1>1, <1>2, <1>3, <1>4, OneMore DEF GoodEnv
<1>6. Foreign \notin Addresses
  BY DEF Foreign, Addresses
<1>7. new.at["registrar"] \in Addresses => new.registrars = {new.at["registrar"]}
  BY <1>1, <1>2, <1>6, SlotNames DEF GoodEnv
<1> QED BY <1>2, <1>3, <1>5, <1>7 DEF GoodEnv
-----------------------------------------------------------------------------
LEMMA InitIInv == Init => IInv
<1> SUFFICES ASSUME Init PROVE IInv
  OBVIOUS
<1>1. ZeroEnv \in Env /\ GoodEnv(ZeroEnv)
  BY EmptyGood DEF GoodEnv
<1>2. Idle \in Command
  BY <1>1 DEF Idle, Command
<1>3. ZeroEnv.at = [s \in Slots |-> None]
  BY DEF ZeroEnv
<1>4. TypeOK
  <2>1. 0 \in 0..MaxContracts
    BY SetupAssumption
  <2>2. [s \in Slots |-> None] \in [Slots -> Recordable \cup {None}]
    OBVIOUS
  <2> QED BY <1>1, <1>2, <2>1, <2>2 DEF Init, TypeOK
<1>5. GoodCopies
  BY <1>1 DEF Init, GoodCopies, Idle
<1>6. Fresh
  BY <1>3 DEF Init, Fresh, Idle
<1> QED BY <1>4, <1>5, <1>6 DEF IInv

(* A command that has read a good file and holds a good copy, with its own  *)
(* contract in it, takes the invariant along.                               *)
LEMMA ActIInv ==
  ASSUME IInv, NEW t \in Terminals,
         NEW op \in {"deploy", "set", "setConfig", "network", "setup"},
         NEW slot \in Slots \cup {"none"}, NEW env, Act(t, op, slot, env),
         GoodEnv(env), deployed' \in 0..MaxContracts,
         op \in {"deploy", "set"} =>
           slot \in Slots /\ env.at = [file.at EXCEPT ![slot] = env.at[slot]],
         op \in {"setConfig", "network"} => env.at = file.at,
         op = "setup" => env.at = [s \in Slots |-> None]
  PROVE  IInv'
<1> DEFINE c == [pc |-> "acted", op |-> op, slot |-> slot, stale |-> FALSE, env |-> env]
<1>1. /\ proc[t].pc = "idle" /\ proc' = [proc EXCEPT ![t] = c]
      /\ file' = file /\ ledger' = ledger /\ spoiled' = spoiled
  BY DEF Act
<1>2. c \in Command
  BY DEF Command, GoodEnv
<1>3. TypeOK'
  BY <1>1, <1>2 DEF IInv, TypeOK
<1>4. \A u \in Terminals : proc'[u] = IF u = t THEN c ELSE proc[u]
  BY <1>1 DEF IInv, TypeOK
<1>5. GoodCopies'
  BY <1>1, <1>4 DEF IInv, GoodCopies
<1>6. \A u \in Terminals : Recorded(proc[u])' = IF u = t THEN Recorded(c) ELSE Recorded(proc[u])
  <2>1. \A u \in Terminals : Recorded(proc[u])' = Recorded(proc'[u])
    BY <1>1 DEF Recorded
  <2> QED BY <1>4, <2>1
<1>7. Quiet' => Quiet
  BY <1>1, <1>4 DEF Quiet
<1>8. op = "setup" => env.at = Recorded(c)
  BY DEF Recorded
<1>9. file.at = ledger => env.at = Recorded(c)
  BY DEF Recorded
<1>10. Fresh'
  <2> SUFFICES ASSUME ~spoiled PROVE Fresh'
    BY <1>1 DEF Fresh
  <2>1. Fresh
    BY DEF IInv
  <2>2. c.pc = "acted" /\ c.op = op /\ c.env = env /\ ~c.stale
    OBVIOUS
  <2> HIDE DEF c
  <2>3. \A u \in Terminals : proc'[u].pc = "writing" => u # t /\ proc'[u] = proc[u]
    BY <1>4, <2>2
  <2>4. Quiet' => /\ file'.at = ledger'
                  /\ \A u \in Terminals : proc'[u].pc = "acted" /\ ~proc'[u].stale =>
                       proc'[u].env.at = Recorded(proc[u])'
    BY <1>1, <1>4, <1>6, <1>7, <1>9, <2>1, <2>2 DEF Fresh
  <2>5. \A u \in Terminals : proc'[u].pc = "acted" /\ proc'[u].op = "setup" =>
          proc'[u].env.at = Recorded(proc[u])'
    BY <1>4, <1>6, <1>8, <2>1, <2>2 DEF Fresh
  <2>6. \A u \in Terminals : proc'[u].pc = "writing" => proc'[u].env.at = Recorded(proc[u])'
    BY <1>6, <2>1, <2>3 DEF Fresh
  <2>7. \A u, v \in Terminals : proc'[u].pc = "writing" /\ proc'[v].pc = "writing" => u = v
    BY <2>1, <2>3 DEF Fresh
  <2> QED BY <2>4, <2>5, <2>6, <2>7 DEF Fresh
<1> QED BY <1>3, <1>5, <1>10 DEF IInv

LEMMA DeployIInv ==
  ASSUME IInv, NEW t \in Terminals, NEW s \in Slots, Deploy(t, s)
  PROVE  IInv'
<1> DEFINE env == Deployed(file, s, deployed')
<1>1. deployed' \in Addresses /\ deployed' \in 0..MaxContracts
  BY SetupAssumption DEF IInv, TypeOK, Deploy, Addresses
<1>2. GoodEnv(env) /\ env.at = [file.at EXCEPT ![s] = deployed']
  BY <1>1, DeployedGood DEF IInv, GoodCopies, Deploy
<1>3. env.at[s] = deployed'
  BY <1>2 DEF IInv, TypeOK, Env
<1>4. Act(t, "deploy", s, env)
  BY DEF Deploy
<1> HIDE DEF env
<1> QED BY <1>1, <1>2, <1>3, <1>4, ActIInv

LEMMA SetIInv ==
  ASSUME IInv, NEW t \in Terminals, NEW s \in Slots, Set(t, s)
  PROVE  IInv'
<1> DEFINE env == SetByHand(file, s)
<1>1. GoodEnv(env) /\ env.at = [file.at EXCEPT ![s] = Foreign]
  BY SetByHandGood DEF IInv, GoodCopies, Set
<1>2. env.at[s] = Foreign
  BY <1>1 DEF IInv, TypeOK, Env
<1>3. Act(t, "set", s, env) /\ deployed' \in 0..MaxContracts
  BY DEF Set, IInv, TypeOK
<1> HIDE DEF env
<1> QED BY <1>1, <1>2, <1>3, ActIInv

LEMMA RewriteIInv ==
  ASSUME IInv, NEW t \in Terminals, SetConfig(t) \/ ChangeNodes(t) \/ Setup(t)
  PROVE  IInv'
<1>1. deployed' \in 0..MaxContracts
  BY DEF SetConfig, ChangeNodes, Setup, IInv, TypeOK
<1>2. GoodEnv(file) /\ GoodEnv(FreshEnv)
  BY EmptyGood DEF IInv, GoodCopies
<1>3. FreshEnv.at = [s \in Slots |-> None]
  BY DEF FreshEnv, ZeroEnv
<1>4. CASE SetConfig(t)
  BY <1>1, <1>2, <1>4, ActIInv DEF SetConfig
<1>5. CASE ChangeNodes(t)
  BY <1>1, <1>2, <1>5, ActIInv DEF ChangeNodes
<1>6. CASE Setup(t)
  BY <1>1, <1>2, <1>3, <1>6, ActIInv DEF Setup
<1> QED BY <1>4, <1>5, <1>6
-----------------------------------------------------------------------------
(* The ghosts keep their types, whatever they are judged by. *)
LEMMA JudgeType ==
  ASSUME IInv, NEW harm \in BOOLEAN, Judge(harm)
  PROVE  /\ ledger' \in [Slots -> Recordable \cup {None}] /\ spoiled' \in BOOLEAN
         /\ ~spoiled' => ~spoiled /\ ~harm /\ ledger' = ledger
<1>1. [s \in Slots |-> None] \in [Slots -> Recordable \cup {None}]
  OBVIOUS
<1> QED BY <1>1 DEF IInv, TypeOK, Judge

LEMMA TruncateIInv ==
  ASSUME IInv, NEW t \in Terminals, Truncate(t)
  PROVE  IInv'
<1> DEFINE harm == \/ proc[t].op # "setup" /\ proc[t].stale
                   \/ \E u \in Terminals : proc[u].pc = "writing"
           c == [proc[t] EXCEPT !.pc = "writing"]
<1>1. /\ proc[t].pc = "acted" /\ file' = ZeroEnv /\ deployed' = deployed
      /\ proc' = [proc EXCEPT ![t] = c]
  BY DEF Truncate
<1>2. /\ ledger' \in [Slots -> Recordable \cup {None}] /\ spoiled' \in BOOLEAN
      /\ ~spoiled' => ~spoiled /\ ~harm /\ ledger' = ledger
  <2>1. harm \in BOOLEAN /\ Judge(harm)
    BY DEF Truncate, IInv, TypeOK, Command
  <2> HIDE DEF harm
  <2> QED BY <2>1, JudgeType
<1>3. proc[t] \in Command
  BY DEF IInv, TypeOK
<1>4. /\ c \in Command /\ c.pc = "writing" /\ c.op = proc[t].op
      /\ c.slot = proc[t].slot /\ c.env = proc[t].env
  BY <1>3 DEF Command
<1> HIDE DEF c
<1>5. \A u \in Terminals : proc'[u] = IF u = t THEN c ELSE proc[u]
  BY <1>1 DEF IInv, TypeOK
<1>6. TypeOK'
  BY <1>1, <1>2, <1>4, EmptyGood DEF IInv, TypeOK, GoodEnv
<1>7. GoodCopies'
  BY <1>1, <1>4, <1>5, EmptyGood DEF IInv, GoodCopies
<1>8. Fresh'
  <2> SUFFICES ASSUME ~spoiled' PROVE Fresh'
    BY DEF Fresh
  <2>1. /\ ~spoiled /\ ledger' = ledger
        /\ proc[t].op = "setup" \/ ~proc[t].stale
        /\ Quiet
    BY <1>2 DEF Quiet
  <2>2. Fresh
    BY DEF IInv
  <2>3. \A u \in Terminals : Recorded(proc[u])' = Recorded(proc'[u])
    BY <2>1 DEF Recorded
  <2>4. Recorded(c) = Recorded(proc[t])
    BY <1>4 DEF Recorded
  <2>5. c.env.at = Recorded(c)
    BY <1>1, <1>4, <2>1, <2>2, <2>4 DEF Fresh
  <2>6. ~Quiet'
    BY <1>4, <1>5 DEF Quiet
  <2>7. \A u \in Terminals : proc'[u].pc = "writing" => u = t
    BY <1>5, <2>1 DEF Quiet
  <2>8. \A u \in Terminals : proc'[u].pc = "acted" /\ proc'[u].op = "setup" =>
          proc'[u].env.at = Recorded(proc[u])'
    BY <1>4, <1>5, <2>1, <2>2, <2>3 DEF Fresh
  <2>9. proc'[t].env.at = Recorded(proc[t])'
    BY <1>5, <2>3, <2>5
  <2> QED BY <2>6, <2>7, <2>8, <2>9 DEF Fresh
<1> QED BY <1>6, <1>7, <1>8 DEF IInv

(* What a command of the right type records has the type of the ledger. *)
LEMMA RecordedType ==
  ASSUME IInv, NEW t \in Terminals
  PROVE  Recorded(proc[t]) \in [Slots -> Recordable \cup {None}]
<1> DEFINE c == proc[t]
<1>1. c.op \in {"none", "deploy", "set", "setConfig", "network", "setup"}
      /\ c.env.at \in [Slots -> Recordable \cup {None}]
      /\ ledger \in [Slots -> Recordable \cup {None}]
  BY DEF IInv, TypeOK, Command, Env
<1> HIDE DEF c
<1>2. [s \in Slots |-> None] \in [Slots -> Recordable \cup {None}]
  OBVIOUS
<1>3. [ledger EXCEPT ![c.slot] = c.env.at[c.slot]] \in [Slots -> Recordable \cup {None}]
  BY <1>1
<1>4. Recorded(c) \in [Slots -> Recordable \cup {None}]
  BY <1>1, <1>2, <1>3 DEF Recorded
<1> QED BY <1>4 DEF c

LEMMA SaveIInv ==
  ASSUME IInv, NEW t \in Terminals, Save(t)
  PROVE  IInv'
<1>1. /\ proc[t].pc = "writing" /\ file' = proc[t].env /\ proc' = Done(t)
      /\ ledger' = IF spoiled THEN ledger ELSE Recorded(proc[t])
      /\ deployed' = deployed /\ spoiled' = spoiled
  BY DEF Save
<1>2. \A u \in Terminals : proc[u] \in Command
  BY DEF IInv, TypeOK
<1>3. \A u \in Terminals : [proc[u] EXCEPT !.stale = proc[u].pc # "idle"] \in Command
  BY <1>2 DEF Command
<1>4. Idle \in Command
  BY EmptyGood DEF Idle, Command, GoodEnv
<1>5. proc' \in [Terminals -> Command]
  BY <1>1, <1>3, <1>4 DEF Done
<1>6. \A u \in Terminals : u # t =>
        /\ proc'[u].pc = proc[u].pc /\ proc'[u].op = proc[u].op
        /\ proc'[u].slot = proc[u].slot /\ proc'[u].env = proc[u].env
        /\ proc'[u].stale = (proc[u].pc # "idle")
  BY <1>1, <1>2 DEF Done, Command
<1>7. proc'[t] = Idle
  BY <1>1 DEF Done
<1>8. TypeOK'
  BY <1>1, <1>2, <1>5, RecordedType DEF IInv, TypeOK, Command
<1>9. GoodCopies'
  BY <1>1, <1>6, <1>7, EmptyGood DEF IInv, GoodCopies, Idle
<1>10. Fresh'
  <2> SUFFICES ASSUME ~spoiled PROVE Fresh'
    BY <1>1 DEF Fresh
  <2>1. Fresh
    BY DEF IInv
  <2>2. \A u \in Terminals : proc'[u].pc # "writing"
    BY <1>1, <1>6, <1>7, <2>1 DEF Fresh, Idle
  <2>3. file'.at = ledger'
    BY <1>1, <2>1 DEF Fresh
  <2>4. \A u \in Terminals : proc'[u].pc = "acted" => u # t /\ proc'[u].stale
    BY <1>5, <1>6, <1>7 DEF Idle, Command
  <2>5. \A u \in Terminals : u # t /\ proc[u].op = "setup" =>
          Recorded(proc[u]) = [s \in Slots |-> None] /\ Recorded(proc[u])' = [s \in Slots |-> None]
    BY <1>6 DEF Recorded
  <2>6. \A u \in Terminals : proc'[u].pc = "acted" /\ proc'[u].op = "setup" =>
          proc'[u].env.at = Recorded(proc[u])'
    BY <1>6, <2>1, <2>4, <2>5 DEF Fresh
  <2> QED BY <2>2, <2>3, <2>4, <2>6 DEF Fresh
<1> QED BY <1>8, <1>9, <1>10 DEF IInv

LEMMA DeleteIInv ==
  ASSUME IInv, DeleteEnvironment
  PROVE  IInv'
<1>1. /\ file' = ZeroEnv /\ ledger' = [s \in Slots |-> None]
      /\ deployed' = deployed /\ spoiled' = spoiled
  BY DEF DeleteEnvironment
<1>2. \A t \in Terminals : proc[t] \in Command
  BY DEF IInv, TypeOK
<1>3. \A t \in Terminals : proc[t].pc = "acted" => proc'[t] = [proc[t] EXCEPT !.stale = TRUE]
  BY DEF DeleteEnvironment
<1>4. \A t \in Terminals : proc[t].pc # "acted" => proc'[t] = Idle
  BY DEF DeleteEnvironment
<1>5. Idle \in Command /\ Idle.pc = "idle" /\ Idle.env = ZeroEnv
  BY EmptyGood DEF Idle, Command, GoodEnv
<1>5a. \A c \in Command : LET d == [c EXCEPT !.stale = TRUE] IN
            /\ d \in Command /\ d.pc = c.pc /\ d.op = c.op /\ d.env = c.env /\ d.stale
  BY DEF Command
<1>6. \A t \in Terminals : proc'[t] \in Command
  BY <1>2, <1>3, <1>4, <1>5, <1>5a
<1>7. DOMAIN proc' = Terminals /\ proc' = [t \in Terminals |-> proc'[t]]
  BY DEF DeleteEnvironment
<1>8. TypeOK'
  <2>1. proc' \in [Terminals -> Command]
    BY <1>6, <1>7
  <2>2. [s \in Slots |-> None] \in [Slots -> Recordable \cup {None}]
    OBVIOUS
  <2> QED BY <1>1, <2>1, <2>2, EmptyGood DEF IInv, TypeOK, GoodEnv
<1>9. GoodCopies'
  <2>1. \A t \in Terminals : proc'[t].env \in {proc[t].env, ZeroEnv}
    BY <1>2, <1>3, <1>4, <1>5, <1>5a
  <2> QED BY <1>1, <2>1, EmptyGood DEF IInv, GoodCopies
<1>10. Fresh'
  <2> SUFFICES ASSUME ~spoiled PROVE Fresh'
    BY <1>1 DEF Fresh
  <2>1. Fresh
    BY DEF IInv
  <2>2. \A t \in Terminals : proc'[t].pc # "writing"
    <3> TAKE t \in Terminals
    <3>1. CASE proc[t].pc = "acted"
      BY <3>1, <1>2, <1>3, <1>5a
    <3>2. CASE proc[t].pc # "acted"
      BY <3>2, <1>4, <1>5
    <3> QED BY <3>1, <3>2
  <2>3. \A t \in Terminals : proc'[t].pc = "acted" =>
          /\ proc[t].pc = "acted" /\ proc'[t].stale
          /\ proc'[t].op = proc[t].op /\ proc'[t].env = proc[t].env
    BY <1>2, <1>3, <1>4, <1>5, <1>5a
  <2>4. \A t \in Terminals : proc'[t].pc = "acted" /\ proc'[t].op = "setup" =>
          /\ Recorded(proc[t]) = [s \in Slots |-> None]
          /\ Recorded(proc[t])' = [s \in Slots |-> None]
    BY <2>3 DEF Recorded
  <2>5. \A t \in Terminals : proc'[t].pc = "acted" /\ proc'[t].op = "setup" =>
          proc'[t].env.at = Recorded(proc[t])'
    BY <2>1, <2>3, <2>4 DEF Fresh
  <2>6. file'.at = ledger'
    BY <1>1 DEF ZeroEnv
  <2> QED BY <2>2, <2>3, <2>5, <2>6 DEF Fresh
<1> QED BY <1>8, <1>9, <1>10 DEF IInv

LEMMA DieIInv ==
  ASSUME IInv, NEW t \in Terminals, Die(t)
  PROVE  IInv'
<1>1. /\ proc[t].pc # "idle" /\ proc' = [proc EXCEPT ![t] = Idle]
      /\ file' = file /\ deployed' = deployed
  BY DEF Die
<1>2. /\ ledger' \in [Slots -> Recordable \cup {None}] /\ spoiled' \in BOOLEAN
      /\ ~spoiled' => ~spoiled /\ proc[t].pc # "writing" /\ ledger' = ledger
  BY JudgeType DEF Die
<1>3. Idle \in Command
  BY EmptyGood DEF Idle, Command, GoodEnv
<1>4. \A u \in Terminals : proc'[u] = IF u = t THEN Idle ELSE proc[u]
  BY <1>1 DEF IInv, TypeOK
<1>5. TypeOK'
  BY <1>1, <1>2, <1>3 DEF IInv, TypeOK
<1>6. GoodCopies'
  BY <1>1, <1>4, EmptyGood DEF IInv, GoodCopies, Idle
<1>7. Fresh'
  <2> SUFFICES ASSUME ~spoiled' PROVE Fresh'
    BY DEF Fresh
  <2>1. ~spoiled /\ proc[t].pc # "writing" /\ ledger' = ledger /\ Fresh
    BY <1>2 DEF IInv
  <2>2. \A u \in Terminals : Recorded(proc[u])' = Recorded(proc'[u])
    BY <2>1 DEF Recorded
  <2>3. \A u \in Terminals : proc'[u].pc # "idle" => u # t /\ proc'[u] = proc[u]
    BY <1>4 DEF Idle
  <2>4. Quiet' => Quiet
    BY <1>4, <2>1 DEF Quiet
  <2> QED BY <1>1, <2>1, <2>2, <2>3, <2>4 DEF Fresh
<1> QED BY <1>5, <1>6, <1>7 DEF IInv

LEMMA NextIInv == IInv /\ [Next]_vars => IInv'
<1> SUFFICES ASSUME IInv, [Next]_vars PROVE IInv'
  OBVIOUS
<1>1. CASE \E t \in Terminals : \E s \in Slots : Deploy(t, s) \/ Set(t, s)
  BY <1>1, DeployIInv, SetIInv
<1>2. CASE \E t \in Terminals : SetConfig(t) \/ ChangeNodes(t) \/ Setup(t)
  BY <1>2, RewriteIInv
<1>3. CASE \E t \in Terminals : Truncate(t) \/ Save(t) \/ Die(t)
  BY <1>3, TruncateIInv, SaveIInv, DieIInv
<1>4. CASE DeleteEnvironment
  BY <1>4, DeleteIInv
<1>5. CASE UNCHANGED vars
  BY <1>5 DEF vars, IInv, TypeOK, GoodCopies, Fresh, Quiet, Recorded
<1> QED BY <1>1, <1>2, <1>3, <1>4, <1>5 DEF Next
-----------------------------------------------------------------------------
(* The inductive invariant holds in every reachable state. *)
THEOREM Invariance == Spec => []IInv
<1>1. Init => IInv
  BY InitIInv
<1>2. IInv /\ [Next]_vars => IInv'
  BY NextIInv
<1> QED BY <1>1, <1>2, PTL DEF Spec

(* Variables have values of their types. *)
THEOREM TypeCorrect == Spec => []TypeOK
<1>1. IInv => TypeOK
  BY DEF IInv
<1> QED BY <1>1, Invariance, PTL

(* However commands overlap, fail and die, no contract is recorded without  *)
(* those it is built on: set-config may look at the registry alone.         *)
THEOREM DependenciesKept == Spec => []DependenciesRecorded
<1>1. IInv => DependenciesRecorded
  BY DEF IInv, GoodCopies, GoodEnv, DependenciesRecorded, Copies
<1> QED BY <1>1, Invariance, PTL

(* The registrars of the registry's configuration follow the registrar that *)
(* was deployed, in whatever order it and the registry were.                *)
THEOREM RegistrarsFollow == Spec => []RegistrarsCurrent
<1>1. IInv => RegistrarsCurrent
  BY DEF IInv, GoodCopies, GoodEnv, RegistrarsCurrent, Copies
<1> QED BY <1>1, Invariance, PTL

(* Unless a stale copy was written or a write cut short, the contracts of   *)
(* all finished commands are on record.                                     *)
THEOREM ContractsKept == Spec => []NothingLost
<1>1. IInv => NothingLost
  BY DEF IInv, Fresh, Quiet, NothingLost
<1> QED BY <1>1, Invariance, PTL
=============================================================================
