---------------------------- MODULE ContractSetup ----------------------------
(***************************************************************************)
(* The contracts of one environment: the commands under src/cmd/contract   *)
(* that deploy a contract or set the address of an existing one, `config   *)
(* setup` and `config delete` (src/cmd/configure), and the network         *)
(* commands, as far as they rewrite the same config.toml.                  *)
(*                                                                         *)
(* A command reads config.toml, does its work on the chain - minutes, when *)
(* it deploys - and writes the whole environment back.  Nothing locks the  *)
(* file: commands of several terminals interleave; any may fail or be      *)
(* interrupted at any step.  Reading and work are one action: between them *)
(* a command changes nothing that another can see.  One that its checks    *)
(* refuse, or that fails before it has deployed, changes nothing at all.   *)
(***************************************************************************)
EXTENDS Integers, FiniteSets

CONSTANTS Terminals,     \* where commands are run
          Bases,         \* link token and feeds: "linkToken", "linkEth", "fastGas"
          Loads,         \* verifiable loads: "logLoad", "conditionalLoad"
          MaxContracts   \* bound on the contracts deployed

ASSUME SetupAssumption == /\ "linkToken" \in Bases
                          /\ {"registry", "registrar"} \cap (Bases \cup Loads) = {}
                          /\ Bases \cap Loads = {}
                          /\ MaxContracts \in Nat

Slots == Bases \cup Loads \cup {"registry", "registrar"}

None == 0                     \* a nil contract
Foreign == -1                 \* an address given by hand, not deployed from here
Addresses == 1..MaxContracts  \* contracts deployed from here, in order
Recordable == Addresses \cup {Foreign}

VARIABLES
  file,      \* config.toml
  proc,      \* the command of each terminal
  deployed,  \* contracts deployed so far
  ledger,    \* the address each finished command recorded last (ghost)
  spoiled    \* a command wrote a stale copy, or died with the file empty (ghost)

vars == <<file, proc, deployed, ledger, spoiled>>

(* What an empty or missing file decodes to; what config setup writes. *)
ZeroEnv == [configured |-> FALSE, at |-> [s \in Slots |-> None], registrars |-> {}]
FreshEnv == [ZeroEnv EXCEPT !.configured = TRUE]

Idle == [pc |-> "idle", op |-> "none", slot |-> "none", stale |-> FALSE, env |-> ZeroEnv]

Init == /\ file = ZeroEnv
        /\ proc = [t \in Terminals |-> Idle]
        /\ deployed = 0
        /\ ledger = [s \in Slots |-> None]
        /\ spoiled = FALSE
-----------------------------------------------------------------------------
(* What must be recorded before a slot can be, by deployment or by hand. *)

\* Mutant: the registrar's set-address does not look for a registry.
SetNeedsUnchecked(s) == CASE s \in Bases       -> {}
                          [] s = "registry"  -> Bases
                          [] s = "registrar" -> {}
                          [] s \in Loads       -> {"registrar"}

SetNeeds(s) == CASE s \in Bases       -> {}
                 [] s = "registry"  -> Bases
                 [] s = "registrar" -> {"registry"}
                 [] s \in Loads       -> {"registrar"}

DeployNeeds(s) == IF s = "registrar" THEN {"linkToken", "registry"} ELSE SetNeeds(s)

Has(env, slots) == \A s \in slots : env.at[s] # None

\* Mutant: a new registry starts without registrars.
DeployedForgetting(env, s, a) ==
  [env EXCEPT !.at[s] = a,
              !.registrars = CASE s = "registry"  -> {}
                               [] s = "registrar" -> {a}
                               [] OTHER           -> @]

\* Mutant: the recorded registrar is used without a look whether there is one.
DeployedUnchecked(env, s, a) ==
  [env EXCEPT !.at[s] = a,
              !.registrars = CASE s = "registry"  -> {env.at["registrar"]}
                               [] s = "registrar" -> {a}
                               [] OTHER           -> @]

(* Onchain.Registrars of the recorded registry: a new registry takes over   *)
(* the recorded registrar, a new registrar replaces what is there.          *)
Deployed(env, s, a) ==
  [env EXCEPT !.at[s] = a,
              !.registrars = CASE s = "registry"  -> {env.at["registrar"]} \ {None}
                               [] s = "registrar" -> {a}
                               [] OTHER           -> @]

\* Mutant: the environment is not read first.
SetByHandAlone(env, s) == [ZeroEnv EXCEPT !.at[s] = Foreign]

(* An address set by hand leaves the rest of the record as it is. *)
SetByHand(env, s) == [env EXCEPT !.at[s] = Foreign]
-----------------------------------------------------------------------------
(* The commands. *)

(* Command op has read the file, done its work, and holds env to write. *)
Act(t, op, slot, env) ==
  /\ proc[t].pc = "idle"
  /\ proc' = [proc EXCEPT ![t] = [pc |-> "acted", op |-> op, slot |-> slot,
                                  stale |-> FALSE, env |-> env]]
  /\ UNCHANGED <<file, ledger, spoiled>>

(* A command that needs a key and a chain finds neither in an environment   *)
(* that is not configured.  The contract is mined, its address recorded.    *)
Deploy(t, s) == /\ file.configured
                /\ Has(file, DeployNeeds(s))
                /\ deployed < MaxContracts
                /\ deployed' = deployed + 1
                /\ Act(t, "deploy", s, Deployed(file, s, deployed'))

Set(t, s) == /\ Has(file, SetNeeds(s))
             /\ Act(t, "set", s, SetByHand(file, s))
             /\ UNCHANGED deployed

(* registry set-config: dereferences the link token and the feeds, sends the *)
(* configuration to the chain and writes the environment back.               *)
SetConfig(t) == /\ file.configured
                /\ file.at["registry"] # None
                /\ Act(t, "setConfig", "none", file)
                /\ UNCHANGED deployed

(* A network command changes the nodes (module NodeNetwork) and writes the  *)
(* contracts back as it read them.                                          *)
ChangeNodes(t) == /\ file.configured
                  /\ Act(t, "network", "none", file)
                  /\ UNCHANGED deployed

(* config setup makes a new environment of the prompted values. *)
Setup(t) == /\ Act(t, "setup", "none", FreshEnv)
            /\ UNCHANGED deployed

(* The ghosts, when one more thing can have spoiled the file. *)
Judge(harm) == /\ spoiled' = (spoiled \/ harm)
               /\ ledger' = IF spoiled' THEN [s \in Slots |-> None] ELSE ledger

(* Terminal t is done; the copies of the others are stale (ghost). *)
Done(t) == [u \in Terminals |-> IF u = t THEN Idle
                                ELSE [proc[u] EXCEPT !.stale = proc[u].pc # "idle"]]

(* MustWrite: the file is opened with O_TRUNC.  A setup does not depend on  *)
(* what was in it.                                                          *)
Truncate(t) ==
  /\ proc[t].pc = "acted"
  /\ Judge(\/ proc[t].op # "setup" /\ proc[t].stale
           \/ \E u \in Terminals : proc[u].pc = "writing")
  /\ file' = ZeroEnv
  /\ proc' = [proc EXCEPT ![t].pc = "writing"]
  /\ UNCHANGED deployed

(* What has been recorded once command c has finished. *)
Recorded(c) == CASE c.op = "setup"            -> [s \in Slots |-> None]
                 [] c.op \in {"deploy", "set"} -> [ledger EXCEPT ![c.slot] = c.env.at[c.slot]]
                 [] OTHER                     -> ledger

(* config.Write.  Of several that have the file open the last is taken to   *)
(* replace it, though a longer one before may end it.                       *)
Save(t) ==
  /\ proc[t].pc = "writing"
  /\ file' = proc[t].env
  /\ ledger' = IF spoiled THEN ledger ELSE Recorded(proc[t])
  /\ proc' = Done(t)
  /\ UNCHANGED <<deployed, spoiled>>

(* config delete removes the directory; whoever has the file open writes to *)
(* a file that is gone.                                                     *)
DeleteEnvironment ==
  /\ file' = ZeroEnv
  /\ proc' = [t \in Terminals |->
               CASE proc[t].pc = "acted" -> [proc[t] EXCEPT !.stale = TRUE]
                 [] OTHER                -> Idle]
  /\ ledger' = [s \in Slots |-> None]
  /\ UNCHANGED <<deployed, spoiled>>

(* An error of the chain or of a node, or an interrupt. *)
Die(t) == /\ proc[t].pc # "idle"
          /\ proc' = [proc EXCEPT ![t] = Idle]
          /\ Judge(proc[t].pc = "writing")
          /\ UNCHANGED <<file, deployed>>

Next == \/ \E t \in Terminals :
             \/ \E s \in Slots : Deploy(t, s) \/ Set(t, s)
             \/ SetConfig(t) \/ ChangeNodes(t) \/ Setup(t)
             \/ Truncate(t) \/ Save(t) \/ Die(t)
        \/ DeleteEnvironment

Spec == Init /\ [][Next]_vars
-----------------------------------------------------------------------------
Env == [configured : BOOLEAN, at : [Slots -> Recordable \cup {None}],
        registrars : SUBSET Recordable]

Command == [pc : {"idle", "acted", "writing"},
            op : {"none", "deploy", "set", "setConfig", "network", "setup"},
            slot : Slots \cup {"none"}, stale : BOOLEAN, env : Env]

(* Variables have values of their types. *)
TypeOK == /\ file \in Env
          /\ proc \in [Terminals -> Command]
          /\ deployed \in 0..MaxContracts
          /\ ledger \in [Slots -> Recordable \cup {None}]
          /\ spoiled \in BOOLEAN

(* The file and every copy of it that a command holds. *)
Copies == {file} \cup {proc[t].env : t \in Terminals}

(* The contracts whose addresses a contract is made with. *)
BuiltOn(s) == CASE s \in Bases       -> {}
                [] s = "registry"  -> Bases
                [] s = "registrar" -> {"linkToken", "registry"}
                [] s \in Loads       -> {"registrar"}

(* A contract is recorded only together with those it is built on, so a     *)
(* command that found the one never dereferences a nil other: set-config    *)
(* checks the registry alone and uses the token and the feeds.  Whatever    *)
(* commands overlap or die, for the copies are whole.                       *)
DependenciesRecorded == \A env \in Copies : \A s \in Slots :
  env.at[s] # None => Has(env, BuiltOn(s))

(* The registry's configuration, which set-config sends to the chain, names *)
(* the recorded registrar if that was deployed from here, in whatever order *)
(* registry and registrar were deployed or deployed again.  (After an       *)
(* address set by hand it may name the registrar before.)                   *)
RegistrarsCurrent == \A env \in Copies :
  env.at["registrar"] \in Addresses => env.registrars = {env.at["registrar"]}

(* As long as no command wrote a stale copy or died in the middle of its    *)
(* write, every contract that a finished command recorded is on record: one *)
(* that is refused, fails or dies after its deployment leaves no trace, and *)
(* none touches another's contract.                                         *)
NothingLost ==
  ~spoiled /\ (\A t \in Terminals : proc[t].pc # "writing") => file.at = ledger

(* "set up a new environment or update the values in an existing            *)
(* environment": the contracts recorded before a config setup still are.    *)
SetupKeepsContracts ==
  [][\A t \in Terminals :
       /\ proc[t].pc = "writing" /\ proc[t].op = "setup"
       /\ proc'[t].pc = "idle" /\ file' # ZeroEnv
       /\ ~spoiled'
       => file'.at = ledger]_vars
=============================================================================
