---------------------------- MODULE NodeNetwork ----------------------------
(***************************************************************************)
(* The chainlink nodes of one environment: the commands `network           *)
(* bootstrap set`, `network participant add`, `reset` and `remove --all`   *)
(* (src/cmd/network), the Docker containers they manage                    *)
(* (src/internal/node/docker.go) and what they record in config.toml.      *)
(*                                                                         *)
(* One command runs at a time, a step per call to the Docker daemon or to  *)
(* the node.  Any call may fail and the user may interrupt the command: it *)
(* then ends without writing config.toml, or, in the middle of its write,  *)
(* with an empty one.  Containers may stop.  That a call may also never    *)
(* return is a subject of NodeJobs.                                        *)
(***************************************************************************)
EXTENDS Integers, Sequences, FiniteSets

CONSTANTS MaxNodes,      \* bound on the number of participants
          Counts,        \* values of add's --count
          MaxDatabases,  \* bound on the postgres containers ever created
          Base,          \* the base participant numbers are written in (10)
          Faults         \* whether calls fail and containers stop

ASSUME NetworkAssumption == /\ MaxNodes \in Nat \ {0}
                            /\ Counts \subseteq Nat \ {0}
                            /\ MaxDatabases \in Nat
                            /\ Base \in Nat \ {0, 1}
                            /\ Faults \in BOOLEAN

Ids == 0..(MaxNodes - 1)    \* participant-<id>
Boot == -1                  \* the node called bootstrap
Nodes == Ids \cup {Boot}
Nobody == -2                \* no container found

Gens == 0..MaxDatabases     \* databases in the order of their creation, 0: none
NoInfo == 0                 \* nothing recorded

Commands == {"none", "add", "reset", "bootstrap", "remove"}
Pcs == {"idle", "list", "dropPg", "makePg", "startPg", "dropCl", "makeCl", "startCl",
        "await", "register", "removeCl", "removePg", "write"}

VARIABLES
  pg,       \* the postgres container of each node: its database, is it up
  cl,       \* the chainlink container of each node
  created,  \* databases created so far
  env,      \* config.toml: the bootstrap's and the participants' keys
  cmd,      \* the running command
  failed,   \* the nodes a failed command was at, and none has finished since (ghost)
  stopped,  \* the nodes of which a container has stopped by itself (ghost)
  lost      \* of each node: its keys in a config.toml emptied since (ghost)

vars == <<pg, cl, created, env, cmd, failed, stopped, lost>>
docker == <<pg, cl, created>>
ghosts == <<failed, stopped, lost>>

NoPg == [db |-> 0, up |-> FALSE]
Blank == [boot |-> NoInfo, parts |-> <<>>]
Idle == [op |-> "none", pc |-> "idle", node |-> Nobody, left |-> 0,
         pgFound |-> Nobody, clFound |-> FALSE, env |-> Blank]

Init == /\ pg = [n \in Nodes |-> NoPg]
        /\ cl = [n \in Nodes |-> "absent"]
        /\ created = 0
        /\ env = Blank
        /\ cmd = Idle
        /\ failed = {}
        /\ stopped = {}
        /\ lost = [n \in Nodes |-> NoInfo]
-----------------------------------------------------------------------------
\* Mutant: the search is for "participant-".
NamePrefixLoose(n, m) == n = m \/ (n # Boot /\ m # Boot)

(* Dividing by these cuts off one to four digits. *)
Powers == LET square == Base * Base
          IN  {Base, square, square * Base, square * square}

(* The name filter of checkContainerState, "^/<group>-<name>.*$": node m is *)
(* found in a search for node n when n's name is a prefix of m's.  The      *)
(* number 0 is a prefix of itself only; ports are of 16 bits, a number has  *)
(* at most five digits.                                                     *)
NamePrefix(n, m) == \/ n = m
                    \/ /\ n > 0 /\ m > 0
                       /\ \E p \in Powers : m \div p = n

(* Every postgres container has the private port the search asks for.  The  *)
(* daemon lists the newest first and the last match is kept: the oldest.    *)
FoundPg(n) ==
  LET matches == {m \in Nodes : NamePrefix(n, m) /\ pg[m].up}
  IN  IF matches = {} THEN Nobody
      ELSE CHOOSE m \in matches : \A o \in matches : pg[m].db <= pg[o].db

(* A chainlink container publishes its own port only. *)
FoundCl(n) == cl[n] = "up"

WithReset(c) == c.op \in {"reset", "bootstrap"}
-----------------------------------------------------------------------------
(* The commands. *)

Begin(op, n, left) ==
  /\ cmd.pc = "idle"
  /\ cmd' = [Idle EXCEPT !.op = op, !.pc = "list", !.node = n, !.left = left, !.env = env]
  /\ UNCHANGED <<docker, env, ghosts>>

\* Mutant: numbering from the last recorded participant.
StartAddOffByOne(count) ==
  /\ env.boot # NoInfo
  /\ Len(env.parts) + count <= MaxNodes
  /\ created + count <= MaxDatabases
  /\ Begin("add", IF env.parts = <<>> THEN 0 ELSE Len(env.parts) - 1, count)

(* participant add --count: the new numbers follow the recorded ones. *)
StartAdd(count) ==
  /\ env.boot # NoInfo
  /\ Len(env.parts) + count <= MaxNodes
  /\ created + count <= MaxDatabases
  /\ Begin("add", Len(env.parts), count)

StartReset(i) ==
  /\ env.boot # NoInfo
  /\ created < MaxDatabases
  /\ Begin("reset", env.parts[i].id, 1)

(* It asks for a registry: config setup and the contract commands come      *)
(* first, and again once the file has been emptied.                         *)
StartBootstrap == created < MaxDatabases /\ Begin("bootstrap", Boot, 1)

(* remove --all: the participants in order, then the bootstrap if there is one. *)
StartRemove ==
  /\ env.parts # <<>> \/ env.boot # NoInfo
  /\ Begin("remove", IF env.parts # <<>> THEN env.parts[1].id ELSE Boot, 1)
-----------------------------------------------------------------------------
(* Steps of a command: moving on, failing. *)

Goto(pc) == cmd' = [cmd EXCEPT !.pc = pc]

(* The nodes in config.toml. *)
Recorded == {env.parts[i].id : i \in 1..Len(env.parts)}
              \cup (IF env.boot = NoInfo THEN {} ELSE {Boot})

(* The nodes a command has been at: remove --all goes through the           *)
(* participants in order, to the bootstrap.                                 *)
Touched(c) == CASE c.op = "none"   -> {}
                [] c.op = "add"    -> {n \in Ids : Len(env.parts) <= n /\ n <= c.node}
                [] c.op = "remove" -> {n \in Recorded : c.node = Boot \/ n \in 0..c.node}
                [] OTHER           -> {c.node}

(* The keys recorded for a node. *)
KeysOf(n) == IF n = Boot THEN env.boot ELSE env.parts[n + 1].keys

(* A node's keys on record, or in a file that has been emptied since. *)
Known(n) == IF n \in Recorded THEN KeysOf(n) ELSE lost[n]

(* Every record goes, the containers stay. *)
EmptyFile == /\ env' = Blank
             /\ lost' = [n \in Nodes |-> Known(n)]
             /\ UNCHANGED <<docker, stopped>>

(* config setup writes a fresh environment, whatever nodes are on record. *)
ConfigSetup == /\ cmd.pc = "idle"
               /\ EmptyFile
               /\ UNCHANGED <<cmd, failed>>

(* A command that returns an error writes nothing. *)
Abort == /\ cmd' = Idle
         /\ failed' = failed \cup Touched(cmd)
         /\ UNCHANGED <<docker, env, stopped, lost>>

(* An error of the daemon or of the node at any step, or an interrupt. *)
Fail == Faults /\ cmd.pc # "idle" /\ Abort

(* checkContainerState: only running containers are listed. *)
List == /\ cmd.pc = "list"
        /\ cmd' = [cmd EXCEPT !.pgFound = FoundPg(cmd.node),
                              !.clFound = FoundCl(cmd.node),
                              !.pc = IF cmd.op = "remove" THEN "removeCl" ELSE "dropPg"]
        /\ UNCHANGED <<docker, env, ghosts>>

\* Mutant: the id of the removed container is not cleared.
DropPgKeepsId == /\ cmd.pc = "dropPg"
                 /\ LET drop == WithReset(cmd) /\ cmd.pgFound # Nobody
                    IN  /\ pg' = IF drop THEN [pg EXCEPT ![cmd.pgFound] = NoPg] ELSE pg
                        /\ Goto("makePg")
                 /\ UNCHANGED <<cl, created, env, ghosts>>

(* ensurePostgresContainer removes what it found when resetting ... *)
DropPg == /\ cmd.pc = "dropPg"
          /\ LET drop == WithReset(cmd) /\ cmd.pgFound # Nobody
             IN  /\ pg' = IF drop THEN [pg EXCEPT ![cmd.pgFound] = NoPg] ELSE pg
                 /\ cmd' = [cmd EXCEPT !.pc = "makePg",
                                       !.pgFound = IF drop THEN Nobody ELSE @]
          /\ UNCHANGED <<cl, created, env, ghosts>>

(* ... keeps one that is there, and creates one otherwise: an error when a  *)
(* stopped container has the name.                                          *)
KeepPg == /\ cmd.pc = "makePg"
          /\ cmd.pgFound # Nobody
          /\ Goto("dropCl")
          /\ UNCHANGED <<docker, env, ghosts>>

MakePg == /\ cmd.pc = "makePg"
          /\ cmd.pgFound = Nobody
          /\ pg[cmd.node] = NoPg
          /\ created' = created + 1
          /\ pg' = [pg EXCEPT ![cmd.node].db = created']
          /\ Goto("startPg")
          /\ UNCHANGED <<cl, env, ghosts>>

PgNameTaken == /\ cmd.pc = "makePg"
               /\ cmd.pgFound = Nobody
               /\ pg[cmd.node] # NoPg
               /\ Abort

StartPg == /\ cmd.pc = "startPg"
           /\ pg' = [pg EXCEPT ![cmd.node].up = TRUE]
           /\ Goto("dropCl")
           /\ UNCHANGED <<cl, created, env, ghosts>>

(* ensureChainlinkContainer, in the same way. *)
DropCl == /\ cmd.pc = "dropCl"
          /\ LET drop == WithReset(cmd) /\ cmd.clFound
             IN  /\ cl' = IF drop THEN [cl EXCEPT ![cmd.node] = "absent"] ELSE cl
                 /\ cmd' = [cmd EXCEPT !.pc = "makeCl", !.clFound = @ /\ ~drop]
          /\ UNCHANGED <<pg, created, env, ghosts>>

KeepCl == /\ cmd.pc = "makeCl"
          /\ cmd.clFound
          /\ Goto("await")
          /\ UNCHANGED <<docker, env, ghosts>>

MakeCl == /\ cmd.pc = "makeCl"
          /\ ~cmd.clFound
          /\ cl[cmd.node] = "absent"
          /\ cl' = [cl EXCEPT ![cmd.node] = "created"]
          /\ Goto("startCl")
          /\ UNCHANGED <<pg, created, env, ghosts>>

ClNameTaken == /\ cmd.pc = "makeCl"
               /\ ~cmd.clFound
               /\ cl[cmd.node] # "absent"
               /\ Abort

StartCl == /\ cmd.pc = "startCl"
           /\ cl' = [cl EXCEPT ![cmd.node] = "up"]
           /\ Goto("await")
           /\ UNCHANGED <<pg, created, env, ghosts>>

(* The node answers /health once it runs and reaches its own database. *)
Healthy(n) == cl[n] = "up" /\ pg[n].up

(* waitForNodeReady polls; its timeout is the subject of NodeJobs. *)
Ready == /\ cmd.pc = "await"
         /\ Healthy(cmd.node)
         /\ Goto("register")
         /\ UNCHANGED <<docker, env, ghosts>>

\* Mutant: reset keeps the keys that were recorded.
RecordingNotReset(e, c, db) ==
  CASE c.op = "add"       -> [e EXCEPT !.parts = Append(@, [id |-> c.node, keys |-> db])]
    [] c.op = "bootstrap" -> [e EXCEPT !.boot = db]
    [] OTHER              -> e

(* The node's keys, held by its database, go into the command's copy of the *)
(* configuration; add goes on with the next node.                           *)
Recording(e, c, db) ==
  CASE c.op = "add"       -> [e EXCEPT !.parts = Append(@, [id |-> c.node, keys |-> db])]
    [] c.op = "bootstrap" -> [e EXCEPT !.boot = db]
    [] OTHER              -> [e EXCEPT !.parts = [i \in 1..Len(@) |->
                                IF @[i].id = c.node THEN [id |-> c.node, keys |-> db]
                                ELSE @[i]]]

\* Mutant: the loop of add runs while idx <= count.
RegisterOneMore ==
  /\ cmd.pc = "register"
  /\ Healthy(cmd.node)
  /\ LET e == Recording(cmd.env, cmd, pg[cmd.node].db)
     IN  cmd' = IF cmd.op = "add" /\ cmd.left > 0
                THEN [cmd EXCEPT !.env = e, !.left = @ - 1, !.node = @ + 1, !.pc = "list"]
                ELSE [cmd EXCEPT !.env = e, !.pc = "write"]
  /\ UNCHANGED <<docker, env, ghosts>>

Register ==
  /\ cmd.pc = "register"
  /\ Healthy(cmd.node)
  /\ LET e == Recording(cmd.env, cmd, pg[cmd.node].db)
     IN  cmd' = IF cmd.left > 1
                THEN [cmd EXCEPT !.env = e, !.left = @ - 1, !.node = @ + 1, !.pc = "list"]
                ELSE [cmd EXCEPT !.env = e, !.pc = "write"]
  /\ UNCHANGED <<docker, env, ghosts>>

(* removeChainlinkNode: removing with the empty id, nothing being found, is *)
(* an error.                                                                *)
NothingToRemove == /\ \/ cmd.pc = "removeCl" /\ ~cmd.clFound
                      \/ cmd.pc = "removePg" /\ cmd.pgFound = Nobody
                   /\ Abort

RemoveCl == /\ cmd.pc = "removeCl"
            /\ cmd.clFound
            /\ cl' = [cl EXCEPT ![cmd.node] = "absent"]
            /\ Goto("removePg")
            /\ UNCHANGED <<pg, created, env, ghosts>>

(* The position among the participants of the node being removed. *)
At(c) == CHOOSE i \in 1..Len(c.env.parts) : c.env.parts[i].id = c.node

(* The command after one node is removed. *)
AfterRemoval(c) ==
  IF c.node # Boot /\ At(c) < Len(c.env.parts)
  THEN [c EXCEPT !.node = c.env.parts[At(c) + 1].id, !.pc = "list"]
  ELSE IF c.node # Boot /\ c.env.boot # NoInfo
  THEN [c EXCEPT !.node = Boot, !.pc = "list"]
  ELSE [c EXCEPT !.env = Blank, !.pc = "write"]

RemovePg == /\ cmd.pc = "removePg"
            /\ cmd.pgFound # Nobody
            /\ pg' = [pg EXCEPT ![cmd.pgFound] = NoPg]
            /\ cmd' = AfterRemoval(cmd)
            /\ UNCHANGED <<cl, created, env, ghosts>>

(* The whole configuration is written once, at the end of the command.  The *)
(* file is opened, which empties it, then encoded; nothing reads it in      *)
(* between: one step ...                                                    *)
Write == /\ cmd.pc = "write"
         /\ env' = cmd.env
         /\ cmd' = Idle
         /\ failed' = failed \ Touched(cmd)
         /\ lost' = [n \in Nodes |-> IF n \in Touched(cmd) THEN NoInfo ELSE lost[n]]
         /\ UNCHANGED <<docker, stopped>>

(* ... unless an interrupt or an error of the encoder comes in between.     *)
WriteCutShort == /\ Faults /\ cmd.pc = "write"
                 /\ EmptyFile
                 /\ cmd' = Idle
                 /\ failed' = failed \cup Touched(cmd)

Step == \/ List \/ DropPg \/ KeepPg \/ MakePg \/ PgNameTaken \/ StartPg
        \/ DropCl \/ KeepCl \/ MakeCl \/ ClNameTaken \/ StartCl
        \/ Ready \/ Register
        \/ RemoveCl \/ RemovePg \/ NothingToRemove \/ Write
-----------------------------------------------------------------------------
(* A container exits, or the daemon is restarted. *)
PgStops(n) == /\ Faults /\ pg[n].up
              /\ pg' = [pg EXCEPT ![n].up = FALSE]
              /\ stopped' = stopped \cup {n}
              /\ UNCHANGED <<cl, created, env, cmd, failed, lost>>

ClStops(n) == /\ Faults /\ cl[n] = "up"
              /\ cl' = [cl EXCEPT ![n] = "created"]
              /\ stopped' = stopped \cup {n}
              /\ UNCHANGED <<pg, created, env, cmd, failed, lost>>

Next == \/ \E count \in Counts : StartAdd(count)
        \/ \E i \in 1..Len(env.parts) : StartReset(i)
        \/ StartBootstrap
        \/ StartRemove
        \/ ConfigSetup
        \/ Step
        \/ Fail \/ WriteCutShort
        \/ \E n \in Nodes : PgStops(n) \/ ClStops(n)

(* A command that can go on does; it need not fail, and need not be run. *)
Spec == Init /\ [][Next]_vars /\ WF_vars(Step)
-----------------------------------------------------------------------------
Info == [id : Ids, keys : Gens]
Envs == [boot : Gens, parts : Seq(Info)]

(* Variables have values of their types. *)
TypeOK == /\ pg \in [Nodes -> [db : Gens, up : BOOLEAN]]
          /\ cl \in [Nodes -> {"absent", "created", "up"}]
          /\ created \in Gens
          /\ env \in Envs
          /\ cmd \in [op : Commands, pc : Pcs, node : Nodes \cup {Nobody},
                      left : 0..MaxNodes, pgFound : Nodes \cup {Nobody},
                      clFound : BOOLEAN, env : Envs]
          /\ failed \subseteq Nodes
          /\ stopped \subseteq Nodes
          /\ lost \in [Nodes -> Gens]

(* Recorded participants are participant-0, participant-1, ... in order, so *)
(* that add never builds a node over a recorded one: failed commands        *)
(* included.                                                                *)
NumberedInOrder == \A i \in 1..Len(env.parts) : env.parts[i].id = i - 1

(* A node that no failed or running command has been at is as the last      *)
(* command that ended well at it has recorded: it has the database whose    *)
(* keys are on record and its other container, and they run unless one      *)
(* stopped by itself; or it was not recorded, or removed, and has no        *)
(* container.  Only config setup and a write cut short take a node off the  *)
(* record otherwise (lost): it runs on, with the keys it had.  So a failed  *)
(* command never separates a node that it was not at from its keys.         *)
ConfigMatchesContainers ==
  \A n \in Nodes \ (failed \cup Touched(cmd)) :
    IF Known(n) = NoInfo
    THEN pg[n] = NoPg /\ cl[n] = "absent"
    ELSE /\ pg[n].db = Known(n) /\ cl[n] # "absent"
         /\ n \in stopped \/ Healthy(n)

(* A command takes away containers of the node it works on, and of no other; *)
(* add takes none away.                                                      *)
OwnContainersOnly ==
  [][\A n \in Nodes :
       \/ pg[n] # NoPg /\ pg'[n] = NoPg
       \/ cl[n] # "absent" /\ cl'[n] = "absent"
       => n = cmd.node /\ cmd.op # "add"]_vars

(* Every call returning, a command ends, unless it comes to a node of which *)
(* a container has stopped by itself: it waits for nothing else that nobody *)
(* has seen to before.                                                      *)
CommandEnds == cmd.pc # "idle" ~> cmd.pc = "idle" \/ cmd.node \in stopped
=============================================================================
