------------------------------ MODULE NodeJobs ------------------------------
(***************************************************************************)
(* What `network bootstrap set`, `participant add` and `participant reset` *)
(* do at the API of a chainlink node (src/internal/node/client.go,         *)
(* participant.go, bootstrap.go) through a session (src/internal/          *)
(* restclient), and what they record of it: the keys and jobs of the nodes *)
(* against config.toml, whose registry may be deployed anew in between.    *)
(*                                                                         *)
(* One command runs at a time, a step per request.  A session may expire,  *)
(* a node may stop, a request may fail before or after it took effect, or  *)
(* never be answered at all.  config.toml may be emptied.  How containers  *)
(* are found by their names is the subject of NodeNetwork.                 *)
(***************************************************************************)
EXTENDS Integers, Sequences

CONSTANTS MaxNodes,        \* bound on the number of participants
          Keys,            \* private keys of the key store
          MaxDatabases,    \* bound on the databases ever created
          MaxRegistries,   \* bound on the registries ever deployed
          MaxFailures,     \* bound on the failed commands at one database
          Timeout,         \* of waitForNodeReady (120)
          PollInterval,    \* seconds between two polls (5)
          NanosPerSecond   \* time.Second (10^9)

ASSUME JobsAssumption ==
  /\ {MaxNodes, Timeout, PollInterval, NanosPerSecond} \subseteq Nat \ {0}
  /\ {MaxDatabases, MaxRegistries, MaxFailures} \subseteq Nat
  /\ Keys \cap Int = {}

Participants == 0..(MaxNodes - 1)
Boot == -1
Nodes == Participants \cup {Boot}

Gens == 0..MaxDatabases     \* databases in the order of their creation, 0: none
Registries == 0..MaxRegistries
None == 0                   \* no key given, no address, no registry

(* A node makes a key of its own in a new database: it is called as that.   *)
Addresses == Keys \cup Gens

VARIABLES
  node,   \* of each node: its container, database, held keys, jobs
  made,   \* databases created so far
  env,    \* config.toml: registry, the bootstrap's p2p key, the participants
  cmd,    \* the running command
  past    \* of each node: the commands at its database that failed, or whose
          \* record is gone, has there been one since it was recorded, is
          \* its record newer than the registry and the bootstrap (ghost)

vars == <<node, made, env, cmd, past>>

Absent == [is |-> "absent", db |-> 0, keys |-> {}, jobs |-> <<>>]
Idle == [op |-> "none", pc |-> "idle", node |-> Boot, key |-> None, addr |-> None,
         db |-> 0, waited |-> 0, session |-> FALSE, again |-> "no", silent |-> FALSE]
Blank == [registry |-> None, boot |-> 0, parts |-> <<>>]

Init == /\ node = [n \in Nodes |-> Absent]
        /\ made = 0
        /\ env = Blank
        /\ cmd = Idle
        /\ past = [n \in Nodes |-> [failures |-> 0, dirty |-> FALSE, current |-> FALSE]]
-----------------------------------------------------------------------------
(* The commands. *)

Begin(op, n, key) ==
  /\ cmd.pc = "idle"
  /\ made < MaxDatabases
  /\ past[n].failures < MaxFailures
  /\ cmd' = [Idle EXCEPT !.op = op, !.pc = "drop", !.node = n, !.key = key]
  /\ UNCHANGED <<node, made, env, past>>

StartBootstrap == env.registry # None /\ Begin("bootstrap", Boot, None)

StartAdd(key) == /\ env.boot # 0
                 /\ Len(env.parts) < MaxNodes
                 /\ Begin("add", Len(env.parts), key)

StartReset(n, key) == n < Len(env.parts) /\ Begin("reset", n, key)

(* A registry is deployed, or its address set by hand. *)
DeployRegistry ==
  /\ cmd.pc = "idle"
  /\ env.registry < MaxRegistries
  /\ env' = [env EXCEPT !.registry = @ + 1]
  /\ past' = [n \in Nodes |-> [past[n] EXCEPT !.current = FALSE]]
  /\ UNCHANGED <<node, made, cmd>>

(* A command that returns an error writes nothing. *)
Abort == /\ cmd' = Idle
         /\ past' = [past EXCEPT ![cmd.node].failures = @ + 1, ![cmd.node].dirty = TRUE]
         /\ UNCHANGED <<made, env>>

Goto(pc) == cmd' = [cmd EXCEPT !.pc = pc]

(* Any call may fail, and the user may interrupt the command. *)
Fail == cmd.pc # "idle" /\ Abort /\ UNCHANGED node

(* The nodes in config.toml. *)
Recorded == {n \in Nodes : IF n = Boot THEN env.boot # 0 ELSE n < Len(env.parts)}

(* The record of some nodes goes with all of config.toml, what was done at  *)
(* them stays.                                                              *)
EmptyFile(ns) ==
  /\ env' = Blank
  /\ past' = [n \in Nodes |-> IF n \in ns
                              THEN [failures |-> past[n].failures + 1, dirty |-> TRUE,
                                    current |-> FALSE]
                              ELSE past[n]]
  /\ UNCHANGED <<node, made>>

(* config setup writes a fresh environment. *)
ConfigSetup == cmd.pc = "idle" /\ EmptyFile(Recorded) /\ UNCHANGED cmd
-----------------------------------------------------------------------------
Calling == cmd.pc \in {"key", "ocr2", "job", "info", "p2p"}
AtNode == cmd.pc \in {"await", "login"} \/ Calling

(* The daemon, or the node, accepts a call and never answers it: no client  *)
(* has a timeout, and no context is ever cancelled.                         *)
Silence == /\ \/ cmd.pc \in {"drop", "make"}
              \/ AtNode /\ node[cmd.node].is \in {"starting", "up"}
           /\ ~cmd.silent
           /\ cmd' = [cmd EXCEPT !.silent = TRUE]
           /\ UNCHANGED <<node, made, env, past>>

(* A node's connections break when its container stops. *)
Broken == AtNode /\ node[cmd.node].is = "stopped"

(* The call under way has returned, or does. *)
Returned == cmd.silent => Broken
-----------------------------------------------------------------------------
(* buildChainlinkNode. *)

\* Mutant: a participant keeps its database.
ResetsBoot(c) == c.op = "bootstrap"

(* Reset: add does not. *)
Resets(c) == c.op \in {"reset", "bootstrap"}

(* Running containers are kept, or removed by a reset ... *)
Drop == /\ cmd.pc = "drop"
        /\ node[cmd.node].is # "stopped"
        /\ IF node[cmd.node].is = "absent" \/ Resets(cmd)
           THEN /\ node' = [node EXCEPT ![cmd.node] = Absent]
                /\ past' = [past EXCEPT ![cmd.node].failures = 0]
                /\ Goto("make")
           ELSE /\ Goto("await")
                /\ UNCHANGED <<node, past>>
        /\ UNCHANGED <<made, env>>

(* ... stopped ones are not found, and are in the way. *)
NameTaken == /\ cmd.pc = "drop"
             /\ node[cmd.node].is = "stopped"
             /\ Abort
             /\ UNCHANGED node

Make == /\ cmd.pc = "make"
        /\ made' = made + 1
        /\ node' = [node EXCEPT ![cmd.node] =
                      [is |-> "starting", db |-> made', keys |-> {made'}, jobs |-> <<>>]]
        /\ Goto("await")
        /\ UNCHANGED <<env, past>>

Up == node[cmd.node].is = "up"

(* waitForNodeReady: until /health answers ... *)
Ready == /\ cmd.pc = "await"
         /\ Up
         /\ cmd' = [cmd EXCEPT !.pc = "login", !.waited = 0]
         /\ UNCHANGED <<node, made, env, past>>

MaxWait == Timeout * NanosPerSecond     \* int64(timeout * time.Second)

\* Mutant: no timeout.
PollForever == /\ cmd.pc = "await" /\ ~Up
               /\ cmd' = [cmd EXCEPT !.waited = @ + PollInterval, !.silent = FALSE]
               /\ UNCHANGED <<node, made, env, past>>

\* Mutant: the clock starts anew with every poll.
PollRestarted == /\ cmd.pc = "await" /\ ~Up
                 /\ cmd' = [cmd EXCEPT !.waited = PollInterval, !.silent = FALSE]
                 /\ UNCHANGED <<node, made, env, past>>

(* ... or the seconds waited are more than the nanoseconds of the timeout.   *)
Poll == /\ cmd.pc = "await"
        /\ ~Up
        /\ \/ /\ cmd.waited > MaxWait
              /\ Abort
           \/ /\ cmd.waited <= MaxWait
              /\ cmd' = [cmd EXCEPT !.waited = @ + PollInterval, !.silent = FALSE]
              /\ UNCHANGED <<made, env, past>>
        /\ UNCHANGED node
-----------------------------------------------------------------------------
(* The session. *)

FirstCall(c) == IF c.op = "bootstrap" THEN "p2p" ELSE "key"

(* authenticate, once per command. *)
Login == /\ cmd.pc = "login"
         /\ Up
         /\ cmd' = [cmd EXCEPT !.pc = FirstCall(cmd), !.session = TRUE]
         /\ UNCHANGED <<node, made, env, past>>

(* doRequest: after a 401 a new session is asked for, and the request is     *)
(* sent again with it, once.                                                 *)
Unauthorized == /\ Calling /\ Up
                /\ ~cmd.session /\ cmd.again = "no"
                /\ cmd' = [cmd EXCEPT !.again = "authenticate"]
                /\ UNCHANGED <<node, made, env, past>>

Authenticate == /\ Calling /\ Up
                /\ cmd.again = "authenticate"
                /\ cmd' = [cmd EXCEPT !.again = "sent", !.session = TRUE]
                /\ UNCHANGED <<node, made, env, past>>

UnauthorizedAgain == /\ Calling /\ Up
                     /\ ~cmd.session /\ cmd.again = "sent"
                     /\ Abort
                     /\ UNCHANGED node

NoAnswer == /\ Calling \/ cmd.pc = "login"
            /\ ~Up
            /\ Abort
            /\ UNCHANGED node
-----------------------------------------------------------------------------
(* The requests.                                                             *)

\* Mutant: the address of the node's own record, still empty.
JobOfNoPeer(c) == [registry |-> env.registry, peer |-> 0, addr |-> c.addr]

(* createBootstrapJob and createOCR2AutomationJob. *)
JobOf(c) == [registry |-> env.registry,
             peer |-> IF c.node = Boot THEN 0 ELSE env.boot,
             addr |-> c.addr]

(* What a request changes at the node: importing the key given by --key, and *)
(* posting a job.                                                            *)
Effect(c, n) ==
  IF c.pc = "key" /\ c.key # None THEN [n EXCEPT !.keys = @ \cup {c.key}]
  ELSE IF c.pc = "job" THEN [n EXCEPT !.jobs = Append(@, JobOf(c))]
  ELSE n

NextCall(c) ==
  CASE c.pc = "key"  -> "ocr2"
    [] c.pc = "ocr2" -> "job"
    [] c.pc = "job"  -> IF c.op = "bootstrap" THEN "write" ELSE "info"
    [] c.pc = "info" -> "p2p"
    [] c.pc = "p2p"  -> IF c.op = "bootstrap" THEN "job" ELSE "write"

(* addKeyToKeeper or getNodeAddress: of the node's keys, the first it lists. *)
Transmitters(c, n) ==
  IF c.pc # "key" THEN {c.addr} ELSE IF c.key # None THEN {c.key} ELSE n.keys

(* After a 401 the body of a POST is used up: sent again it fails, unless    *)
(* the 401 came without a body, whose connection is used again and the       *)
(* request rewound.                                                          *)
Answer == /\ Calling /\ Up /\ cmd.session
          /\ cmd.again # "authenticate"
          /\ node' = [node EXCEPT ![cmd.node] = Effect(cmd, @)]
          /\ \E addr \in Transmitters(cmd, node[cmd.node]) :
               cmd' = [cmd EXCEPT !.pc = NextCall(cmd), !.again = "no", !.addr = addr,
                                  !.db = IF cmd.pc \in {"info", "p2p"}
                                         THEN node[cmd.node].db ELSE @]
          /\ UNCHANGED <<made, env, past>>

(* The request was served, and its answer lost, or not waited for. *)
AnswerLost == /\ cmd.pc \in {"key", "job"}
              /\ Up /\ cmd.session
              /\ cmd.again # "authenticate"
              /\ node' = [node EXCEPT ![cmd.node] = Effect(cmd, @)]
              /\ Abort
-----------------------------------------------------------------------------
\* Mutant: an address that is there already is kept.
RecordingKeepsAddress(c) ==
  LET info == [addr |-> c.addr, db |-> c.db]
  IN  CASE c.op = "bootstrap" -> [env EXCEPT !.boot = c.db]
        [] c.op = "add"       -> [env EXCEPT !.parts = Append(@, info)]
        [] c.op = "reset"     -> [env EXCEPT !.parts[c.node + 1].db = c.db]

(* What a command has learned of its node, in config.toml. *)
Recording(c) ==
  LET info == [addr |-> c.addr, db |-> c.db]
  IN  CASE c.op = "bootstrap" -> [env EXCEPT !.boot = c.db]
        [] c.op = "add"       -> [env EXCEPT !.parts = Append(@, info)]
        [] c.op = "reset"     -> [env EXCEPT !.parts[c.node + 1] = info]

(* A new bootstrap leaves the jobs of the participants as they are. *)
Write == /\ cmd.pc = "write"
         /\ env' = Recording(cmd)
         /\ past' = [n \in Nodes |->
                       IF n = cmd.node
                       THEN [past[n] EXCEPT !.dirty = FALSE, !.current = TRUE]
                       ELSE [past[n] EXCEPT !.current = @ /\ cmd.node # Boot]]
         /\ cmd' = Idle
         /\ UNCHANGED <<node, made>>

(* The file, emptied when it is opened, stays so: an interrupt, or an error. *)
WriteCutShort == /\ cmd.pc = "write"
                 /\ EmptyFile(Recorded \cup {cmd.node})
                 /\ cmd' = Idle

Step == /\ Returned
        /\ \/ Drop \/ NameTaken \/ Make \/ Ready \/ Poll
           \/ Login \/ Unauthorized \/ Authenticate \/ UnauthorizedAgain
           \/ NoAnswer \/ Answer \/ Write
-----------------------------------------------------------------------------
(* The nodes by themselves. *)

Becomes(n, from, to) == /\ node[n].is \in from
                        /\ node' = [node EXCEPT ![n].is = to]
                        /\ UNCHANGED <<made, env, cmd, past>>

Starts(n)   == Becomes(n, {"starting"}, "up")
Stops(n)    == Becomes(n, {"starting", "up"}, "stopped")

(* By then a command that was waiting for it has seen the connection break.  *)
Restarts(n) == /\ ~(cmd.silent /\ AtNode /\ n = cmd.node)
               /\ Becomes(n, {"stopped"}, "starting")

SessionExpires == /\ cmd.session
                  /\ cmd' = [cmd EXCEPT !.session = FALSE]
                  /\ UNCHANGED <<node, made, env, past>>

Next == \/ DeployRegistry \/ ConfigSetup \/ StartBootstrap
        \/ \E key \in Keys \cup {None} :
             StartAdd(key) \/ \E n \in Participants : StartReset(n, key)
        \/ Step \/ Silence
        \/ Fail \/ AnswerLost \/ WriteCutShort
        \/ SessionExpires
        \/ \E n \in Nodes : Starts(n) \/ Stops(n) \/ Restarts(n)

(* A command goes on while it can; nodes need not start, nor requests fail   *)
(* or be answered.                                                           *)
Spec == Init /\ [][Next]_vars /\ WF_vars(Step)
-----------------------------------------------------------------------------
Job == [registry : Registries, peer : Gens, addr : Addresses]
Info == [addr : Addresses, db : Gens]
Node == [is : {"absent", "starting", "up", "stopped"}, db : Gens, keys : SUBSET Addresses,
         jobs : Seq(Job)]
Env == [registry : Registries, boot : Gens, parts : Seq(Info)]
Command == [op : {"none", "add", "reset", "bootstrap"},
            pc : {"idle", "drop", "make", "await", "login", "key", "ocr2", "job", "info",
                  "p2p", "write"},
            node : Nodes, key : Keys \cup {None}, addr : Addresses, db : Gens,
            waited : 0..(MaxWait + PollInterval), session : BOOLEAN,
            again : {"no", "authenticate", "sent"}, silent : BOOLEAN]
Past == [failures : Nat, dirty : BOOLEAN, current : BOOLEAN]

(* Variables have values of their types; a wait is longer than the timeout   *)
(* by one poll at most.                                                      *)
TypeOK == /\ node \in [Nodes -> Node]
          /\ made \in Gens
          /\ env \in Env
          /\ Len(env.parts) <= MaxNodes
          /\ cmd \in Command
          /\ past \in [Nodes -> Past]

(* The recorded nodes that no command is at, or has failed at since. *)
Settled == {n \in Recorded : ~past[n].dirty /\ (cmd.pc = "idle" \/ cmd.node # n)}

LastJob(n) == node[n].jobs[Len(node[n].jobs)]

(* Of every settled node config.toml has the keys of its database, and a     *)
(* participant transmits, as its job says, from the recorded address, whose  *)
(* key it holds: after failed adds that imported another key, too.           *)
TransmitterKnown == \A n \in Settled :
  IF n = Boot THEN env.boot = node[n].db
  ELSE LET info == env.parts[n + 1]
       IN  /\ info.db = node[n].db
           /\ node[n].jobs # <<>>
           /\ LastJob(n).addr = info.addr
           /\ info.addr \in node[n].keys

(* The job of a settled node is for the registry and, at a participant, the  *)
(* bootstrap of config.toml, as long as neither has been replaced since.     *)
JobCurrent == \A n \in Settled :
  past[n].current =>
    /\ node[n].jobs # <<>>
    /\ LastJob(n).registry = env.registry
    /\ n # Boot => LastJob(n).peer = env.boot

(* A settled node has one job; only a command that failed at its database,   *)
(* or whose record was lost with config.toml, may have left another: a 401,  *)
(* a session that expires, never has a job posted twice.                     *)
OneJob == \A n \in Settled :
  Len(node[n].jobs) \in 1..(1 + past[n].failures)

(* A command ends, however often its session expires and its node stops and  *)
(* starts, unless a call of its is never answered: nothing but the user ends *)
(* that one.                                                                 *)
CommandEnds == cmd.pc # "idle" ~> cmd.pc = "idle" \/ []cmd.silent

(* waitForNodeReady gives up after `timeout` seconds (docker.go:408), as its *)
(* message says: "timed out waiting for node to start, waited %d seconds".   *)
WaitTimesOut == cmd.waited <= Timeout + PollInterval
=============================================================================
