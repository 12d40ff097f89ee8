--------------------------- MODULE NodeJobsProofs ---------------------------
(***************************************************************************)
(* Proofs about NodeJobs, for any numbers of participants, databases,      *)
(* registries and keys, any timeout and any unit of time.                  *)
(*                                                                         *)
(* What is true of settled nodes is made true by the last step of a        *)
(* command, Write.  So the inductive invariant follows the command through *)
(* its requests: which node it is at, what it has learned of the node and  *)
(* done to it, and how many jobs can be left by commands that failed or    *)
(* whose record is gone.                                                   *)
(***************************************************************************)
EXTENDS NodeJobs, SequenceTheorems, TLAPS

Unrecorded(n) == n \in Participants /\ n >= Len(env.parts)

(* The command is at the node that its arguments and config.toml say. *)
AtItsNode ==
  /\ cmd.pc = "idle" <=> cmd.op = "none"
  /\ cmd.op = "bootstrap" => cmd.node = Boot /\ cmd.pc \notin {"key", "ocr2", "info"}
  /\ cmd.op = "add" => cmd.node = Len(env.parts) /\ Len(env.parts) < MaxNodes
  /\ cmd.op = "reset" => cmd.node \in Participants /\ cmd.node < Len(env.parts)
  /\ cmd.pc \in {"drop", "make"} => made < MaxDatabases

(* The requests of a command in their order: what each leaves is there       *)
(* until the end.                                                            *)
HasAddress == cmd.op \in {"add", "reset"} /\ cmd.pc \in {"ocr2", "job", "info", "p2p", "write"}
HasPosted == \/ cmd.op \in {"add", "reset"} /\ cmd.pc \in {"info", "p2p", "write"}
             \/ cmd.op = "bootstrap" /\ cmd.pc = "write"
HasInfo == \/ cmd.op \in {"add", "reset"} /\ cmd.pc \in {"p2p", "write"}
           \/ cmd.op = "bootstrap" /\ cmd.pc \in {"job", "write"}
HasBuilt == cmd.pc \notin {"idle", "drop"}

Progress ==
  /\ HasAddress => cmd.addr \in node[cmd.node].keys
  /\ HasPosted => node[cmd.node].jobs # <<>> /\ LastJob(cmd.node) = JobOf(cmd)
  /\ HasInfo => cmd.db = node[cmd.node].db
  /\ HasBuilt /\ ~HasPosted => Len(node[cmd.node].jobs) <= past[cmd.node].failures

(* Every job but one per node was left by a command that failed, or whose    *)
(* record is gone.                                                           *)
JobCount ==
  \A n \in Nodes :
    /\ Len(node[n].jobs) <= past[n].failures + 1
    /\ Unrecorded(n) /\ ~(HasPosted /\ n = cmd.node) => Len(node[n].jobs) <= past[n].failures

Known(n) ==
  /\ node[n].jobs # <<>>
  /\ n = Boot => env.boot = node[n].db
  /\ n # Boot => /\ env.parts[n + 1].db = node[n].db
                 /\ LastJob(n).addr = env.parts[n + 1].addr
                 /\ env.parts[n + 1].addr \in node[n].keys
  /\ past[n].current => /\ LastJob(n).registry = env.registry
                        /\ n # Boot => LastJob(n).peer = env.boot

SettledKnown == \A n \in Settled : Known(n)

IInv == TypeOK /\ AtItsNode /\ Progress /\ JobCount /\ SettledKnown
-----------------------------------------------------------------------------
(* What the constants are. *)
LEMMA Constants ==
  /\ MaxNodes \in Nat \ {0} /\ MaxDatabases \in Nat /\ MaxRegistries \in Nat
  /\ MaxFailures \in Nat /\ PollInterval \in Nat \ {0} /\ MaxWait \in Nat
  /\ Boot \in Nodes /\ Participants \subseteq Nodes /\ Boot \notin Participants
  /\ None \in Addresses /\ None \in Gens /\ None \in Registries
  /\ Gens \subseteq Addresses /\ Keys \subseteq Addresses
BY JobsAssumption
DEF MaxWait, Boot, Nodes, Participants, None, Addresses, Gens, Registries

LEMMA IdleCommand == Idle \in Command
<1>1. 0 \in Gens /\ 0 \in Addresses /\ 0 \in Keys \cup {None} /\ 0 \in 0..(MaxWait + PollInterval)
  BY Constants DEF None
<1> QED BY <1>1, Constants DEF Idle, Command, None

LEMMA BlankTyped ==
  /\ Blank \in Env /\ Blank.parts = <<>> /\ Len(Blank.parts) = 0 /\ Blank.boot = 0
  /\ Len(Blank.parts) <= MaxNodes
<1>1. <<>> \in Seq(Info) /\ Len(<<>>) = 0
  OBVIOUS
<1> QED BY <1>1, Constants DEF Blank, Env, None

LEMMA NewCommand ==
  ASSUME NEW op \in {"add", "reset", "bootstrap"}, NEW n \in Nodes, NEW key \in Keys \cup {None}
  PROVE  [Idle EXCEPT !.op = op, !.pc = "drop", !.node = n, !.key = key] \in Command
BY IdleCommand DEF Command

(* What a request leaves of a node. *)
LEMMA EffectTyped ==
  ASSUME TypeOK
  PROVE  /\ JobOf(cmd) \in Job
         /\ Effect(cmd, node[cmd.node]) \in Node
<1>1. JobOf(cmd) \in Job
  BY Constants DEF TypeOK, Env, Command, JobOf, Job, Gens
<1>2. node[cmd.node] \in Node /\ cmd.node \in Nodes /\ cmd.key \in Keys \cup {None}
  BY DEF TypeOK, Command
<1> DEFINE n == node[cmd.node]
<1>3. Append(n.jobs, JobOf(cmd)) \in Seq(Job)
  BY <1>1, <1>2, AppendProperties DEF Node
<1>4. [n EXCEPT !.keys = @ \cup {cmd.key}] \in Node
  BY <1>2, Constants DEF Node, None
<1>5. [n EXCEPT !.jobs = Append(@, JobOf(cmd))] \in Node
  BY <1>2, <1>3 DEF Node
<1> QED BY <1>1, <1>2, <1>4, <1>5 DEF Effect

(* Config.toml after a command. *)
LEMMA RecordingTyped ==
  ASSUME TypeOK, AtItsNode, cmd.pc # "idle"
  PROVE  Recording(cmd) \in Env /\ Len(Recording(cmd).parts) <= MaxNodes
<1> DEFINE info == [addr |-> cmd.addr, db |-> cmd.db]
<1>1. info \in Info
  BY DEF TypeOK, Command, Info
<1>2. env.parts \in Seq(Info) /\ Len(env.parts) \in Nat /\ env \in Env /\ Len(env.parts) <= MaxNodes
  BY LenProperties DEF TypeOK, Env
<1>3. cmd.op \in {"add", "reset", "bootstrap"}
  BY DEF TypeOK, Command, AtItsNode
<1>4. CASE cmd.op = "bootstrap"
  BY <1>4, <1>2 DEF Recording, TypeOK, Command, Env
<1>5. CASE cmd.op = "add"
  <2>1. Append(env.parts, info) \in Seq(Info) /\ Len(Append(env.parts, info)) = Len(env.parts) + 1
    BY <1>1, <1>2, AppendProperties
  <2>2. Recording(cmd) = [env EXCEPT !.parts = Append(env.parts, info)]
    BY <1>5, <1>2 DEF Recording, Env
  <2>3. Len(env.parts) + 1 <= MaxNodes
    BY <1>5, <1>2, Constants DEF AtItsNode
  <2>4. ASSUME NEW parts \in Seq(Info)
        PROVE  [env EXCEPT !.parts = parts] \in Env /\ [env EXCEPT !.parts = parts].parts = parts
    BY <1>2 DEF Env
  <2> QED BY <2>1, <2>2, <2>3, <2>4
<1>6. CASE cmd.op = "reset"
  <2>1. cmd.node + 1 \in 1..Len(env.parts)
    BY <1>6, <1>2, Constants DEF AtItsNode, Participants
  <2>2. [env.parts EXCEPT ![cmd.node + 1] = info] \in Seq(Info)
        /\ Len([env.parts EXCEPT ![cmd.node + 1] = info]) = Len(env.parts)
    BY <1>1, <1>2, <2>1, ExceptSeq
  <2>3. Recording(cmd) = [env EXCEPT !.parts = [env.parts EXCEPT ![cmd.node + 1] = info]]
    BY <1>6, <1>2 DEF Recording, Env
  <2> QED BY <1>2, <2>2, <2>3 DEF Env
<1> QED BY <1>3, <1>4, <1>5, <1>6
-----------------------------------------------------------------------------
LEMMA AbortTyped ==
  ASSUME TypeOK, Abort
  PROVE  /\ cmd' \in Command /\ past' \in [Nodes -> Past]
         /\ made' \in Gens /\ env' \in Env /\ Len(env'.parts) <= MaxNodes
<1>1. cmd.node \in Nodes /\ past \in [Nodes -> Past] /\ past[cmd.node] \in Past
  BY DEF TypeOK, Command
<1>2. past' \in [Nodes -> Past]
  BY <1>1 DEF Abort, Past
<1> QED BY <1>2, IdleCommand DEF Abort, TypeOK

(* A step that only moves the command on. *)
LEMMA CommandOnly ==
  ASSUME TypeOK, cmd' \in Command, UNCHANGED <<node, made, env, past>>
  PROVE  TypeOK'
BY DEF TypeOK

(* Every step keeps the types. *)
LEMMA TypeStep ==
  ASSUME TypeOK, AtItsNode, [Next]_vars
  PROVE  TypeOK'
<1> USE DEF TypeOK
<1>0. cmd \in Command /\ cmd.node \in Nodes /\ node[cmd.node] \in Node
  BY DEF Command
<1>1. CASE DeployRegistry
  <2>1. env' \in Env /\ env'.parts = env.parts
    BY <1>1, Constants DEF DeployRegistry, Env, Registries
  <2>2. past' \in [Nodes -> Past]
    BY <1>1 DEF DeployRegistry, Past
  <2> QED BY <1>1, <2>1, <2>2 DEF DeployRegistry
<1>2. CASE StartBootstrap
  <2>1. cmd' \in Command
    BY <1>2, NewCommand, Constants DEF StartBootstrap, Begin
  <2> QED BY <1>2, <2>1, CommandOnly DEF StartBootstrap, Begin
<1>3. ASSUME NEW key \in Keys \cup {None}, StartAdd(key)
      PROVE  TypeOK'
  <2>1. Len(env.parts) \in Nodes
    BY <1>3, LenProperties, Constants DEF StartAdd, Env, Nodes, Participants
  <2>2. cmd' \in Command
    BY <1>3, <2>1, NewCommand DEF StartAdd, Begin
  <2> QED BY <1>3, <2>2, CommandOnly DEF StartAdd, Begin
<1>4. ASSUME NEW key \in Keys \cup {None}, NEW n \in Participants, StartReset(n, key)
      PROVE  TypeOK'
  <2>1. cmd' \in Command
    BY <1>4, NewCommand, Constants DEF StartReset, Begin
  <2> QED BY <1>4, <2>1, CommandOnly DEF StartReset, Begin
<1>5. CASE Drop
  <2>1. Absent \in Node
    BY Constants DEF Absent, Node, None
  <2>2. node' \in [Nodes -> Node]
    BY <1>5, <1>0, <2>1 DEF Drop
  <2>3. past' \in [Nodes -> Past]
    <3>1. past' = past \/ past' = [past EXCEPT ![cmd.node].failures = 0]
      BY <1>5 DEF Drop
    <3>2. [past EXCEPT ![cmd.node].failures = 0] \in [Nodes -> Past]
      BY DEF Past
    <3> QED BY <3>1, <3>2
  <2>4. cmd' \in Command
    BY <1>5, <1>0 DEF Drop, Goto, Command
  <2> QED BY <1>5, <2>2, <2>3, <2>4 DEF Drop
<1>6. CASE Make
  <2>1. made' \in Gens /\ made' \in Addresses
    BY <1>6, Constants DEF Make, AtItsNode, Gens, Addresses
  <2>2. [is |-> "starting", db |-> made', keys |-> {made'}, jobs |-> <<>>] \in Node
    BY <2>1 DEF Node
  <2>3. node' \in [Nodes -> Node]
    BY <1>6, <1>0, <2>2 DEF Make
  <2>4. cmd' \in Command
    BY <1>6, <1>0 DEF Make, Goto, Command
  <2> QED BY <1>6, <2>1, <2>3, <2>4 DEF Make
<1>7. CASE Ready
  <2>1. 0 \in 0..(MaxWait + PollInterval)
    BY Constants
  <2>2. cmd' \in Command
    BY <1>7, <1>0, <2>1 DEF Ready, Command
  <2> QED BY <1>7, <2>2, CommandOnly DEF Ready
<1>8. CASE Poll
  <2>1. CASE Abort
    BY <1>8, <2>1, AbortTyped DEF Poll
  <2>2. CASE ~Abort
    <3>1. cmd.waited + PollInterval \in 0..(MaxWait + PollInterval)
      BY <1>8, <2>2, <1>0, Constants DEF Poll, Command
    <3>2. cmd' \in Command
      BY <1>8, <2>2, <3>1, <1>0 DEF Poll, Command
    <3> QED BY <1>8, <2>2, <3>2, CommandOnly DEF Poll
  <2> QED BY <2>1, <2>2
<1>9. CASE Login
  <2>1. cmd' \in Command
    BY <1>9, <1>0 DEF Login, FirstCall, Command
  <2> QED BY <1>9, <2>1, CommandOnly DEF Login
<1>10. CASE Unauthorized \/ Authenticate \/ SessionExpires \/ Silence
  <2>1. cmd' \in Command
    <3>1. CASE Unauthorized
      BY <3>1, <1>0 DEF Unauthorized, Command
    <3>2. CASE Authenticate
      BY <3>2, <1>0 DEF Authenticate, Command
    <3>3. CASE SessionExpires
      BY <3>3, <1>0 DEF SessionExpires, Command
    <3>4. CASE Silence
      BY <3>4, <1>0 DEF Silence, Command
    <3> QED BY <1>10, <3>1, <3>2, <3>3, <3>4
  <2> QED BY <1>10, <2>1, CommandOnly DEF Unauthorized, Authenticate, SessionExpires, Silence
<1>11. CASE NameTaken \/ UnauthorizedAgain \/ NoAnswer \/ Fail
  BY <1>11, AbortTyped DEF NameTaken, UnauthorizedAgain, NoAnswer, Fail
<1>12. CASE Answer
  <2>1. node' \in [Nodes -> Node]
    BY <1>12, <1>0, EffectTyped DEF Answer
  <2>2. PICK addr \in Transmitters(cmd, node[cmd.node]) :
          cmd' = [cmd EXCEPT !.pc = NextCall(cmd), !.again = "no", !.addr = addr,
                             !.db = IF cmd.pc \in {"info", "p2p"}
                                    THEN node[cmd.node].db ELSE @]
    BY <1>12 DEF Answer
  <2>3. addr \in Addresses
    BY <1>0, Constants DEF Transmitters, Command, Node
  <2>4. NextCall(cmd) \in {"ocr2", "job", "info", "p2p", "write"}
    BY <1>12 DEF Answer, Calling, NextCall
  <2>5. node[cmd.node].db \in Gens
    BY <1>0 DEF Node
  <2>6. cmd' \in Command
    BY <2>2, <2>3, <2>4, <2>5, <1>0 DEF Command
  <2> QED BY <1>12, <2>1, <2>6 DEF Answer
<1>13. CASE AnswerLost
  <2>1. node' \in [Nodes -> Node]
    BY <1>13, <1>0, EffectTyped DEF AnswerLost
  <2> QED BY <1>13, <2>1, AbortTyped DEF AnswerLost
<1>14. CASE Write
  <2>1. past' \in [Nodes -> Past]
    BY <1>14 DEF Write, Past
  <2> QED BY <1>14, <2>1, RecordingTyped, IdleCommand DEF Write
<1>15. ASSUME NEW n \in Nodes, Starts(n) \/ Stops(n) \/ Restarts(n)
       PROVE  TypeOK'
  <2>1. PICK to \in {"up", "stopped", "starting"} : node' = [node EXCEPT ![n].is = to]
    BY <1>15 DEF Starts, Stops, Restarts, Becomes
  <2>2. [node[n] EXCEPT !.is = to] \in Node
    BY DEF Node
  <2>3. node' \in [Nodes -> Node]
    BY <2>1, <2>2
  <2> QED BY <1>15, <2>3 DEF Starts, Stops, Restarts, Becomes
<1>16. CASE UNCHANGED vars
  BY <1>16 DEF vars
<1>17. CASE ConfigSetup \/ WriteCutShort
  <2>1. PICK ns : EmptyFile(ns)
    BY <1>17 DEF ConfigSetup, WriteCutShort
  <2>2. ASSUME NEW n \in Nodes
        PROVE  [failures |-> past[n].failures + 1, dirty |-> TRUE, current |-> FALSE] \in Past
    BY DEF Past
  <2>3. past' \in [Nodes -> Past]
    BY <2>1, <2>2 DEF EmptyFile
  <2>4. cmd' \in Command
    BY <1>17, IdleCommand DEF ConfigSetup, WriteCutShort
  <2> QED BY <2>1, <2>3, <2>4, BlankTyped DEF EmptyFile
<1> QED BY <1>1, <1>2, <1>3, <1>4, <1>5, <1>6, <1>7, <1>8, <1>9, <1>10, <1>11, <1>12,
           <1>13, <1>14, <1>15, <1>16, <1>17 DEF Next, Step
-----------------------------------------------------------------------------
(* Of a node that nothing has been done to, the same is known. *)
LEMMA SettledFrame ==
  ASSUME SettledKnown, UNCHANGED env,
         \A n \in Settled' :
           /\ n \in Settled
           /\ node'[n].jobs = node[n].jobs /\ node'[n].keys = node[n].keys
           /\ node'[n].db = node[n].db
           /\ past'[n].current => past[n].current
  PROVE  SettledKnown'
<1> SUFFICES ASSUME NEW n \in Settled'
             PROVE  Known(n)'
  BY DEF SettledKnown
<1>1. Known(n)
  BY DEF SettledKnown
<1> QED BY <1>1 DEF Known, LastJob

(* The error paths: the node the command is at is not settled any more, and  *)
(* may have one job more.                                                    *)
LEMMA AbortStep ==
  ASSUME IInv, TypeOK', Abort, cmd.pc # "idle",
         \A n \in Nodes \ {cmd.node} : node'[n] = node[n],
         Len(node'[cmd.node].jobs) <= past[cmd.node].failures + 1
  PROVE  IInv'
<1> USE DEF IInv
<1>1. /\ cmd' = Idle /\ env' = env /\ cmd.node \in Nodes
      /\ past' = [past EXCEPT ![cmd.node].failures = @ + 1, ![cmd.node].dirty = TRUE]
      /\ past \in [Nodes -> Past] /\ past' \in [Nodes -> Past]
  BY DEF Abort, TypeOK, Command
<1>2. /\ past'[cmd.node].failures = past[cmd.node].failures + 1 /\ past'[cmd.node].dirty
      /\ \A n \in Nodes \ {cmd.node} : past'[n] = past[n]
  BY <1>1 DEF Past
<1>3. AtItsNode' /\ Progress'
  BY <1>1 DEF Idle, AtItsNode, Progress, HasAddress, HasPosted, HasInfo, HasBuilt
<1>4. ~HasPosted'
  BY <1>1 DEF Idle, HasPosted
<1>5. JobCount'
  <2> SUFFICES ASSUME NEW n \in Nodes
               PROVE  /\ Len(node'[n].jobs) <= past'[n].failures + 1
                      /\ Unrecorded(n)' => Len(node'[n].jobs) <= past'[n].failures
    BY DEF JobCount
  <2>1. CASE n = cmd.node
    <3>1. past[n].failures \in Nat /\ Len(node'[n].jobs) \in Nat
      BY <1>1, LenProperties DEF TypeOK, Node, Past
    <3> QED BY <2>1, <3>1, <1>2
  <2>2. CASE n # cmd.node
    <3>1. node'[n] = node[n] /\ past'[n] = past[n]
      BY <2>2, <1>2
    <3> QED BY <2>2, <3>1, <1>1 DEF JobCount, Unrecorded
  <2> QED BY <2>1, <2>2
<1>6. SettledKnown'
  <2> SUFFICES ASSUME NEW n \in Settled'
               PROVE  /\ n \in Settled /\ node'[n] = node[n]
                      /\ past'[n].current => past[n].current
    BY <1>1, SettledFrame
  <2>1. n \in Nodes /\ n # cmd.node
    BY <1>2 DEF Settled, Recorded
  <2> QED BY <2>1, <1>1, <1>2 DEF Settled, Recorded
<1> QED BY <1>3, <1>5, <1>6

(* The command moves on, and nothing else does. *)
LEMMA MoveOn ==
  ASSUME IInv, TypeOK', UNCHANGED <<node, made, env, past>>,
         cmd'.op = cmd.op, cmd'.node = cmd.node, cmd.pc # "idle", cmd'.pc # "idle",
         HasPosted' <=> HasPosted
  PROVE  JobCount' /\ SettledKnown'
<1> USE DEF IInv
<1>1. JobCount'
  BY DEF JobCount, Unrecorded
<1>2. SettledKnown'
  BY SettledFrame DEF Settled, Recorded
<1> QED BY <1>1, <1>2

LEMMA BeginStep ==
  ASSUME IInv, TypeOK', NEW op \in {"add", "reset", "bootstrap"}, NEW n \in Nodes, NEW key,
         Begin(op, n, key),
         op = "bootstrap" => n = Boot,
         op = "add" => n = Len(env.parts) /\ Len(env.parts) < MaxNodes,
         op = "reset" => n \in Participants /\ n < Len(env.parts)
  PROVE  IInv'
<1> USE DEF IInv
<1>1. /\ cmd' = [Idle EXCEPT !.op = op, !.pc = "drop", !.node = n, !.key = key]
      /\ UNCHANGED <<node, made, env, past>> /\ cmd.pc = "idle" /\ made < MaxDatabases
  BY DEF Begin
<1>2. cmd'.op = op /\ cmd'.pc = "drop" /\ cmd'.node = n
  BY <1>1 DEF Idle
<1>3. AtItsNode'
  BY <1>1, <1>2 DEF AtItsNode
<1>4. Progress' /\ ~HasPosted' /\ ~HasPosted
  BY <1>1, <1>2 DEF Progress, HasAddress, HasPosted, HasInfo, HasBuilt
<1>5. JobCount'
  BY <1>1, <1>4 DEF JobCount, Unrecorded
<1>6. SettledKnown'
  BY <1>1, SettledFrame DEF Settled, Recorded
<1> QED BY <1>3, <1>4, <1>5, <1>6
-----------------------------------------------------------------------------
LEMMA DropStep ==
  ASSUME IInv, TypeOK', Drop
  PROVE  IInv'
<1> USE DEF IInv
<1>1. /\ cmd.pc = "drop" /\ cmd.node \in Nodes /\ cmd \in Command
      /\ cmd' = [cmd EXCEPT !.pc = cmd'.pc] /\ cmd'.pc \in {"make", "await"}
      /\ cmd'.node = cmd.node /\ cmd'.op = cmd.op
      /\ UNCHANGED <<made, env>>
  BY DEF Drop, Goto, TypeOK, Command
<1>2. AtItsNode' /\ ~HasPosted /\ ~HasPosted' /\ ~HasInfo' /\ ~HasAddress'
  BY <1>1 DEF AtItsNode, HasPosted, HasInfo, HasAddress
<1>3. CASE node[cmd.node].is = "absent" \/ Resets(cmd)
  <2>1. /\ node' = [node EXCEPT ![cmd.node] = Absent]
        /\ past' = [past EXCEPT ![cmd.node].failures = 0]
        /\ node \in [Nodes -> Node] /\ past \in [Nodes -> Past]
    BY <1>3 DEF Drop, TypeOK
  <2>2. /\ node'[cmd.node] = Absent /\ past'[cmd.node].failures = 0
        /\ \A n \in Nodes \ {cmd.node} : node'[n] = node[n] /\ past'[n] = past[n]
    BY <1>1, <2>1 DEF Past
  <2>3. Len(Absent.jobs) = 0
    BY DEF Absent
  <2>4. Progress'
    BY <1>1, <1>2, <2>2, <2>3 DEF Progress
  <2>5. JobCount'
    BY <1>1, <1>2, <2>2, <2>3 DEF JobCount, Unrecorded
  <2>6. SettledKnown'
    <3>1. \A n \in Settled' : n \in Settled /\ n # cmd.node
      BY <1>1, <2>2 DEF Settled, Recorded
    <3> QED BY <1>1, <2>2, <3>1, SettledFrame DEF Settled, Recorded
  <2> QED BY <1>2, <2>4, <2>5, <2>6
<1>4. CASE ~(node[cmd.node].is = "absent" \/ Resets(cmd))
  <2>1. UNCHANGED <<node, past>>
    BY <1>4 DEF Drop
  <2>2. cmd.op = "add" /\ Unrecorded(cmd.node)
    BY <1>1, <1>4, LenProperties, Constants
    DEF Resets, AtItsNode, Command, Unrecorded, Participants, TypeOK, Env
  <2>3. Len(node[cmd.node].jobs) <= past[cmd.node].failures
    BY <1>1, <1>2, <2>2 DEF JobCount
  <2>4. Progress'
    BY <1>1, <1>2, <2>1, <2>3 DEF Progress
  <2> QED BY <1>1, <1>2, <2>1, <2>4, MoveOn
<1> QED BY <1>3, <1>4

LEMMA MakeStep ==
  ASSUME IInv, TypeOK', Make
  PROVE  IInv'
<1> USE DEF IInv
<1>1. /\ cmd.pc = "make" /\ cmd.node \in Nodes /\ cmd \in Command
      /\ cmd' = [cmd EXCEPT !.pc = "await"]
      /\ cmd'.node = cmd.node /\ cmd'.op = cmd.op /\ cmd'.pc = "await"
      /\ UNCHANGED <<env, past>>
  BY DEF Make, Goto, TypeOK, Command
<1>2. AtItsNode' /\ ~HasPosted /\ ~HasPosted' /\ ~HasInfo' /\ ~HasAddress'
  BY <1>1 DEF AtItsNode, HasPosted, HasInfo, HasAddress
<1>3. /\ node'[cmd.node].jobs = <<>> /\ Len(node'[cmd.node].jobs) = 0
      /\ \A n \in Nodes \ {cmd.node} : node'[n] = node[n]
  BY <1>1 DEF Make, TypeOK
<1>4. \A n \in Nodes : past[n].failures \in Nat
  BY DEF TypeOK, Past
<1>5. Progress'
  BY <1>1, <1>2, <1>3, <1>4 DEF Progress
<1>6. JobCount'
  BY <1>1, <1>2, <1>3, <1>4 DEF JobCount, Unrecorded
<1>7. SettledKnown'
  <2>1. \A n \in Settled' : n \in Settled /\ n # cmd.node /\ n \in Nodes
    BY <1>1 DEF Settled, Recorded
  <2> QED BY <1>1, <1>3, <2>1, SettledFrame
<1> QED BY <1>2, <1>5, <1>6, <1>7

(* What happens to a node by itself, a session that expires, a call that is  *)
(* not answered, and the steps that wait and log in.                         *)
LEMMA BecomesStep ==
  ASSUME IInv, TypeOK', NEW n \in Nodes, NEW from, NEW to, Becomes(n, from, to)
  PROVE  IInv'
<1> USE DEF IInv
<1>1. UNCHANGED <<made, env, cmd, past>>
  BY DEF Becomes
<1>2. \A m \in Nodes : /\ node'[m].jobs = node[m].jobs /\ node'[m].keys = node[m].keys
                       /\ node'[m].db = node[m].db
  BY DEF Becomes, TypeOK, Node
<1>3. cmd.node \in Nodes
  BY DEF TypeOK, Command
<1>4. AtItsNode'
  BY <1>1 DEF AtItsNode
<1>5. Progress'
  BY <1>1, <1>2, <1>3
  DEF Progress, HasAddress, HasPosted, HasInfo, HasBuilt, LastJob, JobOf
<1>6. JobCount'
  BY <1>1, <1>2 DEF JobCount, Unrecorded, HasPosted
<1>7. SettledKnown'
  <2>1. \A m \in Settled' : m \in Settled /\ m \in Nodes
    BY <1>1 DEF Settled, Recorded
  <2> QED BY <1>1, <1>2, <2>1, SettledFrame
<1> QED BY <1>4, <1>5, <1>6, <1>7

LEMMA WaitStep ==
  ASSUME IInv, TypeOK', UNCHANGED <<node, made, env, past>>,
         cmd.pc \in {"await", "login"}, cmd'.pc \in {"await", "login", FirstCall(cmd)},
         cmd'.op = cmd.op, cmd'.node = cmd.node
  PROVE  IInv'
<1> USE DEF IInv
<1>1. cmd'.pc \in {"await", "login", "p2p", "key"} /\ (cmd'.pc = "p2p" <=> cmd.op = "bootstrap" /\ cmd'.pc \notin {"await", "login"})
  BY DEF FirstCall
<1>2. AtItsNode'
  BY <1>1 DEF AtItsNode
<1>3. ~HasPosted /\ ~HasPosted' /\ ~HasAddress' /\ ~HasInfo' /\ HasBuilt
  BY <1>1 DEF HasPosted, HasAddress, HasInfo, HasBuilt
<1>4. Progress'
  BY <1>3 DEF Progress
<1> QED BY <1>1, <1>2, <1>3, <1>4, MoveOn

LEMMA SessionStep ==
  ASSUME IInv, TypeOK', Unauthorized \/ Authenticate \/ SessionExpires \/ Silence
  PROVE  IInv'
<1> USE DEF IInv
<1>1. /\ UNCHANGED <<node, made, env, past>>
      /\ cmd'.op = cmd.op /\ cmd'.node = cmd.node /\ cmd'.pc = cmd.pc
      /\ cmd'.addr = cmd.addr /\ cmd'.db = cmd.db
  <2>1. CASE Unauthorized \/ Authenticate
    BY <2>1 DEF Unauthorized, Authenticate, TypeOK, Command
  <2>2. CASE SessionExpires
    BY <2>2 DEF SessionExpires, TypeOK, Command
  <2>3. CASE Silence
    BY <2>3 DEF Silence, TypeOK, Command
  <2> QED BY <2>1, <2>2, <2>3
<1>2. AtItsNode'
  BY <1>1 DEF AtItsNode
<1>3. HasPosted' = HasPosted /\ HasAddress' = HasAddress /\ HasInfo' = HasInfo /\ HasBuilt' = HasBuilt
  BY <1>1 DEF HasPosted, HasAddress, HasInfo, HasBuilt
<1>4. JobOf(cmd)' = JobOf(cmd) /\ LastJob(cmd.node)' = LastJob(cmd.node)
  BY <1>1 DEF JobOf, LastJob
<1>5. Progress'
  BY <1>1, <1>3, <1>4 DEF Progress
<1>6. JobCount'
  BY <1>1, <1>3 DEF JobCount, Unrecorded
<1>7. SettledKnown'
  BY <1>1, SettledFrame DEF Settled, Recorded
<1> QED BY <1>2, <1>5, <1>6, <1>7

(* A request that is answered: what the command has learned and done.        *)
LEMMA AnswerStep ==
  ASSUME IInv, TypeOK', Answer
  PROVE  IInv'
<1> USE DEF IInv
<1> DEFINE me == cmd.node
<1>1. /\ me \in Nodes /\ cmd \in Command /\ node[me] \in Node /\ Calling
      /\ node' = [node EXCEPT ![me] = Effect(cmd, node[me])]
      /\ UNCHANGED <<made, env, past>>
  BY DEF Answer, TypeOK, Command
<1>2. PICK addr \in Transmitters(cmd, node[me]) :
        cmd' = [cmd EXCEPT !.pc = NextCall(cmd), !.again = "no", !.addr = addr,
                           !.db = IF cmd.pc \in {"info", "p2p"} THEN node[me].db ELSE @]
  BY DEF Answer
<1>3. /\ cmd'.op = cmd.op /\ cmd'.node = me /\ cmd'.pc = NextCall(cmd) /\ cmd'.addr = addr
      /\ cmd'.db = IF cmd.pc \in {"info", "p2p"} THEN node[me].db ELSE cmd.db
  BY <1>1, <1>2 DEF Command
<1>4. /\ node'[me] = Effect(cmd, node[me])
      /\ \A n \in Nodes \ {me} : node'[n] = node[n]
  BY <1>1 DEF TypeOK
<1>5. cmd.op \in {"add", "reset", "bootstrap"}
  BY <1>1 DEF AtItsNode, Command, Calling
<1>6. /\ cmd.pc = "key"  => cmd'.pc = "ocr2"
      /\ cmd.pc = "ocr2" => cmd'.pc = "job"
      /\ cmd.pc = "job"  => cmd'.pc = IF cmd.op = "bootstrap" THEN "write" ELSE "info"
      /\ cmd.pc = "info" => cmd'.pc = "p2p"
      /\ cmd.pc = "p2p"  => cmd'.pc = IF cmd.op = "bootstrap" THEN "job" ELSE "write"
  BY <1>3 DEF NextCall
<1>7. AtItsNode'
  BY <1>1, <1>3, <1>5, <1>6 DEF AtItsNode, Calling
<1>8. cmd.pc # "key" => addr = cmd.addr
  BY DEF Transmitters
<1>9. node'[me].db = node[me].db
  BY <1>1, <1>4 DEF Effect, Node
<1>10. HasAddress' => cmd'.addr \in node'[me].keys
  <2>1. CASE cmd.pc = "key"
    <3>1. CASE cmd.key # None
      BY <2>1, <3>1, <1>1, <1>3, <1>4 DEF Effect, Transmitters, Node
    <3>2. CASE cmd.key = None
      BY <2>1, <3>2, <1>1, <1>3, <1>4 DEF Effect, Transmitters, Node
    <3> QED BY <3>1, <3>2
  <2>2. CASE cmd.pc # "key"
    <3>1. node'[me].keys = node[me].keys
      BY <2>2, <1>1, <1>4 DEF Effect, Node
    <3>2. HasAddress' => HasAddress
      BY <2>2, <1>1, <1>3, <1>6 DEF HasAddress, Calling
    <3> QED BY <2>2, <3>1, <3>2, <1>3, <1>8 DEF Progress
  <2> QED BY <2>1, <2>2
<1>11. HasInfo' => cmd'.db = node'[me].db
  <2>1. HasInfo' => HasInfo \/ cmd.pc \in {"info", "p2p"}
    BY <1>1, <1>3, <1>5, <1>6 DEF HasInfo, Calling, AtItsNode
  <2> QED BY <2>1, <1>3, <1>9 DEF Progress
<1>12. ASSUME cmd.pc = "job"
       PROVE  Progress' /\ JobCount'
  <2>1. HasPosted' /\ ~HasPosted /\ HasBuilt
    BY <1>12, <1>3, <1>5, <1>6 DEF HasPosted, HasBuilt
  <2>2. JobOf(cmd) \in Job /\ node[me].jobs \in Seq(Job)
    BY <1>1, EffectTyped DEF Node
  <2>3. node'[me].jobs = Append(node[me].jobs, JobOf(cmd))
    BY <1>12, <1>1, <1>4 DEF Effect, Node
  <2>4. /\ node'[me].jobs # <<>> /\ Len(node'[me].jobs) = Len(node[me].jobs) + 1
        /\ node'[me].jobs[Len(node'[me].jobs)] = JobOf(cmd)
    BY <2>2, <2>3, AppendProperties
  <2>5. JobOf(cmd)' = JobOf(cmd)
    BY <1>12, <1>1, <1>3, <1>8 DEF JobOf
  <2>6. LastJob(cmd.node)' = JobOf(cmd)'
    BY <2>4, <2>5, <1>3 DEF LastJob
  <2>7. Progress'
    BY <1>3, <1>10, <1>11, <2>1, <2>4, <2>6 DEF Progress
  <2>8. JobCount'
    <3>1. Len(node[me].jobs) \in Nat /\ past[me].failures \in Nat
      BY <2>2, <1>1, LenProperties DEF TypeOK, Past
    <3>2. Len(node'[me].jobs) <= past'[me].failures + 1
      BY <3>1, <2>1, <2>4, <1>1 DEF Progress
    <3> QED BY <3>2, <2>1, <1>1, <1>3, <1>4 DEF JobCount, Unrecorded
  <2> QED BY <2>7, <2>8
<1>13. ASSUME cmd.pc # "job"
       PROVE  Progress' /\ JobCount'
  <2>1. HasPosted' <=> HasPosted
    BY <1>13, <1>1, <1>3, <1>5, <1>6 DEF HasPosted, Calling, AtItsNode
  <2>2. node'[me].jobs = node[me].jobs
    BY <1>13, <1>1, <1>4 DEF Effect, Node
  <2>3. HasBuilt
    BY <1>1 DEF HasBuilt, Calling
  <2>4. HasPosted => JobOf(cmd)' = JobOf(cmd)
    <3>1. HasPosted => cmd.pc # "key"
      BY DEF HasPosted
    <3> QED BY <3>1, <1>1, <1>3, <1>8 DEF JobOf
  <2>5. LastJob(cmd.node)' = LastJob(cmd.node)
    BY <2>2, <1>3 DEF LastJob
  <2>6. Progress'
    BY <1>1, <1>3, <1>10, <1>11, <2>1, <2>2, <2>3, <2>4, <2>5 DEF Progress
  <2>7. JobCount'
    BY <1>1, <1>3, <1>4, <2>1, <2>2 DEF JobCount, Unrecorded
  <2> QED BY <2>6, <2>7
<1>14. SettledKnown'
  <2>1. \A n \in Settled' : n \in Settled /\ n # me /\ n \in Nodes
    <3>1. cmd'.pc # "idle" /\ cmd.pc # "idle"
      BY <1>1, <1>3, <1>6 DEF Calling
    <3> QED BY <3>1, <1>1, <1>3 DEF Settled, Recorded
  <2> QED BY <1>1, <1>4, <2>1, SettledFrame
<1> QED BY <1>7, <1>12, <1>13, <1>14

LEMMA AnswerLostStep ==
  ASSUME IInv, TypeOK', AnswerLost
  PROVE  IInv'
<1> USE DEF IInv
<1> DEFINE me == cmd.node
<1>1. /\ me \in Nodes /\ node[me] \in Node /\ cmd.pc \in {"key", "job"}
      /\ node' = [node EXCEPT ![me] = Effect(cmd, node[me])] /\ Abort
  BY DEF AnswerLost, TypeOK, Command
<1>2. HasBuilt /\ ~HasPosted
  BY <1>1 DEF HasBuilt, HasPosted
<1>3. node[me].jobs \in Seq(Job) /\ Len(node[me].jobs) \in Nat /\ past[me].failures \in Nat
  BY <1>1, LenProperties DEF Node, TypeOK, Past
<1>4. Len(node[me].jobs) <= past[me].failures
  BY <1>2 DEF Progress
<1>5. Len(Effect(cmd, node[me]).jobs) <= Len(node[me].jobs) + 1
  <2>1. CASE cmd.pc = "job"
    <3>1. Effect(cmd, node[me]).jobs = Append(node[me].jobs, JobOf(cmd))
      BY <2>1, <1>1 DEF Effect, Node
    <3> QED BY <3>1, <1>3, EffectTyped, AppendProperties
  <2>2. CASE cmd.pc # "job"
    <3>1. Effect(cmd, node[me]).jobs = node[me].jobs
      BY <2>2, <1>1 DEF Effect, Node
    <3> QED BY <3>1, <1>3
  <2> QED BY <2>1, <2>2
<1>6. Len(node'[me].jobs) <= past[me].failures + 1
  <2>1. node'[me] = Effect(cmd, node[me]) /\ Len(node'[me].jobs) \in Nat
    BY <1>1, LenProperties DEF TypeOK, Node
  <2> QED BY <2>1, <1>3, <1>4, <1>5
<1>7. \A n \in Nodes \ {me} : node'[n] = node[n]
  BY <1>1 DEF TypeOK
<1> QED BY <1>1, <1>6, <1>7, AbortStep
-----------------------------------------------------------------------------
(* The records of config.toml after Write.                                   *)
LEMMA RecordingRecords ==
  ASSUME IInv, cmd.pc = "write"
  PROVE  /\ Recording(cmd).registry = env.registry
         /\ cmd.op = "bootstrap" =>
              Recording(cmd).boot = cmd.db /\ Recording(cmd).parts = env.parts
         /\ cmd.op # "bootstrap" =>
              /\ Recording(cmd).boot = env.boot
              /\ cmd.node \in Participants
              /\ Recording(cmd).parts[cmd.node + 1] = [addr |-> cmd.addr, db |-> cmd.db]
         /\ Len(Recording(cmd).parts) \in {Len(env.parts), Len(env.parts) + 1}
         /\ cmd.op # "add" => Len(Recording(cmd).parts) = Len(env.parts)
         /\ \A n \in Participants \ {cmd.node} :
              /\ n < Len(Recording(cmd).parts) <=> n < Len(env.parts)
              /\ n < Len(env.parts) => Recording(cmd).parts[n + 1] = env.parts[n + 1]
<1> USE DEF IInv
<1> DEFINE info == [addr |-> cmd.addr, db |-> cmd.db]
<1>1. info \in Info
  BY DEF TypeOK, Command, Info
<1>2. /\ env.parts \in Seq(Info) /\ Len(env.parts) \in Nat /\ env \in Env
      /\ Len(env.parts) <= MaxNodes /\ cmd.node \in Nodes
  BY LenProperties DEF TypeOK, Env, Command
<1>3. cmd.op \in {"add", "reset", "bootstrap"}
  BY DEF TypeOK, Command, AtItsNode
<1>4. Participants \subseteq Nat
  BY Constants DEF Participants
<1>5. CASE cmd.op = "bootstrap"
  <2>1. Recording(cmd) = [env EXCEPT !.boot = cmd.db]
    BY <1>5 DEF Recording
  <2>2. /\ Recording(cmd).registry = env.registry /\ Recording(cmd).parts = env.parts
        /\ Recording(cmd).boot = cmd.db
    BY <1>2, <2>1 DEF Env
  <2> QED BY <1>2, <1>5, <2>2
<1>6. ASSUME NEW parts \in Seq(Info), Recording(cmd) = [env EXCEPT !.parts = parts]
      PROVE  /\ Recording(cmd).registry = env.registry /\ Recording(cmd).boot = env.boot
             /\ Recording(cmd).parts = parts
  BY <1>2, <1>6 DEF Env
<1>7. CASE cmd.op = "add"
  <2> DEFINE parts == Append(env.parts, info)
  <2>1. /\ parts \in Seq(Info) /\ Len(parts) = Len(env.parts) + 1
        /\ parts[Len(env.parts) + 1] = info
        /\ \A i \in 1..Len(env.parts) : parts[i] = env.parts[i]
    BY <1>1, <1>2, AppendProperties
  <2>2. Recording(cmd) = [env EXCEPT !.parts = parts]
    BY <1>7, <1>2 DEF Recording, Env
  <2>3. cmd.node = Len(env.parts) /\ Len(env.parts) \in Participants
    BY <1>7, <1>2, Constants DEF AtItsNode, Participants
  <2>4. ASSUME NEW n \in Participants \ {cmd.node}
        PROVE  /\ n < Len(parts) <=> n < Len(env.parts)
               /\ n < Len(env.parts) => parts[n + 1] = env.parts[n + 1]
    <3>1. n \in Nat /\ n # Len(env.parts)
      BY <1>4, <2>3
    <3>2. n < Len(env.parts) => n + 1 \in 1..Len(env.parts)
      BY <3>1, <1>2
    <3> QED BY <2>1, <3>1, <3>2, <1>2
  <2> HIDE DEF parts, info
  <2>5. /\ Recording(cmd).registry = env.registry /\ Recording(cmd).boot = env.boot
        /\ Recording(cmd).parts = parts
    BY <1>6, <2>1, <2>2
  <2> QED BY <1>7, <2>1, <2>3, <2>4, <2>5 DEF info
<1>8. CASE cmd.op = "reset"
  <2> DEFINE parts == [env.parts EXCEPT ![cmd.node + 1] = info]
  <2>1. cmd.node + 1 \in 1..Len(env.parts) /\ cmd.node \in Participants
    BY <1>8, <1>2, Constants DEF AtItsNode, Participants
  <2>2. /\ parts \in Seq(Info) /\ Len(parts) = Len(env.parts)
        /\ parts[cmd.node + 1] = info
        /\ \A i \in 1..Len(env.parts) : i # cmd.node + 1 => parts[i] = env.parts[i]
    BY <1>1, <1>2, <2>1, ExceptSeq
  <2>3. Recording(cmd) = [env EXCEPT !.parts = parts]
    BY <1>8, <1>2 DEF Recording, Env
  <2>4. ASSUME NEW n \in Participants \ {cmd.node}, n < Len(env.parts)
        PROVE  parts[n + 1] = env.parts[n + 1]
    <3>1. n \in Nat /\ cmd.node \in Nat /\ n # cmd.node
      BY <1>4, <2>1
    <3>2. n + 1 \in 1..Len(env.parts) /\ n + 1 # cmd.node + 1
      BY <1>2, <2>4, <3>1
    <3> QED BY <2>2, <3>2
  <2> HIDE DEF parts, info
  <2>5. /\ Recording(cmd).registry = env.registry /\ Recording(cmd).boot = env.boot
        /\ Recording(cmd).parts = parts
    BY <1>6, <2>2, <2>3
  <2> QED BY <1>8, <2>1, <2>2, <2>4, <2>5 DEF info
<1> QED BY <1>3, <1>5, <1>7, <1>8

LEMMA WriteStep ==
  ASSUME IInv, TypeOK', Write
  PROVE  IInv'
<1> USE DEF IInv
<1>0. PICK me \in Nodes : me = cmd.node
  BY DEF TypeOK, Command
<1>1. /\ cmd.pc = "write" /\ cmd' = Idle /\ env' = Recording(cmd)
      /\ UNCHANGED <<node, made>>
  BY <1>0 DEF Write, TypeOK
<1>2. /\ \A n \in Nodes : past'[n].failures = past[n].failures
      /\ \A n \in Nodes \ {me} :
           /\ past'[n].dirty <=> past[n].dirty
           /\ past'[n].current => past[n].current /\ me # Boot
  BY <1>0 DEF Write, TypeOK, Past
<1>3. AtItsNode' /\ Progress' /\ ~HasPosted'
  BY <1>1 DEF Idle, AtItsNode, Progress, HasAddress, HasPosted, HasInfo, HasBuilt
<1>4. cmd.op \in {"add", "reset", "bootstrap"}
  BY <1>1 DEF TypeOK, Command, AtItsNode
<1>5. HasPosted /\ HasInfo /\ (cmd.op # "bootstrap" => HasAddress)
  BY <1>1, <1>4 DEF HasPosted, HasInfo, HasAddress
<1>6. /\ node[me].jobs # <<>> /\ LastJob(me) = JobOf(cmd) /\ cmd.db = node[me].db
      /\ cmd.op # "bootstrap" => cmd.addr \in node[me].keys
  BY <1>0, <1>5 DEF Progress
<1>7. /\ cmd.op = "bootstrap" <=> me = Boot
      /\ Len(env.parts) \in Nat
  <2>1. Len(env.parts) \in Nat
    BY LenProperties DEF TypeOK, Env
  <2> QED BY <2>1, <1>0, <1>4 DEF AtItsNode, Participants, Boot
<1>8. JobCount'
  <2> SUFFICES ASSUME NEW n \in Nodes
               PROVE  /\ Len(node[n].jobs) <= past[n].failures + 1
                      /\ Unrecorded(n)' => Len(node[n].jobs) <= past[n].failures
    BY <1>1, <1>2 DEF JobCount
  <2>1. Len(node[n].jobs) <= past[n].failures + 1
    BY DEF JobCount
  <2>2. CASE n = me
    <3>1. ~Unrecorded(n)'
      <4>1. CASE cmd.op = "bootstrap"
        BY <4>1, <2>2, <1>7, Constants DEF Unrecorded
      <4>2. CASE cmd.op = "reset"
        BY <4>2, <2>2, <1>0, <1>1, <1>7, RecordingRecords, Constants
        DEF Unrecorded, AtItsNode, Participants
      <4>3. CASE cmd.op = "add"
        <5>1. Recording(cmd) = [env EXCEPT !.parts = Append(env.parts, [addr |-> cmd.addr, db |-> cmd.db])]
          BY <4>3 DEF Recording, TypeOK, Env
        <5>2. env.parts \in Seq(Info) /\ [addr |-> cmd.addr, db |-> cmd.db] \in Info /\ env \in Env
          BY DEF TypeOK, Env, Command, Info
        <5>3. Recording(cmd).parts = Append(env.parts, [addr |-> cmd.addr, db |-> cmd.db])
          BY <5>1, <5>2 DEF Env
        <5>4. Len(Recording(cmd).parts) = Len(env.parts) + 1
          BY <5>2, <5>3, AppendProperties
        <5> QED BY <4>3, <5>4, <2>2, <1>0, <1>1, <1>7 DEF Unrecorded, AtItsNode
      <4> QED BY <4>1, <4>2, <4>3, <1>4
    <3> QED BY <2>1, <3>1
  <2>3. CASE n # me
    <3>1. Unrecorded(n)' => Unrecorded(n)
      <4>1. ASSUME n \in Participants
            PROVE  (n >= Len(env.parts))' => n >= Len(env.parts)
        <5>1. n < Len(Recording(cmd).parts) <=> n < Len(env.parts)
          BY <1>0, <1>1, <2>3, <4>1, RecordingRecords
        <5>2. n \in Nat /\ Len(Recording(cmd).parts) \in Nat
          BY <1>1, <1>7, <4>1, RecordingRecords, Constants DEF Participants
        <5> QED BY <5>1, <5>2, <1>1, <1>7
      <4> QED BY <4>1 DEF Unrecorded
    <3> QED BY <2>1, <2>3, <3>1, <1>0 DEF JobCount
  <2> QED BY <2>2, <2>3
<1>9. Known(me)'
  <2>1. /\ node'[me].jobs # <<>> /\ LastJob(me)' = JobOf(cmd) /\ cmd.db = node'[me].db
        /\ LastJob(me)'.registry = env'.registry /\ LastJob(me)'.addr = cmd.addr
    BY <1>0, <1>1, <1>6, RecordingRecords DEF LastJob, JobOf
  <2>2. CASE cmd.op = "bootstrap"
    <3>1. env'.boot = cmd.db /\ me = Boot
      BY <2>2, <1>0, <1>1, <1>7, RecordingRecords
    <3> QED BY <2>1, <3>1 DEF Known, LastJob
  <2>3. CASE cmd.op # "bootstrap"
    <3>1. /\ env'.boot = env.boot /\ me # Boot
          /\ env'.parts[me + 1] = [addr |-> cmd.addr, db |-> cmd.db]
      BY <2>3, <1>0, <1>1, <1>7, RecordingRecords
    <3>2. LastJob(me)'.peer = env.boot
      BY <2>1, <3>1, <1>0 DEF JobOf
    <3> QED BY <2>1, <2>3, <3>1, <3>2, <1>1, <1>6 DEF Known, LastJob
  <2> QED BY <2>2, <2>3
<1>10. ASSUME NEW n \in Settled', n # me
       PROVE  Known(n)'
  <2>1. n \in Nodes /\ ~past[n].dirty
    BY <1>2, <1>10 DEF Settled, Recorded
  <2>2. CASE n = Boot
    <3>1. cmd.op # "bootstrap"
      BY <2>2, <1>7, <1>10
    <3>2. env'.boot = env.boot /\ env'.registry = env.registry
      BY <3>1, <1>0, <1>1, RecordingRecords
    <3>3. n \in Settled
      BY <2>1, <2>2, <3>2, <1>0, <1>1, <1>10 DEF Settled, Recorded
    <3>4. Known(n)
      BY <3>3 DEF SettledKnown
    <3> QED BY <2>1, <2>2, <3>2, <3>4, <1>1, <1>2, <1>10 DEF Known, LastJob
  <2>3. CASE n # Boot
    <3>1. n \in Participants \ {me} /\ (n < Len(env.parts))'
      BY <2>1, <2>3, <1>10 DEF Nodes, Settled, Recorded
    <3>2. n < Len(env.parts) /\ env'.parts[n + 1] = env.parts[n + 1]
          /\ env'.registry = env.registry
      BY <3>1, <1>0, <1>1, RecordingRecords
    <3>3. n \in Settled
      BY <2>1, <2>3, <3>2, <1>0, <1>10 DEF Settled, Recorded
    <3>4. Known(n)
      BY <3>3 DEF SettledKnown
    <3>5. past'[n].current => past[n].current /\ env'.boot = env.boot
      BY <2>1, <1>1, <1>2, <1>7, <1>10, RecordingRecords
    <3> QED BY <2>3, <3>2, <3>4, <3>5, <1>1 DEF Known, LastJob
  <2> QED BY <2>2, <2>3
<1>11. SettledKnown'
  BY <1>9, <1>10 DEF SettledKnown
<1> QED BY <1>3, <1>8, <1>11
(* Errors that leave the node as it is.                                      *)
LEMMA ErrorStep ==
  ASSUME IInv, TypeOK', Abort, cmd.pc # "idle", UNCHANGED node
  PROVE  IInv'
<1> USE DEF IInv
<1>1. cmd.node \in Nodes
  BY DEF TypeOK, Command
<1>2. Len(node'[cmd.node].jobs) <= past[cmd.node].failures + 1
  BY <1>1 DEF JobCount
<1> QED BY <1>2, AbortStep

LEMMA DeployRegistryStep ==
  ASSUME IInv, TypeOK', DeployRegistry
  PROVE  IInv'
<1> USE DEF IInv
<1>1. cmd.pc = "idle" /\ UNCHANGED <<node, made, cmd>>
  BY DEF DeployRegistry
<1>2. env'.parts = env.parts /\ env'.boot = env.boot
  BY DEF DeployRegistry, TypeOK, Env
<1>3. \A n \in Nodes :
        /\ past'[n].failures = past[n].failures
        /\ past'[n].dirty <=> past[n].dirty
        /\ ~past'[n].current
  BY DEF DeployRegistry, TypeOK, Past
<1>4. AtItsNode' /\ Progress' /\ ~HasPosted'
  BY <1>1, <1>2 DEF AtItsNode, Progress, HasAddress, HasPosted, HasInfo, HasBuilt
<1>5. JobCount'
  BY <1>1, <1>2, <1>3, <1>4 DEF JobCount, Unrecorded, HasPosted
<1>6. ASSUME NEW n \in Settled'
      PROVE  Known(n)'
  <2>1. n \in Nodes /\ n \in Settled
    BY <1>1, <1>2, <1>3 DEF Settled, Recorded
  <2>2. Known(n)
    BY <2>1 DEF SettledKnown
  <2> QED BY <1>1, <1>2, <1>3, <2>1, <2>2 DEF Known, LastJob
<1>7. SettledKnown'
  BY <1>6 DEF SettledKnown
<1> QED BY <1>4, <1>5, <1>7

(* The file is emptied: no node is settled, and each that was in it, or that *)
(* a command was about to record, may have a job more.                       *)
LEMMA EmptyFileStep ==
  ASSUME IInv, TypeOK', ConfigSetup \/ WriteCutShort
  PROVE  IInv'
<1> USE DEF IInv
<1> DEFINE ns == IF cmd.pc = "idle" THEN Recorded ELSE Recorded \cup {cmd.node}
<1>1. EmptyFile(ns) /\ cmd'.pc = "idle" /\ cmd'.op = "none"
  BY DEF ConfigSetup, WriteCutShort, Idle, AtItsNode
<1>2. /\ node' = node /\ env' = Blank
      /\ \A n \in Nodes : past'[n].failures = IF n \in ns THEN past[n].failures + 1
                                                       ELSE past[n].failures
  <2>1. \A n \in Nodes : past'[n] = IF n \in ns
                                    THEN [failures |-> past[n].failures + 1, dirty |-> TRUE,
                                          current |-> FALSE]
                                    ELSE past[n]
    BY <1>1 DEF EmptyFile
  <2>2. \A n \in Nodes : past[n] \in Past
    BY DEF TypeOK
  <2> QED BY <1>1, <2>1, <2>2 DEF EmptyFile, Past
<1>3. AtItsNode' /\ Progress' /\ ~HasPosted'
  BY <1>1 DEF AtItsNode, Progress, HasAddress, HasPosted, HasInfo, HasBuilt
<1>4. JobCount'
  <2> SUFFICES ASSUME NEW n \in Nodes
               PROVE  /\ Len(node[n].jobs) <= past'[n].failures + 1
                      /\ n \in Participants => Len(node[n].jobs) <= past'[n].failures
    BY <1>2 DEF JobCount, Unrecorded
  <2>1. /\ Len(node[n].jobs) \in Nat /\ past[n].failures \in Nat
        /\ Len(node[n].jobs) <= past[n].failures + 1
    BY LenProperties DEF JobCount, TypeOK, Node, Past
  <2>2. CASE n \in ns
    BY <1>2, <2>1, <2>2
  <2>3. CASE n \notin ns
    <3>1. past'[n].failures = past[n].failures
      BY <1>2, <2>3
    <3>2. ASSUME n \in Participants
          PROVE  Len(node[n].jobs) <= past[n].failures
      <4>1. n \notin Recorded /\ n # Boot /\ n \in Nat /\ Len(env.parts) \in Nat
        BY <2>3, <3>2, LenProperties, Constants DEF Participants, TypeOK, Env
      <4>2. Unrecorded(n)
        BY <3>2, <4>1 DEF Recorded, Unrecorded
      <4>3. ~(HasPosted /\ n = cmd.node)
        BY <2>3 DEF HasPosted, AtItsNode
      <4> QED BY <4>2, <4>3 DEF JobCount
    <3> QED BY <2>1, <3>1, <3>2
  <2> QED BY <2>2, <2>3
<1>5. Recorded' = {}
  BY <1>2, BlankTyped, Constants DEF Recorded, Nodes, Participants
<1> QED BY <1>3, <1>4, <1>5 DEF SettledKnown, Settled

LEMMA InitHolds == Init => IInv
<1> SUFFICES ASSUME Init
             PROVE  IInv
  OBVIOUS
<1> USE DEF Init
<1>1. Absent \in Node /\ Absent.jobs = <<>> /\ Len(Absent.jobs) = 0
  BY Constants DEF Absent, Node, None
<1>2. env.parts = <<>> /\ Len(env.parts) = 0 /\ env.boot = 0
  BY BlankTyped
<1>3. env \in Env
  BY BlankTyped
<1>4. past \in [Nodes -> Past] /\ node \in [Nodes -> Node]
  BY <1>1 DEF Past
<1>5. TypeOK
  BY <1>2, <1>3, <1>4, IdleCommand, Constants DEF TypeOK, None
<1>6. AtItsNode /\ Progress
  BY DEF Idle, AtItsNode, Progress, HasAddress, HasPosted, HasInfo, HasBuilt
<1>7. JobCount
  BY <1>1 DEF JobCount
<1>8. Settled = {}
  <2>1. \A n \in Participants : ~(n < Len(env.parts))
    BY <1>2, Constants DEF Participants
  <2> QED BY <1>2, <2>1 DEF Settled, Recorded, Nodes
<1> QED BY <1>5, <1>6, <1>7, <1>8 DEF IInv, SettledKnown

LEMMA InductiveStep == IInv /\ [Next]_vars => IInv'
<1> SUFFICES ASSUME IInv, [Next]_vars
             PROVE  IInv'
  OBVIOUS
<1>1. TypeOK'
  BY TypeStep DEF IInv
<1>2. AtItsNode /\ cmd.node \in Nodes /\ cmd \in Command
  BY DEF IInv, TypeOK, Command
<1>3. CASE DeployRegistry
  BY <1>1, <1>3, DeployRegistryStep
<1>4. CASE StartBootstrap
  BY <1>1, <1>4, BeginStep, Constants DEF StartBootstrap
<1>5. ASSUME NEW key \in Keys \cup {None}, StartAdd(key)
      PROVE  IInv'
  <2>1. Len(env.parts) \in Nodes
    BY <1>5, LenProperties, Constants DEF StartAdd, IInv, TypeOK, Env, Nodes, Participants
  <2> QED BY <1>1, <1>5, <2>1, BeginStep DEF StartAdd
<1>6. ASSUME NEW key \in Keys \cup {None}, NEW n \in Participants, StartReset(n, key)
      PROVE  IInv'
  BY <1>1, <1>6, BeginStep, Constants DEF StartReset
<1>7. CASE Drop
  BY <1>1, <1>7, DropStep
<1>8. CASE Make
  BY <1>1, <1>8, MakeStep
<1>9. CASE Ready
  <2>1. cmd'.pc = "login" /\ cmd.pc = "await" /\ cmd'.op = cmd.op /\ cmd'.node = cmd.node
    BY <1>2, <1>9 DEF Ready, Command
  <2> QED BY <1>1, <1>9, <2>1, WaitStep DEF Ready
<1>10. CASE Poll
  <2>1. CASE Abort
    BY <1>1, <1>10, <2>1, ErrorStep DEF Poll
  <2>2. CASE ~Abort
    <3>1. /\ cmd' = [cmd EXCEPT !.waited = @ + PollInterval, !.silent = FALSE]
          /\ UNCHANGED <<node, made, env, past>>
      BY <1>10, <2>2 DEF Poll
    <3>2. cmd'.pc = "await" /\ cmd.pc = "await" /\ cmd'.op = cmd.op /\ cmd'.node = cmd.node
      BY <1>2, <1>10, <3>1 DEF Poll, Command
    <3> QED BY <1>1, <3>1, <3>2, WaitStep
  <2> QED BY <2>1, <2>2
<1>11. CASE Login
  <2>1. cmd'.pc = FirstCall(cmd) /\ cmd.pc = "login" /\ cmd'.op = cmd.op /\ cmd'.node = cmd.node
    BY <1>2, <1>11 DEF Login, Command
  <2> QED BY <1>1, <1>11, <2>1, WaitStep DEF Login
<1>12. CASE Unauthorized \/ Authenticate \/ SessionExpires \/ Silence
  BY <1>1, <1>12, SessionStep
<1>13. CASE NameTaken \/ UnauthorizedAgain \/ NoAnswer \/ Fail
  <2>1. Abort /\ cmd.pc # "idle" /\ UNCHANGED node
    BY <1>13 DEF NameTaken, UnauthorizedAgain, NoAnswer, Fail, Calling
  <2> QED BY <1>1, <2>1, ErrorStep
<1>14. CASE Answer
  BY <1>1, <1>14, AnswerStep
<1>15. CASE AnswerLost
  BY <1>1, <1>15, AnswerLostStep
<1>16. CASE Write
  BY <1>1, <1>16, WriteStep
<1>17. ASSUME NEW n \in Nodes, Starts(n) \/ Stops(n) \/ Restarts(n)
       PROVE  IInv'
  BY <1>1, <1>17, BecomesStep DEF Starts, Stops, Restarts
<1>18. CASE UNCHANGED vars
  <2>1. UNCHANGED <<node, made, env, cmd, past>>
    BY <1>18 DEF vars
  <2>2. AtItsNode' /\ Progress' /\ JobCount'
    BY <2>1 DEF IInv, AtItsNode, Progress, JobCount, HasAddress, HasPosted, HasInfo,
                HasBuilt, LastJob, JobOf, Unrecorded
  <2>3. SettledKnown'
    BY <2>1, SettledFrame DEF IInv, Settled, Recorded
  <2> QED BY <1>1, <2>2, <2>3 DEF IInv
<1>19. CASE ConfigSetup \/ WriteCutShort
  BY <1>1, <1>19, EmptyFileStep
<1> QED BY <1>3, <1>4, <1>5, <1>6, <1>7, <1>8, <1>9, <1>10, <1>11, <1>12, <1>13, <1>14,
           <1>15, <1>16, <1>17, <1>18, <1>19 DEF Next, Step

(* The inductive invariant holds in every state the commands and the nodes   *)
(* reach: whatever fails, is lost, stops or expires.                         *)
THEOREM Invariance == Spec => []IInv
BY InitHolds, InductiveStep, PTL DEF Spec
-----------------------------------------------------------------------------
(* Every variable keeps its type; a wait of waitForNodeReady is longer than  *)
(* the timeout by one poll at most.                                          *)
THEOREM TypeCorrect == Spec => []TypeOK
<1>1. IInv => TypeOK
  BY DEF IInv
<1> QED BY <1>1, Invariance, PTL

(* Whatever adds, resets, failures and restarts came before, config.toml has *)
(* the keys of every settled node's database, and a participant transmits    *)
(* from the recorded address, whose key it holds.                            *)
THEOREM SettledTransmitters == Spec => []TransmitterKnown
<1>1. IInv => TransmitterKnown
  BY DEF IInv, SettledKnown, Known, TransmitterKnown
<1> QED BY <1>1, Invariance, PTL

(* The job that a command leaves is for the registry and the bootstrap that  *)
(* config.toml has: nothing but their replacement makes it stale.            *)
THEOREM SettledJobs == Spec => []JobCurrent
<1>1. IInv => JobCurrent
  BY DEF IInv, SettledKnown, Known, JobCurrent
<1> QED BY <1>1, Invariance, PTL

(* A node has a job more than the one recorded only after a command failed   *)
(* at its database, or its record was lost: one each, although a request may *)
(* be sent twice.                                                            *)
THEOREM JobsPerFailure == Spec => []OneJob
<1>1. ASSUME IInv
      PROVE  OneJob
  <2> SUFFICES ASSUME NEW n \in Settled
               PROVE  Len(node[n].jobs) \in 1..(1 + past[n].failures)
    BY DEF OneJob
  <2>1. n \in Nodes /\ node[n].jobs # <<>>
    BY <1>1 DEF IInv, Settled, Recorded, SettledKnown, Known
  <2>2. node[n].jobs \in Seq(Job) /\ past[n].failures \in Nat
    BY <1>1, <2>1 DEF IInv, TypeOK, Node, Past
  <2>3. Len(node[n].jobs) \in Nat /\ Len(node[n].jobs) # 0
    BY <2>1, <2>2, LenProperties, EmptySeq
  <2>4. Len(node[n].jobs) <= past[n].failures + 1
    BY <1>1, <2>1 DEF IInv, JobCount
  <2> QED BY <2>2, <2>3, <2>4
<1> QED BY <1>1, Invariance, PTL
-----------------------------------------------------------------------------
(* That commands end, their calls returning, needs the fairness of Spec, and *)
(* two facts that do not: a running command whose call has returned has a    *)
(* next step, and its steps run out.                                         *)

(* The guards of Step. *)
AnswerCan == /\ Calling /\ Up /\ cmd.session /\ cmd.again # "authenticate"
             /\ Transmitters(cmd, node[cmd.node]) # {}
StepCan == \/ cmd.pc \in {"drop", "make", "await", "login", "write"}
           \/ Calling /\ ~Up
           \/ Calling /\ Up /\ cmd.again = "authenticate"
           \/ Calling /\ Up /\ cmd.again # "authenticate" /\ ~cmd.session
           \/ AnswerCan

GoesOn == cmd.pc # "idle" /\ Returned => StepCan

(* A node that has been made holds the key it made. *)
HoldsKey == \A n \in Nodes : node[n].is # "absent" => node[n].keys # {}

LEMMA HoldsKeyStep == IInv /\ HoldsKey /\ [Next]_vars => HoldsKey'
<1> SUFFICES ASSUME IInv, HoldsKey, [Next]_vars
             PROVE  HoldsKey'
  OBVIOUS
<1>1. node \in [Nodes -> Node] /\ cmd \in Command /\ cmd.node \in Nodes
  BY DEF IInv, TypeOK, Command
<1>2. CASE Drop
  BY <1>1, <1>2 DEF Drop, HoldsKey, Absent
<1>3. CASE Make
  BY <1>1, <1>3 DEF Make, HoldsKey
<1>4. CASE Answer \/ AnswerLost
  <2>1. node' = [node EXCEPT ![cmd.node] = Effect(cmd, node[cmd.node])] /\ Up
    BY <1>4 DEF Answer, AnswerLost
  <2>2. node[cmd.node] \in Node /\ node[cmd.node].keys # {}
    BY <1>1, <2>1 DEF HoldsKey, Up
  <2>3. Effect(cmd, node[cmd.node]).keys # {}
    BY <2>2 DEF Effect, Node
  <2> QED BY <1>1, <2>1, <2>3 DEF HoldsKey
<1>5. ASSUME NEW n \in Nodes, Starts(n) \/ Stops(n) \/ Restarts(n)
      PROVE  HoldsKey'
  <2>1. PICK to \in {"starting", "up", "stopped"} :
          node[n].is # "absent" /\ node' = [node EXCEPT ![n].is = to]
    BY <1>5 DEF Starts, Stops, Restarts, Becomes
  <2>2. \A m \in Nodes : node'[m].keys = node[m].keys /\ (m # n => node'[m] = node[m])
    BY <1>1, <2>1 DEF Node
  <2> QED BY <2>1, <2>2 DEF HoldsKey
<1>6. CASE \/ DeployRegistry \/ StartBootstrap \/ SessionExpires \/ Fail
           \/ ConfigSetup \/ WriteCutShort \/ Silence
           \/ NameTaken \/ Ready \/ Poll \/ Login \/ Unauthorized \/ Authenticate
           \/ UnauthorizedAgain \/ NoAnswer \/ Write
           \/ \E key \in Keys \cup {None} :
                StartAdd(key) \/ \E n \in Participants : StartReset(n, key)
           \/ UNCHANGED vars
  <2>1. node' = node
    BY <1>6 DEF DeployRegistry, StartBootstrap, SessionExpires, Fail, ConfigSetup, WriteCutShort,
         EmptyFile, Silence, NameTaken, Ready, Poll, Login,
         Unauthorized, Authenticate, UnauthorizedAgain, NoAnswer, Write, StartAdd, StartReset,
         Begin, vars
  <2> QED BY <2>1 DEF HoldsKey
<1> QED BY <1>2, <1>3, <1>4, <1>5, <1>6 DEF Next, Step

(* A running command whose calls return can always take its next step,       *)
(* however often its session expires and whether its node starts or not: it  *)
(* waits for nothing but the next poll, and a request that is answered or    *)
(* refused leads on.  A request that is accepted and never answered is what  *)
(* can hold it up, until the connection breaks with the node's container,    *)
(* and nothing else is.                                                      *)
THEOREM CommandsGoOn == Spec => []GoesOn
<1>1. Init => HoldsKey
  BY DEF Init, HoldsKey, Absent
<1>2. ASSUME IInv, HoldsKey, cmd.pc # "idle"
      PROVE  StepCan
  <2>1. cmd \in Command /\ cmd.node \in Nodes
    BY <1>2 DEF IInv, TypeOK, Command
  <2>2. Calling /\ Up => Transmitters(cmd, node[cmd.node]) # {}
    BY <1>2, <2>1 DEF HoldsKey, Up, Transmitters
  <2> QED BY <1>2, <2>1, <2>2 DEF StepCan, AnswerCan, Command, Calling
<1>3. IInv /\ HoldsKey => GoesOn
  BY <1>2 DEF GoesOn
<1> QED BY <1>1, <1>3, HoldsKeyStep, Invariance, PTL DEF Spec
-----------------------------------------------------------------------------
(* The requests a command has before it, the one in progress included. *)
CallsLeft(c) ==
  IF c.op = "bootstrap"
  THEN CASE c.pc = "p2p" -> 2 [] c.pc = "job" -> 1
  ELSE CASE c.pc = "key" -> 5 [] c.pc = "ocr2" -> 4 [] c.pc = "job" -> 3
         [] c.pc = "info" -> 2 [] c.pc = "p2p" -> 1

(* What has been done for the request in progress. *)
Tried(c) == CASE c.again = "no" -> 0 [] c.again = "authenticate" -> 1 [] c.again = "sent" -> 2

(* The most steps that a command has before it: a request has three. *)
ToDo(c) ==
  CASE c.pc = "idle"  -> 0
    [] c.pc = "write" -> 1
    [] c.pc = "login" -> 17
    [] c.pc = "await" -> MaxWait + PollInterval - c.waited + 18
    [] c.pc = "make"  -> MaxWait + PollInterval + 19
    [] c.pc = "drop"  -> MaxWait + PollInterval + 20
    [] OTHER          -> 3 * CallsLeft(c) + 1 - Tried(c)

Requests == {"key", "ocr2", "job", "info", "p2p"}

LEMMA CallsTyped ==
  ASSUME NEW c \in Command, c.pc \in Requests,
         c.op = "bootstrap" => c.pc \in {"p2p", "job"}
  PROVE  /\ CallsLeft(c) \in 1..5 /\ Tried(c) \in 0..2
         /\ ToDo(c) = 3 * CallsLeft(c) + 1 - Tried(c)
<1>1. CallsLeft(c) \in 1..5
  BY DEF CallsLeft, Requests
<1>2. Tried(c) \in 0..2
  BY DEF Tried, Command
<1>3. ToDo(c) = 3 * CallsLeft(c) + 1 - Tried(c)
  BY DEF ToDo, Requests
<1> QED BY <1>1, <1>2, <1>3

LEMMA ToDoTyped ==
  ASSUME NEW c \in Command, c.op = "bootstrap" => c.pc \notin {"key", "ocr2", "info"}
  PROVE  ToDo(c) \in Nat /\ (c.pc # "idle" => ToDo(c) > 0)
<1>1. CASE c.pc \in Requests
  <2>1. /\ CallsLeft(c) \in 1..5 /\ Tried(c) \in 0..2
        /\ ToDo(c) = 3 * CallsLeft(c) + 1 - Tried(c)
    BY <1>1, CallsTyped DEF Requests
  <2> QED BY <2>1
<1>2. CASE c.pc \notin Requests
  <2>1. MaxWait \in Nat /\ PollInterval \in Nat /\ c.waited \in 0..(MaxWait + PollInterval)
    BY Constants DEF Command
  <2> QED BY <1>2, <2>1 DEF ToDo, Requests, Command
<1> QED BY <1>1, <1>2

LEMMA CommandAlong ==
  ASSUME IInv
  PROVE  /\ cmd \in Command
         /\ cmd.op = "bootstrap" => cmd.pc \notin {"key", "ocr2", "info"}
         /\ MaxWait \in Nat /\ PollInterval \in Nat \ {0}
BY Constants DEF IInv, TypeOK, AtItsNode

(* An error, or the end. *)
LEMMA EndToDo ==
  ASSUME IInv, cmd.pc # "idle", cmd' = Idle
  PROVE  ToDo(cmd') < ToDo(cmd)
<1>1. ToDo(cmd') = 0
  BY DEF ToDo, Idle
<1> QED BY <1>1, ToDoTyped, CommandAlong

LEMMA BuildToDo ==
  ASSUME IInv, Drop \/ Make \/ Ready \/ Poll \/ Login
  PROVE  ToDo(cmd') < ToDo(cmd)
<1>1. /\ cmd \in Command /\ cmd.waited \in 0..(MaxWait + PollInterval)
      /\ MaxWait \in Nat /\ PollInterval \in Nat \ {0}
      /\ cmd.op \in {"none", "add", "reset", "bootstrap"}
  BY CommandAlong DEF Command
<1>2. CASE Drop \/ Make
  <2>1. /\ cmd'.waited = cmd.waited
        /\ \/ cmd.pc = "drop" /\ cmd'.pc \in {"make", "await"}
           \/ cmd.pc = "make" /\ cmd'.pc = "await"
    BY <1>1, <1>2 DEF Drop, Make, Goto, Command
  <2> QED BY <1>1, <2>1 DEF ToDo
<1>3. CASE Ready
  <2>1. cmd.pc = "await" /\ cmd'.pc = "login"
    BY <1>1, <1>3 DEF Ready, Command
  <2> QED BY <1>1, <2>1 DEF ToDo
<1>4. CASE Poll
  <2>1. CASE Abort
    BY <1>4, <2>1, EndToDo DEF Poll, Abort
  <2>2. CASE ~Abort
    <3>1. cmd.pc = "await" /\ cmd'.pc = "await" /\ cmd'.waited = cmd.waited + PollInterval
      BY <1>1, <1>4, <2>2 DEF Poll, Command
    <3> QED BY <1>1, <3>1 DEF ToDo
  <2> QED BY <2>1, <2>2
<1>5. CASE Login
  <2>1. cmd.pc = "login" /\ cmd' = [cmd EXCEPT !.pc = FirstCall(cmd), !.session = TRUE]
    BY <1>5 DEF Login
  <2>2. /\ cmd' \in Command /\ cmd'.op = cmd.op
        /\ cmd'.pc = IF cmd.op = "bootstrap" THEN "p2p" ELSE "key"
    BY <1>1, <2>1 DEF FirstCall, Command
  <2>3. /\ CallsLeft(cmd') \in 1..5 /\ Tried(cmd') \in 0..2
        /\ ToDo(cmd') = 3 * CallsLeft(cmd') + 1 - Tried(cmd')
    BY <2>2, CallsTyped DEF Requests
  <2>4. ToDo(cmd) = 17
    BY <2>1 DEF ToDo
  <2> QED BY <2>3, <2>4
<1> QED BY <1>2, <1>3, <1>4, <1>5

LEMMA SessionToDo ==
  ASSUME IInv, Unauthorized \/ Authenticate
  PROVE  ToDo(cmd') < ToDo(cmd)
<1>1. cmd \in Command /\ cmd.pc \in Requests /\ (cmd.op = "bootstrap" => cmd.pc \in {"p2p", "job"})
  BY CommandAlong DEF Unauthorized, Authenticate, Calling, Requests
<1>2. /\ cmd' \in Command /\ cmd'.pc = cmd.pc /\ cmd'.op = cmd.op
      /\ \/ cmd.again = "no" /\ cmd'.again = "authenticate"
         \/ cmd.again = "authenticate" /\ cmd'.again = "sent"
  BY <1>1 DEF Unauthorized, Authenticate, Command
<1>3. CallsLeft(cmd') = CallsLeft(cmd)
  BY <1>2 DEF CallsLeft
<1>4. Tried(cmd') = Tried(cmd) + 1
  BY <1>2 DEF Tried
<1>5. /\ CallsLeft(cmd) \in 1..5 /\ Tried(cmd) \in 0..2
      /\ ToDo(cmd) = 3 * CallsLeft(cmd) + 1 - Tried(cmd)
  BY <1>1, CallsTyped
<1>6. ToDo(cmd') = 3 * CallsLeft(cmd') + 1 - Tried(cmd')
  BY <1>1, <1>2, CallsTyped
<1> QED BY <1>3, <1>4, <1>5, <1>6

LEMMA AnswerToDo ==
  ASSUME IInv, IInv', Answer
  PROVE  ToDo(cmd') < ToDo(cmd)
<1>1. cmd \in Command /\ cmd.pc \in Requests /\ (cmd.op = "bootstrap" => cmd.pc \in {"p2p", "job"})
  BY CommandAlong DEF Answer, Calling, Requests
<1>2. cmd' \in Command
  BY DEF IInv, TypeOK
<1>3. cmd'.pc = NextCall(cmd) /\ cmd'.op = cmd.op
  BY <1>1 DEF Answer, Command
<1>4. /\ CallsLeft(cmd) \in 1..5 /\ Tried(cmd) \in 0..2
      /\ ToDo(cmd) = 3 * CallsLeft(cmd) + 1 - Tried(cmd)
  BY <1>1, CallsTyped
<1>5. CASE NextCall(cmd) = "write"
  <2>1. ToDo(cmd') = 1
    BY <1>3, <1>5 DEF ToDo
  <2> QED BY <1>4, <2>1
<1>6. CASE NextCall(cmd) # "write"
  <2>1. cmd'.pc \in Requests /\ (cmd'.op = "bootstrap" => cmd'.pc \in {"p2p", "job"})
    BY <1>1, <1>3, <1>6 DEF NextCall, Requests
  <2>2. CallsLeft(cmd') = CallsLeft(cmd) - 1
    BY <1>1, <1>3, <1>6 DEF NextCall, Requests, CallsLeft
  <2>3. Tried(cmd') \in 0..2 /\ ToDo(cmd') = 3 * CallsLeft(cmd') + 1 - Tried(cmd')
    BY <1>2, <2>1, CallsTyped
  <2>4. Tried(cmd') = 0
    BY <1>1 DEF Answer, Tried, Command
  <2> QED BY <1>4, <2>2, <2>3, <2>4
<1> QED BY <1>5, <1>6

(* A command has at most ToDo(cmd) steps before it: each of its steps and    *)
(* each error lowers it, and nothing that happens meanwhile raises it, the   *)
(* session expiring again and again, and calls not answered, included.       *)
Ends == Fail \/ AnswerLost \/ WriteCutShort
Nearer == /\ Step \/ Ends => ToDo(cmd') < ToDo(cmd)
          /\ cmd.pc # "idle" => ToDo(cmd') <= ToDo(cmd)

THEOREM StepsRunOut == Spec => [](ToDo(cmd) \in Nat) /\ [][Nearer]_vars
<1>1. IInv => ToDo(cmd) \in Nat
  BY CommandAlong, ToDoTyped
<1>2. IInv' => (ToDo(cmd) \in Nat)'
  BY <1>1, PTL
<1>3. ASSUME IInv, Next
      PROVE  Nearer
  <2>1. ToDo(cmd) \in Nat /\ ToDo(cmd') \in Nat /\ IInv'
    BY <1>1, <1>2, <1>3, InductiveStep
  <2>2. CASE Step \/ Ends
    <3> SUFFICES ToDo(cmd') < ToDo(cmd)
      BY <2>1 DEF Nearer
    <3>1. CASE Drop \/ Make \/ Ready \/ Poll \/ Login
      BY <1>3, <3>1, BuildToDo
    <3>2. CASE Unauthorized \/ Authenticate
      BY <1>3, <3>2, SessionToDo
    <3>3. CASE Answer
      BY <1>3, <2>1, <3>3, AnswerToDo
    <3>4. CASE NameTaken \/ UnauthorizedAgain \/ NoAnswer \/ Ends \/ Write
      <4>1. cmd' = Idle /\ cmd.pc # "idle"
        BY <3>4 DEF NameTaken, UnauthorizedAgain, NoAnswer, Ends, Fail, AnswerLost, WriteCutShort,
                    Write, Abort, Calling
      <4> QED BY <1>3, <4>1, EndToDo
    <3> QED BY <2>2, <3>1, <3>2, <3>3, <3>4 DEF Step
  <2>3. CASE ~(Step \/ Ends) /\ cmd.pc # "idle"
    <3>1. cmd' = cmd \/ SessionExpires \/ Silence
      BY <1>3, <2>3 DEF Next, Ends, DeployRegistry, ConfigSetup, StartBootstrap, StartAdd,
           StartReset, Begin, Starts, Stops, Restarts, Becomes
    <3>2. \/ cmd' = cmd
          \/ /\ cmd'.pc = cmd.pc /\ cmd'.op = cmd.op /\ cmd'.waited = cmd.waited
             /\ cmd'.again = cmd.again
      BY <1>3, <3>1, CommandAlong DEF SessionExpires, Silence, Command
    <3>3. CASE cmd.pc \in Requests
      <4>1. CallsLeft(cmd') = CallsLeft(cmd) /\ Tried(cmd') = Tried(cmd)
        BY <1>3, <3>2, <3>3, CommandAlong DEF CallsLeft, Tried, Requests, Command
      <4>2. ToDo(cmd') = ToDo(cmd)
        BY <3>2, <3>3, <4>1 DEF ToDo, Requests
      <4> QED BY <2>1, <2>3, <4>2 DEF Nearer
    <3>4. CASE cmd.pc \notin Requests
      <4>1. ToDo(cmd') = ToDo(cmd)
        BY <1>3, <3>2, <3>4, CommandAlong DEF ToDo, Requests, Command
      <4> QED BY <2>1, <2>3, <4>1 DEF Nearer
    <3> QED BY <3>3, <3>4
  <2>4. CASE ~(Step \/ Ends) /\ cmd.pc = "idle"
    BY <2>4 DEF Nearer
  <2> QED BY <2>2, <2>3, <2>4
<1>4. IInv /\ [Next]_vars => [Nearer]_vars
  BY <1>3
<1> QED BY <1>1, <1>4, Invariance, PTL DEF Spec
=============================================================================
