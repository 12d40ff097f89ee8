-------------------------- MODULE NodeNetworkProofs --------------------------
(***************************************************************************)
(* Proofs about NodeNetwork, for any number of participants and databases, *)
(* any counts, with faults or without.                                     *)
(*                                                                         *)
(* The first part follows the command: the node it is at, and how its copy *)
(* of config.toml differs from the file.  The second part follows the      *)
(* containers, and needs that no node's name is a prefix of another's: as  *)
(* it is for up to ten participants (lemma OneDigit), and beyond is not.   *)
(***************************************************************************)
EXTENDS NodeNetwork, SequenceTheorems, WellFoundedInduction, TLAPS

(* A set of numbers has a least one. *)
LEMMA LeastNat ==
  ASSUME NEW S \in SUBSET Nat, S # {}
  PROVE  \E n \in S : \A m \in S : n <= m
<1> DEFINE R == {ss \in Nat \X Nat : ss[1] < ss[2]}
<1>1. IsWellFoundedOn(R, Nat)
  BY NatLessThanWellFounded, Zenon DEF OpToRel
<1>2. PICK n \in S : \A m \in S : <<m, n>> \notin R
  <2> HIDE DEF R
  <2> QED BY <1>1, WFMin
<1>3. \A m \in S : ~(m < n)
  BY <1>2
<1> QED BY <1>3

(* A function on a segment of numbers is a sequence, as long as the segment. *)
LEMMA SegmentSeq ==
  ASSUME NEW S, NEW n \in Nat, NEW f \in [1..n -> S]
  PROVE  f \in Seq(S) /\ Len(f) = n
<1>1. f \in Seq(S)
  OBVIOUS
<1>2. Len(f) \in Nat /\ DOMAIN f = 1..Len(f)
  BY <1>1, LenProperties
<1>3. 1..Len(f) = 1..n
  BY <1>2
<1> QED BY <1>1, <1>2, <1>3
-------------------------------------------------------------------------------
Makes(op) == op \in {"add", "reset", "bootstrap"}
NotMadeYet == {"list", "dropPg", "makePg"}

(* The node that a command is at, and what is before it. *)
Where ==
  /\ cmd.op = "none" <=> cmd.pc = "idle"
  /\ cmd.op = "remove" => cmd.pc \in {"list", "removeCl", "removePg", "write"}
  /\ Makes(cmd.op) => cmd.pc \notin {"removeCl", "removePg"} /\ cmd.left >= 1
  /\ cmd.op \in {"reset", "bootstrap", "remove"} => cmd.left = 1
  /\ cmd.op = "add" => /\ cmd.node \in Ids /\ Len(env.parts) <= cmd.node
                       /\ cmd.node + cmd.left <= MaxNodes
  /\ cmd.op = "reset" => cmd.node \in Ids /\ cmd.node < Len(env.parts)
  /\ cmd.op = "bootstrap" => cmd.node = Boot
  /\ cmd.op = "remove" => cmd.node \in Recorded

Numbered(e) == \A i \in 1..Len(e.parts) : e.parts[i].id = i - 1

(* A command's copy, and the file. *)
Copy ==
  /\ Numbered(env) /\ Numbered(cmd.env)
  /\ cmd.op \in {"reset", "bootstrap", "remove"} /\ cmd.pc # "write" => cmd.env = env
  /\ cmd.op = "add" =>
       /\ cmd.env.boot = env.boot
       /\ Len(cmd.env.parts) = IF cmd.pc = "write" THEN cmd.node + 1 ELSE cmd.node
       /\ \A i \in 1..Len(env.parts) : cmd.env.parts[i] = env.parts[i]
  /\ cmd.op = "reset" /\ cmd.pc = "write" =>
       /\ cmd.env.boot = env.boot /\ Len(cmd.env.parts) = Len(env.parts)
       /\ \A i \in 1..Len(env.parts) : i # cmd.node + 1 => cmd.env.parts[i] = env.parts[i]
  /\ cmd.op = "bootstrap" /\ cmd.pc = "write" =>
       cmd.env.parts = env.parts /\ cmd.env.boot # NoInfo
  /\ cmd.op = "remove" /\ cmd.pc = "write" =>
       cmd.env.parts = <<>> /\ cmd.env.boot = NoInfo

(* A container that runs has a database, and there is room for the others. *)
Databases ==
  /\ \A n \in Nodes : pg[n].up => pg[n].db # 0
  /\ cmd.pc = "startPg" => pg[cmd.node].db # 0
  /\ Makes(cmd.op) =>
       created + cmd.left <= MaxDatabases + (IF cmd.pc \in NotMadeYet THEN 0 ELSE 1)

Base1 == TypeOK /\ Where /\ Copy /\ Databases
-----------------------------------------------------------------------------
(* No search finds another node's container. *)
NamesApart == \A n, m \in Nodes : NamePrefix(n, m) => n = m

Found == cmd.pc \in {"dropPg", "makePg", "removeCl", "removePg"} =>
           cmd.pgFound \in {Nobody, cmd.node}

Built(n, keys) == /\ keys # NoInfo /\ pg[n].db = keys /\ cl[n] # "absent"
                  /\ n \in stopped \/ Healthy(n)
Gone(n) == pg[n] = NoPg /\ cl[n] = "absent"

(* The nodes that a command is done with are as its copy says, or gone. *)
Done ==
  /\ cmd.op = "add" => \A n \in Ids :
       Len(env.parts) <= n /\ n < Len(cmd.env.parts) => Built(n, cmd.env.parts[n + 1].keys)
  /\ cmd.op = "reset" /\ cmd.pc = "write" => Built(cmd.node, cmd.env.parts[cmd.node + 1].keys)
  /\ cmd.op = "bootstrap" /\ cmd.pc = "write" => Built(Boot, cmd.env.boot)
  /\ cmd.op = "remove" => \A n \in Recorded :
       cmd.pc = "write" \/ (n # Boot /\ (cmd.node = Boot \/ n < cmd.node)) => Gone(n)
  /\ cmd.op = "remove" /\ cmd.pc = "write" => Recorded \subseteq Touched(cmd)
  /\ cmd.pc = "removePg" => cl[cmd.node] = "absent"

IInv == Base1 /\ Found /\ Done /\ ConfigMatchesContainers
-----------------------------------------------------------------------------
LEMMA Constants ==
  /\ MaxNodes \in Nat \ {0} /\ MaxDatabases \in Nat /\ Counts \subseteq Nat \ {0}
  /\ Boot \in Nodes /\ Boot \notin Ids /\ Ids \subseteq Nodes /\ Nobody \notin Nodes
  /\ Ids \subseteq Nat /\ 0 \in Gens /\ Gens \subseteq Nat
BY NetworkAssumption DEF Boot, Nodes, Ids, Nobody, Gens

Command == [op : Commands, pc : Pcs, node : Nodes \cup {Nobody}, left : 0..MaxNodes,
            pgFound : Nodes \cup {Nobody}, clFound : BOOLEAN, env : Envs]

LEMMA Typed ==
  ASSUME TypeOK
  PROVE  /\ cmd \in Command /\ env \in Envs /\ cmd.env \in Envs /\ created \in 0..MaxDatabases
         /\ \A n \in Nodes : pg[n].db \in Gens
BY DEF TypeOK, Command, Gens

LEMMA EnvTyped ==
  ASSUME NEW e \in Envs
  PROVE  /\ Len(e.parts) \in Nat /\ e.parts \in Seq(Info) /\ e.boot \in Gens
         /\ \A i \in 1..Len(e.parts) : e.parts[i] \in Info /\ e.parts[i].id \in Ids
<1>1. e.parts \in Seq(Info) /\ e.boot \in Gens
  BY DEF Envs
<1>2. Len(e.parts) \in Nat /\ \A i \in 1..Len(e.parts) : e.parts[i] \in Info
  BY <1>1, LenProperties, ElementOfSeq
<1> QED BY <1>1, <1>2 DEF Info

LEMMA NoNodes ==
  /\ Blank \in Envs /\ Len(<<>>) = 0 /\ Blank.boot = NoInfo /\ Blank.parts = <<>>
  /\ Numbered(Blank)
BY Constants DEF Envs, NoInfo, Numbered, Blank

LEMMA IdleTyped == Idle \in Command /\ Idle.op = "none" /\ Idle.pc = "idle" /\ Numbered(Idle.env)
<1>1. 0 \in 0..MaxNodes
  BY Constants
<1> QED BY <1>1, NoNodes DEF Idle, Command, Commands, Pcs

(* The recorded participants are the first numbers. *)
LEMMA RecordedNumbers ==
  ASSUME Base1
  PROVE  /\ Len(env.parts) \in Nat /\ Len(env.parts) <= MaxNodes
         /\ \A n \in Ids : n \in Recorded <=> n < Len(env.parts)
         /\ Boot \in Recorded <=> env.boot # NoInfo
         /\ Recorded \subseteq Nodes
<1> DEFINE L == Len(env.parts)
<1>1. /\ L \in Nat /\ \A i \in 1..L : env.parts[i].id \in Ids /\ env.parts[i].id = i - 1
  BY Typed, EnvTyped DEF Base1, Copy, Numbered
<1>2. L <= MaxNodes
  <2>1. CASE L > 0
    <3>1. L \in 1..L
      BY <1>1, <2>1
    <3>2. L - 1 \in Ids
      BY <1>1, <3>1
    <3> QED BY <1>1, <3>2, Constants DEF Ids
  <2>2. CASE L = 0
    BY <2>2, Constants
  <2> QED BY <1>1, <2>1, <2>2
<1>3. ASSUME NEW n \in Ids
      PROVE  n \in Recorded <=> n < L
  <2>1. n \in Nat /\ n # Boot
    BY Constants
  <2>2. n \in Recorded <=> \E i \in 1..L : n = env.parts[i].id
    BY <2>1 DEF Recorded
  <2>3. n < L => n + 1 \in 1..L /\ n = env.parts[n + 1].id
    BY <1>1, <2>1
  <2>4. \A i \in 1..L : n = env.parts[i].id => n < L
    BY <1>1, <2>1
  <2> QED BY <2>2, <2>3, <2>4
<1>4. Boot \in Recorded <=> env.boot # NoInfo
  BY <1>1, Constants DEF Recorded
<1>5. Recorded \subseteq Nodes
  BY <1>1, Constants DEF Recorded
<1> QED BY <1>1, <1>2, <1>3, <1>4, <1>5

(* A search finds a container that runs and whose name matches, or nothing. *)
LEMMA FoundTyped ==
  ASSUME TypeOK, NEW n
  PROVE  \/ FoundPg(n) = Nobody
         \/ FoundPg(n) \in Nodes /\ NamePrefix(n, FoundPg(n)) /\ pg[FoundPg(n)].up
<1> DEFINE matches == {m \in Nodes : NamePrefix(n, m) /\ pg[m].up}
           ages == {pg[m].db : m \in matches}
<1>1. CASE matches = {}
  BY <1>1 DEF FoundPg
<1>2. CASE matches # {}
  <2>1. ages \in SUBSET Nat /\ ages # {}
    BY <1>2, Typed, Constants
  <2>2. PICK a \in ages : \A b \in ages : a <= b
    <3> HIDE DEF ages
    <3> QED BY <2>1, LeastNat
  <2>3. \E m \in matches : \A o \in matches : pg[m].db <= pg[o].db
    BY <2>2
  <2>4. FoundPg(n) \in matches
    BY <1>2, <2>3 DEF FoundPg
  <2> QED BY <2>4
<1> QED BY <1>1, <1>2
-----------------------------------------------------------------------------
(* A step at the command's node leaves it there, with its copy. *)
SameWork == /\ cmd'.op = cmd.op /\ cmd'.node = cmd.node /\ cmd'.left = cmd.left
            /\ cmd'.env = cmd.env /\ env' = env
            /\ cmd.pc \notin {"idle", "write"} /\ cmd'.pc \notin {"idle", "write"}
            /\ cmd.op = "remove" <=> cmd'.pc \in {"removeCl", "removePg"}

LEMMA WorkKept ==
  ASSUME Base1, SameWork
  PROVE  Where' /\ Copy'
<1>1. Where'
  BY DEF Base1, Where, SameWork, Makes, Recorded
<1>2. Copy'
  BY DEF Base1, Copy, SameWork, Numbered
<1> QED BY <1>1, <1>2

LEMMA DatabasesKept ==
  ASSUME Base1, SameWork, UNCHANGED created, cmd'.pc # "startPg",
         cmd'.pc \in NotMadeYet => cmd.pc \in NotMadeYet,
         \A n \in Nodes : pg'[n].up => pg'[n].db # 0
  PROVE  Databases'
<1>1. created \in Nat /\ cmd.left \in Nat /\ MaxDatabases \in Nat
  BY Typed, Constants DEF Base1, Command
<1>2. Makes(cmd.op) =>
        created + cmd.left <= MaxDatabases + (IF cmd'.pc \in NotMadeYet THEN 0 ELSE 1)
  BY <1>1 DEF Base1, Databases
<1> QED BY <1>2 DEF Databases, SameWork, Makes

LEMMA GotoTyped ==
  ASSUME TypeOK, NEW pc \in Pcs, Goto(pc)
  PROVE  /\ cmd' \in Command /\ cmd'.op = cmd.op /\ cmd'.node = cmd.node
         /\ cmd'.left = cmd.left /\ cmd'.env = cmd.env /\ cmd'.pc = pc
         /\ cmd'.pgFound = cmd.pgFound /\ cmd'.clFound = cmd.clFound
BY Typed DEF Goto, Command

(* The node that a command works on is one. *)
LEMMA AtNode ==
  ASSUME Base1, cmd.pc # "idle"
  PROVE  cmd.op \in {"add", "reset", "bootstrap", "remove"} /\ cmd.node \in Nodes
<1>1. cmd.op \in {"add", "reset", "bootstrap", "remove"}
  BY Typed DEF Base1, Where, Command, Commands
<1> QED BY <1>1, Constants, RecordedNumbers DEF Base1, Where

LEMMA ListBase ==
  ASSUME Base1, List
  PROVE  Base1' /\ SameWork
<1> DEFINE next == IF cmd.op = "remove" THEN "removeCl" ELSE "dropPg"
<1>1. next \in Pcs /\ FoundPg(cmd.node) \in Nodes \cup {Nobody} /\ FoundCl(cmd.node) \in BOOLEAN
  BY FoundTyped DEF Pcs, FoundCl, Base1
<1>2. /\ cmd' \in Command /\ cmd'.op = cmd.op /\ cmd'.node = cmd.node /\ cmd'.left = cmd.left
      /\ cmd'.env = cmd.env /\ cmd'.pc = next
  BY <1>1, Typed DEF List, Command, Base1
<1>3. cmd.pc = "list" /\ UNCHANGED <<pg, cl, created, env, failed, stopped, lost>>
  BY DEF List, docker, ghosts
<1>4. TypeOK'
  BY <1>2, <1>3 DEF Base1, TypeOK, Command
<1>5. SameWork
  BY <1>2, <1>3 DEF SameWork
<1>6. Databases'
  BY <1>2, <1>3, <1>5, DatabasesKept DEF Base1, Databases, NotMadeYet
<1> QED BY <1>4, <1>5, <1>6, WorkKept DEF Base1

(* Removing one postgres container, or none. *)
LEMMA DropPgBase ==
  ASSUME Base1, DropPg
  PROVE  Base1' /\ SameWork
<1> DEFINE drop == WithReset(cmd) /\ cmd.pgFound # Nobody
           found == IF drop THEN Nobody ELSE cmd.pgFound
<1>1. "makePg" \in Pcs /\ found \in Nodes \cup {Nobody}
  BY Typed DEF Pcs, Command, Base1
<1>2. cmd' = [cmd EXCEPT !.pc = "makePg", !.pgFound = found]
  BY DEF DropPg
<1> HIDE DEF found
<1>3. /\ cmd' \in Command /\ cmd'.op = cmd.op /\ cmd'.node = cmd.node /\ cmd'.left = cmd.left
      /\ cmd'.env = cmd.env /\ cmd'.pc = "makePg"
  BY <1>1, <1>2, Typed DEF Command, Base1
<1>4. cmd.pc = "dropPg" /\ UNCHANGED <<cl, created, env, failed, stopped, lost>>
  BY DEF DropPg, ghosts
<1>5. /\ pg' \in [Nodes -> [db : Gens, up : BOOLEAN]]
      /\ \A n \in Nodes : pg'[n] = pg[n] \/ pg'[n] = NoPg
  <2>1. NoPg \in [db : Gens, up : BOOLEAN]
    BY Constants DEF NoPg
  <2> QED BY <2>1 DEF DropPg, Base1, TypeOK
<1>6. TypeOK'
  BY <1>3, <1>4, <1>5 DEF Base1, TypeOK, Command
<1>7. SameWork
  BY <1>3, <1>4 DEF SameWork, Base1, Where, Makes
<1>8. Databases'
  <2>1. \A n \in Nodes : pg'[n].up => pg'[n].db # 0
    BY <1>5 DEF Base1, Databases, NoPg
  <2> QED BY <1>3, <1>4, <1>7, <2>1, DatabasesKept DEF NotMadeYet
<1> QED BY <1>6, <1>7, <1>8, WorkKept DEF Base1

(* Steps that only go on. *)
LEMMA GoOnBase ==
  ASSUME Base1, KeepPg \/ KeepCl \/ Ready
  PROVE  Base1' /\ SameWork
<1>1. PICK pc \in {"dropCl", "await", "register"} : Goto(pc)
  BY DEF KeepPg, KeepCl, Ready
<1>2. pc \in Pcs
  BY DEF Pcs
<1>3. /\ cmd' \in Command /\ cmd'.op = cmd.op /\ cmd'.node = cmd.node /\ cmd'.left = cmd.left
      /\ cmd'.env = cmd.env /\ cmd'.pc = pc
  BY <1>1, <1>2, GotoTyped DEF Base1
<1>4. cmd.pc \in {"makePg", "makeCl", "await"} /\ UNCHANGED <<pg, cl, created, env, failed, stopped, lost>>
  BY DEF KeepPg, KeepCl, Ready, docker, ghosts
<1>5. TypeOK'
  BY <1>3, <1>4 DEF Base1, TypeOK, Command
<1>6. SameWork
  BY <1>3, <1>4 DEF SameWork, Base1, Where, Makes
<1>7. Databases'
  BY <1>3, <1>4, <1>6, DatabasesKept DEF Base1, Databases, NotMadeYet
<1> QED BY <1>5, <1>6, <1>7, WorkKept DEF Base1

LEMMA MakePgBase ==
  ASSUME Base1, MakePg
  PROVE  Base1' /\ SameWork
<1>1. "startPg" \in Pcs /\ Goto("startPg")
  BY DEF MakePg, Pcs
<1>2. /\ cmd' \in Command /\ cmd'.op = cmd.op /\ cmd'.node = cmd.node /\ cmd'.left = cmd.left
      /\ cmd'.env = cmd.env /\ cmd'.pc = "startPg"
  BY <1>1, GotoTyped DEF Base1
<1>3. /\ cmd.pc = "makePg" /\ UNCHANGED <<cl, env, failed, stopped, lost>> /\ created' = created + 1
      /\ pg[cmd.node] = NoPg /\ cmd.node \in Nodes /\ Makes(cmd.op)
  BY AtNode DEF MakePg, ghosts, Base1, Where, Makes
<1>4. created' \in Gens /\ created' # 0 /\ created' + cmd.left <= MaxDatabases + 1
  <2>1. created \in Nat /\ cmd.left \in Nat /\ MaxDatabases \in Nat /\ cmd.left >= 1
    BY <1>3, Typed, Constants DEF Base1, Command, Where
  <2>2. created + cmd.left <= MaxDatabases
    BY <1>3, <2>1 DEF Base1, Databases, NotMadeYet
  <2> QED BY <1>3, <2>1, <2>2 DEF Gens
<1>5. /\ pg' \in [Nodes -> [db : Gens, up : BOOLEAN]] /\ pg'[cmd.node].db = created'
      /\ ~pg'[cmd.node].up /\ \A n \in Nodes : n # cmd.node => pg'[n] = pg[n]
  <2>1. ~pg[cmd.node].up
    BY <1>3 DEF NoPg
  <2>2. pg \in [Nodes -> [db : Gens, up : BOOLEAN]] /\ pg' = [pg EXCEPT ![cmd.node].db = created']
    BY DEF MakePg, Base1, TypeOK
  <2> QED BY <1>3, <1>4, <2>1, <2>2
<1>6. TypeOK'
  BY <1>2, <1>3, <1>4, <1>5 DEF Base1, TypeOK, Command
<1>7. SameWork
  BY <1>2, <1>3 DEF SameWork, Base1, Where, Makes
<1>8. Databases'
  <2>1. \A n \in Nodes : pg'[n].up => pg'[n].db # 0
    BY <1>4, <1>5 DEF Base1, Databases
  <2>2. pg'[cmd'.node].db # 0
    BY <1>2, <1>4, <1>5
  <2> QED BY <1>2, <1>4, <2>1, <2>2 DEF Databases, NotMadeYet
<1> QED BY <1>6, <1>7, <1>8, WorkKept DEF Base1

LEMMA StartPgBase ==
  ASSUME Base1, StartPg
  PROVE  Base1' /\ SameWork
<1>1. "dropCl" \in Pcs /\ Goto("dropCl")
  BY DEF StartPg, Pcs
<1>2. /\ cmd' \in Command /\ cmd'.op = cmd.op /\ cmd'.node = cmd.node /\ cmd'.left = cmd.left
      /\ cmd'.env = cmd.env /\ cmd'.pc = "dropCl"
  BY <1>1, GotoTyped DEF Base1
<1>3. /\ cmd.pc = "startPg" /\ UNCHANGED <<cl, created, env, failed, stopped, lost>>
      /\ cmd.node \in Nodes
  BY AtNode DEF StartPg, ghosts
<1>4. /\ pg' \in [Nodes -> [db : Gens, up : BOOLEAN]] /\ pg'[cmd.node].db = pg[cmd.node].db
      /\ \A n \in Nodes : n # cmd.node => pg'[n] = pg[n]
  BY <1>3 DEF StartPg, Base1, TypeOK
<1>5. TypeOK'
  BY <1>2, <1>3, <1>4 DEF Base1, TypeOK, Command
<1>6. SameWork
  BY <1>2, <1>3 DEF SameWork, Base1, Where, Makes
<1>7. Databases'
  <2>1. \A n \in Nodes : pg'[n].up => pg'[n].db # 0
    BY <1>3, <1>4 DEF Base1, Databases
  <2> QED BY <1>2, <1>3, <1>6, <2>1, DatabasesKept DEF NotMadeYet
<1> QED BY <1>5, <1>6, <1>7, WorkKept DEF Base1

(* Steps on the chainlink container of the node. *)
LEMMA ContainerBase ==
  ASSUME Base1, DropCl \/ MakeCl \/ StartCl \/ RemoveCl
  PROVE  Base1' /\ SameWork
<1>1. PICK pc \in {"makeCl", "startCl", "await", "removePg"} :
        /\ cmd' \in Command /\ cmd'.op = cmd.op /\ cmd'.node = cmd.node /\ cmd'.left = cmd.left
        /\ cmd'.env = cmd.env /\ cmd'.pc = pc /\ (pc = "removePg" <=> cmd.pc = "removeCl")
  <2>1. CASE DropCl
    <3>1. "makeCl" \in Pcs
      BY DEF Pcs
    <3>2. /\ cmd' \in Command /\ cmd'.op = cmd.op /\ cmd'.node = cmd.node
          /\ cmd'.left = cmd.left /\ cmd'.env = cmd.env /\ cmd'.pc = "makeCl"
      <4> DEFINE found == cmd.clFound /\ ~(WithReset(cmd) /\ cmd.clFound)
      <4>1. cmd' = [cmd EXCEPT !.pc = "makeCl", !.clFound = found] /\ found \in BOOLEAN
        BY <2>1 DEF DropCl
      <4> HIDE DEF found
      <4> QED BY <3>1, <4>1, Typed DEF Command, Base1
    <3> QED BY <2>1, <3>2 DEF DropCl
  <2>2. CASE MakeCl \/ StartCl \/ RemoveCl
    <3>1. PICK pc \in {"startCl", "await", "removePg"} : Goto(pc) /\ (pc = "removePg" <=> cmd.pc = "removeCl")
      BY <2>2 DEF MakeCl, StartCl, RemoveCl
    <3>2. pc \in Pcs
      BY DEF Pcs
    <3> QED BY <3>1, <3>2, GotoTyped DEF Base1
  <2> QED BY <2>1, <2>2
<1>2. /\ cmd.pc \in {"dropCl", "makeCl", "startCl", "removeCl"}
      /\ UNCHANGED <<pg, created, env, failed, stopped, lost>>
  BY DEF DropCl, MakeCl, StartCl, RemoveCl, ghosts
<1>3. cl' \in [Nodes -> {"absent", "created", "up"}]
  BY DEF DropCl, MakeCl, StartCl, RemoveCl, Base1, TypeOK
<1>4. TypeOK'
  BY <1>1, <1>2, <1>3 DEF Base1, TypeOK, Command
<1>5. SameWork
  <2>1. cmd.op = "remove" <=> cmd.pc = "removeCl"
    BY <1>2, AtNode DEF Base1, Where, Makes
  <2> QED BY <1>1, <1>2, <2>1 DEF SameWork
<1>6. Databases'
  BY <1>1, <1>2, <1>5, DatabasesKept DEF Base1, Databases, NotMadeYet
<1> QED BY <1>4, <1>5, <1>6, WorkKept DEF Base1
-----------------------------------------------------------------------------
(* A command that ends with an error leaves everything as it is. *)
LEMMA AbortBase ==
  ASSUME Base1, cmd.pc # "idle", Abort
  PROVE  Base1'
<1>1. /\ cmd' = Idle /\ UNCHANGED <<pg, cl, created, env, stopped, lost>>
      /\ failed' = failed \cup Touched(cmd)
  BY DEF Abort, docker
<1>2. Touched(cmd) \subseteq Nodes
  BY AtNode, RecordedNumbers, Constants DEF Touched
<1>3. TypeOK'
  BY <1>1, <1>2, IdleTyped DEF Base1, TypeOK, Command
<1>4. Where'
  BY <1>1, IdleTyped DEF Where, Makes
<1>5. Copy'
  BY <1>1, IdleTyped DEF Copy, Base1, Numbered
<1>6. Databases'
  BY <1>1, IdleTyped DEF Databases, Base1, Makes
<1> QED BY <1>3, <1>4, <1>5, <1>6 DEF Base1

LEMMA BeginBase ==
  ASSUME Base1, NEW op \in {"add", "reset", "bootstrap", "remove"}, NEW n \in Nodes, NEW left \in Nat,
         Begin(op, n, left), left >= 1, op # "add" => left = 1,
         op # "remove" => created + left <= MaxDatabases,
         op = "add" => n = Len(env.parts) /\ n + left <= MaxNodes,
         op = "reset" => n \in Ids /\ n < Len(env.parts), op = "bootstrap" => n = Boot,
         op = "remove" => n \in Recorded
  PROVE  Base1'
<1>1. /\ cmd' = [Idle EXCEPT !.op = op, !.pc = "list", !.node = n, !.left = left, !.env = env]
      /\ UNCHANGED <<pg, cl, created, env, failed, stopped, lost>>
  BY DEF Begin, docker, ghosts
<1>2. op \in Commands /\ "list" \in Pcs /\ left \in 0..MaxNodes
  BY Constants, RecordedNumbers DEF Commands, Pcs
<1>3. /\ cmd' \in Command /\ cmd'.op = op /\ cmd'.pc = "list" /\ cmd'.node = n /\ cmd'.left = left
      /\ cmd'.env = env
  BY <1>1, <1>2, IdleTyped, Typed DEF Command, Base1
<1>4. TypeOK'
  BY <1>1, <1>3 DEF Base1, TypeOK, Command
<1>5. op = "add" => n \in Ids /\ Len(env.parts) <= n
  BY RecordedNumbers, Constants DEF Ids
<1>6. Where'
  BY <1>1, <1>3, <1>5 DEF Where, Makes, Recorded
<1>7. Copy'
  BY <1>1, <1>3 DEF Base1, Copy, Numbered
<1>8. Databases'
  <2>1. op # "remove" => created + left <= MaxDatabases + 0
    BY Constants, Typed DEF Base1
  <2> QED BY <1>1, <1>3, <2>1 DEF Base1, Databases, NotMadeYet, Makes
<1> QED BY <1>4, <1>6, <1>7, <1>8 DEF Base1

LEMMA StartBase ==
  ASSUME Base1, \/ \E count \in Counts : StartAdd(count)
                \/ \E i \in 1..Len(env.parts) : StartReset(i)
                \/ StartBootstrap \/ StartRemove
  PROVE  Base1'
<1>1. /\ Len(env.parts) \in Nat /\ created \in Nat /\ MaxDatabases \in Nat
      /\ \A i \in 1..Len(env.parts) : env.parts[i].id \in Ids /\ env.parts[i].id = i - 1
  BY Typed, EnvTyped, Constants DEF Base1, Copy, Numbered
<1>2. ASSUME NEW count \in Counts, StartAdd(count)
      PROVE  Base1'
  <2>1. count \in Nat /\ count >= 1
    BY Constants
  <2>2. Len(env.parts) \in Ids
    BY <1>1, <1>2, <2>1, Constants DEF StartAdd, Ids
  <2> QED BY <1>2, <2>1, <2>2, BeginBase, Constants DEF StartAdd
<1>3. ASSUME NEW i \in 1..Len(env.parts), StartReset(i)
      PROVE  Base1'
  <2>1. /\ env.parts[i].id \in Ids /\ env.parts[i].id \in Nodes /\ env.parts[i].id < Len(env.parts)
        /\ created + 1 <= MaxDatabases
    BY <1>1, <1>3, Constants DEF StartReset
  <2> QED BY <1>3, <2>1, BeginBase DEF StartReset
<1>4. CASE StartBootstrap
  <2>1. created + 1 <= MaxDatabases
    BY <1>1, <1>4 DEF StartBootstrap
  <2> QED BY <1>4, <2>1, BeginBase, Constants DEF StartBootstrap
<1>5. CASE StartRemove
  <2> DEFINE n == IF env.parts # <<>> THEN env.parts[1].id ELSE Boot
  <2>1. n \in Recorded
    <3>1. CASE env.parts # <<>>
      <4>1. 1 \in 1..Len(env.parts)
        BY <1>1, <3>1, Typed, EnvTyped, EmptySeq DEF Base1
      <4> QED BY <3>1, <4>1 DEF Recorded
    <3>2. CASE env.parts = <<>>
      BY <1>5, <3>2 DEF StartRemove, Recorded
    <3> QED BY <3>1, <3>2
  <2>2. n \in Nodes /\ Begin("remove", n, 1)
    BY <1>5, <2>1, RecordedNumbers DEF StartRemove
  <2> HIDE DEF n
  <2> QED BY <2>1, <2>2, BeginBase
<1> QED BY <1>2, <1>3, <1>4, <1>5
-----------------------------------------------------------------------------
(* The copy after a node's keys are recorded in it. *)
Noted == Recording(cmd.env, cmd, pg[cmd.node].db)
Note == [id |-> cmd.node, keys |-> pg[cmd.node].db]

LEMMA NotedAdd ==
  ASSUME Base1, cmd.op = "add", cmd.pc # "write"
  PROVE  /\ Noted \in Envs /\ Numbered(Noted) /\ Noted.boot = cmd.env.boot
         /\ Len(Noted.parts) = cmd.node + 1 /\ cmd.node \in Ids
         /\ \A i \in 1..cmd.node : Noted.parts[i] = cmd.env.parts[i]
         /\ Noted.parts[cmd.node + 1] = Note
<1>1. /\ cmd.env \in Envs /\ cmd.env.parts \in Seq(Info) /\ Len(cmd.env.parts) = cmd.node
      /\ cmd.node \in Ids /\ cmd.node \in Nat /\ Numbered(cmd.env) /\ cmd.env.boot \in Gens
  BY Typed, EnvTyped, Constants DEF Base1, Copy, Where
<1>2. Note \in Info /\ Note.id = cmd.node
  BY <1>1, Typed, Constants DEF Note, Info, Base1
<1>3. Noted = [cmd.env EXCEPT !.parts = Append(cmd.env.parts, Note)]
  BY DEF Noted, Recording, Note
<1>4. /\ Append(cmd.env.parts, Note) \in Seq(Info)
      /\ Len(Append(cmd.env.parts, Note)) = cmd.node + 1
      /\ \A i \in 1..cmd.node : Append(cmd.env.parts, Note)[i] = cmd.env.parts[i]
      /\ Append(cmd.env.parts, Note)[cmd.node + 1] = Note
  BY <1>1, <1>2, AppendProperties
<1>5. /\ Noted \in Envs /\ Noted.boot = cmd.env.boot
      /\ Noted.parts = Append(cmd.env.parts, Note)
  BY <1>1, <1>3, <1>4 DEF Envs
<1>6. Numbered(Noted)
  BY <1>1, <1>2, <1>4, <1>5 DEF Numbered
<1> QED BY <1>1, <1>4, <1>5, <1>6

LEMMA NotedReset ==
  ASSUME Base1, cmd.op = "reset", cmd.pc # "write"
  PROVE  /\ Noted \in Envs /\ Numbered(Noted) /\ Noted.boot = env.boot
         /\ Len(Noted.parts) = Len(env.parts) /\ cmd.node \in Ids /\ cmd.node < Len(env.parts)
         /\ \A i \in 1..Len(env.parts) : i # cmd.node + 1 => Noted.parts[i] = env.parts[i]
         /\ Noted.parts[cmd.node + 1] = Note
<1> DEFINE L == Len(env.parts)
           parts == [i \in 1..L |-> IF env.parts[i].id = cmd.node THEN Note ELSE env.parts[i]]
<1>1. /\ cmd.env = env /\ env \in Envs /\ L \in Nat /\ cmd.node \in Ids /\ cmd.node \in Nat
      /\ cmd.node < L /\ Numbered(env) /\ env.boot \in Gens
      /\ \A i \in 1..L : env.parts[i] \in Info
  BY Typed, EnvTyped, Constants DEF Base1, Copy, Where
<1>2. Note \in Info /\ Note.id = cmd.node
  BY <1>1, Typed, Constants DEF Note, Info, Base1
<1>3. Noted = [env EXCEPT !.parts = parts]
  BY <1>1 DEF Noted, Recording, Note
<1>4. parts \in Seq(Info) /\ Len(parts) = L
  <2>1. parts \in [1..L -> Info]
    BY <1>1, <1>2
  <2> HIDE DEF parts, L
  <2> QED BY <1>1, <2>1, SegmentSeq
<1>5. \A i \in 1..L : (i = cmd.node + 1 => parts[i] = Note)
                      /\ (i # cmd.node + 1 => parts[i] = env.parts[i])
  BY <1>1 DEF Numbered
<1> HIDE DEF parts
<1>6. Noted \in Envs /\ Noted.boot = env.boot /\ Noted.parts = parts
  BY <1>1, <1>3, <1>4 DEF Envs
<1>7. Numbered(Noted)
  BY <1>1, <1>2, <1>4, <1>5, <1>6 DEF Numbered
<1>8. cmd.node + 1 \in 1..L
  BY <1>1
<1> QED BY <1>1, <1>4, <1>5, <1>6, <1>7, <1>8

LEMMA NotedBootstrap ==
  ASSUME Base1, cmd.op = "bootstrap", cmd.pc # "write"
  PROVE  /\ Noted \in Envs /\ Numbered(Noted) /\ Noted.parts = env.parts
         /\ Noted.boot = pg[Boot].db
<1>1. /\ cmd.env = env /\ env \in Envs /\ cmd.node = Boot /\ Numbered(env) /\ pg[Boot].db \in Gens
  BY Typed, Constants DEF Base1, Copy, Where
<1>2. Noted = [env EXCEPT !.boot = pg[Boot].db]
  BY <1>1 DEF Noted, Recording
<1>3. Noted \in Envs /\ Noted.parts = env.parts /\ Noted.boot = pg[Boot].db
  BY <1>1, <1>2 DEF Envs
<1> QED BY <1>1, <1>3 DEF Numbered

LEMMA RegisterBase ==
  ASSUME Base1, Register
  PROVE  Base1'
<1>1. /\ cmd.pc = "register" /\ Makes(cmd.op) /\ cmd.node \in Nodes /\ Healthy(cmd.node)
      /\ UNCHANGED <<pg, cl, created, env, failed, stopped, lost>>
  BY AtNode DEF Register, docker, ghosts, Base1, Where, Makes
<1>2. Noted \in Envs /\ Numbered(Noted)
  BY <1>1, NotedAdd, NotedReset, NotedBootstrap DEF Makes
<1>3. /\ created \in Nat /\ MaxDatabases \in Nat /\ MaxNodes \in Nat /\ cmd.left \in Nat
      /\ cmd.left <= MaxNodes /\ Len(env.parts) \in Nat /\ cmd \in Command
      /\ created + cmd.left <= MaxDatabases + 1
  BY <1>1, Typed, EnvTyped, Constants DEF Base1, Command, Databases, NotMadeYet
<1>4. CASE cmd.left > 1
  <2>1. cmd.op = "add" /\ cmd.node \in Ids /\ cmd.node \in Nat /\ cmd.node + 1 \in Ids
        /\ cmd.node + cmd.left <= MaxNodes /\ Len(env.parts) <= cmd.node
    BY <1>1, <1>3, <1>4, Constants DEF Base1, Where, Makes, Ids
  <2>2. cmd' = [cmd EXCEPT !.env = Noted, !.left = cmd.left - 1, !.node = cmd.node + 1,
                           !.pc = "list"]
    BY <1>4 DEF Register, Noted
  <2>3. cmd.left - 1 \in 0..MaxNodes /\ "list" \in Pcs /\ cmd.node + 1 \in Nodes
    BY <1>3, <1>4, <2>1, Constants DEF Pcs
  <2>4. /\ cmd' \in Command /\ cmd'.op = "add" /\ cmd'.pc = "list" /\ cmd'.env = Noted
        /\ cmd'.left = cmd.left - 1 /\ cmd'.node = cmd.node + 1
    BY <1>2, <1>3, <2>1, <2>2, <2>3 DEF Command
  <2>5. TypeOK'
    BY <1>1, <2>4 DEF Base1, TypeOK, Command
  <2>6. Where'
    BY <1>1, <1>3, <1>4, <2>1, <2>4 DEF Where, Makes
  <2>7. Copy'
    <3>1. /\ Noted.boot = env.boot /\ Len(Noted.parts) = cmd.node + 1
          /\ \A i \in 1..cmd.node : Noted.parts[i] = cmd.env.parts[i]
          /\ \A i \in 1..Len(env.parts) : cmd.env.parts[i] = env.parts[i]
      BY <1>1, <2>1, NotedAdd DEF Base1, Copy
    <3>2. \A i \in 1..Len(env.parts) : i \in 1..cmd.node
      BY <1>3, <2>1
    <3>3. \A i \in 1..Len(env.parts) : Noted.parts[i] = env.parts[i]
      BY <3>1, <3>2
    <3> QED BY <1>1, <1>2, <2>4, <3>1, <3>3 DEF Base1, Copy, Numbered
  <2>8. Databases'
    BY <1>1, <1>3, <2>4 DEF Base1, Databases, NotMadeYet, Makes
  <2> QED BY <2>5, <2>6, <2>7, <2>8 DEF Base1
<1>5. CASE ~(cmd.left > 1)
  <2>1. cmd' = [cmd EXCEPT !.env = Noted, !.pc = "write"]
    BY <1>5 DEF Register, Noted
  <2>2. /\ cmd' \in Command /\ cmd'.op = cmd.op /\ cmd'.pc = "write" /\ cmd'.env = Noted
        /\ cmd'.left = cmd.left /\ cmd'.node = cmd.node
    BY <1>2, <1>3, <2>1 DEF Command, Pcs
  <2>3. TypeOK'
    BY <1>1, <2>2 DEF Base1, TypeOK, Command
  <2>4. Where'
    BY <1>1, <2>2 DEF Base1, Where, Makes, Recorded
  <2>5. Copy'
    <3>1. CASE cmd.op = "add"
      <4>1. /\ Noted.boot = env.boot /\ Len(Noted.parts) = cmd.node + 1
            /\ \A i \in 1..cmd.node : Noted.parts[i] = cmd.env.parts[i]
            /\ \A i \in 1..Len(env.parts) : cmd.env.parts[i] = env.parts[i]
            /\ cmd.node \in Nat /\ Len(env.parts) <= cmd.node
        BY <1>1, <3>1, NotedAdd, Constants DEF Base1, Copy, Where
      <4>2. \A i \in 1..Len(env.parts) : Noted.parts[i] = env.parts[i]
        BY <1>3, <4>1
      <4> QED BY <1>1, <1>2, <2>2, <3>1, <4>1, <4>2 DEF Base1, Copy, Numbered
    <3>2. CASE cmd.op = "reset"
      BY <1>1, <1>2, <2>2, <3>2, NotedReset DEF Base1, Copy, Numbered
    <3>3. CASE cmd.op = "bootstrap"
      <4>1. pg[Boot].db # NoInfo
        BY <1>1, <3>3, Constants DEF Base1, Where, Databases, Healthy, NoInfo
      <4> QED BY <1>1, <1>2, <2>2, <3>3, <4>1, NotedBootstrap DEF Base1, Copy, Numbered
    <3> QED BY <1>1, <3>1, <3>2, <3>3 DEF Makes
  <2>6. Databases'
    BY <1>1, <1>3, <2>2 DEF Base1, Databases, NotMadeYet, Makes
  <2> QED BY <2>3, <2>4, <2>5, <2>6 DEF Base1
<1> QED BY <1>4, <1>5
-----------------------------------------------------------------------------
(* The participant after the one removed is the next number. *)
LEMMA NextRemoved ==
  ASSUME Base1, cmd.pc = "removePg", cmd.node # Boot
  PROVE  /\ cmd.env = env /\ cmd.node \in Ids /\ cmd.node < Len(env.parts) /\ At(cmd) = cmd.node + 1
         /\ Len(env.parts) \in Nat
         /\ \A i \in 1..Len(env.parts) : env.parts[i].id = i - 1
<1>1. /\ cmd.op = "remove" /\ cmd.env = env /\ cmd.node \in Recorded
  BY AtNode DEF Base1, Where, Copy, Makes
<1>2. /\ cmd.node \in Ids /\ cmd.node < Len(env.parts) /\ Len(env.parts) \in Nat /\ cmd.node \in Nat
  BY <1>1, RecordedNumbers, Constants DEF Nodes
<1>3. \A i \in 1..Len(env.parts) : env.parts[i].id = i - 1
  BY DEF Base1, Copy, Numbered
<1>4. cmd.node + 1 \in 1..Len(env.parts) /\ env.parts[cmd.node + 1].id = cmd.node
  BY <1>2, <1>3
<1>5. \A i \in 1..Len(env.parts) : env.parts[i].id = cmd.node => i = cmd.node + 1
  BY <1>2, <1>3
<1>6. At(cmd) = cmd.node + 1
  BY <1>1, <1>4, <1>5 DEF At
<1> QED BY <1>1, <1>2, <1>3, <1>6

(* A remove goes on with the next participant, with the bootstrap, or ends.  *)
LEMMA RemovalGoesOn ==
  ASSUME Base1, RemovePg
  PROVE  /\ cmd' \in Command /\ cmd'.op = "remove" /\ cmd'.left = 1 /\ cmd.env = env
         /\ \/ /\ cmd'.pc = "list" /\ cmd'.env = env /\ cmd.node \in Ids
               /\ cmd'.node = cmd.node + 1 /\ cmd'.node \in Ids /\ cmd'.node < Len(env.parts)
            \/ /\ cmd'.pc = "list" /\ cmd'.env = env /\ cmd.node \in Ids
               /\ cmd'.node = Boot /\ env.boot # NoInfo /\ Len(env.parts) <= cmd.node + 1
            \/ /\ cmd'.pc = "write" /\ cmd'.env = Blank
               /\ cmd'.node = cmd.node
               /\ \/ cmd.node = Boot
                  \/ cmd.node \in Ids /\ env.boot = NoInfo /\ Len(env.parts) <= cmd.node + 1
<1>1. /\ cmd.pc = "removePg" /\ cmd.op = "remove" /\ cmd' = AfterRemoval(cmd) /\ cmd \in Command
      /\ cmd.left = 1 /\ cmd.env = env /\ cmd.node \in Nodes
  BY AtNode, Typed DEF RemovePg, Base1, Where, Copy, Makes
<1>2. "list" \in Pcs /\ "write" \in Pcs /\ Blank \in Envs
  BY NoNodes DEF Pcs
<1>3. CASE cmd.node # Boot /\ At(cmd) < Len(cmd.env.parts)
  <2>1. /\ cmd.node \in Ids /\ cmd.node \in Nat /\ At(cmd) = cmd.node + 1 /\ Len(env.parts) \in Nat
        /\ cmd.node + 2 \in 1..Len(env.parts) /\ env.parts[cmd.node + 2].id = cmd.node + 1
        /\ env.parts[cmd.node + 2].id \in Ids /\ cmd.node + 1 < Len(env.parts)
    <3>1. /\ cmd.node \in Ids /\ cmd.node \in Nat /\ At(cmd) = cmd.node + 1 /\ Len(env.parts) \in Nat
          /\ cmd.node + 1 < Len(env.parts)
      BY <1>1, <1>3, NextRemoved, Constants
    <3>2. cmd.node + 2 \in 1..Len(env.parts)
      BY <3>1
    <3>3. env.parts[cmd.node + 2].id \in Ids
      BY <3>2, Typed, EnvTyped DEF Base1
    <3>4. env.parts[cmd.node + 2].id = (cmd.node + 2) - 1
      BY <1>1, <1>3, <3>2, NextRemoved
    <3> QED BY <3>1, <3>2, <3>3, <3>4
  <2>2. (cmd.node + 1) + 1 = cmd.node + 2
    BY <2>1
  <2>3. cmd' = [cmd EXCEPT !.node = cmd.node + 1, !.pc = "list"] /\ cmd.node + 1 \in Ids
    BY <1>1, <1>3, <2>1, <2>2 DEF AfterRemoval
  <2> QED BY <1>1, <1>2, <2>1, <2>3, Constants DEF Command
<1>4. CASE cmd.node # Boot /\ ~(At(cmd) < Len(cmd.env.parts)) /\ env.boot # NoInfo
  <2>1. cmd' = [cmd EXCEPT !.node = Boot, !.pc = "list"]
    BY <1>1, <1>4 DEF AfterRemoval
  <2>2. cmd.node \in Ids /\ Len(env.parts) <= cmd.node + 1
    <3>1. cmd.node \in Ids /\ cmd.node \in Nat /\ At(cmd) = cmd.node + 1 /\ Len(env.parts) \in Nat
      BY <1>1, <1>4, NextRemoved, Constants
    <3> QED BY <1>1, <1>4, <3>1
  <2> QED BY <1>1, <1>2, <1>4, <2>1, <2>2, Constants DEF Command
<1>5. CASE ~(cmd.node # Boot /\ At(cmd) < Len(cmd.env.parts)) /\ ~(cmd.node # Boot /\ env.boot # NoInfo)
  <2>1. cmd' = [cmd EXCEPT !.env = Blank, !.pc = "write"]
    BY <1>1, <1>5 DEF AfterRemoval
  <2>2. \/ cmd.node = Boot
        \/ cmd.node \in Ids /\ env.boot = NoInfo /\ Len(env.parts) <= cmd.node + 1
    <3>1. CASE cmd.node # Boot
      <4>1. /\ cmd.node \in Ids /\ cmd.node \in Nat /\ At(cmd) = cmd.node + 1
            /\ Len(env.parts) \in Nat
        BY <1>1, <3>1, NextRemoved, Constants
      <4> QED BY <1>1, <1>5, <3>1, <4>1
    <3> QED BY <3>1
  <2> QED BY <1>1, <1>2, <2>1, <2>2 DEF Command
<1> QED BY <1>3, <1>4, <1>5, <1>1

LEMMA RemovePgBase ==
  ASSUME Base1, RemovePg
  PROVE  Base1'
<1>1. /\ cmd' \in Command /\ cmd'.op = "remove" /\ cmd'.left = 1 /\ cmd'.pc \in {"list", "write"}
      /\ UNCHANGED <<cl, created, env, failed, stopped, lost>> /\ cmd.op = "remove"
  BY RemovalGoesOn, AtNode DEF RemovePg, ghosts, Base1, Where, Makes
<1>2. /\ pg' \in [Nodes -> [db : Gens, up : BOOLEAN]]
      /\ \A n \in Nodes : pg'[n] = pg[n] \/ pg'[n] = NoPg
  <2>1. NoPg \in [db : Gens, up : BOOLEAN]
    BY Constants DEF NoPg
  <2> QED BY <2>1 DEF RemovePg, Base1, TypeOK
<1>3. TypeOK'
  BY <1>1, <1>2 DEF Base1, TypeOK, Command
<1>4. cmd'.node \in Recorded
  BY RemovalGoesOn, RecordedNumbers, <1>1 DEF Base1, Where
<1>5. Where'
  BY <1>1, <1>4 DEF Where, Makes, Recorded
<1>6. Copy'
  <2>1. cmd'.pc # "write" => cmd'.env = env
    BY RemovalGoesOn
  <2>2. cmd'.pc = "write" => cmd'.env = Blank
    BY RemovalGoesOn
  <2>3. Numbered(env) /\ Numbered(env)' /\ Numbered(cmd'.env)
    BY <1>1, <2>1, <2>2, NoNodes DEF Base1, Copy, Numbered
  <2> QED BY <1>1, <2>1, <2>2, <2>3, NoNodes DEF Copy, Numbered
<1>7. Databases'
  BY <1>1, <1>2 DEF Base1, Databases, NoPg, Makes
<1> QED BY <1>3, <1>5, <1>6, <1>7 DEF Base1

(* The file is replaced by the command's copy. *)
LEMMA WriteBase ==
  ASSUME Base1, Write
  PROVE  Base1'
<1>1. /\ env' = cmd.env /\ cmd' = Idle /\ UNCHANGED <<pg, cl, created, stopped>>
      /\ failed' \subseteq failed /\ lost' \in [Nodes -> Gens]
  BY Constants DEF Write, docker, Base1, TypeOK, NoInfo
<1>2. TypeOK'
  BY <1>1, IdleTyped, Typed DEF Base1, TypeOK, Command
<1>3. Where' /\ Copy'
  BY <1>1, IdleTyped DEF Base1, Where, Copy, Numbered, Makes
<1>4. Databases'
  BY <1>1, IdleTyped DEF Base1, Databases, Makes
<1> QED BY <1>2, <1>3, <1>4 DEF Base1

(* The file is emptied, by config setup or by a write cut short. *)
LEMMA KnownTyped ==
  ASSUME Base1, NEW n \in Nodes
  PROVE  Known(n) \in Gens
<1>1. lost[n] \in Gens /\ env \in Envs
  BY Typed DEF Base1, TypeOK
<1>2. CASE n = Boot /\ n \in Recorded
  BY <1>1, <1>2, EnvTyped DEF Known, KeysOf
<1>3. CASE n # Boot /\ n \in Recorded
  <2>1. n \in Ids /\ n \in Nat /\ n < Len(env.parts) /\ Len(env.parts) \in Nat
    BY <1>3, RecordedNumbers, Constants DEF Nodes
  <2>2. n + 1 \in 1..Len(env.parts)
    BY <2>1
  <2>3. env.parts[n + 1] \in Info
    BY <1>1, <2>2, EnvTyped
  <2>4. env.parts[n + 1].keys \in Gens
    BY <2>3 DEF Info
  <2> QED BY <1>3, <2>4 DEF Known, KeysOf
<1> QED BY <1>1, <1>2, <1>3 DEF Known

LEMMA EmptyBase ==
  ASSUME Base1, ConfigSetup \/ WriteCutShort
  PROVE  Base1'
<1>1. /\ env' = Blank /\ UNCHANGED <<pg, cl, created, stopped>>
      /\ lost' = [n \in Nodes |-> Known(n)]
  BY DEF ConfigSetup, WriteCutShort, EmptyFile, docker
<1>2. lost' \in [Nodes -> Gens]
  BY <1>1, KnownTyped
<1>3. failed' \subseteq Nodes
  <2>1. CASE ConfigSetup
    BY <2>1 DEF ConfigSetup, Base1, TypeOK
  <2>2. CASE WriteCutShort
    <3>1. cmd.pc # "idle"
      BY <2>2 DEF WriteCutShort
    <3>2. Touched(cmd) \subseteq Nodes
      BY <3>1, AtNode, RecordedNumbers, Constants DEF Touched
    <3> QED BY <2>2, <3>2 DEF WriteCutShort, Base1, TypeOK
  <2> QED BY <2>1, <2>2
<1>4. cmd' \in Command /\ cmd'.op = "none" /\ cmd'.pc = "idle" /\ Numbered(cmd'.env)
  BY IdleTyped, Typed DEF ConfigSetup, WriteCutShort, Base1, Where, Copy
<1>5. TypeOK'
  BY <1>1, <1>2, <1>3, <1>4, NoNodes DEF Base1, TypeOK, Command
<1>6. Where' /\ Copy'
  BY <1>1, <1>4, NoNodes DEF Where, Copy, Numbered, Makes
<1>7. Databases'
  BY <1>1, <1>4 DEF Base1, Databases, Makes
<1> QED BY <1>5, <1>6, <1>7 DEF Base1

LEMMA StopsBase ==
  ASSUME Base1, NEW n \in Nodes, PgStops(n) \/ ClStops(n)
  PROVE  Base1'
<1>1. /\ UNCHANGED <<created, env, cmd, failed, lost>> /\ stopped' = stopped \cup {n}
      /\ pg' \in [Nodes -> [db : Gens, up : BOOLEAN]] /\ cl' \in [Nodes -> {"absent", "created", "up"}]
      /\ \A m \in Nodes : pg'[m].db = pg[m].db /\ (pg'[m].up => pg[m].up)
  <2>1. CASE PgStops(n)
    BY <2>1 DEF PgStops, Base1, TypeOK
  <2>2. CASE ClStops(n)
    <3>1. "created" \in {"absent", "created", "up"}
      OBVIOUS
    <3> QED BY <2>2, <3>1 DEF ClStops, Base1, TypeOK
  <2> QED BY <2>1, <2>2
<1>2. TypeOK'
  BY <1>1 DEF Base1, TypeOK
<1>3. Where' /\ Copy'
  BY <1>1 DEF Base1, Where, Copy, Numbered, Makes, Recorded
<1>4. Databases'
  <2>1. cmd.pc = "startPg" => cmd.node \in Nodes
    BY AtNode
  <2> QED BY <1>1, <2>1 DEF Base1, Databases, NotMadeYet, Makes
<1> QED BY <1>2, <1>3, <1>4 DEF Base1

LEMMA InitBase == Init => Base1
<1> SUFFICES ASSUME Init
             PROVE  Base1
  OBVIOUS
<1>1. /\ pg = [n \in Nodes |-> NoPg] /\ cl = [n \in Nodes |-> "absent"] /\ created = 0
      /\ env = Blank /\ cmd = Idle /\ failed = {} /\ stopped = {}
      /\ lost = [n \in Nodes |-> NoInfo]
  BY DEF Init
<1>2. NoPg \in [db : Gens, up : BOOLEAN] /\ ~NoPg.up
  BY Constants DEF NoPg
<1>3. TypeOK
  BY <1>1, <1>2, Constants, NoNodes, IdleTyped DEF TypeOK, Command, NoInfo
<1>4. Where /\ Copy /\ Databases
  BY <1>1, <1>2, NoNodes, IdleTyped DEF Where, Copy, Databases, Makes
<1> QED BY <1>3, <1>4 DEF Base1

(* Every step of a command, by the state it leaves. *)
LEMMA AbortSteps ==
  ASSUME Fail \/ PgNameTaken \/ ClNameTaken \/ NothingToRemove
  PROVE  Abort /\ cmd.pc # "idle"
BY DEF Fail, PgNameTaken, ClNameTaken, NothingToRemove

LEMMA BaseStep == Base1 /\ [Next]_vars => Base1'
<1> SUFFICES ASSUME Base1, [Next]_vars
             PROVE  Base1'
  OBVIOUS
<1>1. CASE \/ \E count \in Counts : StartAdd(count)
           \/ \E i \in 1..Len(env.parts) : StartReset(i)
           \/ StartBootstrap \/ StartRemove
  BY <1>1, StartBase
<1>2. CASE List \/ DropPg \/ MakePg \/ StartPg
  BY <1>2, ListBase, DropPgBase, MakePgBase, StartPgBase
<1>3. CASE KeepPg \/ KeepCl \/ Ready
  BY <1>3, GoOnBase
<1>4. CASE DropCl \/ MakeCl \/ StartCl \/ RemoveCl
  BY <1>4, ContainerBase
<1>5. CASE Fail \/ PgNameTaken \/ ClNameTaken \/ NothingToRemove
  BY <1>5, AbortSteps, AbortBase
<1>6. CASE Register \/ RemovePg \/ Write
  BY <1>6, RegisterBase, RemovePgBase, WriteBase
<1>7. ASSUME NEW n \in Nodes, PgStops(n) \/ ClStops(n)
      PROVE  Base1'
  BY <1>7, StopsBase
<1>8. CASE UNCHANGED vars
  BY <1>8 DEF vars, Base1, TypeOK, Where, Copy, Databases, Numbered, Makes, Recorded
<1>9. CASE ConfigSetup \/ WriteCutShort
  BY <1>9, EmptyBase
<1> QED BY <1>1, <1>2, <1>3, <1>4, <1>5, <1>6, <1>7, <1>8, <1>9 DEF Next, Step
-----------------------------------------------------------------------------
(* The containers, when no name is a prefix of another. *)

(* What changes no container of the nodes that are done. *)
LEMMA BuiltKept ==
  ASSUME NEW n, NEW keys, Built(n, keys), stopped' = stopped, pg'[n] = pg[n], cl'[n] = cl[n]
  PROVE  Built(n, keys)'
BY DEF Built, Healthy

(* A node is as it is known to be: the body of the property. *)
As(n) == IF Known(n) = NoInfo THEN Gone(n) ELSE Built(n, Known(n))

LEMMA AsConfigured ==
  /\ ConfigMatchesContainers <=> \A n \in Nodes \ (failed \cup Touched(cmd)) : As(n)
  /\ ConfigMatchesContainers' <=> \A n \in Nodes \ (failed' \cup Touched(cmd)') : As(n)'
BY DEF ConfigMatchesContainers, As, Built, Gone

(* What leaves a node and what is known of it alone. *)
LEMMA AsBefore ==
  ASSUME NEW n, As(n), Known(n)' = Known(n), stopped' = stopped, pg'[n] = pg[n], cl'[n] = cl[n]
  PROVE  As(n)'
BY DEF As, Built, Gone, Healthy

LEMMA KnownBefore ==
  ASSUME UNCHANGED <<env, lost>>
  PROVE  Recorded' = Recorded /\ \A n : Known(n)' = Known(n)
<1>1. Recorded' = Recorded
  BY DEF Recorded
<1>2. \A n : KeysOf(n)' = KeysOf(n)
  BY DEF KeysOf
<1> QED BY <1>1, <1>2 DEF Known

LEMMA OthersAs ==
  ASSUME ConfigMatchesContainers, stopped' = stopped, \A n \in Nodes : Known(n)' = Known(n),
         failed \cup Touched(cmd) \subseteq failed' \cup Touched(cmd)',
         \A n \in Nodes \ Touched(cmd)' : pg'[n] = pg[n] /\ cl'[n] = cl[n]
  PROVE  ConfigMatchesContainers'
<1>1. ASSUME NEW n \in Nodes \ (failed' \cup Touched(cmd)')
      PROVE  As(n)'
  <2>1. As(n)
    BY <1>1, AsConfigured
  <2> QED BY <1>1, <2>1, AsBefore
<1> QED BY <1>1, AsConfigured

(* The nodes a command has been at, by its kind. *)
LEMMA TouchedNodes ==
  ASSUME Base1, cmd.pc # "idle"
  PROVE  /\ cmd.node \in Touched(cmd) /\ Recorded \subseteq Nodes
         /\ cmd.op = "add" => Touched(cmd) = {n \in Ids : Len(env.parts) <= n /\ n <= cmd.node}
         /\ cmd.op = "remove" =>
              Touched(cmd) = {n \in Recorded : cmd.node = Boot \/ n \in 0..cmd.node}
         /\ cmd.op \in {"reset", "bootstrap"} => Touched(cmd) = {cmd.node}
<1>1. cmd.op \in {"add", "reset", "bootstrap", "remove"} /\ Recorded \subseteq Nodes
  BY AtNode, RecordedNumbers
<1>2. CASE cmd.op = "add"
  <2>1. Touched(cmd) = {n \in Ids : Len(env.parts) <= n /\ n <= cmd.node}
    BY <1>2 DEF Touched
  <2>2. cmd.node \in Ids /\ cmd.node \in Nat /\ Len(env.parts) <= cmd.node
    BY <1>2, Constants DEF Base1, Where
  <2> QED BY <1>1, <1>2, <2>1, <2>2
<1>3. CASE cmd.op = "remove"
  <2>1. Touched(cmd) = {n \in Recorded : cmd.node = Boot \/ n \in 0..cmd.node}
    BY <1>3 DEF Touched
  <2>2. cmd.node \in Recorded /\ (cmd.node = Boot \/ cmd.node \in 0..cmd.node)
    <3>1. cmd.node \in Recorded /\ (cmd.node = Boot \/ cmd.node \in Nat)
      BY <1>1, <1>3, Constants DEF Base1, Where, Nodes
    <3> QED BY <3>1
  <2> QED BY <1>1, <1>3, <2>1, <2>2
<1>4. CASE cmd.op \in {"reset", "bootstrap"}
  <2>1. Touched(cmd) = {cmd.node}
    BY <1>4 DEF Touched
  <2> QED BY <1>1, <1>4, <2>1
<1> QED BY <1>1, <1>2, <1>3, <1>4

(* A step at the command's node disturbs no other. *)
Elsewhere == \A n \in Nodes : n # cmd.node => pg'[n] = pg[n] /\ cl'[n] = cl[n]

LEMMA WorkDisturbsNone ==
  ASSUME Base1, Base1', Done, ConfigMatchesContainers, SameWork, Elsewhere,
         UNCHANGED <<failed, stopped, lost>>, cmd'.pc = "removePg" => cl'[cmd.node] = "absent"
  PROVE  Done' /\ ConfigMatchesContainers'
<1>1. Recorded' = Recorded /\ Recorded \subseteq Nodes /\ Touched(cmd)' = Touched(cmd)
  BY RecordedNumbers DEF SameWork, Recorded, Touched
<1>2. cmd.node \in Touched(cmd)
  BY TouchedNodes DEF SameWork
<1>3. \A n \in Nodes : Known(n)' = Known(n)
  BY KnownBefore DEF SameWork
<1>4. ConfigMatchesContainers'
  BY <1>1, <1>2, <1>3, OthersAs DEF Elsewhere
<1>5. Done'
  <2>1. ASSUME cmd.op = "add", NEW n \in Ids, Len(env.parts) <= n, n < Len(cmd.env.parts)
        PROVE  Built(n, cmd.env.parts[n + 1].keys)'
    <3>1. n # cmd.node
      BY <2>1, Constants DEF SameWork, Base1, Copy, Where
    <3> QED BY <2>1, <3>1, BuiltKept, Constants DEF Done, Elsewhere, SameWork
  <2>2. ASSUME cmd.op = "remove", NEW n \in Recorded, n # Boot, cmd.node = Boot \/ n < cmd.node
        PROVE  Gone(n)'
    <3>1. n # cmd.node
      <4>1. n \in Ids /\ n \in Nat
        BY <1>1, <2>2, Constants DEF Nodes
      <4> QED BY <2>2, <4>1
    <3> QED BY <1>1, <2>2, <3>1 DEF Done, Elsewhere, Gone
  <2>3. cmd'.pc = "write" => cmd.pc = "write"
    BY DEF SameWork
  <2> QED BY <1>1, <2>1, <2>2, <2>3 DEF Done, SameWork
<1> QED BY <1>4, <1>5

(* Steps at the command's node. *)
LEMMA ListParts ==
  ASSUME NamesApart, IInv, List
  PROVE  Found' /\ Elsewhere /\ UNCHANGED <<failed, stopped, lost>> /\ cmd'.pc # "removePg"
<1>1. SameWork /\ cmd.node \in Nodes
  BY ListBase, AtNode DEF IInv, List
<1>2. /\ UNCHANGED <<pg, cl, failed, stopped, lost>> /\ cmd'.pgFound = FoundPg(cmd.node)
      /\ cmd'.pc \in {"removeCl", "dropPg"}
  BY Typed DEF List, docker, ghosts, IInv, Base1, Command
<1>3. FoundPg(cmd.node) \in {Nobody, cmd.node}
  BY <1>1, FoundTyped DEF NamesApart, IInv, Base1
<1> QED BY <1>1, <1>2, <1>3 DEF Found, Elsewhere, SameWork

LEMMA DropPgParts ==
  ASSUME IInv, DropPg
  PROVE  Found' /\ Elsewhere /\ UNCHANGED <<failed, stopped, lost>> /\ cmd'.pc # "removePg"
<1>1. SameWork /\ cmd.pgFound \in {Nobody, cmd.node} /\ cmd \in Command
  BY DropPgBase, Typed DEF IInv, Base1, DropPg, Found
<1>2. cmd'.pgFound \in {Nobody, cmd.pgFound} /\ cmd'.pc = "makePg"
  BY <1>1 DEF DropPg, Command
<1>3. \A n \in Nodes : n # cmd.node => pg'[n] = pg[n]
  BY <1>1 DEF DropPg, IInv, Base1, TypeOK
<1>4. UNCHANGED <<cl, failed, stopped, lost>>
  BY DEF DropPg, ghosts
<1> QED BY <1>1, <1>2, <1>3, <1>4 DEF Found, Elsewhere, SameWork

(* Where no search result is looked at any more. *)
LEMMA OtherParts ==
  ASSUME IInv, \/ KeepPg \/ KeepCl \/ Ready \/ MakePg \/ StartPg
               \/ DropCl \/ MakeCl \/ StartCl
  PROVE  Found' /\ Elsewhere /\ UNCHANGED <<failed, stopped, lost>> /\ cmd'.pc # "removePg"
<1>1. cmd \in Command
  BY Typed DEF IInv, Base1
<1>2. cmd'.pc \in {"dropCl", "await", "register", "startPg", "makeCl", "startCl"}
  BY <1>1 DEF KeepPg, KeepCl, Ready, MakePg, StartPg, DropCl, MakeCl, StartCl, Goto, Command
<1>3. Elsewhere
  BY DEF KeepPg, KeepCl, Ready, MakePg, StartPg, DropCl, MakeCl, StartCl, docker, Elsewhere,
         IInv, Base1, TypeOK
<1>4. UNCHANGED <<failed, stopped, lost>>
  BY DEF KeepPg, KeepCl, Ready, MakePg, StartPg, DropCl, MakeCl, StartCl, ghosts
<1> QED BY <1>2, <1>3, <1>4 DEF Found

LEMMA RemoveClParts ==
  ASSUME IInv, RemoveCl
  PROVE  Found' /\ Elsewhere /\ UNCHANGED <<failed, stopped, lost>> /\ cl'[cmd.node] = "absent"
<1>1. SameWork /\ cmd.node \in Nodes /\ cmd.pgFound \in {Nobody, cmd.node} /\ cmd \in Command
  BY ContainerBase, AtNode, Typed DEF IInv, Base1, RemoveCl, Found
<1>2. cmd'.pgFound = cmd.pgFound
  BY <1>1 DEF RemoveCl, Goto, Command
<1>3. Elsewhere /\ cl'[cmd.node] = "absent" /\ UNCHANGED <<failed, stopped, lost>>
  BY <1>1 DEF RemoveCl, Elsewhere, ghosts, IInv, Base1, TypeOK
<1> QED BY <1>1, <1>2, <1>3 DEF Found, SameWork

LEMMA WorkStep ==
  ASSUME NamesApart, IInv,
         \/ List \/ DropPg \/ KeepPg \/ MakePg \/ StartPg
         \/ DropCl \/ KeepCl \/ MakeCl \/ StartCl \/ Ready \/ RemoveCl
  PROVE  IInv'
<1>1. Base1' /\ SameWork
  BY ListBase, DropPgBase, GoOnBase, MakePgBase, StartPgBase, ContainerBase DEF IInv
<1>2. /\ Found' /\ Elsewhere /\ UNCHANGED <<failed, stopped, lost>>
      /\ cmd'.pc = "removePg" => cl'[cmd.node] = "absent"
  BY ListParts, DropPgParts, OtherParts, RemoveClParts
<1> QED BY <1>1, <1>2, WorkDisturbsNone DEF IInv
-----------------------------------------------------------------------------
(* Where no command runs. *)
LEMMA NoCommand ==
  /\ Touched(Idle) = {} /\ Touched(Idle)' = {}
  /\ cmd.op = "none" => Touched(cmd) = {}
BY IdleTyped DEF Touched

LEMMA AbortStep ==
  ASSUME IInv, cmd.pc # "idle", Abort
  PROVE  IInv'
<1>1. /\ cmd' = Idle /\ UNCHANGED <<pg, cl, env, stopped, lost>>
      /\ failed' = failed \cup Touched(cmd)
  BY DEF Abort, docker
<1>2. Base1'
  BY AbortBase DEF IInv
<1>3. Found' /\ Done'
  BY <1>1, IdleTyped DEF Found, Done
<1>4. ConfigMatchesContainers'
  BY <1>1, KnownBefore, OthersAs DEF IInv
<1> QED BY <1>2, <1>3, <1>4 DEF IInv

(* A command begins before the first node it is to be at. *)
LEMMA StartStep ==
  ASSUME IInv, \/ \E count \in Counts : StartAdd(count)
               \/ \E i \in 1..Len(env.parts) : StartReset(i)
               \/ StartBootstrap \/ StartRemove
  PROVE  IInv'
<1>1. Base1'
  BY StartBase DEF IInv
<1>2. PICK op \in {"add", "reset", "bootstrap", "remove"} : \E n, left : Begin(op, n, left)
  BY DEF StartAdd, StartReset, StartBootstrap, StartRemove
<1>3. /\ UNCHANGED <<pg, cl, env, failed, stopped, lost>> /\ cmd.pc = "idle"
      /\ cmd'.op = op /\ cmd'.pc = "list" /\ cmd'.env = env
  BY <1>2 DEF Begin, docker, ghosts, Idle
<1>4. cmd'.op = "remove" => \A m \in Recorded : m # Boot => ~(cmd'.node = Boot \/ m < cmd'.node)
  <2>1. SUFFICES ASSUME cmd'.op = "remove", NEW m \in Recorded, m # Boot
                 PROVE  cmd'.node # Boot /\ ~(m < cmd'.node)
    OBVIOUS
  <2>2. StartRemove
    BY <1>2, <2>1 DEF StartRemove, StartAdd, StartReset, StartBootstrap, Begin, Idle
  <2>3. m \in Ids /\ m \in Nat /\ m < Len(env.parts) /\ Len(env.parts) \in Nat
    BY <2>1, RecordedNumbers, Constants DEF Nodes, IInv
  <2>4. env.parts # <<>> /\ env.parts[1].id = 0 /\ 0 # Boot
    BY <2>3, NoNodes, Constants DEF IInv, Base1, Copy, Numbered, Boot
  <2>5. cmd'.node = 0
    BY <2>2, <2>4 DEF StartRemove, Begin, Idle
  <2> QED BY <2>3, <2>4, <2>5
<1>5. Found'
  BY <1>3 DEF Found
<1>6. Done'
  <2>1. ASSUME NEW n \in Ids, Len(env.parts) <= n, n < Len(env.parts)
        PROVE  FALSE
    <3>1. n \in Nat /\ Len(env.parts) \in Nat
      BY RecordedNumbers, Constants DEF IInv
    <3> QED BY <2>1, <3>1
  <2>2. Recorded' = Recorded
    BY <1>3 DEF Recorded
  <2> QED BY <1>3, <1>4, <2>1, <2>2 DEF Done
<1>7. ConfigMatchesContainers'
  <2>1. Touched(cmd) = {}
    BY <1>3, NoCommand DEF IInv, Base1, Where
  <2> QED BY <1>3, <2>1, KnownBefore, OthersAs DEF IInv
<1> QED BY <1>1, <1>5, <1>6, <1>7 DEF IInv

(* The keys recorded are in the node's database, and the node runs. *)
LEMMA RegisterStep ==
  ASSUME IInv, Register
  PROVE  IInv'
<1>1. /\ Base1' /\ Makes(cmd.op) /\ cmd.pc = "register" /\ cmd \in Command /\ Healthy(cmd.node)
      /\ UNCHANGED <<pg, cl, env, failed, stopped, lost>> /\ cmd.node \in Nodes
  BY RegisterBase, AtNode, Typed DEF Register, docker, ghosts, IInv, Base1, Where, Makes
<1>2. /\ cmd'.op = cmd.op /\ cmd'.env = Noted
      /\ \/ cmd'.pc = "write" /\ cmd'.node = cmd.node
         \/ cmd'.pc = "list" /\ cmd'.node = cmd.node + 1 /\ cmd.op = "add"
  <2>1. CASE cmd.left > 1
    <3>1. cmd.op = "add"
      BY <1>1, <2>1 DEF IInv, Base1, Where, Makes
    <3> QED BY <1>1, <2>1, <3>1 DEF Register, Noted, Command
  <2>2. CASE ~(cmd.left > 1)
    BY <1>1, <2>2 DEF Register, Noted, Command
  <2> QED BY <2>1, <2>2
<1>3. Built(cmd.node, Note.keys)
  <2>1. cl[cmd.node] # "absent" /\ pg[cmd.node].db # NoInfo
    BY <1>1 DEF Healthy, IInv, Base1, Databases, NoInfo
  <2> QED BY <1>1, <2>1 DEF Built, Note
<1>4. \A n, keys : Built(n, keys) => Built(n, keys)'
  BY <1>1 DEF Built, Healthy
<1>5. Found'
  BY <1>2 DEF Found
<1>6. Done'
  <2>1. CASE cmd.op = "add"
    <3>1. /\ Len(Noted.parts) = cmd.node + 1 /\ cmd.node \in Nat /\ Noted.parts[cmd.node + 1] = Note
          /\ \A i \in 1..cmd.node : Noted.parts[i] = cmd.env.parts[i]
          /\ Len(cmd.env.parts) = cmd.node
      BY <1>1, <2>1, NotedAdd, Constants DEF IInv, Base1, Copy
    <3>2. ASSUME NEW n \in Ids, Len(env.parts) <= n, n < Len(Noted.parts)
          PROVE  Built(n, Noted.parts[n + 1].keys)
      <4>1. n \in Nat
        BY Constants
      <4>2. CASE n = cmd.node
        BY <1>3, <3>1, <4>2
      <4>3. CASE n < cmd.node
        <5>1. Noted.parts[n + 1] = cmd.env.parts[n + 1] /\ n < Len(cmd.env.parts)
          BY <3>1, <4>1, <4>3
        <5> QED BY <2>1, <3>2, <5>1 DEF IInv, Done
      <4> QED BY <3>1, <3>2, <4>1, <4>2, <4>3
    <3> QED BY <1>1, <1>2, <1>4, <2>1, <3>2 DEF Done
  <2>2. CASE cmd.op = "reset"
    BY <1>1, <1>2, <1>3, <1>4, <2>2, NotedReset DEF Done, IInv
  <2>3. CASE cmd.op = "bootstrap"
    <3>1. Noted.boot = Note.keys /\ cmd.node = Boot
      BY <1>1, <2>3, NotedBootstrap DEF IInv, Base1, Where, Note
    <3> QED BY <1>2, <1>3, <1>4, <2>3, <3>1 DEF Done
  <2> QED BY <1>1, <2>1, <2>2, <2>3 DEF Makes
<1>7. ConfigMatchesContainers'
  <2>1. Touched(cmd) \subseteq Touched(cmd)'
    <3>1. CASE cmd.op = "add"
      <4>1. Touched(cmd) = {n \in Ids : Len(env.parts) <= n /\ n <= cmd.node}
        BY <1>1, <3>1, TouchedNodes DEF IInv
      <4>2. Touched(cmd)' = {n \in Ids : Len(env.parts) <= n /\ n <= cmd'.node}
        BY <1>1, <1>2, <3>1 DEF Touched
      <4>3. cmd.node \in Nat /\ cmd'.node \in {cmd.node, cmd.node + 1}
        BY <1>2, <3>1, Constants DEF IInv, Base1, Where
      <4>4. \A n \in Ids : n <= cmd.node => n <= cmd'.node
        BY <4>3, Constants
      <4> QED BY <4>1, <4>2, <4>4
    <3>2. CASE cmd.op # "add"
      BY <1>1, <1>2, <3>2 DEF Touched, Recorded
    <3> QED BY <3>1, <3>2
  <2> QED BY <1>1, <2>1, KnownBefore, OthersAs DEF IInv
<1> QED BY <1>1, <1>5, <1>6, <1>7 DEF IInv

LEMMA RemovePgStep ==
  ASSUME IInv, RemovePg
  PROVE  IInv'
<1>1. /\ Base1' /\ cmd.pc = "removePg" /\ cmd.op = "remove" /\ cmd.node \in Nodes
      /\ UNCHANGED <<cl, env, failed, stopped, lost>> /\ cmd'.op = "remove" /\ cmd'.pc \in {"list", "write"}
  BY RemovePgBase, RemovalGoesOn, AtNode DEF RemovePg, ghosts, IInv, Base1, Where, Makes
<1>2. cmd.pgFound = cmd.node
  BY <1>1 DEF RemovePg, IInv, Found
<1>3. pg'[cmd.node] = NoPg /\ \A n \in Nodes : n # cmd.node => pg'[n] = pg[n]
  BY <1>1, <1>2 DEF RemovePg, IInv, Base1, TypeOK
<1>4. \A n \in Nodes : n = cmd.node \/ Gone(n) => Gone(n)'
  <2>1. pg'[cmd.node] = NoPg /\ cl'[cmd.node] = "absent"
    BY <1>1, <1>3 DEF IInv, Done
  <2>2. ASSUME NEW n \in Nodes, Gone(n)
        PROVE  pg'[n] = NoPg /\ cl'[n] = "absent"
    BY <1>1, <1>3, <2>1, <2>2 DEF Gone
  <2>3. \A n : pg'[n] = NoPg /\ cl'[n] = "absent" => Gone(n)'
    BY DEF Gone
  <2> QED BY <2>1, <2>2, <2>3
<1>5. Recorded' = Recorded /\ Recorded \subseteq Nodes /\ cmd.node \in Recorded
      /\ cmd.node \in Touched(cmd)
      /\ Touched(cmd) = {n \in Recorded : cmd.node = Boot \/ n \in 0..cmd.node}
      /\ Touched(cmd)' = {n \in Recorded : cmd'.node = Boot \/ n \in 0..cmd'.node}
  BY <1>1, RecordedNumbers, TouchedNodes DEF Recorded, Touched, IInv, Base1, Where
<1>6. Found'
  BY <1>1 DEF Found
<1>7. Done'
  <2>1. ASSUME NEW n \in Recorded,
               cmd'.pc = "write" \/ (n # Boot /\ (cmd'.node = Boot \/ n < cmd'.node))
        PROVE  n = cmd.node \/ (n # Boot /\ (cmd.node = Boot \/ n < cmd.node))
    <3>1. CASE n = Boot
      BY <1>5, <2>1, <3>1, RemovalGoesOn, RecordedNumbers, Constants DEF IInv
    <3>2. CASE n # Boot
      <4>1. n \in Nat /\ n < Len(env.parts) /\ Len(env.parts) \in Nat
        BY <1>5, <3>2, RecordedNumbers, Constants DEF Nodes, IInv
      <4>2. cmd.node = Boot \/ cmd.node \in Nat
        BY <1>1, Constants DEF Nodes
      <4> QED BY <2>1, <3>2, <4>1, <4>2, RemovalGoesOn, Constants DEF IInv
    <3> QED BY <3>1, <3>2
  <2>2. ASSUME NEW n \in Recorded,
               cmd'.pc = "write" \/ (n # Boot /\ (cmd'.node = Boot \/ n < cmd'.node))
        PROVE  Gone(n)'
    <3>1. CASE n = cmd.node
      BY <1>1, <1>4, <3>1
    <3>2. CASE n # cmd.node
      <4>1. Gone(n)
        BY <1>1, <2>1, <2>2, <3>2 DEF IInv, Done
      <4> QED BY <1>4, <1>5, <4>1
    <3> QED BY <3>1, <3>2
  <2>3. ASSUME cmd'.pc = "write"
        PROVE  Recorded \subseteq Touched(cmd)'
    <3>1. CASE cmd'.node = Boot
      BY <1>5, <3>1
    <3>2. CASE cmd'.node \in Ids /\ env.boot = NoInfo /\ Len(env.parts) <= cmd'.node + 1
      <4>1. ASSUME NEW n \in Recorded
            PROVE  n \in 0..cmd'.node
        <5>1. n \in Nat /\ n < Len(env.parts) /\ Len(env.parts) \in Nat
          BY <1>5, <3>2, RecordedNumbers, Constants DEF Nodes, IInv
        <5>2. cmd'.node \in Nat
          BY <3>2, Constants
        <5> QED BY <3>2, <5>1, <5>2
      <4> QED BY <1>5, <4>1
    <3> QED BY <2>3, <3>1, <3>2, RemovalGoesOn DEF IInv
  <2> QED BY <1>1, <1>5, <2>2, <2>3 DEF Done
<1>8. ConfigMatchesContainers'
  <2>1. Touched(cmd) \subseteq Touched(cmd)'
    <3>1. cmd'.node \in {cmd.node, Boot} \/ (cmd.node \in Ids /\ cmd'.node = cmd.node + 1)
      BY RemovalGoesOn DEF IInv
    <3>2. CASE cmd.node \in Ids /\ cmd'.node = cmd.node + 1
      <4>1. cmd.node \in Nat /\ cmd.node # Boot
        BY <3>2, Constants
      <4>2. \A n \in 0..cmd.node : n \in 0..cmd'.node
        BY <3>2, <4>1
      <4> QED BY <1>5, <4>1, <4>2
    <3> QED BY <1>5, <3>1, <3>2
  <2> QED BY <1>1, <1>3, <1>5, <2>1, KnownBefore, OthersAs DEF IInv
<1> QED BY <1>1, <1>6, <1>7, <1>8 DEF IInv

(* The nodes that a configuration records. *)
LEMMA NumbersOf ==
  ASSUME NEW e \in Envs, Numbered(e)
  PROVE  LET nodes == {e.parts[i].id : i \in 1..Len(e.parts)}
                        \cup (IF e.boot = NoInfo THEN {} ELSE {Boot})
         IN  /\ \A n \in Ids : n \in nodes <=> n < Len(e.parts)
             /\ Boot \in nodes <=> e.boot # NoInfo
<1> DEFINE L == Len(e.parts)
           parts == {e.parts[i].id : i \in 1..L}
<1>1. L \in Nat /\ \A i \in 1..L : e.parts[i].id \in Ids /\ e.parts[i].id = i - 1
  BY EnvTyped DEF Numbered
<1>2. ASSUME NEW n \in Ids
      PROVE  n \in parts <=> n < L
  <2>1. n \in Nat
    BY Constants
  <2>2. n < L => n + 1 \in 1..L /\ n = e.parts[n + 1].id
    BY <1>1, <2>1
  <2>3. \A i \in 1..L : n = e.parts[i].id => n < L
    BY <1>1, <2>1
  <2> QED BY <2>2, <2>3
<1>3. Boot \notin parts
  BY <1>1, Constants
<1> QED BY <1>2, <1>3, Constants

(* After a command is done every node it was at is as its copy says, and    *)
(* the copy says of the others what the file said.                          *)
LEMMA WrittenAs ==
  ASSUME IInv, Write, NEW n \in Nodes, n \in Touched(cmd) \/ As(n)
  PROVE  As(n)'
<1> DEFINE L == Len(env.parts)
<1>1. /\ env' = cmd.env /\ UNCHANGED <<pg, cl, stopped>> /\ cmd.pc = "write"
      /\ cmd.op \in {"add", "reset", "bootstrap", "remove"}
      /\ lost'[n] = IF n \in Touched(cmd) THEN NoInfo ELSE lost[n]
  BY AtNode DEF Write, docker, IInv
<1>2. /\ \A m \in Ids : m \in Recorded <=> m < L
      /\ Boot \in Recorded <=> env.boot # NoInfo
      /\ L \in Nat
  BY RecordedNumbers DEF IInv
<1>3. /\ \A m \in Ids : m \in Recorded' <=> m < Len(cmd.env.parts)
      /\ Boot \in Recorded' <=> cmd.env.boot # NoInfo
  BY <1>1, NumbersOf, Typed DEF IInv, Base1, Copy, Recorded
<1>4. /\ KeysOf(Boot) = env.boot /\ KeysOf(Boot)' = cmd.env.boot
      /\ \A m \in Ids : /\ KeysOf(m) = env.parts[m + 1].keys
                        /\ KeysOf(m)' = cmd.env.parts[m + 1].keys
  BY <1>1, Constants DEF KeysOf
<1>5. ASSUME NEW keys, Built(n, keys), n \in Recorded', KeysOf(n)' = keys
      PROVE  As(n)'
  <2>1. Known(n)' = keys /\ keys # NoInfo /\ Built(n, keys)'
    BY <1>1, <1>5 DEF Known, Built, Healthy
  <2> QED BY <2>1 DEF As
<1>11. ASSUME n \notin Touched(cmd), n \in Recorded <=> n \in Recorded',
              n \in Recorded => KeysOf(n)' = KeysOf(n)
       PROVE  As(n)'
  <2>1. Known(n)' = Known(n)
    BY <1>11, <1>1 DEF Known
  <2> QED BY <1>11, <1>1, <2>1, AsBefore
<1>6. n = Boot \/ (n \in Ids /\ n \in Nat /\ n # Boot)
  BY Constants DEF Nodes
<1>7. CASE cmd.op = "add"
  <2>1. /\ cmd.node \in Nat /\ L <= cmd.node /\ Len(cmd.env.parts) = cmd.node + 1
        /\ cmd.env.boot = env.boot /\ \A i \in 1..L : cmd.env.parts[i] = env.parts[i]
        /\ Touched(cmd) = {m \in Ids : L <= m /\ m <= cmd.node}
    BY <1>1, <1>7, TouchedNodes, Constants DEF IInv, Base1, Where, Copy
  <2>2. CASE n \in Touched(cmd)
    <3>1. n \in Ids /\ n \in Nat /\ L <= n /\ n < Len(cmd.env.parts) /\ n \in Recorded'
      BY <1>3, <2>1, <2>2, Constants
    <3>2. Built(n, cmd.env.parts[n + 1].keys)
      BY <1>7, <3>1 DEF IInv, Done
    <3> QED BY <1>4, <1>5, <3>1, <3>2
  <2>3. CASE n \notin Touched(cmd) /\ n \in Ids
    <3>1. n < L \/ cmd.node < n
      BY <1>2, <1>6, <2>1, <2>3, Constants
    <3>2. n \in Recorded <=> n \in Recorded'
      BY <1>2, <1>3, <1>6, <2>1, <2>3, <3>1, Constants
    <3>3. n \in Recorded => KeysOf(n)' = KeysOf(n)
      <4>1. n < L => n + 1 \in 1..L
        BY <1>2, <1>6, <2>3, Constants
      <4> QED BY <1>2, <1>4, <2>1, <2>3, <4>1
    <3> QED BY <1>11, <2>3, <3>2, <3>3
  <2>4. CASE n = Boot
    <3>1. n \notin Touched(cmd) /\ (n \in Recorded <=> n \in Recorded') /\ KeysOf(n)' = KeysOf(n)
      BY <1>2, <1>3, <1>4, <2>1, <2>4, Constants
    <3> QED BY <1>11, <3>1
  <2> QED BY <1>6, <2>2, <2>3, <2>4
<1>8. CASE cmd.op = "reset"
  <2>1. /\ cmd.node \in Ids /\ cmd.node < L /\ Len(cmd.env.parts) = L /\ cmd.env.boot = env.boot
        /\ \A i \in 1..L : i # cmd.node + 1 => cmd.env.parts[i] = env.parts[i]
        /\ Touched(cmd) = {cmd.node} /\ Built(cmd.node, cmd.env.parts[cmd.node + 1].keys)
    BY <1>1, <1>8, TouchedNodes DEF IInv, Base1, Where, Copy, Done
  <2>2. CASE n = cmd.node
    BY <1>3, <1>4, <1>5, <2>1, <2>2
  <2>3. CASE n # cmd.node
    <3>1. n \in Recorded <=> n \in Recorded'
      BY <1>2, <1>3, <1>6, <2>1
    <3>2. n \in Recorded => KeysOf(n)' = KeysOf(n)
      <4>1. n \in Ids /\ n < L => n + 1 \in 1..L /\ n + 1 # cmd.node + 1
        <5>1. cmd.node \in Nat /\ (n \in Ids => n \in Nat)
          BY <2>1, Constants
        <5> QED BY <1>2, <2>3, <5>1
      <4> QED BY <1>2, <1>4, <1>6, <2>1, <4>1
    <3> QED BY <1>11, <2>1, <2>3, <3>1, <3>2
  <2> QED BY <2>2, <2>3
<1>9. CASE cmd.op = "bootstrap"
  <2>1. /\ cmd.env.parts = env.parts /\ cmd.env.boot # NoInfo /\ cmd.node = Boot
        /\ Touched(cmd) = {Boot} /\ Built(Boot, cmd.env.boot)
    BY <1>1, <1>9, TouchedNodes DEF IInv, Base1, Where, Copy, Done
  <2>2. CASE n = Boot
    BY <1>3, <1>4, <1>5, <2>1, <2>2
  <2>3. CASE n \in Ids /\ n # Boot
    <3>1. (n \in Recorded <=> n \in Recorded') /\ KeysOf(n)' = KeysOf(n)
      BY <1>2, <1>3, <1>4, <2>1, <2>3
    <3> QED BY <1>11, <2>1, <2>3, <3>1
  <2> QED BY <1>6, <2>2, <2>3
<1>10. CASE cmd.op = "remove"
  <2>1. /\ cmd.env.parts = <<>> /\ cmd.env.boot = NoInfo /\ Len(<<>>) = 0
        /\ Touched(cmd) = Recorded
    <3>1. Touched(cmd) \subseteq Recorded
      BY <1>1, <1>10, TouchedNodes DEF IInv
    <3> QED BY <1>1, <1>10, <3>1, NoNodes DEF IInv, Base1, Copy, Done
  <2>2. n \notin Recorded'
    BY <1>3, <1>6, <2>1
  <2>3. CASE n \in Recorded
    <3>1. Gone(n)
      BY <1>1, <1>10, <2>3 DEF IInv, Done
    <3>2. Known(n)' = NoInfo
      BY <1>1, <2>1, <2>2, <2>3 DEF Known
    <3> QED BY <1>1, <3>1, <3>2 DEF As, Gone
  <2>4. CASE n \notin Recorded
    BY <1>11, <2>1, <2>2, <2>4
  <2> QED BY <2>3, <2>4
<1> QED BY <1>1, <1>7, <1>8, <1>9, <1>10

LEMMA WriteStep ==
  ASSUME IInv, Write
  PROVE  IInv'
<1>1. Base1' /\ cmd' = Idle /\ failed' = failed \ Touched(cmd)
  BY WriteBase DEF IInv, Write
<1>2. Found' /\ Done'
  BY <1>1, IdleTyped DEF Found, Done
<1>3. ASSUME NEW n \in Nodes \ (failed' \cup Touched(cmd)')
      PROVE  As(n)'
  <2>1. n \in Touched(cmd) \/ n \notin failed \cup Touched(cmd)
    BY <1>1, <1>3
  <2>2. n \in Touched(cmd) \/ As(n)
    BY <1>3, <2>1, AsConfigured DEF IInv
  <2> QED BY <1>3, <2>2, WrittenAs
<1> QED BY <1>1, <1>2, <1>3, AsConfigured DEF IInv

(* A container that stops keeps its database, and one that is gone cannot. *)
LEMMA StopsStep ==
  ASSUME IInv, NEW n \in Nodes, PgStops(n) \/ ClStops(n)
  PROVE  IInv'
<1>1. Base1' /\ UNCHANGED <<env, cmd, failed, lost>> /\ stopped' = stopped \cup {n}
  BY StopsBase DEF IInv, PgStops, ClStops
<1>2. \A m \in Nodes : /\ pg'[m].db = pg[m].db /\ (pg[m] = NoPg => pg'[m] = NoPg)
                       /\ cl[m] = "absent" <=> cl'[m] = "absent"
  <2>1. CASE PgStops(n)
    <3>1. /\ pg[n].up /\ cl' = cl /\ pg' = [pg EXCEPT ![n].up = FALSE]
          /\ pg \in [Nodes -> [db : Gens, up : BOOLEAN]]
      BY <2>1 DEF PgStops, IInv, Base1, TypeOK
    <3>2. pg[n] # NoPg
      BY <3>1 DEF NoPg
    <3> QED BY <3>1, <3>2
  <2>2. CASE ClStops(n)
    BY <2>2 DEF ClStops, IInv, Base1, TypeOK
  <2> QED BY <2>1, <2>2
<1>3. \A m \in Nodes : \A keys : Built(m, keys) => Built(m, keys)'
  <2>1. \A m \in Nodes : Healthy(m) => m \in stopped' \/ Healthy(m)'
    BY <1>1 DEF Healthy, PgStops, ClStops, IInv, Base1, TypeOK
  <2> QED BY <1>1, <1>2, <2>1 DEF Built
<1>4. \A m \in Nodes : Gone(m) => Gone(m)'
  BY <1>2 DEF Gone
<1>5. Recorded' = Recorded /\ Recorded \subseteq Nodes /\ Touched(cmd)' = Touched(cmd)
      /\ \A m : Known(m)' = Known(m)
  BY <1>1, RecordedNumbers, KnownBefore DEF Recorded, Touched, IInv
<1>6. Found'
  BY <1>1 DEF Found, IInv
<1>7. Done'
  <2>1. cmd.pc # "idle" => cmd.node \in Nodes
    BY AtNode DEF IInv
  <2> QED BY <1>1, <1>2, <1>3, <1>4, <1>5, <2>1, Constants DEF Done, IInv
<1>8. \A m \in Nodes : As(m) => As(m)'
  BY <1>3, <1>4, <1>5 DEF As
<1> QED BY <1>1, <1>5, <1>6, <1>7, <1>8, AsConfigured DEF IInv

(* The record goes and the containers stay: what is known of them does too. *)
LEMMA EmptyStep ==
  ASSUME IInv, ConfigSetup \/ WriteCutShort
  PROVE  IInv'
<1>1. /\ Base1' /\ env' = Blank /\ UNCHANGED <<pg, cl, stopped>>
      /\ lost' = [n \in Nodes |-> Known(n)]
  BY EmptyBase DEF ConfigSetup, WriteCutShort, EmptyFile, docker, IInv
<1>2. /\ cmd'.pc = "idle" /\ cmd'.op = "none" /\ Touched(cmd)' = {}
      /\ failed \cup Touched(cmd) \subseteq failed'
  <2>1. CASE ConfigSetup
    <3>1. cmd' = cmd /\ cmd.pc = "idle" /\ cmd.op = "none" /\ failed' = failed
      BY <2>1 DEF ConfigSetup, IInv, Base1, Where
    <3> QED BY <3>1 DEF Touched
  <2>2. CASE WriteCutShort
    <3>1. cmd' = Idle /\ failed' = failed \cup Touched(cmd)
      BY <2>2 DEF WriteCutShort
    <3> QED BY <3>1, IdleTyped, NoCommand
  <2> QED BY <2>1, <2>2
<1>3. Recorded' = {}
  BY <1>1, NoNodes DEF Recorded
<1>4. \A n \in Nodes : Known(n)' = Known(n)
  <2>1. \A n \in Nodes : Known(n)' = lost'[n]
    BY <1>3 DEF Known
  <2> QED BY <1>1, <2>1
<1>5. ConfigMatchesContainers'
  BY <1>1, <1>2, <1>4, OthersAs DEF IInv
<1> QED BY <1>1, <1>2, <1>5 DEF IInv, Found, Done

LEMMA InvariantInit == Init => IInv
<1> SUFFICES ASSUME Init
             PROVE  IInv
  OBVIOUS
<1>1. /\ pg = [n \in Nodes |-> NoPg] /\ cl = [n \in Nodes |-> "absent"]
      /\ env = Blank /\ cmd = Idle /\ lost = [n \in Nodes |-> NoInfo]
  BY DEF Init
<1>2. Found /\ Done
  BY <1>1, IdleTyped DEF Found, Done
<1>3. Recorded = {}
  BY <1>1, NoNodes DEF Recorded
<1>4. ConfigMatchesContainers
  BY <1>1, <1>3 DEF ConfigMatchesContainers, Known
<1> QED BY <1>2, <1>4, InitBase DEF IInv

LEMMA InvariantStep == NamesApart /\ IInv /\ [Next]_vars => IInv'
<1> SUFFICES ASSUME NamesApart, IInv, [Next]_vars
             PROVE  IInv'
  OBVIOUS
<1>1. CASE \/ \E count \in Counts : StartAdd(count)
           \/ \E i \in 1..Len(env.parts) : StartReset(i)
           \/ StartBootstrap \/ StartRemove
  BY <1>1, StartStep
<1>2. CASE \/ List \/ DropPg \/ KeepPg \/ MakePg \/ StartPg
           \/ DropCl \/ KeepCl \/ MakeCl \/ StartCl \/ Ready \/ RemoveCl
  BY <1>2, WorkStep
<1>3. CASE Fail \/ PgNameTaken \/ ClNameTaken \/ NothingToRemove
  BY <1>3, AbortSteps, AbortStep
<1>4. CASE Register \/ RemovePg \/ Write
  BY <1>4, RegisterStep, RemovePgStep, WriteStep
<1>5. ASSUME NEW n \in Nodes, PgStops(n) \/ ClStops(n)
      PROVE  IInv'
  BY <1>5, StopsStep
<1>6. CASE UNCHANGED vars
  <2>1. Base1'
    BY <1>6, BaseStep DEF IInv
  <2>2. UNCHANGED <<pg, cl, env, cmd, failed, stopped, lost>>
    BY <1>6 DEF vars
  <2>3. Found' /\ Done'
    BY <2>2 DEF IInv, Found, Done, Built, Gone, Healthy, Recorded, Touched
  <2>4. Touched(cmd)' = Touched(cmd)
    BY <2>2 DEF Touched, Recorded
  <2>5. ConfigMatchesContainers'
    BY <2>2, <2>4, KnownBefore, OthersAs DEF IInv
  <2> QED BY <2>1, <2>3, <2>5 DEF IInv
<1>7. CASE ConfigSetup \/ WriteCutShort
  BY <1>7, EmptyStep
<1> QED BY <1>1, <1>2, <1>3, <1>4, <1>5, <1>6, <1>7 DEF Next, Step

(* What a command takes away, step by step. *)
LEMMA RemovesOwn ==
  ASSUME NamesApart, IInv, [Next]_vars, NEW n \in Nodes,
         \/ pg[n] # NoPg /\ pg'[n] = NoPg
         \/ cl[n] # "absent" /\ cl'[n] = "absent"
  PROVE  n = cmd.node /\ cmd.op # "add"
<1>1. pg'[n] # pg[n] \/ cl'[n] # cl[n]
  OBVIOUS
<1>2. CASE DropPg \/ DropCl
  <2>1. Elsewhere /\ cmd.pc # "idle"
    BY <1>2, DropPgParts, OtherParts DEF DropPg, DropCl
  <2>2. WithReset(cmd)
    BY <1>1, <1>2 DEF DropPg, DropCl
  <2> QED BY <1>1, <2>1, <2>2 DEF Elsewhere, WithReset
<1>3. CASE RemoveCl \/ RemovePg
  <2>1. cmd.op = "remove" /\ n = cmd.node
    <3>1. CASE RemoveCl
      BY <1>1, <3>1, RemoveClParts, AtNode DEF Elsewhere, RemoveCl, IInv, Base1, Where, Makes
    <3>2. CASE RemovePg
      BY <1>1, <3>2, AtNode DEF RemovePg, Found, IInv, Base1, Where, Makes, TypeOK
    <3> QED BY <1>3, <3>1, <3>2
  <2> QED BY <2>1
<1>4. CASE MakePg \/ StartPg
  <2>1. /\ cl' = cl /\ n = cmd.node /\ pg \in [Nodes -> [db : Gens, up : BOOLEAN]]
        /\ pg' = [pg EXCEPT ![n].db = created'] \/ pg' = [pg EXCEPT ![n].up = TRUE]
    BY <1>1, <1>4, OtherParts DEF MakePg, StartPg, Elsewhere, IInv, Base1, TypeOK
  <2>2. CASE MakePg
    BY <2>1, <2>2 DEF MakePg
  <2>3. CASE StartPg
    <3>1. pg'[n].up
      BY <2>1, <2>3 DEF StartPg
    <3> QED BY <2>1, <3>1 DEF NoPg
  <2> QED BY <1>4, <2>2, <2>3
<1>5. CASE MakeCl \/ StartCl
  BY <1>1, <1>5 DEF MakeCl, StartCl, IInv, Base1, TypeOK
<1>6. ASSUME NEW m \in Nodes, PgStops(m) \/ ClStops(m)
      PROVE  FALSE
  <2>1. CASE PgStops(m)
    <3>1. pg[n].db = pg'[n].db /\ cl' = cl
      BY <2>1 DEF PgStops, IInv, Base1, TypeOK
    <3>2. n = m /\ pg[n].up
      BY <1>1, <2>1, <3>1 DEF PgStops, IInv, Base1, TypeOK
    <3>3. pg'[n].db # 0
      BY <3>1, <3>2 DEF IInv, Base1, Databases
    <3> QED BY <3>1, <3>3 DEF NoPg
  <2>2. CASE ClStops(m)
    BY <1>1, <2>2 DEF ClStops, IInv, Base1, TypeOK
  <2> QED BY <1>6, <2>1, <2>2
<1>7. CASE \/ List \/ KeepPg \/ KeepCl \/ Ready \/ Register \/ Write
           \/ Fail \/ PgNameTaken \/ ClNameTaken \/ NothingToRemove
           \/ ConfigSetup \/ WriteCutShort
  BY <1>1, <1>7, AbortSteps DEF List, KeepPg, KeepCl, Ready, Register, Write, Abort, docker,
                                ConfigSetup, WriteCutShort, EmptyFile
<1>8. CASE \/ \E count \in Counts : StartAdd(count)
           \/ \E i \in 1..Len(env.parts) : StartReset(i)
           \/ StartBootstrap \/ StartRemove
  BY <1>1, <1>8 DEF StartAdd, StartReset, StartBootstrap, StartRemove, Begin, docker
<1>9. CASE UNCHANGED vars
  BY <1>1, <1>9 DEF vars
<1> QED BY <1>2, <1>3, <1>4, <1>5, <1>6, <1>7, <1>8, <1>9 DEF Next, Step
-----------------------------------------------------------------------------
(* Up to ten participants no number is a prefix of another. *)
LEMMA OneDigit ==
  ASSUME MaxNodes <= Base
  PROVE  NamesApart
<1>1. Base \in Nat /\ Base >= 2 /\ MaxNodes \in Nat
  BY NetworkAssumption
<1> DEFINE square == Base * Base
<1>2. \A p \in Powers : p \in Nat /\ p >= Base
  <2>1. square \in Nat /\ square >= Base
    BY <1>1
  <2> HIDE DEF square
  <2>2. square * Base \in Nat /\ square * Base >= square
    BY <1>1, <2>1
  <2>3. square * square \in Nat /\ square * square >= square
    BY <1>1, <2>1
  <2>4. \A p \in Powers : p \in {Base, square, square * Base, square * square}
    BY DEF Powers, square
  <2> QED BY <1>1, <2>1, <2>2, <2>3, <2>4
<1>3. ASSUME NEW n \in Nodes, NEW m \in Nodes, NamePrefix(n, m), n # m
      PROVE  FALSE
  <2>1. n > 0 /\ m > 0 /\ \E p \in Powers : m \div p = n
    BY <1>3 DEF NamePrefix
  <2>2. m \in Nat /\ m < Base
    BY <1>1, <2>1, Constants DEF Nodes, Boot, Ids
  <2>3. PICK p \in Powers : m \div p = n
    BY <2>1
  <2>4. p \in Nat /\ m < p
    BY <1>1, <1>2, <2>2
  <2>5. m \div p = 0
    BY <2>2, <2>4
  <2> QED BY <2>1, <2>3, <2>5
<1> QED BY <1>3 DEF NamesApart

(* The command and its copy of config.toml are always in step: the base of  *)
(* all that follows, names apart or not.                                    *)
THEOREM CommandFollowed == Spec => []Base1
<1>1. Init => Base1
  BY InitBase
<1>2. Base1 /\ [Next]_vars => Base1'
  BY BaseStep
<1> QED BY <1>1, <1>2, PTL DEF Spec

(* Every variable keeps its type, the containers, the command and its copy  *)
(* of config.toml included, for any number of participants and databases.   *)
THEOREM TypeCorrect == Spec => []TypeOK
<1>1. Base1 => TypeOK
  BY DEF Base1
<1> QED BY <1>1, CommandFollowed, PTL

(* The participants recorded in config.toml are numbered 0, 1, 2, ... in    *)
(* order whatever fails: the number of the next one is their count, as add  *)
(* takes it to be, and adding never builds a node over a recorded one.      *)
THEOREM NumbersFollow == Spec => []NumberedInOrder
<1>1. Base1 => NumberedInOrder
  BY DEF Base1, Copy, Numbered, NumberedInOrder
<1> QED BY <1>1, CommandFollowed, PTL

(* The inductive invariant, when every number has one digit. *)
THEOREM ContainersFollowed == MaxNodes <= Base => (Spec => []IInv)
<1> SUFFICES ASSUME MaxNodes <= Base
             PROVE  Spec => []IInv
  OBVIOUS
<1>1. Init => IInv
  BY InvariantInit
<1>2. IInv /\ [Next]_vars => IInv'
  BY InvariantStep, OneDigit
<1> QED BY <1>1, <1>2, PTL DEF Spec

(* With up to ten participants, a node no failed or running command has     *)
(* been at is as config.toml says, or said when it was emptied under it: its *)
(* containers are there and run, unless they stopped by themselves, with the *)
(* keys recorded; one never recorded, or removed, has none.                  *)
THEOREM ConfigFollows == MaxNodes <= Base => (Spec => []ConfigMatchesContainers)
<1>1. IInv => ConfigMatchesContainers
  BY DEF IInv
<1> QED BY <1>1, ContainersFollowed, PTL

(* With up to ten participants, a command takes away only containers of the *)
(* node it works on, and add takes none.                                    *)
THEOREM RemovalsOwned == MaxNodes <= Base => (Spec => OwnContainersOnly)
<1> SUFFICES ASSUME MaxNodes <= Base
             PROVE  Spec => OwnContainersOnly
  OBVIOUS
<1>1. IInv /\ [Next]_vars =>
        [\A n \in Nodes :
           \/ pg[n] # NoPg /\ pg'[n] = NoPg
           \/ cl[n] # "absent" /\ cl'[n] = "absent"
           => n = cmd.node /\ cmd.op # "add"]_vars
  BY RemovesOwn, OneDigit
<1>2. Spec => []IInv
  BY ContainersFollowed
<1> QED BY <1>1, <1>2, PTL DEF Spec, OwnContainersOnly
-----------------------------------------------------------------------------
(* That commands end needs the fairness of Spec, and two facts that do not:  *)
(* a running command always has a next step, and its steps run out.          *)

(* The guards of Step: nothing is waited for but a node's health. *)
StepCan == \/ cmd.pc \in {"list", "dropPg", "makePg", "startPg", "dropCl", "makeCl", "startCl",
                          "removeCl", "removePg", "write"}
           \/ cmd.pc \in {"await", "register"} /\ Healthy(cmd.node)

GoesOn == cmd.pc # "idle" => cmd.node \in stopped \/ StepCan

(* What the command has found or started at its node runs, until something   *)
(* of the node stops.                                                        *)
Standing ==
  \/ cmd.node \in stopped
  \/ /\ cmd.pc \in {"dropPg", "makePg"} /\ cmd.pgFound # Nobody => pg[cmd.node].up
     /\ cmd.pc \in {"dropPg", "makePg", "startPg", "dropCl", "makeCl"} /\ cmd.clFound =>
          cl[cmd.node] = "up"
     /\ cmd.pc \in {"dropCl", "makeCl", "startCl", "await", "register"} => pg[cmd.node].up
     /\ cmd.pc \in {"await", "register"} => cl[cmd.node] = "up"

(* How many nodes come after the one the command is at, and the steps it may *)
(* have left at this one.                                                    *)
NodesLeft == IF cmd.op = "none" THEN 0
             ELSE IF cmd.op = "remove" /\ cmd.node # Boot THEN Len(env.parts) - cmd.node
             ELSE cmd.left - 1
StepsLeft == [idle |-> 0, write |-> 1, register |-> 2, await |-> 3, startCl |-> 4, makeCl |-> 5,
              dropCl |-> 6, startPg |-> 7, makePg |-> 8, dropPg |-> 9,
              removePg |-> 2, removeCl |-> 3, list |-> 10]
ToDo == 10 * NodesLeft + StepsLeft[cmd.pc]

LEMMA PgWorkStanding ==
  ASSUME NamesApart, IInv, Standing, cmd.node \notin stopped,
         List \/ DropPg \/ KeepPg \/ MakePg \/ StartPg
  PROVE  Standing'
<1>1. /\ cmd \in Command /\ cmd.node \in Nodes /\ cl \in [Nodes -> {"absent", "created", "up"}]
      /\ pg \in [Nodes -> [db : Gens, up : BOOLEAN]]
  <2>1. cmd.pc # "idle"
    BY DEF List, DropPg, KeepPg, MakePg, StartPg
  <2> QED BY <2>1, Typed, AtNode DEF IInv, Base1, TypeOK
<1>2. CASE List
  <2>1. /\ cmd'.pc \in {"removeCl", "dropPg"} /\ cmd'.node = cmd.node
        /\ cmd'.pgFound = FoundPg(cmd.node) /\ cmd'.clFound = FoundCl(cmd.node)
        /\ UNCHANGED <<pg, cl>>
    BY <1>1, <1>2 DEF List, Command, docker
  <2>2. FoundPg(cmd.node) # Nobody => pg[cmd.node].up
    BY <1>1, FoundTyped DEF NamesApart, IInv, Base1
  <2> QED BY <2>1, <2>2 DEF Standing, FoundCl
<1>3. CASE DropPg
  <2> DEFINE drop == WithReset(cmd) /\ cmd.pgFound # Nobody
  <2>1. /\ cmd.pc = "dropPg" /\ cmd'.pc = "makePg" /\ cmd'.node = cmd.node
        /\ cmd'.clFound = cmd.clFound /\ cl' = cl
    BY <1>1, <1>3 DEF DropPg, Command
  <2>2. drop => cmd'.pgFound = Nobody
    BY <1>1, <1>3 DEF DropPg, Command
  <2>3. ~drop => cmd'.pgFound = cmd.pgFound /\ pg' = pg
    BY <1>1, <1>3 DEF DropPg, Command
  <2> HIDE DEF drop
  <2> QED BY <2>1, <2>2, <2>3 DEF Standing
<1>4. CASE KeepPg
  <2>1. /\ cmd.pc = "makePg" /\ cmd.pgFound # Nobody /\ cmd'.pc = "dropCl"
        /\ cmd'.node = cmd.node /\ cmd'.clFound = cmd.clFound /\ UNCHANGED <<pg, cl>>
    BY <1>1, <1>4 DEF KeepPg, Goto, Command, docker
  <2> QED BY <2>1 DEF Standing
<1>5. CASE MakePg
  <2>1. /\ cmd.pc = "makePg" /\ cmd'.pc = "startPg"
        /\ cmd'.node = cmd.node /\ cmd'.clFound = cmd.clFound /\ cl' = cl
    BY <1>1, <1>5 DEF MakePg, Goto, Command
  <2> QED BY <2>1 DEF Standing
<1>6. CASE StartPg
  <2>1. /\ cmd.pc = "startPg" /\ cmd'.pc = "dropCl"
        /\ cmd'.node = cmd.node /\ cmd'.clFound = cmd.clFound /\ cl' = cl
    BY <1>1, <1>6 DEF StartPg, Goto, Command
  <2>2. pg'[cmd.node].up
    BY <1>1, <1>6 DEF StartPg
  <2> QED BY <2>1, <2>2 DEF Standing
<1> QED BY <1>2, <1>3, <1>4, <1>5, <1>6

LEMMA ClWorkStanding ==
  ASSUME IInv, Standing, cmd.node \notin stopped, DropCl \/ KeepCl \/ MakeCl \/ StartCl \/ Ready
  PROVE  Standing'
<1>1. /\ cmd \in Command /\ cmd.node \in Nodes /\ cl \in [Nodes -> {"absent", "created", "up"}]
  <2>1. cmd.pc # "idle"
    BY DEF DropCl, KeepCl, MakeCl, StartCl, Ready
  <2> QED BY <2>1, Typed, AtNode DEF IInv, Base1, TypeOK
<1>2. pg' = pg /\ cmd'.node = cmd.node
  BY <1>1 DEF DropCl, KeepCl, MakeCl, StartCl, Ready, Goto, Command, docker
<1>3. CASE DropCl
  <2> DEFINE drop == WithReset(cmd) /\ cmd.clFound
  <2>1. cmd.pc = "dropCl" /\ cmd'.pc = "makeCl"
    BY <1>1, <1>3 DEF DropCl, Command
  <2>2. cmd'.clFound => cmd.clFound /\ cl' = cl
    BY <1>1, <1>3 DEF DropCl, Command
  <2> QED BY <1>2, <2>1, <2>2 DEF Standing
<1>4. CASE KeepCl
  <2>1. cmd.pc = "makeCl" /\ cmd.clFound /\ cmd'.pc = "await" /\ cl' = cl
    BY <1>1, <1>4 DEF KeepCl, Goto, Command, docker
  <2> QED BY <1>2, <2>1 DEF Standing
<1>5. CASE MakeCl
  <2>1. cmd.pc = "makeCl" /\ cmd'.pc = "startCl"
    BY <1>1, <1>5 DEF MakeCl, Goto, Command
  <2> QED BY <1>2, <2>1 DEF Standing
<1>6. CASE StartCl
  <2>1. cmd.pc = "startCl" /\ cmd'.pc = "await" /\ cl'[cmd.node] = "up"
    BY <1>1, <1>6 DEF StartCl, Goto, Command
  <2> QED BY <1>2, <2>1 DEF Standing
<1>7. CASE Ready
  <2>1. cmd.pc = "await" /\ cmd'.pc = "register" /\ cl' = cl
    BY <1>1, <1>7 DEF Ready, Goto, Command, docker
  <2> QED BY <1>2, <2>1 DEF Standing
<1> QED BY <1>3, <1>4, <1>5, <1>6, <1>7

LEMMA StandingStep == NamesApart /\ IInv /\ Standing /\ [Next]_vars => Standing'
<1> SUFFICES ASSUME NamesApart, IInv, Standing, [Next]_vars
             PROVE  Standing'
  OBVIOUS
<1>1. CASE \/ List \/ DropPg \/ KeepPg \/ MakePg \/ StartPg
           \/ DropCl \/ KeepCl \/ MakeCl \/ StartCl \/ Ready
  <2>1. CASE cmd.node \in stopped
    <3>1. stopped' = stopped
      BY <1>1 DEF List, DropPg, KeepPg, MakePg, StartPg, DropCl, KeepCl, MakeCl, StartCl, Ready, ghosts
    <3>2. cmd'.node = cmd.node
      BY <1>1, ListBase, DropPgBase, GoOnBase, MakePgBase, StartPgBase, ContainerBase
      DEF SameWork, IInv
    <3> QED BY <2>1, <3>1, <3>2 DEF Standing
  <2>2. CASE cmd.node \notin stopped
    BY <1>1, <2>2, PgWorkStanding, ClWorkStanding
  <2> QED BY <2>1, <2>2
<1>2. CASE ~(\/ List \/ DropPg \/ KeepPg \/ MakePg \/ StartPg
             \/ DropCl \/ KeepCl \/ MakeCl \/ StartCl \/ Ready)
  <2>3. CASE \/ \E count \in Counts : StartAdd(count)
             \/ \E i \in 1..Len(env.parts) : StartReset(i)
             \/ StartBootstrap \/ StartRemove
    <3>1. cmd'.pc = "list"
      BY <2>3, IdleTyped DEF StartAdd, StartReset, StartBootstrap, StartRemove, Begin, Idle
    <3> QED BY <3>1 DEF Standing
  <2>4. CASE Register \/ RemovePg
    <3>1. cmd'.pc \in {"list", "write"}
      BY <2>4, RemovalGoesOn, Typed DEF IInv, Base1, Register, Command
    <3> QED BY <3>1 DEF Standing
  <2>5. CASE RemoveCl
    <3>1. cmd'.pc = "removePg"
      BY <2>5, Typed DEF RemoveCl, Goto, Command, IInv, Base1
    <3> QED BY <3>1 DEF Standing
  <2>6. CASE \/ Write \/ PgNameTaken \/ ClNameTaken \/ NothingToRemove
             \/ Fail \/ WriteCutShort \/ ConfigSetup
    <3>1. cmd'.pc = "idle"
      BY <2>6, IdleTyped DEF Write, PgNameTaken, ClNameTaken, NothingToRemove, Fail, Abort,
                             WriteCutShort, ConfigSetup
    <3> QED BY <3>1 DEF Standing
  <2>7. ASSUME NEW n \in Nodes, PgStops(n) \/ ClStops(n)
        PROVE  Standing'
    <3>1. cmd' = cmd /\ stopped' = stopped \cup {n}
      BY <2>7 DEF PgStops, ClStops
    <3>2. CASE cmd.node = n
      BY <3>1, <3>2 DEF Standing
    <3>3. CASE cmd.node # n /\ cmd.pc # "idle"
      <4>1. pg'[cmd.node] = pg[cmd.node] /\ cl'[cmd.node] = cl[cmd.node]
        BY <2>7, <3>3, AtNode DEF PgStops, ClStops, IInv, Base1, TypeOK
      <4> QED BY <3>1, <4>1 DEF Standing
    <3>4. CASE cmd.pc = "idle"
      BY <3>1, <3>4 DEF Standing
    <3> QED BY <3>2, <3>3, <3>4
  <2>8. CASE UNCHANGED vars
    BY <2>8 DEF vars, Standing
  <2> QED BY <1>2, <2>3, <2>4, <2>5, <2>6, <2>7, <2>8 DEF Next, Step
<1> QED BY <1>1, <1>2

(* With up to ten participants, a command that has not ended can always take *)
(* its next step, unless a container of its node stopped by itself: what it  *)
(* waits for, the health of its node, it has seen to before.  That rests on  *)
(* every search finding the node's own container, or none.                   *)
THEOREM CommandsGoOn == MaxNodes <= Base => (Spec => []GoesOn)
<1> SUFFICES ASSUME MaxNodes <= Base
             PROVE  Spec => []GoesOn
  OBVIOUS
<1>1. Init => Standing
  BY DEF Init, Idle, Standing
<1>2. IInv /\ Standing /\ [Next]_vars => Standing'
  BY StandingStep, OneDigit
<1>3. IInv /\ Standing => GoesOn
  BY Typed DEF IInv, Base1, Standing, GoesOn, StepCan, Healthy, Command, Pcs
<1> QED BY <1>1, <1>2, <1>3, ContainersFollowed, PTL DEF Spec
-----------------------------------------------------------------------------
LEMMA NodesLeftTyped ==
  ASSUME Base1
  PROVE  NodesLeft \in Nat /\ (cmd.op \in {"add", "reset", "bootstrap"} => NodesLeft = cmd.left - 1)
<1>1. /\ Len(env.parts) \in Nat /\ cmd.left \in Nat /\ Boot \notin Ids /\ Ids \subseteq Nat
      /\ cmd.op \in {"none", "add", "reset", "bootstrap", "remove"}
  BY RecordedNumbers, Typed, Constants DEF Base1, Command, Commands
<1>2. cmd.op \in {"add", "reset", "bootstrap"} => NodesLeft = cmd.left - 1 /\ cmd.left >= 1
  BY DEF NodesLeft, Base1, Where, Makes
<1>3. CASE cmd.op = "remove" /\ cmd.node # Boot
  <2>1. cmd.node \in Ids /\ cmd.node < Len(env.parts)
    BY <1>3, RecordedNumbers DEF Base1, Where, Nodes
  <2>2. cmd.node \in Nat /\ NodesLeft = Len(env.parts) - cmd.node
    BY <1>1, <1>3, <2>1 DEF NodesLeft
  <2> QED BY <1>1, <1>3, <2>1, <2>2
<1>4. CASE cmd.op = "remove" /\ cmd.node = Boot
  <2>1. cmd.left = 1
    BY <1>4 DEF Base1, Where
  <2> QED BY <1>4, <2>1 DEF NodesLeft
<1>5. CASE cmd.op = "none"
  BY <1>5 DEF NodesLeft
<1> QED BY <1>1, <1>2, <1>3, <1>4, <1>5

LEMMA ToDoParts == Base1 => NodesLeft \in Nat /\ StepsLeft[cmd.pc] \in Nat
<1> SUFFICES ASSUME Base1
             PROVE  NodesLeft \in Nat /\ StepsLeft[cmd.pc] \in Nat
  OBVIOUS
<1>1. cmd.pc \in Pcs
  BY Typed DEF Base1, Command
<1>2. StepsLeft[cmd.pc] \in Nat
  BY <1>1 DEF StepsLeft, Pcs
<1> QED BY <1>2, NodesLeftTyped

LEMMA Less ==
  ASSUME NEW n \in Nat, NEW s \in Nat, NEW m \in Nat, NEW r \in Nat,
         (m = n /\ r < s) \/ (m < n /\ r = 10 /\ s > 0)
  PROVE  10 * m + r < 10 * n + s
OBVIOUS

(* Fewer steps at a node, or fewer nodes: less to do. *)
LEMMA LessToDo ==
  ASSUME Base1, Base1', \/ NodesLeft' = NodesLeft /\ StepsLeft[cmd'.pc] < StepsLeft[cmd.pc]
                        \/ NodesLeft' < NodesLeft /\ cmd'.pc = "list" /\ cmd.pc # "idle"
  PROVE  ToDo' < ToDo
<1>1. NodesLeft \in Nat /\ StepsLeft[cmd.pc] \in Nat
  BY ToDoParts
<1>2. NodesLeft' \in Nat /\ StepsLeft[cmd'.pc] \in Nat
  <2>1. Base1' => (NodesLeft \in Nat /\ StepsLeft[cmd.pc] \in Nat)'
    BY ToDoParts, PTL
  <2> QED BY <2>1 DEF StepsLeft
<1>3. cmd.pc # "idle" => StepsLeft[cmd.pc] > 0
  BY Typed DEF StepsLeft, Base1, Command, Pcs
<1>4. StepsLeft["list"] = 10
  BY DEF StepsLeft
<1>5. 10 * NodesLeft' + StepsLeft[cmd'.pc] < 10 * NodesLeft + StepsLeft[cmd.pc]
  BY <1>1, <1>2, <1>3, <1>4, Less
<1>6. ToDo' = 10 * NodesLeft' + StepsLeft[cmd'.pc]
  BY DEF ToDo, StepsLeft
<1> QED BY <1>5, <1>6 DEF ToDo

LEMMA WorkToDo ==
  ASSUME Base1, Base1', SameWork,
         \/ List \/ DropPg \/ KeepPg \/ MakePg \/ StartPg
         \/ DropCl \/ KeepCl \/ MakeCl \/ StartCl \/ Ready \/ RemoveCl
  PROVE  ToDo' < ToDo
<1>1. NodesLeft' = NodesLeft
  BY DEF NodesLeft, SameWork
<1>2. cmd \in Command
  BY Typed DEF Base1
<1>3. CASE List \/ DropPg \/ KeepPg \/ MakePg \/ StartPg
  <2>1. \/ cmd.pc = "list" /\ cmd'.pc \in {"removeCl", "dropPg"}
        \/ cmd.pc = "dropPg" /\ cmd'.pc = "makePg"
        \/ cmd.pc = "makePg" /\ cmd'.pc \in {"startPg", "dropCl"}
        \/ cmd.pc = "startPg" /\ cmd'.pc = "dropCl"
    BY <1>2, <1>3 DEF List, DropPg, KeepPg, MakePg, StartPg, Goto, Command
  <2>2. StepsLeft[cmd'.pc] < StepsLeft[cmd.pc]
    BY <2>1 DEF StepsLeft
  <2> QED BY <1>1, <2>2, LessToDo
<1>4. CASE DropCl \/ KeepCl \/ MakeCl \/ StartCl \/ Ready \/ RemoveCl
  <2>1. \/ cmd.pc = "dropCl" /\ cmd'.pc = "makeCl"
        \/ cmd.pc = "makeCl" /\ cmd'.pc \in {"startCl", "await"}
        \/ cmd.pc = "startCl" /\ cmd'.pc = "await"
        \/ cmd.pc = "await" /\ cmd'.pc = "register"
        \/ cmd.pc = "removeCl" /\ cmd'.pc = "removePg"
    BY <1>2, <1>4 DEF DropCl, KeepCl, MakeCl, StartCl, Ready, RemoveCl, Goto, Command
  <2>2. StepsLeft[cmd'.pc] < StepsLeft[cmd.pc]
    BY <2>1 DEF StepsLeft
  <2> QED BY <1>1, <2>2, LessToDo
<1> QED BY <1>3, <1>4

LEMMA RegisterToDo ==
  ASSUME Base1, Base1', Register
  PROVE  ToDo' < ToDo
<1>1. cmd \in Command /\ cmd.left \in Nat /\ cmd.pc = "register" /\ env' = env
  BY Typed DEF Base1, Command, Register
<1>2. cmd.op \in {"add", "reset", "bootstrap"}
  BY <1>1, AtNode DEF Base1, Where
<1>3. cmd'.op = cmd.op
  BY <1>1 DEF Register, Command
<1>4. NodesLeft = cmd.left - 1 /\ NodesLeft' = cmd'.left - 1
  BY <1>2, <1>3 DEF NodesLeft
<1>5. CASE cmd.left > 1
  <2>1. cmd'.pc = "list" /\ cmd'.left = cmd.left - 1
    BY <1>1, <1>5 DEF Register, Command
  <2> QED BY <1>1, <1>4, <2>1, LessToDo
<1>6. CASE ~(cmd.left > 1)
  <2>1. cmd'.pc = "write" /\ cmd'.left = cmd.left
    BY <1>1, <1>6 DEF Register, Command
  <2>2. StepsLeft[cmd'.pc] < StepsLeft[cmd.pc]
    BY <1>1, <2>1 DEF StepsLeft
  <2> QED BY <1>4, <2>1, <2>2, LessToDo
<1> QED BY <1>5, <1>6

LEMMA RemovePgToDo ==
  ASSUME Base1, Base1', RemovePg
  PROVE  ToDo' < ToDo
<1>1. /\ cmd.pc = "removePg" /\ cmd.op = "remove" /\ cmd.node \in Recorded /\ cmd.left = 1
      /\ env' = env /\ cmd'.op = "remove" /\ cmd'.left = 1
  BY AtNode, RemovalGoesOn DEF RemovePg, Base1, Where, Makes
<1>2. Len(env.parts) \in Nat /\ Ids \subseteq Nat /\ Boot \notin Ids
  BY RecordedNumbers, Constants
<1>3. CASE /\ cmd'.pc = "list" /\ cmd.node \in Ids /\ cmd'.node = cmd.node + 1 /\ cmd'.node \in Ids
  <2>1. NodesLeft = Len(env.parts) - cmd.node /\ NodesLeft' = Len(env.parts) - (cmd.node + 1)
    BY <1>1, <1>2, <1>3 DEF NodesLeft
  <2>2. cmd.node \in Nat
    BY <1>2, <1>3
  <2>3. NodesLeft' < NodesLeft
    BY <1>2, <2>1, <2>2
  <2> QED BY <1>1, <1>3, <2>3, LessToDo
<1>4. CASE cmd'.pc = "list" /\ cmd.node \in Ids /\ cmd'.node = Boot
  <2>1. NodesLeft = Len(env.parts) - cmd.node /\ NodesLeft' = 1 - 1
    BY <1>1, <1>2, <1>4 DEF NodesLeft
  <2>2. cmd.node \in Nat /\ cmd.node < Len(env.parts)
    BY <1>1, <1>2, <1>4, RecordedNumbers
  <2>3. NodesLeft' < NodesLeft
    BY <1>2, <2>1, <2>2
  <2> QED BY <1>1, <1>4, <2>3, LessToDo
<1>5. CASE cmd'.pc = "write" /\ cmd'.node = cmd.node
  <2>1. NodesLeft' = NodesLeft
    BY <1>1, <1>5 DEF NodesLeft
  <2>2. StepsLeft[cmd'.pc] < StepsLeft[cmd.pc]
    BY <1>1, <1>5 DEF StepsLeft
  <2> QED BY <2>1, <2>2, LessToDo
<1> QED BY <1>3, <1>4, <1>5, RemovalGoesOn

(* The steps of a command, and the errors that end it. *)
LEMMA StepToDo ==
  ASSUME Base1, Step \/ Fail \/ WriteCutShort
  PROVE  ToDo' < ToDo
<1>1. Base1'
  BY BaseStep DEF Next
<1>2. CASE \/ List \/ DropPg \/ KeepPg \/ MakePg \/ StartPg
           \/ DropCl \/ KeepCl \/ MakeCl \/ StartCl \/ Ready \/ RemoveCl
  <2>1. SameWork
    BY <1>2, ListBase, DropPgBase, GoOnBase, MakePgBase, StartPgBase, ContainerBase
  <2> QED BY <1>1, <1>2, <2>1, WorkToDo
<1>3. CASE Register \/ RemovePg
  BY <1>1, <1>3, RegisterToDo, RemovePgToDo
<1>4. CASE Write \/ WriteCutShort \/ Fail \/ PgNameTaken \/ ClNameTaken \/ NothingToRemove
  <2>1. cmd' = Idle /\ cmd.pc # "idle"
    BY <1>4, AbortSteps DEF Write, WriteCutShort, Abort
  <2>2. ToDo' = 10 * NodesLeft' + StepsLeft[cmd'.pc] /\ NodesLeft' = 0 /\ StepsLeft[cmd'.pc] = 0
    BY <2>1, IdleTyped DEF ToDo, NodesLeft, StepsLeft
  <2>3. NodesLeft \in Nat /\ StepsLeft[cmd.pc] \in Nat /\ StepsLeft[cmd.pc] > 0
    BY <2>1, ToDoParts, Typed DEF StepsLeft, Base1, Command, Pcs
  <2> QED BY <2>2, <2>3 DEF ToDo
<1> QED BY <1>2, <1>3, <1>4 DEF Step

(* A command has as many steps before it as ToDo says, at most: each of its   *)
(* steps, and each error, lowers it, and nothing that happens meanwhile       *)
(* raises it.  This is so for any number of participants.                     *)
Nearer == /\ Step \/ Fail \/ WriteCutShort => ToDo' < ToDo
          /\ cmd.pc # "idle" => ToDo' <= ToDo

THEOREM StepsRunOut == Spec => [](ToDo \in Nat) /\ [][Nearer]_vars
<1>1. Base1 => ToDo \in Nat
  BY ToDoParts DEF ToDo
<1>2. Base1' => (ToDo \in Nat)'
  BY <1>1, PTL
<1>3. Base1 /\ [Next]_vars => [Nearer]_vars
  <2> SUFFICES ASSUME Base1, Next
               PROVE  Nearer
    OBVIOUS
  <2>1. ToDo \in Nat
    BY <1>1
  <2>2. CASE Step \/ Fail \/ WriteCutShort
    <3>1. ToDo' \in Nat
      BY <1>2, <2>2, BaseStep DEF Next
    <3> QED BY <2>1, <2>2, <3>1, StepToDo DEF Nearer
  <2>3. CASE ~(Step \/ Fail \/ WriteCutShort) /\ cmd.pc # "idle"
    <3>1. UNCHANGED <<cmd, env>>
      BY <2>3 DEF Next, StartAdd, StartReset, StartBootstrap, StartRemove, Begin, ConfigSetup,
                  PgStops, ClStops
    <3>2. ToDo' = ToDo
      BY <3>1 DEF ToDo, NodesLeft, StepsLeft
    <3> QED BY <2>1, <2>3, <3>2 DEF Nearer
  <2>4. CASE ~(Step \/ Fail \/ WriteCutShort) /\ cmd.pc = "idle"
    BY <2>4 DEF Nearer
  <2> QED BY <2>2, <2>3, <2>4
<1> QED BY <1>1, <1>3, CommandFollowed, PTL DEF Spec
=============================================================================
