# Verification of automation-cli

TLA+ models of `automation-cli`, the command line tool that sets up Chainlink
Automation on a chain and on a network of local nodes: what it keeps on disk,
what it does to Docker containers and to the chain, and the job pool its
statistics run on.  The modules are translated from the Go source under `src/`;
the paths below are relative to it.  `PROJECT.json` names, for each definition,
the lines it stands for.

To repeat a check, run TLC on the module and configuration of the table in
[Runs](#runs), for example `tlc -config ParallelPool.cfg ParallelPool`, and
`tlapm` on a `*Proofs` module for its theorems.

## The system

A user runs one command at a time in a terminal, and may have several
terminals.  Every command is a process of its own: it reads a state file,
calls Docker, a node or the chain, and writes the file back.  There is no
server, no lock and no transaction, so what is hard about the tool is what
happens between the first read and the last write.

| Component | State | Operations | Talks to |
|---|---|---|---|
| Job pool, `internal/util/parallel.go` | workers created, channel of idle workers, results, mutex, WaitGroup, context | `RunWithContext`, `worker.do`, `aggregate` | called by the load statistics |
| Docker node manager, `internal/node/docker.go` | containers of each node (a chainlink and a postgres one) | find by name, remove, create, start, poll `/health` | Docker daemon, node HTTP API |
| Network commands, `cmd/network`, `internal/node/participant.go` | bootstrap and participants in `config.toml` | `bootstrap set`, `participant add`, `reset`, `remove --all`, `list`, `fund` | node manager, state files, chain |
| Node API client, `internal/node/client.go` | a node's keys and jobs, held by the node | key ids, addresses, job creation | session client |
| Session client, `internal/restclient` | the session cookie | log in, log out, a request with one retry after a 401 | a node |
| Key store, `cmd/key`, `internal/config/keys.go` | `keys.json`: aliases and private keys | `create`, `store`, `delete`, `import-ganache`, `import-geth`, `list` | state files |
| State files, `internal/io`, `internal/config/io.go` | `config.toml` of each environment, `keys.json` | read all, truncate and write all, remove an environment | file system |
| Environment configuration, `cmd/configure` | `config.toml` | `setup`, `delete` | state files |
| Contract commands, `cmd/contract` | contract addresses in `config.toml` | deploy or set token, feeds, registry, registrar, loads; `set-config`, `mint` | deployer, state files |
| Deployer and contracts, `internal/asset` | the account's nonce, transactions, receipts | `BuildTxOpts`, `Send`, `wait`, `waitDeployment`, `waitConfirmations`, and the sequence of transactions of each operation | chain |
| Verifiable load, `internal/asset/verifiableLoad.go` | upkeeps of a load contract and their delay buckets | register, cancel, read statistics | deployer, job pool |
| Mercury mock, helpers | none | a stub server no command starts; conversions | none |

What is hard, and what makes each part correct:

* **Job pool** (threads).  A dispatcher, one goroutine per job, a buffered
  channel, a mutex, a WaitGroup and a context.  Correct: never more jobs than
  the limit, no worker lost in the non-blocking send, no job on the nil worker
  that a cancelled `select` leaves, results neither lost nor written after the
  return, and a return in every case.
* **Node manager and network commands** (partial failure, order).  Any call can
  fail and then nothing is recorded, although containers have been removed and
  made; the write at the end empties the file before it fills it; containers
  stop; they are searched by a name prefix.  Correct: what `config.toml` says of
  a node is what Docker runs, a failed command disturbs only the nodes it was at
  (and takes others off the record at most, by a write cut short), a command
  removes its own node's containers, and a command ends as long as its calls
  return.
* **Key store and state files** (interleaving, interruption).  Whole-file
  read, change, truncate, write without a lock.  Correct: except for a write of
  a stale copy and a death in the middle of a write, nothing a finished command
  stored is lost, and an alias goes on signing with the same key.
* **Contract commands and configuration** (minutes between read and write,
  contracts that depend on each other).  Correct: no contract is on record
  without those it is built on, since `registry set-config` dereferences them
  unchecked; the configuration sent to the registry names the registrar that was
  deployed; finished commands stay on record.
* **Deployer** (a shared account).  The nonce is read in one call and used in
  another; a transaction can be dropped, replaced or reverted; a node's head can
  lag.  Correct: what a command takes for done is in the chain, confirmed, at an
  address of its own, in order, and no wait outlives the answer.
* **Verifiable load** (batches, other terminals, concurrent reads).  Registering
  is many transactions, then a list of all active upkeeps, then more
  transactions in slices; any may fail and other commands come between.  The
  statistics are read by a goroutine per bucket in the jobs of the pool, while
  upkeeps go on being performed.  Correct: what ends well has registered its
  count and left nothing unconfigured, a cancel leaves nothing it found, the
  table is that of the block in its title, and the command ends.
* **Node API and session clients** (retries, lost answers, keys made elsewhere).
  A command imports or reads keys, posts a job and records the addresses only at
  its end; a session may expire in between, and a request may be served although
  it failed.  Correct: the addresses, the database and the job on record are
  those of the node, a job is not posted twice by a retry, and the command ends
  whatever the node does - but for one thing: a call that is accepted and never
  answered, which no timeout ends.

`PROJECT.json` lists every hazard at its line with the property that would
show it.  Where a property makes an exception of exactly that hazard, because
the code takes no precaution against it, the hazard has a note instead.

## Modules

| Module | What it is |
|---|---|
| `JobBatch` | what the job pool promises its caller: the abstract specification |
| `ParallelPool` | the job pool, step by step; refines `JobBatch` |
| `ParallelPoolProofs` | its theorems |
| `NodeNetwork` | network commands, containers and the nodes in `config.toml` |
| `NodeNetworkProofs` | its theorems |
| `KeyStore`, `MCKeyStore` | key commands and `keys.json`; the names of the small instance |
| `KeyStoreProofs` | its theorems |
| `ContractSetup`, `MCContractSetup` | contract and configuration commands and the contracts in `config.toml`; symmetry |
| `ContractSetupProofs` | its theorems |
| `DeployTx`, `MCDeployTx` | the transactions these commands send, with the chain they meet; the operations of the small instance |
| `DeployTxProofs` | its theorems |
| `NodeJobs` | the requests of network commands to a node, their session, and the keys and jobs of the nodes against `config.toml` |
| `NodeJobsProofs` | its theorems |
| `UpkeepLoad`, `MCUpkeepLoad` | registering, configuring and cancelling the upkeeps of a load; symmetry |
| `UpkeepLoadProofs` | its theorems |
| `LoadStats`, `MCLoadStats` | the statistics of a load, read by jobs of the pool, composed with `JobBatch`; the counts of the small instance |
| `LoadStatsProofs` | its theorems |

Definitions with a comment `Mutant:` are plausible mistakes in the code.  They
are in no next-state relation: put in the place of the definition that follows
them, each makes a property fail (`PROJECT.json`, `mutants`), which shows that
the property depends on that line of the code.

### ParallelPool

One call of `RunWithContext` over `NumJobs` jobs.  The dispatcher's actions
are the statements of its loop: `LeaveLoop` (the condition of the `for` and the
check of the context), `NewWorker`, `AwaitWorker` with the two cases `TakeIdle`
and `TakeNil` of the `select`, `AddToGroup`, `Spawn`, `Return`.  `TakeNil` is
the `break` that leaves the `select` and not the loop: the job is then started
on a nil worker.  A job's goroutine goes through `Skip` or `BeginJob`, `EndJob`,
`Lock`, `Store`, `Requeue`, `SignalDone`.  `Lock` and `Store` split
`p.results = append(p.results, r)` into its read and its write, so that the
mutex matters.  `Cancel` may come at any time before the return.

`JobBatch` has the running jobs, the results, the cancellation and whether the
call returned; the mapping is `running <- Running` (the goroutines between
`BeginJob` and `Store`) and `returned <- pc = "returned"`.

### NodeNetwork

A node is a number, or `Boot`.  `pg[n]` is the postgres container that has the
name of node n, with the database in it (databases are numbered as they are
made: a new container is a new database, with new keys) and whether it is up;
`cl[n]` is the chainlink container.  `env` is what `config.toml` records, each
participant with the database its keys come from.  `cmd` is the running command:
its program counter is the call it is about to make, `env` its copy of the
configuration.  A command works on one node after the other, through `List`,
`DropPg`, `KeepPg` or `MakePg` and `StartPg`, `DropCl`, `KeepCl` or `MakeCl` and
`StartCl`, `Ready`, `Register`, or through `RemoveCl`, `RemovePg`; `Write`
records everything at its end.  `Fail` is an error of any call, or an interrupt,
and leaves `config.toml` as it was; `WriteCutShort` is one that comes after the
file was opened with `O_TRUNC` (`internal/io/state.go:134`) and before it was
encoded (`internal/config/io.go:11-18`), and leaves it empty, as does
`ConfigSetup`.  Nothing reads the file between the two halves of a write that
succeeds, for one command runs at a time; so `Write` is one step.  Making a
container whose name a stopped one has is the error `PgNameTaken` or
`ClNameTaken`, and removing what was not found the error `NothingToRemove`.  The
search matches by name prefix: `FoundPg` may return the container of another
node.

Three ghosts say what may be expected of a node.  `failed` has the nodes a failed
command was at: `Touched` names them, for an add those it has come to, for
`remove --all` those up to the one it is at, since it goes node by node and stops
at the first error.  `stopped` has those of which a container has stopped.
`lost[n]` is what was recorded of a node when the file was emptied: such a node
runs on with its keys, and `Known(n)` are those on record or else the lost ones.

### KeyStore

`keys.json` is a sequence of an alias and a value.  A command is `Load` (with
the change it will make), `Truncate` (the file is opened with `O_TRUNC`) and
`Save`; `Die` may come after any of them.  `Add`, `Store` and `Delete` are the
three ways the commands change their copy; `Named` is what a loop over a list of
keys selects of it, as a function of how far the loop has come.  `bucket` is a ghost: the keys each
alias should hold according to the commands that finished.  `spoiled` is set
when a command truncates the file although it changed since it was read (or
while another is writing it), and when one dies between truncating and writing.
From then on no promise is made: the tool takes no lock, and such a loss is
what the user must expect.

### ContractSetup

`file` is the part of `config.toml` about contracts: is there a configured
environment, the address at each slot (0 none, -1 set by hand, else the
deployments in order) and the registrars in the registry's configuration.  A
command is `Act` (it has read the file, has done its work on the chain and holds
what it will write), `Truncate`, `Save`; `Die` anywhere.  Nothing another
command can see changes between reading and working, so these are one action; a
deployment that fails before the contract is mined is no action at all, and one
that fails after it is `Die`.  `Deploy`, `Set`, `SetConfig`, `ChangeNodes` (any
network command), `Setup` and `DeleteEnvironment` differ in what they check
(`DeployNeeds`, `SetNeeds`) and in what they write.  A copy is `stale` when
another command has finished since it was read.

### DeployTx

The account's transactions in the order they were sent, each in the pool, in a
block (and there succeeded or reverted) or gone; the head; and the command of
each terminal with the transactions it has still to send.  `Begin` and
`BuildTxOpts` read the pending nonce, `Send` uses it (replacing what is in the
pool with the same nonce), `Mined` and `Reverted` are what `WaitMined` and the
checks of `wait` and `waitDeployment` make of the receipt, `Confirmed` is
`waitConfirmations` with its unsigned subtraction, asked of a node that is up to
`Lag` blocks behind.  `Mine`, `EmptyBlock` and `Drop` are the chain.  Each
operation of `internal/asset` is the sequence of its transactions; a registry is
four creations.

### NodeJobs

What `NodeNetwork` leaves out of a network command: everything after the
containers are there.  `node[n]` is the node's container, its database, the
private keys it holds (the one it made, called as the database, and imported
ones) and its jobs, each with the registry, the bootstrap (as the database its
peer id comes from) and the address it transmits from.  `env` is the registry,
the bootstrap and the participants of `config.toml`.  `cmd` is the command, its
program counter the request it is about to send: `Drop` and `Make` stand for the
containers, of one node, `Ready` and `Poll` are `waitForNodeReady` with its clock,
`Login` is `authenticate`, and then each request is an `Answer`, or an
`AnswerLost` when it was served and failed all the same, or `NoAnswer` when the
node refuses it.  A 401 leads through `Unauthorized`, `Authenticate` and the
request sent again, or `UnauthorizedAgain`.  `Effect` says what a request changes
at the node and `NextCall` which one follows; `Write` records, `WriteCutShort`
leaves the file empty.  `DeployRegistry` and `ConfigSetup` come between commands.
`past` is a ghost: how many commands failed at the node's database, or had their
record lost with the file, has there been one since the node was recorded
(`dirty`), and is its record newer than registry and bootstrap (`current`).

A call to the daemon or to a node that starts or runs may also be accepted and
never answered (`Silence`): the HTTP client of `internal/restclient/client.go:42-48`
and the one of `internal/node/docker.go:404,420` have no timeout, and the context is never
cancelled.  The command then takes no step (`Returned`) unless its container
stops, which breaks the connection (`Broken`), or the user interrupts it (`Fail`).

The retry after a 401 is modelled by its two outcomes: the request is served or
fails.  Its body has been read by the first attempt, so a POST normally fails;
but a 401 without a body leaves the connection usable, a transport that finds
the connection closed rewinds the request, and so it may be served.

### UpkeepLoad

One load contract, of either kind.  Upkeeps are numbered as they are registered;
`live` are the active ones, `interval` and `ready` what they have been given
(`BatchSetIntervals`, and `BatchPreparingUpkeepsSimple` or
`BatchUpdatePipelineData`).  Each transaction, sent and waited for, is one step;
so is each call that lists upkeeps.  A command that is interrupted while it waits
leaves its transaction behind (`Leave`); it is in `late` until it is mined
(`Lands`), before, between or after anything other commands do.  The effect of a
call on the contract (`Cancels`, `Registers`, `SetsIntervals`, `Prepares`) is the
same for both.  A register goes through `ListOld` and
`BatchCancel` if it cancels first, `SendLINK`, `BatchRegister` until nothing is
left, `ListActive`, and then by slices (a log trigger load) or once (a
conditional one) `BatchSetIntervals` and the preparation.  `duty` is a ghost: the
count the command was given, the number of upkeeps when it began, the upkeeps it
made, and whether nothing has overlapped it, neither another command nor a late
transaction (`alone`).

### LoadStats

`performed[u]` is the upkeep's counter on the chain, `pinned[u]` its value at the
block `ReadStats` notes; `Perform` goes on.  `Pool!` is `JobBatch`: `StartJob`
and `FinishJob` are its `Begin` and `Finish`, `WriteStats` its `Return`.  A job spawns
a goroutine for each bucket (`SpawnBucket`, a counter of `Width` values), each of
which reads (`ReadBucket`), tries again (`Retry`) or gives up (`GiveUp`);
`FinishJob` waits for all.  `Fatal` is `log.Fatal` in a job.  A delay is named by
the number of its perform.  `MaxPerforms` is what the buckets a `uint16` can
number have room for, and `Counts` the counters the upkeeps may start from.

## Runs

| Run | Module, configuration | Instance | What it shows |
|---|---|---|---|
| `pool` | `ParallelPool` | 4 jobs, 2 workers | limit, nil worker, workers and results kept, the call returns, `JobBatch` is implemented |
| `network` | `NodeNetwork` | bootstrap and 2 participants, 4 databases, faults, the file emptied | numbering, `config.toml` against containers, own containers only, commands end |
| `network_eleven` | `NodeNetwork`, `NodeNetworkTen.cfg` | 11 participants, no faults | counterexample to `OwnContainersOnly` |
| `keys` | `MCKeyStore`, `KeyStore.cfg` | 2 terminals, 3 aliases, 4 keys | nothing lost, the signing key kept |
| `contracts` | `MCContractSetup`, `ContractSetup.cfg` | 2 terminals, token and a feed, a load, 2 deployments | dependencies recorded, registrars current, nothing lost |
| `setup_again` | `ContractSetup`, `ContractSetupAgain.cfg` | 1 terminal | counterexample to `SetupKeepsContracts` |
| `transactions` | `MCDeployTx`, `DeployTx.cfg` | 2 terminals, 3 transactions, head to 4, lag 1 | mined, confirmed, own address, in order, waits end |
| `deployed_code` | `MCDeployTx`, `DeployTxCode.cfg` | 1 terminal, a registry | counterexample to `DeployedHasCode` |
| `node_jobs` | `NodeJobs` | bootstrap and 1 participant, 1 key, 3 databases, 2 registries, 2 failures per database | transmitter known, job current, no job twice, commands end unless a call is never answered |
| `node_wait` | `NodeJobs`, `NodeWait.cfg` | 1 node | counterexample to `WaitTimesOut` |
| `load_upkeeps` | `MCUpkeepLoad`, `UpkeepLoad.cfg` | 2 terminals, both kinds, 3 upkeeps, 1 late transaction, batches and slices of 2 | the count registered, all configured, one interval, cancelled gone |
| `load_stats` | `MCLoadStats`, `LoadStats.cfg` | 2 upkeeps, 2 jobs at once, buckets of 2, 3 bucket numbers, 2 attempts | rows and footer at the block, the command ends |

**Bounds.**  `pool`: with two workers and four jobs, two jobs are started on new
workers and two must receive an idle one, one of them when both are busy; larger
instances are covered by the proofs.  `network`: two participants are the fewest
for which one command works on several nodes and another node stands by; a fourth
database leaves room for one reset or one retry after each possible failure
(0.8 million states).
The prefix search needs participant-1 and participant-10, hence the run of its
own with eleven; there nothing fails, to keep it small.  `keys`: four keys are
enough for a name in use twice and one of them replaced, with a command of the
other terminal in between.  `contracts`: addresses set by hand cost nothing, so
two deployments cover a registry deployed after a registrar and the other way
round, and a contract deployed twice; more are covered by the proofs.
`transactions`: three transactions are two commands of which one sends two, with
one nonce taken twice; at head 4 each may be mined and confirmed, and a lag of
one is enough for the subtraction to wrap.  `node_jobs`: 0.4 million states; one
participant and the bootstrap are the two kinds of node, and commands work on
nodes one by one; three databases allow a bootstrap, a participant and a reset
of either; a key besides the node's own is enough for a failed add to have left
another; the clock (`Timeout`, `PollInterval`, `NanosPerSecond`) is scaled down
to a wait of a few polls, whose length no other property of the run depends on.
`node_wait`: with a factor of 3 for the 10^9 the wait goes on past the second poll,
where it should have ended.  `load_upkeeps`: 1.0 million states; counts of one and
three are a batch that is not full and one after a full one, and with three
upkeeps both terminals register and the second slice is a shorter one; one late
transaction at a time may come between any two steps.  A count that would pass the bound,
pending registrations included, is not begun.  `load_stats`: three bucket numbers
reach the last one, where the loop does not end; the upkeeps have at most six
performs together (`MCCounts`), the last bucket of one or some buckets of each, and after the block at most one more per upkeep is performed: which
bucket it falls into is all that matters.

**Symmetry** of the terminals is used in `keys`, `contracts` and `load_upkeeps`, where only
invariants and properties of single steps are checked, and no definition tells
the terminals apart.

**Deadlock** is checked in `pool`, `keys`, `contracts` and `load_upkeeps` (in
`pool` a `Terminated` stutter stands for the call that has returned).  In `network` and
`transactions` the bounds on databases, transactions and blocks let the model,
not the program, stop, so it is off there, as in `node_jobs` for the same reason
and in `load_stats`, whose program ends; `CommandEnds`, `WaitEnds` and `StatsEnd`
say what must not get stuck.

**Fairness.**  `ParallelPool`: weak fairness of the dispatcher and of each
goroutine: the Go scheduler runs whatever can run; jobs are calls that return.
The mutex needs no more, since its holders are finitely many jobs.
`NodeNetwork`: weak fairness of the next step of the running command, not of
starting one or of failures: every call returns.  What becomes of a command of
which one does not is in `NodeJobs`.  `DeployTx`: blocks are made, empty ones or with
the transactions that can be mined, and a command goes on when it can, since
each wait polls every second.  Nothing is assumed about which transaction is
mined, dropped or replaced.  `NodeJobs`: weak fairness of the command's next step,
which a call that is not answered does not have; a node need never start or stay
up, and the session may expire as often as it likes, for the code tries once more
only.  So `CommandEnds` says that a command ends or stays silent for ever: nothing
but its user ends that one.  `LoadStats`: weak fairness of
`PinBlock`, of `WriteStats`, and of each job with its goroutines, which the Go
scheduler gives; an attempt to read may fail every time.  `StatsEnd` excepts an
upkeep in the last bucket a `uint16` can number: there the loop
`for i := uint16(0); i <= bucketNumber; i++` goes round for ever.  `KeyStore`,
`ContractSetup` and `UpkeepLoad` have no liveness property, and no fairness.

## What the runs found

1. **A container of another participant is removed** (`network_eleven`).
   `checkContainerState` filters by `^/<group>-<name>.*$`, so that the search for
   participant-1 also finds participant-10, and keeps the last match, the oldest
   container.  After one reset of participant-1 its own container is the newest,
   and the next reset removes the database of participant-10.
2. **The wait for a node does not time out** (`node_wait`).  `waitForNodeReady`
   promises to give up after 120 seconds: "timed out waiting for node to start,
   waited %d seconds" (`docker.go:430`).  It adds up seconds and compares them with
   a `time.Duration` in nanoseconds, so it would give up after some thousand years.
   A poll the node accepts and does not answer does not even come to the comparison.
3. **config setup drops what is there** (`setup_again`).  The README says the
   command can update an existing environment; it writes a new one, without
   contracts and nodes.
4. **A reverted creation is built upon** (`deployed_code`).  `waitDeployment`
   reads the code at the address to check that there is some, assigns
   `ErrNoCodeAfterDeploy`, and returns nil.  The receipt's status is not looked at.

Further facts shape the properties.  `TrustedConfirmed` excepts transactions
confirmed by a node behind the block of the receipt: there the unsigned
subtraction wraps and no confirmation is waited for.  And `WaitEnds` excepts a
transaction that was lost, which `WaitMined` waits for until interrupted.
`JobCurrent` holds of a node only until the registry is deployed or the bootstrap
set again, since neither command looks at the nodes; `OneJob` allows one job more
per failed command, since an add that follows posts another; `RowsAtBlock`
excepts buckets that could not be read, which count as empty without a word;
`CommandEnds` of `NodeJobs` excepts a command one call of which is never answered,
and rests on the timeout of item 2 for one whose node never gets ready;
`ConfigMatchesContainers` speaks of nodes taken off the record, by `config setup` or
by a write cut short, with the keys that were on it; `OneInterval` is about commands
nothing overlaps, and says that a register takes the intervals of earlier ones away.
`keys` has `key delete` as it is: the help promises a prefix match for a `*`
(`cmd/key/delete.go:16`), and the loop returns after the first key it removes
(`delete.go:43`).

## Proofs

For every number of jobs and every limit (`PoolAssumption`: a natural number of
jobs, a positive limit), `ParallelPoolProofs` shows every safety property that
run `pool` checks, and that the pool implements `JobBatch`.  The argument is one
inductive invariant, `Inv`, whose parts build on each other:

* `TypeOK`, and `ControlInv`: the jobs started are those before `next`, and a nil
  worker in hand means a done context;
* `WorkerInv`: a worker is in at most one place.  It is what makes the queue have
  room, for its workers are distinct numbers up to the limit and the one about to
  be offered back is not among them: so the non-blocking send never takes its
  default, and `NoWorkerLost` is preserved.  It also bounds the running jobs,
  since each holds a worker of its own;
* `MutexInv`: the slice read by the holder of the mutex is still the current one,
  so that appends do not overwrite each other;
* `ResultInv`: a result is recorded once, by the goroutine that passed `Store`;
* `GroupInv`: the WaitGroup counts the goroutines not done, so that at zero none
  is left.

None of `WithinLimit`, `ReturnsComplete` and `NoWorkerLost` is inductive alone.
For the refinement each step is mapped: `BeginJob` to `Begin`, `Store` to
`Finish`, `Cancel` and `Return` to their namesakes, the others stutter; `Begin`
needs `WithinLimit` after the step, `Return` needs `ReturnsComplete`.

Two more theorems are what `Terminates` rests on besides fairness.  `NobodyStuck`:
until the call has returned the dispatcher or some goroutine can take its next
step (`DispatcherCan` and `GoroutineCan` are the guards of the actions to which
`Spec` gives fairness).  For a dispatcher that waits for a worker this is
`NoWorkerLost`, with `AllMade`: it waits only when all workers have been made, so
one of them, not being idle, is held by a goroutine, and that one or the holder of
the mutex goes on.  `StepsRunOut`: each step takes the dispatcher, a goroutine or
the context further, none back, and each has a bounded way to go.

For all terminals, bases, loads and numbers of deployments (`SetupAssumption`:
the link token is a base, and the four kinds of slots are distinct),
`ContractSetupProofs` shows every property that run `contracts` checks.  Its
invariant `IInv` has, besides the types, `GoodCopies`: the file and every copy
are environments in which dependencies are recorded and registrars current.
The only subtle case is the registrar set by hand, which asks for a registry and
not for a token: there the token is recorded because the registry is.  `Fresh`
strengthens `NothingLost`: while the file is not spoiled, at most one terminal
writes, it writes what is on record plus its own contract, and so would every
terminal whose copy is not stale.

For any terminals, plans among the operations, numbers of transactions and of
confirmations and any lag (`TxAssumption`), `DeployTxProofs` shows every safety
property that run `transactions` checks.  `IInv` adds to them:

* `Mining`: the transactions in blocks have different nonces, all below the next
  one.  Since the next nonce is the number of those transactions, it is preserved
  by counting: a mined transaction has the next nonce, which none had.
* `Own`: a command knows of the transactions of its run that all are done but the
  one it waits for, and that that one is of its run.  It makes `InOrder`
  inductive: what is sent next finds the ones before it done, so in blocks, and
  is itself mined in a later one.
* `Runs`: runs are told apart; a run is called by its first transaction, so that
  a new one has a number none has.
* `Trust`: `TrustedMined` and `TrustedConfirmed` in one, kept because what is in
  a block stays as it is and the head only rises.

Type correctness is not for free here: that `PendingNonce` chooses anything is a
counting argument (`PendingNonceTyped`), with the least element of a set of
numbers (`LeastNat`) from the library's well-founded orderings.

Three further theorems are the safety part of `WaitEnds`.  `QueueByNonce`: the
account's transactions in the pool have nonces of their own, none of them used up,
and while none is lost, no nonce is left out before them nor before what a command is
about to send; that `PendingNonce` is the *first* free one is what keeps this when
commands read their nonces at once.  `WaitsAnswered`: so a command that waits has
its answer (`AnswerCan`, the guards of `Mined`, `Reverted` and `Confirmed`), or the
account's next transaction can be mined, or its own lacks confirmations, unless a
transaction was lost.  `QueueMovesUp`: while none is, each transaction mined brings
every other one nearer to its block, and nothing puts one back.

For any participants, keys, bounds and clock (`JobsAssumption`: the counts are
numbers, a key is not one), `NodeJobsProofs` shows every safety property that run
`node_jobs` checks.  `IInv` says how far the running command has come: `AtItsNode`
(what it holds is of a node there is, the next participant for an add), `Progress`
(from the request that reads it on, the address is of a key the node holds; after
the post, the last job is the command's; after the reads, the database is the
node's), `JobCount` (each job too many has a failed command to account for it,
until the command in progress posts its own) and `SettledKnown`, the three
properties of the settled nodes in one.  None of these three is inductive: `Write`
makes a node settled, and only `Progress` knows what it then holds.

What `CommandEnds` rests on besides fairness is proved too.  `CommandsGoOn`: a
running command whose call has returned has a next step (`StepCan` joins the guards
of `Step`), since a request is then answered, refused or sent once more, and the
request for a key finds one (`HoldsKey`); a command in silence has none.  `StepsRunOut`: `ToDo`, the most steps a command has before it - polls
left, requests left, three steps for each - is lowered by every step and error and
raised by nothing the node does meanwhile, falling silent included; a session that expires again and again
does not raise it, for a request is tried twice at most.

For any terminals, counts, batch and slice sizes (`LoadAssumption`),
`UpkeepLoadProofs` shows `AllRegistered` and the three action properties of run
`load_upkeeps`.  `IInv` is local to a terminal: `Tally` (what it has registered
and what is left add up to the count), `Ready`, `Cancelling` (what it is about to
cancel is all there was when it began and still is), `Covered` (what it answers
for is configured or still to be done), `Sliced` and `Alone`.  Every step of
another terminal is `Gentle`: it registers new numbers only, and what stays
active keeps what it has; that is why the interleaving does not matter
(`OthersKept`).  A transaction that lands late is as gentle (`LandsStep`), for one
that sets intervals has an interval to set (`LateReady`).  The action properties
follow from `IInv` before the step.

For any number of participants, counts and databases and any base of at least two
(`NetworkAssumption`), `NodeNetworkProofs` shows `TypeOK` and `NumberedInOrder`,
and for `MaxNodes <= Base`, that is up to ten participants, also
`ConfigMatchesContainers` and `OwnContainersOnly`; run `network_eleven` shows that
the last fails with one more.  The invariant has two parts:

* `Base1`: `Where` (the node the running command is at), `Copy` (how its copy of
  `config.toml` differs from the file: an add appends, a reset changes one
  participant, a remove empties it at the end), and `Databases` (what runs has a
  database).  `NumberedInOrder` is inductive only with `Copy`, since `Write` puts
  the copy in the file's place.
* `Found` (a search found nothing, or the node's own container) and `Done` (the
  nodes the command is done with are as its copy says, or gone; a remove that
  writes has been at every recorded node).  `ConfigMatchesContainers` is inductive
  only with `Done`: `Write` ends the command, and so takes the nodes it was at out
  of the exception.  A file that is emptied leaves `Known` as it was, and so what
  is said of every other node (`KnownBefore`).  `Found` is
  where names matter: with `NamesApart`, no search matches another node, and a
  step disturbs the command's node only (`Elsewhere`).  `OneDigit` derives
  `NamesApart` from `MaxNodes <= Base`.

Again there is what `CommandEnds` rests on besides fairness.  `CommandsGoOn`, up to
ten participants: a running command whose calls return has a next step unless a
container of its node stopped.  It waits for its node's health alone, and by `Standing` the database and the container it
found or started run.  `StepsRunOut`, for any number: `ToDo`, ten steps for each node
still to come and those left at this one, is lowered by every step and error and
raised by nothing else.

The invariants have been checked by TLC on the instances of the runs as well.

For any terminals, aliases, patterns and imports (`KeysAssumption`: the names an
import-ganache gives are different), `KeyStoreProofs` shows every property that run
`keys` checks, for key files of any length.  `IInv` adds to `TypeOK` and
`NothingLost` that, while the file is not spoiled, one terminal writes at most
(`OneWriter`), and what a command may look like (`CommandInv`: a delete that writes
has found a match, an entry to be stored is the only one with its alias).  What
remains is about data: what is left of an alias's keys when the first match is
removed (`DeleteValues`), when the first key of each alias is replaced and the rest
appended (`StoreValues`), and when keys are appended (`AddValues`).  Each is shown
by induction on a sequence, for the set of sequences of which it holds, and the
step of the induction is what `Named` makes of one more key.

For any upkeeps, limit, attempts, bucket size and width (`StatsAssumption`),
`LoadStatsProofs` shows every safety property that run `load_stats` checks.
`IInv` says of a job in progress (`Gathering`) that each bucket up to the loop's
counter has an open goroutine or its answer, unless the job is at the last bucket
there can be, where the counter wraps and nothing but `TypeOK` is kept, for such a
job never ends; and of a finished one that its row is what the block says.  The
arithmetic of the buckets is in lemmas of its own: a counter within `MaxPerforms`
has a bucket below `Width` (`QuotientBelow`), and the buckets up to the current one
have all the performs there are (`QuotientsOrdered`).

`NobodyStuck` and `StepsRunOut` are what `StatsEnd` rests on besides fairness: until
the statistics are printed some job can begin or go on, or they can be printed
(`JobCan` and `PrintCan` are the guards); and each step of a job takes its stage or
the attempts left for one bucket (`Left`) down and no other job's up, unless its
upkeep is at the last bucket, the exception that `StatsEnd` makes.

Model-checked only: liveness (`Terminates`, `WaitEnds`, `StatsEnd`, and
`CommandEnds` of `NodeNetwork` and of `NodeJobs`), which the prover cannot do
under fairness.  What they rest on without it - that somebody can always go on, and
that steps run out - is proved, with the guards written out in the place of
`ENABLED`; that these are `ENABLED` of the fair actions, TLC has confirmed on the
instances of the runs.  All invariants and action properties of the passing runs are
theorems.

## Not modelled

* Contents of transactions and of job specifications, OCR configuration, ports,
  secrets files, images, the Docker network, wording and prompts: no property
  tells them apart.  A chain that reorganises: the code waits for ten
  confirmations (`defaultConfirmations`, `deploy.go:42`) and does not look back.
* Two network commands at the same time: `NodeNetwork` and `NodeJobs` run one at a
  time, `ContractSetup` has them as writers of the file.  So the race of two
  commands that both create the Docker network is not there, but its outcome, a
  failed call, is.
* In `ContractSetup`: two commands that both have `config.toml` open and encode at
  offset 0, the shorter text last.  What follows it is then the end of the longer
  one; the file may no longer parse, which every later command reports, or parse
  with pieces of both.  `Save` takes the last writer's text for the whole file.
  (For `keys.json` that is what a reader gets: `ReadPrivateKeysFrom` decodes one
  JSON value and looks no further.)
* In `NodeNetwork`: calls that never return, which are in `NodeJobs`; that a
  chainlink container is removed with `RemoveLinks` (`docker.go:107-111`): it is
  taken as a plain removal, and a daemon that refuses it as `Fail`; and an add to
  an environment without a bootstrap, which panics before it does anything.
* In `NodeJobs`: the search for containers by a name's prefix, which
  `NodeNetwork` is about, several nodes per command, and `remove`; logging out,
  PUT, PATCH and DELETE, which no command calls; a login without a session cookie,
  after which a 401 panics: the command ends, as with any error; a request that is
  served only after its command has been interrupted and another has begun.
* In `DeployTx`: `SendLINK` and `ApproveLINK` with an amount of 0 send nothing
  (`deploy.go:160,182`), so such a command has no transaction and no plan.
* In `UpkeepLoad`: a list of the active upkeeps read from a node whose head lags.
  A register has waited at that node for ten confirmations of its last batch, so
  only a further lag, or the subtraction of `deploy.go:332` having wrapped (run
  `transactions`), shows it an older list.  A cancel has waited for nothing: asking a node that
  lags it may miss what another command has just registered, so `CancelledGone` is
  about nodes that are up to date.
* In `LoadStats`: percentiles and the table.
* `network participant fund` and `call`: a lookup with one transfer, and single
  read-only calls.  The mercury mock is not registered by the root command.
  Formatting and parsing helpers are pure.
* The chain id of `config setup`, which stays 0 if enter is pressed at a prompt
  that offers 1337: one missing assignment, on which no run is spent.

## Plan

Done: `ParallelPool` with its promise, `KeyStore`, `ContractSetup`, `DeployTx`,
`NodeNetwork`, `UpkeepLoad`, `NodeJobs` and `LoadStats`, all with proofs.  Worth
doing next:

1. `NodeNetwork` with two commands at once.
2. `NodeNetwork` and `NodeJobs` as refinements of one module of what a network
   command promises, so that a command of `NodeJobs` works on several nodes.
