------------------------------ MODULE DeployTx ------------------------------
(***************************************************************************)
(* The transactions of the commands that work on the chain                 *)
(* (src/internal/asset): BuildTxOpts, the submission, wait, waitDeployment *)
(* and waitConfirmations of deploy.go, and the operations that string them *)
(* together - a registry is four contracts, each built on the one before.  *)
(*                                                                         *)
(* Commands run side by side with one key, and so with one account and one *)
(* sequence of nonces.  The chain is as the code meets it: a pool that may *)
(* drop or replace a transaction, blocks, receipts, and a node whose head  *)
(* may lag behind the one that gave the receipt.                           *)
(***************************************************************************)
EXTENDS Integers, Sequences, FiniteSets

CONSTANTS Terminals,      \* where commands are run
          Plans,          \* the operations they do
          Confirmations,  \* defaultConfirmations
          Lag,            \* how many blocks the answering node may be behind
          MaxTxs,         \* bound on the transactions ever sent
          MaxHead         \* bound on the chain's height

(* The operations, each the transactions it sends one after the other. *)
TokenDeploy == <<"create">>
LinkETHDeploy == <<"create">>
FastGasDeploy == <<"create">>
RegistrarDeploy == <<"create">>
LogLoadDeploy == <<"create">>
ConditionalLoadDeploy == <<"create">>

(* The forwarder, then logic B built on it, logic A on that, the registry. *)
RegistryPart == <<"create">>
RegistryDeploy == RegistryPart \o RegistryPart \o RegistryPart \o RegistryPart

SetOffchainConfig == <<"call">>
SendNative == <<"call">>

(* Of an amount of 0 nothing is sent: no transaction, and no command here. *)
SendLINK == <<"call">>
ApproveLINK == <<"call">>

(* Mint grants the account the role of a minter first, if it lacks it. *)
EnsureMintingRole == {<<>>, <<"call">>}
MintAmountTo == <<"call">>
Mints == {role \o MintAmountTo : role \in EnsureMintingRole}

Operations == {TokenDeploy, LinkETHDeploy, FastGasDeploy, RegistrarDeploy, RegistryDeploy,
               LogLoadDeploy, ConditionalLoadDeploy, SetOffchainConfig, SendNative, SendLINK, ApproveLINK} \cup Mints

ASSUME TxAssumption == /\ Plans \subseteq Operations
                       /\ Confirmations \in Nat \ {0}
                       /\ {Lag, MaxTxs, MaxHead} \subseteq Nat

VARIABLES
  txs,      \* the account's transactions, in the order they were sent
  head,     \* number of the latest block
  proc,     \* the command of each terminal
  trusted,  \* the transactions that a command took for done (ghost)
  lagged    \* those it took for done at a head below their block (ghost)

vars == <<txs, head, proc, trusted, lagged>>
chain == <<txs, head>>
ghosts == <<trusted, lagged>>

TxIds == 1..Len(txs)
Idle == [pc |-> "idle", run |-> 0, plan |-> <<>>, nonce |-> 0, tx |-> 0]

Init == /\ txs = <<>>
        /\ head = 0
        /\ proc = [t \in Terminals |-> Idle]
        /\ trusted = {}
        /\ lagged = {}
-----------------------------------------------------------------------------
(* The chain. *)

InBlock(i) == txs[i].state \in {"ok", "reverted"}
InPool(i) == txs[i].state = "pool"

NextNonce == Cardinality({i \in TxIds : InBlock(i)})

(* The next transaction by nonce gets into a block; it may revert there,    *)
(* whatever the estimate of its gas had said.                               *)
Mine(i, outcome) ==
  /\ InPool(i)
  /\ txs[i].nonce = NextNonce
  /\ head < MaxHead
  /\ head' = head + 1
  /\ txs' = [txs EXCEPT ![i].state = outcome, ![i].block = head']
  /\ UNCHANGED <<proc, ghosts>>

EmptyBlock == /\ head < MaxHead
              /\ head' = head + 1
              /\ UNCHANGED <<txs, proc, ghosts>>

Drop(i) == /\ InPool(i)
           /\ txs' = [txs EXCEPT ![i].state = "gone"]
           /\ UNCHANGED <<head, proc, ghosts>>
-----------------------------------------------------------------------------
(* The commands. *)

(* BuildTxOpts: PendingNonceAt, the first nonce without a transaction. *)
PendingNonce ==
  CHOOSE n \in NextNonce..(NextNonce + Len(txs)) :
    /\ \A i \in TxIds : InPool(i) => txs[i].nonce # n
    /\ \A m \in NextNonce..(n - 1) : \E i \in TxIds : InPool(i) /\ txs[i].nonce = m

(* A command begins by reading its first nonce, and reads one for each      *)
(* further transaction.                                                     *)
Begin(t, plan) ==
  /\ proc[t].pc = "idle"
  /\ Len(txs) < MaxTxs
  /\ proc' = [proc EXCEPT ![t] = [Idle EXCEPT !.pc = "send", !.plan = plan,
                                              !.nonce = PendingNonce]]
  /\ UNCHANGED <<chain, ghosts>>

BuildTxOpts(t) ==
  /\ proc[t].pc = "nonce"
  /\ proc' = [proc EXCEPT ![t].pc = "send", ![t].nonce = PendingNonce]
  /\ UNCHANGED <<chain, ghosts>>

(* A command is known by its first transaction. *)
RunOf(t) == IF proc[t].run = 0 THEN Len(txs) + 1 ELSE proc[t].run

\* Mutant: the receipt is not waited for before the next transaction.
SendOnly(t) ==
  /\ proc[t].pc = "send"
  /\ Len(txs) < MaxTxs
  /\ proc[t].nonce >= NextNonce
  /\ txs' = Append(txs, [run |-> RunOf(t), kind |-> Head(proc[t].plan),
                         nonce |-> proc[t].nonce, state |-> "pool", block |-> 0])
  /\ proc' = [proc EXCEPT ![t] = IF Len(@.plan) = 1 THEN Idle
                                 ELSE [@ EXCEPT !.pc = "nonce", !.plan = Tail(@),
                                                !.run = RunOf(t)]]
  /\ UNCHANGED <<head, ghosts>>

(* The transaction is sent.  One with its nonce that is still in the pool   *)
(* is replaced, if the price suggested meanwhile is high enough.            *)
Send(t) ==
  /\ proc[t].pc = "send"
  /\ Len(txs) < MaxTxs
  /\ proc[t].nonce >= NextNonce
  /\ txs' = Append([i \in TxIds |-> IF InPool(i) /\ txs[i].nonce = proc[t].nonce
                                    THEN [txs[i] EXCEPT !.state = "gone"] ELSE txs[i]],
                   [run |-> RunOf(t), kind |-> Head(proc[t].plan),
                    nonce |-> proc[t].nonce, state |-> "pool", block |-> 0])
  /\ proc' = [proc EXCEPT ![t].pc = "wait", ![t].tx = Len(txs'), ![t].run = RunOf(t)]
  /\ UNCHANGED <<head, ghosts>>

(* The command ends with an error: any call to the node may fail, the nonce *)
(* may be used up, the price too low; or it is interrupted.                 *)
Fail(t) == /\ proc[t].pc # "idle"
           /\ proc' = [proc EXCEPT ![t] = Idle]
           /\ UNCHANGED <<chain, ghosts>>

\* Mutant: the receipt of whatever has the nonce.
MinedSameNonce(t) ==
  /\ proc[t].pc = "wait"
  /\ \E i \in TxIds : /\ txs[i].nonce = txs[proc[t].tx].nonce
                      /\ InBlock(i)
                      /\ txs[proc[t].tx].kind = "call" => txs[i].state = "ok"
  /\ proc' = [proc EXCEPT ![t].pc = "confirm"]
  /\ UNCHANGED <<chain, ghosts>>

\* Mutant: wait without its check of the receipt's status.
MinedUnchecked(t) ==
  /\ proc[t].pc = "wait"
  /\ InBlock(proc[t].tx)
  /\ proc' = [proc EXCEPT ![t].pc = "confirm"]
  /\ UNCHANGED <<chain, ghosts>>

\* Mutant: a creation that has reverted is waited for.
MinedIfOk(t) == /\ proc[t].pc = "wait"
                /\ txs[proc[t].tx].state = "ok"
                /\ proc' = [proc EXCEPT ![t].pc = "confirm"]
                /\ UNCHANGED <<chain, ghosts>>

(* WaitMined returns the receipt.  wait checks its status; waitDeployment   *)
(* checks that it has a contract's address, which every creation has.       *)
Mined(t) == /\ proc[t].pc = "wait"
            /\ InBlock(proc[t].tx)
            /\ txs[proc[t].tx].kind = "call" => txs[proc[t].tx].state = "ok"
            /\ proc' = [proc EXCEPT ![t].pc = "confirm"]
            /\ UNCHANGED <<chain, ghosts>>

Reverted(t) == /\ proc[t].pc = "wait"
               /\ txs[proc[t].tx].kind = "call" /\ txs[proc[t].tx].state = "reverted"
               /\ proc' = [proc EXCEPT ![t] = Idle]
               /\ UNCHANGED <<chain, ghosts>>

\* Mutant: one confirmation short.
EnoughOffByOne(seen, block) == seen < block \/ seen - block >= Confirmations - 1

(* block - receipt.BlockNumber >= confs in uint64: a head below the block   *)
(* of the receipt wraps around and is enough.                               *)
Enough(seen, block) == seen < block \/ seen - block >= Confirmations

\* Mutant: the command goes on after its last transaction.
ConfirmedOneMore(t, seen) ==
  /\ proc[t].pc = "confirm"
  /\ Enough(seen, txs[proc[t].tx].block)
  /\ trusted' = trusted \cup {proc[t].tx}
  /\ lagged' = IF seen < txs[proc[t].tx].block THEN lagged \cup {proc[t].tx} ELSE lagged
  /\ proc' = [proc EXCEPT ![t] =
                IF @.plan = <<>> THEN Idle
                ELSE [@ EXCEPT !.pc = "nonce", !.plan = Tail(@), !.tx = 0, !.nonce = 0]]
  /\ UNCHANGED chain

(* waitConfirmations returns; waitDeployment reads the code and drops what  *)
(* it finds.  The command goes on to its next transaction.                  *)
Confirmed(t, seen) ==
  /\ proc[t].pc = "confirm"
  /\ Enough(seen, txs[proc[t].tx].block)
  /\ trusted' = trusted \cup {proc[t].tx}
  /\ lagged' = IF seen < txs[proc[t].tx].block THEN lagged \cup {proc[t].tx} ELSE lagged
  /\ proc' = [proc EXCEPT ![t] =
                IF Len(proc[t].plan) = 1 THEN Idle
                ELSE [proc[t] EXCEPT !.pc = "nonce", !.plan = Tail(proc[t].plan),
                                     !.tx = 0, !.nonce = 0]]
  /\ UNCHANGED chain

Heads == {h \in (head - Lag)..head : h >= 0}

GoOn(t) == \/ BuildTxOpts(t) \/ Send(t) \/ Mined(t) \/ Reverted(t)
           \/ \E seen \in Heads : Confirmed(t, seen)

Chain == \/ \E i \in TxIds : \/ \E outcome \in {"ok", "reverted"} : Mine(i, outcome)
                             \/ Drop(i)
         \/ EmptyBlock

Next == \/ \E t \in Terminals : \/ \E plan \in Plans : Begin(t, plan)
                                \/ GoOn(t) \/ Fail(t)
        \/ Chain

(* Blocks are made, with the transactions that can be in them, and commands *)
(* go on: each polls once a second.                                         *)
Fairness == /\ WF_vars(EmptyBlock)
            /\ WF_vars(\E i \in TxIds, outcome \in {"ok", "reverted"} : Mine(i, outcome))
            /\ \A t \in Terminals : WF_vars(GoOn(t))

Spec == Init /\ [][Next]_vars /\ Fairness
-----------------------------------------------------------------------------
Tx == [run : 1..MaxTxs, kind : {"create", "call"}, nonce : 0..MaxTxs,
       state : {"pool", "ok", "reverted", "gone"}, block : 0..MaxHead]

(* Variables have values of their types. *)
TypeOK == /\ txs \in Seq(Tx) /\ Len(txs) <= MaxTxs
          /\ head \in 0..MaxHead
          /\ proc \in [Terminals -> [pc : {"idle", "nonce", "send", "wait", "confirm"},
                                     run : 0..Len(txs), plan : Seq({"create", "call"}),
                                     nonce : 0..MaxTxs, tx : 0..Len(txs)]]
          /\ \A t \in Terminals : proc[t].pc # "idle" => proc[t].plan # <<>>
          /\ trusted \subseteq TxIds
          /\ lagged \subseteq trusted

(* What a command took for done is in the chain, though its nonce was used  *)
(* by other commands too; what is not a creation has also succeeded.        *)
TrustedMined == \A i \in trusted :
  InBlock(i) /\ (txs[i].kind = "call" => txs[i].state = "ok")

(* It has its confirmations, unless the node asked was behind: then the     *)
(* subtraction has wrapped.                                                 *)
TrustedConfirmed == \A i \in trusted \ lagged : head - txs[i].block >= Confirmations

(* No two commands take the same address - that of the account and a nonce  *)
(* - for their contract.                                                    *)
OwnAddress == \A i, k \in trusted : txs[i].nonce = txs[k].nonce => i = k

(* The transactions of one command are mined in their order: a registry is  *)
(* never built on a part that is not there yet.                             *)
InOrder == \A i, k \in TxIds :
  txs[i].run = txs[k].run /\ i < k =>
    /\ i \in trusted
    /\ InBlock(k) => txs[i].block < txs[k].block

(* A command does not wait for ever for a transaction that is in a block,   *)
(* reverted or not, nor for one that can still get there: only a lost       *)
(* transaction, or one that follows it by nonce, is waited for in vain.     *)
(* (The model's chain ends at MaxHead.)                                     *)
WaitEnds == \A t \in Terminals :
  proc[t].pc \in {"wait", "confirm"} ~>
    \/ proc[t].pc \notin {"wait", "confirm"}
    \/ ~InBlock(proc[t].tx) /\ \E i \in TxIds : txs[i].state = "gone"
    \/ ~InBlock(proc[t].tx) /\ head = MaxHead
    \/ InBlock(proc[t].tx) /\ txs[proc[t].tx].block + Confirmations > MaxHead

(* "Check that code has indeed been deployed at the address": a creation    *)
(* that was taken for done has not reverted.                                *)
DeployedHasCode == \A i \in trusted :
  txs[i].kind = "create" => txs[i].state = "ok"
=============================================================================
