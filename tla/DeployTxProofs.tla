--------------------------- MODULE DeployTxProofs ---------------------------
(***************************************************************************)
(* Proofs about DeployTx, for any number of terminals and transactions,    *)
(* any plans among the operations, any Confirmations and any lag.          *)
(*                                                                         *)
(* A transaction in a block stays there, and the nonces of those are used  *)
(* up one by one; a command knows of its transactions that all but the one *)
(* it waits for are done.                                                  *)
(***************************************************************************)
EXTENDS DeployTx, FiniteSetTheorems, SequenceTheorems, WellFoundedInduction, TLAPS

(* A set of numbers has a least one. *)
LEMMA LeastNat ==
  ASSUME NEW S \in SUBSET Nat, S # {}
  PROVE  \E n \in S : \A m \in S : n <= m
<1> DEFINE R == {ss \in Nat \X Nat : ss[1] < ss[2]}
<1>1. IsWellFoundedOn(R, Nat)
  BY NatLessThanWellFounded, Zenon DEF OpToRel
<1>2. PICK n \in S : \A m \in S : <<m, n>> \notin R
  <2> HIDE DEF R
  <2> QED BY <1>1, WFMin
<1>3. \A m \in S : ~(m < n)
  BY <1>2
<1> QED BY <1>3

(* A function on a segment of numbers is a sequence, as long as the segment. *)
LEMMA SegmentSeq ==
  ASSUME NEW S, NEW n \in Nat, NEW f \in [1..n -> S]
  PROVE  f \in Seq(S) /\ Len(f) = n
<1>1. f \in Seq(S)
  OBVIOUS
<1>2. Len(f) \in Nat /\ DOMAIN f = 1..Len(f)
  BY <1>1, LenProperties
<1>3. 1..Len(f) = 1..n
  BY <1>2
<1> QED BY <1>1, <1>2, <1>3
-------------------------------------------------------------------------------
(* The nonces in blocks are used up one by one, and heights are in the past. *)
Mining ==
  /\ \A i \in TxIds : InBlock(i) => txs[i].nonce < NextNonce /\ txs[i].block <= head
  /\ \A i, k \in TxIds :
       InBlock(i) /\ InBlock(k) /\ txs[i].nonce = txs[k].nonce => i = k

Succeeded(i) == InBlock(i) /\ (txs[i].kind = "call" => txs[i].state = "ok")

(* What a command knows of its transaction, and of those before it. *)
Awaits(t) == proc[t].pc \in {"wait", "confirm"}
Own(t) ==
  /\ proc[t].pc = "idle" => proc[t].run = 0
  /\ proc[t].pc = "nonce" => proc[t].run # 0
  /\ Awaits(t) => /\ proc[t].tx \in TxIds /\ proc[t].run # 0
                  /\ txs[proc[t].tx].run = proc[t].run
  /\ proc[t].pc = "confirm" => Succeeded(proc[t].tx)
  /\ \A i \in TxIds : txs[i].run = proc[t].run =>
       i \in trusted \/ (Awaits(t) /\ i = proc[t].tx)

(* Runs are told apart: by their first transaction, of one terminal each. *)
Runs ==
  /\ \A i \in TxIds : txs[i].run <= i
  /\ \A s, t \in Terminals : s # t /\ proc[s].run # 0 => proc[s].run # proc[t].run

Trust ==
  \A i \in trusted : /\ Succeeded(i)
                     /\ i \notin lagged => head - txs[i].block >= Confirmations

Proc(n) == [pc : {"idle", "nonce", "send", "wait", "confirm"}, run : 0..n,
            plan : Seq({"create", "call"}), nonce : 0..MaxTxs, tx : 0..n]

(* A transaction with this nonce waits to be mined. *)
Pooled(n) == \E i \in TxIds : InPool(i) /\ txs[i].nonce = n

NoneLost == \A i \in TxIds : txs[i].state # "gone"

(* Those in the pool have nonces of their own, none used up; while none is   *)
(* lost, neither they nor a command that is to send leave out a nonce.       *)
Queue ==
  /\ \A i \in TxIds : InPool(i) => txs[i].nonce >= NextNonce
  /\ \A i, k \in TxIds : InPool(i) /\ InPool(k) /\ txs[i].nonce = txs[k].nonce => i = k
  /\ NoneLost =>
       /\ \A i \in TxIds : InPool(i) => \A n \in NextNonce..txs[i].nonce : Pooled(n)
       /\ \A t \in Terminals : proc[t].pc = "send" =>
            \A n \in NextNonce..(proc[t].nonce - 1) : Pooled(n)

IInv == /\ TypeOK /\ Mining /\ Runs /\ Trust /\ InOrder
        /\ \A t \in Terminals : Own(t)
-----------------------------------------------------------------------------
LEMMA Constants ==
  /\ Confirmations \in Nat \ {0} /\ Lag \in Nat /\ MaxTxs \in Nat /\ MaxHead \in Nat
BY TxAssumption

LEMMA PlansTyped ==
  ASSUME NEW plan \in Plans
  PROVE  plan \in Seq({"create", "call"}) /\ plan # <<>>
<1> DEFINE K == {"create", "call"}
<1>1. <<"create">> \in Seq(K) /\ <<"call">> \in Seq(K) /\ <<>> \in Seq(K)
  OBVIOUS
<1>2. Len(<<"create">>) = 1 /\ Len(<<"call">>) = 1 /\ Len(<<>>) = 0
  OBVIOUS
<1>3. \A s1, s2 \in Seq(K) : s1 \o s2 \in Seq(K) /\ Len(s1 \o s2) = Len(s1) + Len(s2)
  BY ConcatProperties
<1> HIDE DEF K
<1>4. /\ RegistryDeploy \in Seq(K) /\ Len(RegistryDeploy) = 4
  BY <1>1, <1>2, <1>3 DEF RegistryDeploy, RegistryPart
<1>5. \A mint \in Mints : mint \in Seq(K) /\ Len(mint) \in {1, 2}
  <2>1. \A role \in EnsureMintingRole : role \in Seq(K) /\ Len(role) \in {0, 1}
    BY <1>1, <1>2 DEF EnsureMintingRole
  <2>2. \A role \in EnsureMintingRole :
          role \o MintAmountTo \in Seq(K) /\ Len(role \o MintAmountTo) \in {1, 2}
    <3>1. MintAmountTo \in Seq(K) /\ Len(MintAmountTo) = 1
      BY <1>1, <1>2 DEF MintAmountTo
    <3>2. ASSUME NEW role \in EnsureMintingRole
          PROVE  /\ role \o MintAmountTo \in Seq(K)
                 /\ Len(role \o MintAmountTo) = Len(role) + 1
      BY <1>3, <2>1, <3>1
    <3> QED BY <2>1, <3>2
  <2> QED BY <2>2 DEF Mints
<1>6. plan \in Operations
  BY TxAssumption
<1>7. plan \in Mints \cup {RegistryDeploy, <<"create">>, <<"call">>}
  BY <1>6 DEF Operations, TokenDeploy, LinkETHDeploy, FastGasDeploy, RegistrarDeploy,
              LogLoadDeploy, ConditionalLoadDeploy, SetOffchainConfig, SendNative, SendLINK,
              ApproveLINK
<1>8. plan \in Seq(K) /\ Len(plan) # 0
  <2>1. CASE plan \in Mints
    BY <1>5, <2>1
  <2>2. CASE plan = RegistryDeploy
    BY <1>4, <2>2
  <2>3. CASE plan \in {<<"create">>, <<"call">>}
    BY <1>1, <1>2, <2>3
  <2> QED BY <1>7, <2>1, <2>2, <2>3
<1> QED BY <1>2, <1>8 DEF K

(* A nonce that no transaction in the pool has is found among the first      *)
(* Len(txs) + 1: there are not enough transactions for all of them.          *)
LEMMA PendingNonceTyped ==
  ASSUME TypeOK
  PROVE  /\ PendingNonce \in 0..MaxTxs
         /\ NextNonce \in Nat /\ PendingNonce >= NextNonce
         /\ \A n \in NextNonce..(PendingNonce - 1) : Pooled(n)
<1> DEFINE L == Len(txs)
           blk == {i \in TxIds : InBlock(i)}
           pool == {i \in TxIds : InPool(i)}
           P == {txs[i].nonce : i \in pool}
           Free(n) == /\ \A i \in TxIds : InPool(i) => txs[i].nonce # n
                      /\ \A m \in NextNonce..(n - 1) :
                           \E i \in TxIds : InPool(i) /\ txs[i].nonce = m
<1>1. /\ L \in Nat /\ L <= MaxTxs /\ TxIds = 1..L /\ MaxTxs \in Nat
      /\ \A i \in TxIds : txs[i] \in Tx
  BY LenProperties, ElementOfSeq, Constants DEF TypeOK, TxIds
<1>2. IsFiniteSet(TxIds) /\ Cardinality(TxIds) = L
  <2>1. 1 \in Int /\ L \in Int
    BY <1>1
  <2>2. IsFiniteSet(1..L) /\ Cardinality(1..L) = IF 1 > L THEN 0 ELSE L - 1 + 1
    BY <2>1, FS_Interval
  <2> HIDE DEF L
  <2> QED BY <1>1, <2>2
<1>3. /\ IsFiniteSet(blk) /\ IsFiniteSet(pool) /\ Cardinality(blk) \in Nat
      /\ Cardinality(pool) \in Nat /\ Cardinality(blk) + Cardinality(pool) <= L
  <2>1. blk \in SUBSET TxIds /\ pool \in SUBSET TxIds /\ blk \cup pool \in SUBSET TxIds
        /\ blk \cap pool = {}
    BY DEF InBlock, InPool
  <2>2. IsFiniteSet(blk) /\ IsFiniteSet(pool) /\ Cardinality(blk \cup pool) <= L
    BY <1>2, <2>1, FS_Subset
  <2> HIDE DEF blk, pool
  <2>3. Cardinality(blk) \in Nat /\ Cardinality(pool) \in Nat
    BY <2>2, FS_CardinalityType
  <2>4. Cardinality(blk \cup pool) = Cardinality(blk) + Cardinality(pool) - 0
    BY <2>1, <2>2, FS_Union, FS_EmptySet
  <2> QED BY <2>2, <2>3, <2>4
<1>4. NextNonce = Cardinality(blk) /\ NextNonce \in Nat
  BY <1>3 DEF NextNonce
<1>5. IsFiniteSet(P) /\ Cardinality(P) \in Nat /\ Cardinality(P) <= Cardinality(pool)
      /\ P \subseteq Nat
  <2> DEFINE f == [i \in pool |-> txs[i].nonce]
  <2>1. f \in Surjection(pool, P)
    BY DEF Surjection
  <2>2. P \subseteq Nat
    BY <1>1 DEF Tx
  <2> HIDE DEF f, P, pool
  <2> QED BY <1>3, <2>1, <2>2, FS_Surjection, FS_CardinalityType
<1>6. ASSUME NEW n \in Nat, n >= NextNonce, NextNonce..(n - 1) \subseteq P
      PROVE  n <= L
  <2>1. Cardinality(NextNonce..(n - 1)) <= Cardinality(P)
    BY <1>5, <1>6, FS_Subset
  <2>2. Cardinality(NextNonce..(n - 1)) = n - NextNonce
    <3>1. NextNonce \in Int /\ n - 1 \in Int
      BY <1>4
    <3>2. Cardinality(NextNonce..(n - 1)) =
            IF NextNonce > n - 1 THEN 0 ELSE (n - 1) - NextNonce + 1
      BY <3>1, FS_Interval
    <3> QED BY <1>4, <1>6, <3>2
  <2> HIDE DEF L, P, pool, blk
  <2> QED BY <1>1, <1>3, <1>4, <1>5, <2>1, <2>2
<1>7. \A n : Free(n) <=> n \notin P /\ NextNonce..(n - 1) \subseteq P
  OBVIOUS
<1>8. \E n \in NextNonce..(NextNonce + L) : Free(n)
  <2> DEFINE S == {n \in Nat : n >= NextNonce /\ n \notin P}
  <2>1. S # {}
    <3> DEFINE n == NextNonce + L + 1
    <3>1. n \in Nat /\ n >= NextNonce /\ ~(n <= L)
      BY <1>1, <1>4
    <3>2. PICK m \in NextNonce..(n - 1) : m \notin P
      BY <1>6, <3>1
    <3>3. m \in Nat /\ m >= NextNonce
      BY <1>1, <1>4
    <3> QED BY <3>2, <3>3
  <2>2. PICK n \in S : \A m \in S : n <= m
    BY <2>1, LeastNat
  <2>3. NextNonce..(n - 1) \subseteq P
    BY <1>4, <2>2
  <2>4. n <= L
    BY <1>6, <2>3
  <2>5. n \in NextNonce..(NextNonce + L) /\ n \notin P
    BY <1>1, <1>4, <2>4
  <2> QED BY <1>7, <2>3, <2>5
<1>9. PendingNonce \in NextNonce..(NextNonce + L) /\ Free(PendingNonce)
  BY <1>8 DEF PendingNonce
<1>10. PendingNonce \in Nat /\ PendingNonce >= NextNonce
  BY <1>1, <1>4, <1>9
<1>11. PendingNonce <= L
  BY <1>6, <1>7, <1>9, <1>10
<1>12. \A n \in NextNonce..(PendingNonce - 1) : Pooled(n)
  BY <1>9 DEF Pooled
<1> HIDE DEF Free
<1> QED BY <1>1, <1>4, <1>10, <1>11, <1>12
-----------------------------------------------------------------------------
LEMMA TxsTyped ==
  ASSUME TypeOK
  PROVE  /\ Len(txs) \in Nat /\ Len(txs) <= MaxTxs /\ TxIds = 1..Len(txs)
         /\ \A i \in TxIds : txs[i] \in Tx /\ i \in Nat
BY LenProperties, ElementOfSeq DEF TypeOK, TxIds

(* What no step changes of a transaction: what is in a block stays as it is. *)
Kept == /\ Len(txs') >= Len(txs) /\ Len(txs') \in Nat
        /\ \A i \in TxIds :
             /\ txs'[i].run = txs[i].run /\ txs'[i].kind = txs[i].kind
             /\ txs'[i].nonce = txs[i].nonce
             /\ InBlock(i) => txs'[i] = txs[i]
        /\ head' >= head

LEMMA SucceededKept ==
  ASSUME TypeOK, Kept, NEW i \in TxIds, Succeeded(i)
  PROVE  Succeeded(i)'
BY DEF Succeeded, InBlock, Kept

LEMMA TrustKept ==
  ASSUME IInv, TypeOK', Kept, UNCHANGED <<trusted, lagged>>
  PROVE  Trust'
<1> SUFFICES ASSUME NEW i \in trusted
             PROVE  /\ Succeeded(i)'
                    /\ i \notin lagged => head' - txs'[i].block >= Confirmations
  BY DEF Trust
<1>1. /\ i \in TxIds /\ Succeeded(i) /\ (i \notin lagged => head - txs[i].block >= Confirmations)
  BY DEF IInv, TypeOK, Trust
<1>2. txs'[i] = txs[i] /\ head' >= head /\ Succeeded(i)'
  BY <1>1, SucceededKept DEF Kept, Succeeded, IInv
<1>3. head \in Nat /\ head' \in Nat /\ txs[i].block \in Nat /\ Confirmations \in Nat
  <2>1. txs[i] \in Tx
    BY <1>1, LenProperties, ElementOfSeq DEF TxIds, IInv, TypeOK
  <2> QED BY <2>1, Constants DEF Tx, IInv, TypeOK
<1> QED BY <1>1, <1>2, <1>3

(* A command that does nothing knows the same. *)
LEMMA OwnKept ==
  ASSUME IInv, Kept, trusted \subseteq trusted', NEW t \in Terminals, proc'[t] = proc[t],
         \A i \in TxIds' \ TxIds : txs'[i].run # proc[t].run
  PROVE  Own(t)'
<1>1. Own(t) /\ Len(txs) \in Nat /\ TxIds \subseteq TxIds'
  BY LenProperties DEF IInv, TypeOK, Kept, TxIds
<1>2. Awaits(t)' <=> Awaits(t)
  BY DEF Awaits
<1>3. proc[t].pc = "confirm" => Succeeded(proc[t].tx)'
  BY <1>1, SucceededKept DEF Own, Awaits, IInv
<1>4. ASSUME NEW i \in TxIds', txs'[i].run = proc[t].run
      PROVE  i \in trusted' \/ (Awaits(t) /\ i = proc[t].tx)
  <2>1. i \in TxIds /\ txs[i].run = proc[t].run
    BY <1>4 DEF Kept
  <2> QED BY <1>1, <2>1 DEF Own
<1>5. Awaits(t) => txs'[proc[t].tx].run = proc[t].run
  BY <1>1 DEF Own, Kept
<1> QED BY <1>1, <1>2, <1>3, <1>4, <1>5 DEF Own, Succeeded, InBlock

(* A step of the chain or a command's without a new transaction: the numbers *)
(* of the transactions are as they were.                                     *)
LEMMA MiningKept ==
  ASSUME IInv, TypeOK', Kept, \A i \in TxIds' : InBlock(i)' => i \in TxIds /\ InBlock(i)
  PROVE  Mining' /\ NextNonce' = NextNonce
<1>1. TxIds \subseteq TxIds'
  BY LenProperties DEF IInv, TypeOK, Kept, TxIds
<1>2. {i \in TxIds' : InBlock(i)'} = {i \in TxIds : InBlock(i)}
  BY <1>1 DEF Kept, InBlock
<1>3. NextNonce' = NextNonce
  BY <1>2 DEF NextNonce
<1>4. \A i \in TxIds' : InBlock(i)' => i \in TxIds /\ InBlock(i) /\ txs'[i] = txs[i]
  BY DEF Kept
<1>5. head \in Nat /\ head' \in Nat /\ head' >= head
  BY DEF IInv, TypeOK, Kept
<1>6. \A i \in TxIds : txs[i].block \in Nat
  BY TxsTyped DEF IInv, Tx
<1>7. Mining'
  BY <1>3, <1>4, <1>5, <1>6 DEF IInv, Mining
<1> QED BY <1>3, <1>7

(* The order of the transactions of one run: all but the last are done.      *)
LEMMA RunsKept ==
  ASSUME IInv, Kept, Len(txs') = Len(txs),
         \A s, t \in Terminals : s # t /\ proc'[s].run # 0 => proc'[s].run # proc'[t].run
  PROVE  Runs'
<1>1. TxIds' = TxIds
  BY DEF TxIds
<1> QED BY <1>1 DEF IInv, Runs, Kept
-----------------------------------------------------------------------------
(* A step of the chain alone: a new block, a transaction in it or dropped.   *)
LEMMA ChainKept ==
  ASSUME IInv, TypeOK', Kept, Len(txs') = Len(txs), UNCHANGED <<proc, trusted, lagged>>
  PROVE  Runs' /\ Trust' /\ \A t \in Terminals : Own(t)'
<1>1. Runs'
  <2>1. \A s, t \in Terminals : s # t /\ proc'[s].run # 0 => proc'[s].run # proc'[t].run
    BY DEF IInv, Runs
  <2> QED BY <2>1, RunsKept
<1>2. \A t \in Terminals : Own(t)'
  <2>1. TxIds' \ TxIds = {}
    BY DEF TxIds
  <2> QED BY <2>1, OwnKept
<1> QED BY <1>1, <1>2, TrustKept

(* What mining does: the transaction has the next nonce, and uses it up. *)
LEMMA MineEffect ==
  ASSUME IInv, NEW i \in TxIds, NEW outcome \in {"ok", "reverted"}, Mine(i, outcome)
  PROVE  /\ InPool(i) /\ ~InBlock(i) /\ txs[i].nonce = NextNonce
         /\ head' = head + 1 /\ head' \in 0..MaxHead /\ UNCHANGED <<proc, trusted, lagged>>
         /\ txs' \in Seq(Tx) /\ Len(txs') = Len(txs) /\ TxIds' = TxIds
         /\ txs'[i] = [txs[i] EXCEPT !.state = outcome, !.block = head + 1]
         /\ \A k \in TxIds : k # i => txs'[k] = txs[k]
         /\ InBlock(i)' /\ \A k \in TxIds : k # i => (InBlock(k)' <=> InBlock(k))
         /\ NextNonce \in Nat /\ NextNonce' = NextNonce + 1
<1> DEFINE new == [txs[i] EXCEPT !.state = outcome, !.block = head + 1]
<1>1. /\ txs \in Seq(Tx) /\ Len(txs) \in Nat /\ TxIds = 1..Len(txs) /\ txs[i] \in Tx
      /\ head \in 0..MaxHead /\ Len(txs) <= MaxTxs
  BY TxsTyped DEF IInv, TypeOK
<1>2. /\ InPool(i) /\ txs[i].nonce = NextNonce /\ head' = head + 1 /\ head' \in 0..MaxHead
      /\ UNCHANGED <<proc, trusted, lagged>> /\ ~InBlock(i)
  BY <1>1, Constants DEF Mine, ghosts, InPool, InBlock
<1>3. /\ new \in Tx /\ new.state = outcome /\ new.block = head' /\ new.run = txs[i].run
      /\ new.kind = txs[i].kind /\ new.nonce = txs[i].nonce
  BY <1>1, <1>2 DEF Tx
<1>4. txs' = [txs EXCEPT ![i] = new]
  BY <1>1, <1>2 DEF Mine
<1> HIDE DEF new
<1>5. /\ txs' \in Seq(Tx) /\ Len(txs') = Len(txs) /\ TxIds' = TxIds /\ txs'[i] = new
      /\ \A k \in TxIds : k # i => txs'[k] = txs[k]
  BY <1>1, <1>3, <1>4, ExceptSeq DEF TxIds
<1>8. /\ InBlock(i)' /\ \A k \in TxIds : k # i => (InBlock(k)' <=> InBlock(k))
  BY <1>3, <1>5 DEF InBlock
<1>9. NextNonce \in Nat /\ NextNonce' = NextNonce + 1
  <2> DEFINE blk == {k \in TxIds : InBlock(k)}
  <2>1. {k \in TxIds' : InBlock(k)'} = blk \cup {i} /\ i \notin blk
    BY <1>2, <1>5, <1>8
  <2>2. IsFiniteSet(blk)
    <3>1. 1 \in Int /\ Len(txs) \in Int
      BY <1>1
    <3>2. IsFiniteSet(TxIds) /\ blk \in SUBSET TxIds
      BY <1>1, <3>1, FS_Interval
    <3> HIDE DEF blk
    <3> QED BY <3>2, FS_Subset
  <2>3. NextNonce = Cardinality(blk) /\ NextNonce' = Cardinality(blk \cup {i})
    BY <2>1 DEF NextNonce
  <2> HIDE DEF blk
  <2> QED BY <2>1, <2>2, <2>3, FS_AddElement, FS_CardinalityType
<1> QED BY <1>2, <1>5, <1>8, <1>9 DEF new

LEMMA MineStep ==
  ASSUME IInv, NEW i \in TxIds, NEW outcome \in {"ok", "reverted"}, Mine(i, outcome)
  PROVE  IInv'
<1> DEFINE new == [txs[i] EXCEPT !.state = outcome, !.block = head + 1]
<1>1. /\ txs \in Seq(Tx) /\ Len(txs) \in Nat /\ TxIds = 1..Len(txs) /\ txs[i] \in Tx
      /\ head \in 0..MaxHead /\ Len(txs) <= MaxTxs
  BY TxsTyped DEF IInv, TypeOK
<1>2. /\ InPool(i) /\ txs[i].nonce = NextNonce /\ head' = head + 1 /\ head' \in 0..MaxHead
      /\ UNCHANGED <<proc, trusted, lagged>> /\ ~InBlock(i)
  BY MineEffect
<1>3. /\ new.state = outcome /\ new.block = head' /\ new.run = txs[i].run
      /\ new.kind = txs[i].kind /\ new.nonce = txs[i].nonce
  BY <1>1, <1>2 DEF Tx
<1>5. /\ txs' \in Seq(Tx) /\ Len(txs') = Len(txs) /\ TxIds' = TxIds /\ txs'[i] = new
      /\ \A k \in TxIds : k # i => txs'[k] = txs[k]
  BY MineEffect
<1> HIDE DEF new
<1>6. TypeOK'
  BY <1>1, <1>2, <1>5 DEF IInv, TypeOK
<1>7. Kept
  BY <1>1, <1>2, <1>3, <1>5 DEF Kept, InBlock
<1>8. /\ InBlock(i)' /\ \A k \in TxIds : k # i => (InBlock(k)' <=> InBlock(k))
  BY MineEffect
<1>9. NextNonce \in Nat /\ NextNonce' = NextNonce + 1
  BY MineEffect
<1>10. Mining'
  <2>1. \A k \in TxIds : txs[k].nonce \in Nat /\ txs[k].block \in Nat
    BY TxsTyped, Constants DEF IInv, Tx
  <2>2. \A k \in TxIds : InBlock(k) => txs[k].nonce < NextNonce /\ txs[k].block <= head
    BY DEF IInv, Mining
  <2>3. ASSUME NEW k \in TxIds, InBlock(k)'
        PROVE  txs'[k].nonce < NextNonce' /\ txs'[k].block <= head'
    <3>1. CASE k = i
      BY <1>1, <1>2, <1>3, <1>5, <1>9, <3>1
    <3>2. CASE k # i
      BY <1>1, <1>2, <1>5, <1>8, <1>9, <2>1, <2>2, <2>3, <3>2
    <3> QED BY <3>1, <3>2
  <2>4. ASSUME NEW j \in TxIds, NEW k \in TxIds, InBlock(j)', InBlock(k)',
               txs'[j].nonce = txs'[k].nonce
        PROVE  j = k
    <3>1. \A m \in TxIds : m # i /\ InBlock(m)' => txs'[m].nonce # NextNonce
      BY <1>5, <1>8, <1>9, <2>1, <2>2
    <3>2. txs'[i].nonce = NextNonce
      BY <1>2, <1>3, <1>5
    <3>3. CASE j = i \/ k = i
      BY <2>4, <3>1, <3>2, <3>3
    <3>4. CASE j # i /\ k # i
      BY <1>5, <1>8, <2>4, <3>4 DEF IInv, Mining
    <3> QED BY <3>3, <3>4
  <2> QED BY <1>5, <2>3, <2>4 DEF Mining
<1>11. InOrder'
  <2> SUFFICES ASSUME NEW j \in TxIds, NEW k \in TxIds, txs'[j].run = txs'[k].run, j < k
               PROVE  j \in trusted /\ (InBlock(k)' => txs'[j].block < txs'[k].block)
    BY <1>2, <1>5 DEF InOrder
  <2>1. txs[j].run = txs[k].run
    BY <1>7 DEF Kept
  <2>2. j \in trusted /\ (InBlock(k) => txs[j].block < txs[k].block)
    BY <2>1 DEF IInv, InOrder
  <2>3. InBlock(j) /\ j # i /\ txs'[j] = txs[j] /\ txs[j].block \in Nat /\ txs[j].block <= head
    <3>1. InBlock(j)
      BY <2>2 DEF IInv, Trust, Succeeded
    <3>2. j # i /\ txs'[j] = txs[j]
      BY <1>2, <1>5, <3>1
    <3>3. txs[j].block \in Nat /\ txs[j].block <= head
      BY <3>1, TxsTyped DEF IInv, Mining, Tx
    <3> QED BY <3>1, <3>2, <3>3
  <2>4. CASE k = i
    BY <1>1, <1>2, <1>3, <1>5, <2>2, <2>3, <2>4
  <2>5. CASE k # i
    BY <1>5, <1>8, <2>2, <2>3, <2>5
  <2> QED BY <2>4, <2>5
<1> QED BY <1>2, <1>5, <1>6, <1>7, <1>10, <1>11, ChainKept DEF IInv

LEMMA EmptyBlockStep ==
  ASSUME IInv, EmptyBlock
  PROVE  IInv'
<1>1. /\ head \in 0..MaxHead /\ head' = head + 1 /\ head' \in 0..MaxHead
      /\ UNCHANGED <<txs, proc, trusted, lagged>>
  BY Constants DEF EmptyBlock, ghosts, IInv, TypeOK
<1>2. TypeOK'
  BY <1>1 DEF IInv, TypeOK, TxIds
<1>3. Kept
  BY <1>1, TxsTyped DEF Kept, IInv
<1>4. Mining'
  BY <1>1, <1>2, <1>3, MiningKept DEF TxIds, InBlock
<1>5. InOrder'
  BY <1>1 DEF IInv, InOrder, TxIds, InBlock
<1> QED BY <1>1, <1>2, <1>3, <1>4, <1>5, ChainKept DEF IInv

LEMMA DropStep ==
  ASSUME IInv, NEW i \in TxIds, Drop(i)
  PROVE  IInv'
<1> DEFINE new == [txs[i] EXCEPT !.state = "gone"]
<1>1. /\ txs \in Seq(Tx) /\ Len(txs) \in Nat /\ TxIds = 1..Len(txs) /\ txs[i] \in Tx
      /\ Len(txs) <= MaxTxs
  BY TxsTyped DEF IInv, TypeOK
<1>2. ~InBlock(i) /\ UNCHANGED <<head, proc, trusted, lagged>>
  BY <1>1 DEF Drop, ghosts, InPool, InBlock
<1>3. /\ new \in Tx /\ new.state = "gone" /\ new.run = txs[i].run
      /\ new.kind = txs[i].kind /\ new.nonce = txs[i].nonce
  BY <1>1 DEF Tx
<1>4. txs' = [txs EXCEPT ![i] = new]
  BY <1>1 DEF Drop
<1> HIDE DEF new
<1>5. /\ txs' \in Seq(Tx) /\ Len(txs') = Len(txs) /\ TxIds' = TxIds /\ txs'[i] = new
      /\ \A k \in TxIds : k # i => txs'[k] = txs[k]
  BY <1>1, <1>3, <1>4, ExceptSeq DEF TxIds
<1>6. TypeOK'
  BY <1>1, <1>2, <1>5 DEF IInv, TypeOK
<1>7. Kept
  <2>1. head' >= head
    BY <1>2 DEF IInv, TypeOK
  <2> QED BY <1>1, <1>2, <1>3, <1>5, <2>1 DEF Kept, InBlock
<1>8. \A k \in TxIds' : InBlock(k)' => k \in TxIds /\ InBlock(k)
  BY <1>3, <1>5 DEF InBlock
<1>9. Mining'
  BY <1>6, <1>7, <1>8, MiningKept
<1>10. InOrder'
  <2> SUFFICES ASSUME NEW j \in TxIds, NEW k \in TxIds, txs'[j].run = txs'[k].run, j < k
               PROVE  j \in trusted /\ (InBlock(k)' => txs'[j].block < txs'[k].block)
    BY <1>2, <1>5 DEF InOrder
  <2>1. txs[j].run = txs[k].run
    BY <1>7 DEF Kept
  <2>2. j \in trusted /\ (InBlock(k) => txs[j].block < txs[k].block)
    BY <2>1 DEF IInv, InOrder
  <2>3. InBlock(j)
    BY <2>2 DEF IInv, Trust, Succeeded
  <2>4. j # i /\ txs'[j] = txs[j]
    BY <1>2, <1>5, <2>3
  <2>5. InBlock(k)' => InBlock(k) /\ txs'[k] = txs[k]
    BY <1>2, <1>5, <1>8
  <2> QED BY <2>2, <2>4, <2>5
<1> QED BY <1>2, <1>5, <1>6, <1>7, <1>9, <1>10, ChainKept DEF IInv
-----------------------------------------------------------------------------
(* A step of one command that sends nothing: what it knows afterwards, and   *)
(* that what it took for done is, are left to show.                          *)
LEMMA ProcStep ==
  ASSUME IInv, TypeOK', UNCHANGED chain, NEW t \in Terminals, trusted \subseteq trusted',
         Trust', Own(t)', proc'[t].run \in {0, proc[t].run},
         \A s \in Terminals : s # t => proc'[s] = proc[s]
  PROVE  IInv'
<1>1. UNCHANGED <<txs, head>> /\ TxIds' = TxIds /\ Len(txs') = Len(txs)
  BY DEF chain, TxIds
<1>2. Kept
  <2>1. head' >= head
    BY <1>1 DEF IInv, TypeOK
  <2> QED BY <1>1, <2>1, TxsTyped DEF Kept, IInv
<1>3. Mining'
  BY <1>1, <1>2, MiningKept DEF InBlock
<1>4. Runs'
  <2>1. \A s, r \in Terminals : s # r /\ proc'[s].run # 0 => proc'[s].run # proc'[r].run
    BY DEF IInv, Runs
  <2> QED BY <1>1, <1>2, <2>1, RunsKept
<1>5. InOrder'
  BY <1>1 DEF IInv, InOrder, InBlock
<1>6. ASSUME NEW s \in Terminals
      PROVE  Own(s)'
  <2>1. CASE s # t
    BY <1>1, <1>2, <2>1, OwnKept
  <2> QED BY <2>1
<1> QED BY <1>3, <1>4, <1>5, <1>6 DEF IInv

LEMMA ProcTyped ==
  ASSUME TypeOK, UNCHANGED chain, NEW t \in Terminals, NEW rec \in Proc(Len(txs)),
         proc' = [proc EXCEPT ![t] = rec], rec.pc # "idle" => rec.plan # <<>>,
         trusted' \subseteq TxIds, lagged' \subseteq trusted'
  PROVE  TypeOK' /\ proc'[t] = rec /\ \A s \in Terminals : s # t => proc'[s] = proc[s]
<1>1. UNCHANGED <<txs, head>> /\ TxIds' = TxIds /\ proc \in [Terminals -> Proc(Len(txs))]
  BY DEF chain, TxIds, TypeOK, Proc
<1>2. /\ proc' \in [Terminals -> Proc(Len(txs))] /\ proc'[t] = rec
      /\ \A s \in Terminals : s # t => proc'[s] = proc[s]
  BY <1>1
<1>3. \A s \in Terminals : proc'[s].pc # "idle" => proc'[s].plan # <<>>
  BY <1>2 DEF TypeOK
<1> QED BY <1>1, <1>2, <1>3 DEF TypeOK, Proc

LEMMA IdleTyped ==
  ASSUME TypeOK
  PROVE  /\ Idle \in Proc(Len(txs)) /\ Idle.pc = "idle" /\ Idle.run = 0 /\ Idle.tx = 0
         /\ Idle.nonce = 0
<1>1. 0 \in 0..Len(txs) /\ 0 \in 0..MaxTxs /\ <<>> \in Seq({"create", "call"})
  BY TxsTyped, Constants
<1> QED BY <1>1 DEF Idle, Proc

(* A command that ends has no run any more. *)
LEMMA IdleStep ==
  ASSUME IInv, UNCHANGED chain, NEW t \in Terminals, proc' = [proc EXCEPT ![t] = Idle],
         trusted \subseteq trusted', trusted' \subseteq TxIds, lagged' \subseteq trusted', Trust'
  PROVE  IInv'
<1>1. TypeOK' /\ proc'[t] = Idle /\ \A s \in Terminals : s # t => proc'[s] = proc[s]
  BY IdleTyped, ProcTyped DEF IInv
<1>2. proc'[t].pc = "idle" /\ proc'[t].run = 0
  BY <1>1, IdleTyped DEF IInv
<1>3. \A i \in TxIds' : txs'[i].run # 0
  BY TxsTyped DEF Tx, chain, TxIds, IInv
<1>4. Own(t)'
  BY <1>2, <1>3 DEF Own, Awaits
<1> QED BY <1>1, <1>2, <1>4, ProcStep

LEMMA TrustSame ==
  ASSUME IInv, UNCHANGED <<chain, ghosts>>
  PROVE  Trust' /\ trusted' = trusted /\ trusted' \subseteq TxIds /\ lagged' \subseteq trusted'
BY DEF IInv, TypeOK, Trust, chain, ghosts, Succeeded, InBlock

LEMMA BeginStep ==
  ASSUME IInv, NEW t \in Terminals, NEW plan \in Plans, Begin(t, plan)
  PROVE  IInv'
<1> DEFINE rec == [Idle EXCEPT !.pc = "send", !.plan = plan, !.nonce = PendingNonce]
<1>1. plan \in Seq({"create", "call"}) /\ plan # <<>> /\ PendingNonce \in 0..MaxTxs
  BY PlansTyped, PendingNonceTyped DEF IInv
<1>2. /\ rec \in Proc(Len(txs)) /\ rec.pc = "send" /\ rec.plan = plan /\ rec.run = 0
  BY <1>1, IdleTyped DEF IInv, Proc, Idle
<1>3. proc' = [proc EXCEPT ![t] = rec] /\ UNCHANGED <<chain, ghosts>>
  BY DEF Begin
<1> HIDE DEF rec
<1>4. TypeOK' /\ proc'[t] = rec /\ \A s \in Terminals : s # t => proc'[s] = proc[s]
  BY <1>1, <1>2, <1>3, ProcTyped, TrustSame DEF IInv
<1>5. \A i \in TxIds' : txs'[i].run # 0
  BY <1>3, TxsTyped DEF Tx, chain, TxIds, IInv
<1>6. Own(t)'
  BY <1>2, <1>4, <1>5 DEF Own, Awaits
<1> QED BY <1>2, <1>3, <1>4, <1>6, ProcStep, TrustSame

LEMMA BuildTxOptsStep ==
  ASSUME IInv, NEW t \in Terminals, BuildTxOpts(t)
  PROVE  IInv'
<1> DEFINE rec == [proc[t] EXCEPT !.pc = "send", !.nonce = PendingNonce]
<1>1. /\ proc[t] \in Proc(Len(txs)) /\ PendingNonce \in 0..MaxTxs /\ proc[t].plan # <<>>
      /\ proc[t].pc = "nonce"
  BY PendingNonceTyped DEF IInv, TypeOK, Proc, BuildTxOpts
<1>2. /\ rec \in Proc(Len(txs)) /\ rec.pc = "send" /\ rec.plan = proc[t].plan
      /\ rec.run = proc[t].run
  BY <1>1 DEF Proc
<1>3. proc' = [proc EXCEPT ![t] = rec] /\ UNCHANGED <<chain, ghosts>>
  BY <1>1 DEF BuildTxOpts, IInv, TypeOK
<1> HIDE DEF rec
<1>4. TypeOK' /\ proc'[t] = rec /\ \A s \in Terminals : s # t => proc'[s] = proc[s]
  BY <1>1, <1>2, <1>3, ProcTyped, TrustSame DEF IInv
<1>5. UNCHANGED <<txs, trusted>> /\ TxIds' = TxIds /\ proc'[t].run = proc[t].run
      /\ proc'[t].pc = "send"
  BY <1>2, <1>3, <1>4 DEF chain, ghosts, TxIds
<1>6. \A i \in TxIds : txs[i].run = proc[t].run => i \in trusted
  BY <1>1 DEF IInv, Own, Awaits
<1>7. Own(t)'
  BY <1>5, <1>6 DEF Own, Awaits
<1> QED BY <1>2, <1>3, <1>4, <1>7, ProcStep, TrustSame

LEMMA MinedStep ==
  ASSUME IInv, NEW t \in Terminals, Mined(t)
  PROVE  IInv'
<1> DEFINE rec == [proc[t] EXCEPT !.pc = "confirm"]
<1>1. /\ proc[t] \in Proc(Len(txs)) /\ proc[t].plan # <<>> /\ proc[t].pc = "wait"
      /\ Succeeded(proc[t].tx)
  BY DEF IInv, TypeOK, Proc, Mined, Succeeded
<1>2. /\ rec \in Proc(Len(txs)) /\ rec.pc = "confirm" /\ rec.plan = proc[t].plan
      /\ rec.run = proc[t].run /\ rec.tx = proc[t].tx
  BY <1>1 DEF Proc
<1>3. proc' = [proc EXCEPT ![t] = rec] /\ UNCHANGED <<chain, ghosts>>
  BY <1>1 DEF Mined, IInv, TypeOK
<1> HIDE DEF rec
<1>4. TypeOK' /\ proc'[t] = rec /\ \A s \in Terminals : s # t => proc'[s] = proc[s]
  BY <1>1, <1>2, <1>3, ProcTyped, TrustSame DEF IInv
<1>5. /\ UNCHANGED <<txs, trusted>> /\ TxIds' = TxIds /\ proc'[t].run = proc[t].run
      /\ proc'[t].pc = "confirm" /\ proc'[t].tx = proc[t].tx
  BY <1>2, <1>3, <1>4 DEF chain, ghosts, TxIds
<1>6. Own(t)'
  BY <1>1, <1>5 DEF IInv, Own, Awaits, Succeeded, InBlock
<1> QED BY <1>2, <1>3, <1>4, <1>6, ProcStep, TrustSame

LEMMA EndStep ==
  ASSUME IInv, NEW t \in Terminals, Fail(t) \/ Reverted(t)
  PROVE  IInv'
<1>1. proc' = [proc EXCEPT ![t] = Idle] /\ UNCHANGED <<chain, ghosts>>
  BY DEF Fail, Reverted
<1> QED BY <1>1, TrustSame, IdleStep

LEMMA ConfirmedStep ==
  ASSUME IInv, NEW t \in Terminals, NEW seen \in Heads, Confirmed(t, seen)
  PROVE  IInv'
<1> DEFINE x == proc[t].tx
           rec == [proc[t] EXCEPT !.pc = "nonce", !.plan = Tail(proc[t].plan), !.tx = 0, !.nonce = 0]
<1>1. /\ proc[t] \in Proc(Len(txs)) /\ proc[t].plan # <<>> /\ proc[t].pc = "confirm"
      /\ Enough(seen, txs[x].block) /\ UNCHANGED <<txs, head>>
      /\ trusted' = trusted \cup {x} /\ UNCHANGED chain
      /\ lagged' = IF seen < txs[x].block THEN lagged \cup {x} ELSE lagged
  BY DEF IInv, TypeOK, Proc, Confirmed, chain
<1>2. /\ x \in TxIds /\ Succeeded(x) /\ txs[x].run = proc[t].run /\ proc[t].run # 0
      /\ \A i \in TxIds : txs[i].run = proc[t].run => i \in trusted \/ i = x
  BY <1>1 DEF IInv, Own, Awaits
<1>3. /\ seen \in Nat /\ head \in Nat /\ seen <= head /\ txs[x].block \in Nat
      /\ Confirmations \in Nat
  <2>1. head \in Nat
    BY Constants DEF IInv, TypeOK
  <2>2. seen \in Nat /\ seen <= head
    BY <2>1, Constants DEF Heads
  <2> QED BY <1>2, <2>1, <2>2, TxsTyped, Constants DEF IInv, Tx
<1>4. seen >= txs[x].block => head - txs[x].block >= Confirmations
  BY <1>1, <1>3 DEF Enough
<1>5. trusted' \subseteq TxIds /\ lagged' \subseteq trusted' /\ lagged \subseteq lagged'
  BY <1>1, <1>2 DEF IInv, TypeOK
<1>6. Trust'
  <2> SUFFICES ASSUME NEW i \in trusted'
               PROVE  Succeeded(i) /\ (i \notin lagged' => head - txs[i].block >= Confirmations)
    BY <1>1 DEF Trust, Succeeded, InBlock
  <2>1. CASE i \in trusted
    BY <1>5, <2>1 DEF IInv, Trust
  <2>2. CASE i = x
    BY <1>1, <1>2, <1>3, <1>4, <2>2
  <2> QED BY <1>1, <2>1, <2>2
<1>7. CASE Len(proc[t].plan) = 1
  <2>1. proc' = [proc EXCEPT ![t] = Idle]
    BY <1>7 DEF Confirmed
  <2> QED BY <1>1, <1>5, <1>6, <2>1, IdleStep
<1>8. CASE Len(proc[t].plan) # 1
  <2>1. Tail(proc[t].plan) \in Seq({"create", "call"}) /\ Tail(proc[t].plan) # <<>>
    <3> DEFINE K == {"create", "call"}
    <3>1. proc[t].plan \in Seq(K) /\ proc[t].plan # <<>>
      BY <1>1 DEF Proc
    <3> HIDE DEF K
    <3>2. /\ Tail(proc[t].plan) \in Seq(K) /\ Len(Tail(proc[t].plan)) = Len(proc[t].plan) - 1
          /\ Len(proc[t].plan) \in Nat
      BY <3>1, HeadTailProperties, LenProperties
    <3>3. Len(Tail(proc[t].plan)) # 0
      BY <1>8, <3>2
    <3>4. Tail(proc[t].plan) # <<>>
      BY <3>2, <3>3, EmptySeq
    <3> QED BY <3>2, <3>4 DEF K
  <2>2. 0 \in 0..MaxTxs /\ 0 \in 0..Len(txs)
    BY TxsTyped, Constants DEF IInv
  <2>3. /\ rec \in Proc(Len(txs)) /\ rec.pc = "nonce" /\ rec.plan = Tail(proc[t].plan)
        /\ rec.run = proc[t].run
    BY <1>1, <2>1, <2>2 DEF Proc
  <2>4. proc' = [proc EXCEPT ![t] = rec]
    <3> DEFINE next == IF Len(proc[t].plan) = 1 THEN Idle ELSE rec
    <3>1. proc' = [proc EXCEPT ![t] = next]
      BY DEF Confirmed
    <3>2. next = rec
      BY <1>8
    <3> HIDE DEF next
    <3> QED BY <3>1, <3>2
  <2> HIDE DEF rec, x
  <2>5. TypeOK' /\ proc'[t] = rec /\ \A s \in Terminals : s # t => proc'[s] = proc[s]
    BY <1>1, <1>5, <2>1, <2>3, <2>4, ProcTyped DEF IInv
  <2>6. /\ proc'[t].run = proc[t].run /\ proc'[t].pc = "nonce" /\ TxIds' = TxIds
        /\ trusted \subseteq trusted'
    BY <1>1, <2>3, <2>5 DEF TxIds
  <2>7. Own(t)'
    BY <1>1, <1>2, <2>6 DEF Own, Awaits
  <2> QED BY <1>1, <1>6, <2>5, <2>6, <2>7, ProcStep
<1> QED BY <1>7, <1>8
-----------------------------------------------------------------------------
(* The transaction a command sends, and what becomes of those before it. *)
SentTx(t) == [run |-> RunOf(t), kind |-> Head(proc[t].plan), nonce |-> proc[t].nonce,
              state |-> "pool", block |-> 0]
SameNonce(t, i) == InPool(i) /\ txs[i].nonce = proc[t].nonce
Replaced(t) == [i \in TxIds |-> IF SameNonce(t, i) THEN [txs[i] EXCEPT !.state = "gone"]
                                ELSE txs[i]]

LEMMA SendEffect ==
  ASSUME IInv, NEW t \in Terminals, Send(t)
  PROVE  /\ Len(txs) \in Nat /\ Len(txs) + 1 <= MaxTxs
         /\ proc \in [Terminals -> Proc(Len(txs))] /\ proc[t].pc = "send"
         /\ proc[t].nonce >= NextNonce
         /\ RunOf(t) \in 1..(Len(txs) + 1)
         /\ (proc[t].run # 0 => RunOf(t) = proc[t].run)
         /\ (proc[t].run = 0 => RunOf(t) = Len(txs) + 1)
         /\ UNCHANGED <<head, trusted, lagged>>
         /\ txs' \in Seq(Tx) /\ Len(txs') = Len(txs) + 1 /\ TxIds' = 1..(Len(txs) + 1)
         /\ \A i \in TxIds : txs'[i] = Replaced(t)[i]
         /\ txs'[Len(txs) + 1] = SentTx(t)
<1> DEFINE L == Len(txs)
           run == RunOf(t)
           rec == SentTx(t)
           old == Replaced(t)
<1>1. /\ L \in Nat /\ TxIds = 1..L /\ L + 1 <= MaxTxs /\ MaxTxs \in Nat /\ txs \in Seq(Tx)
      /\ proc \in [Terminals -> Proc(L)] /\ proc[t] \in Proc(L) /\ proc[t].pc = "send"
      /\ head \in 0..MaxHead
  <2>1. L \in Nat /\ TxIds = 1..L /\ L < MaxTxs /\ MaxTxs \in Nat
    BY TxsTyped, Constants DEF Send, IInv
  <2>2. txs \in Seq(Tx) /\ head \in 0..MaxHead /\ proc[t].pc = "send"
    BY DEF Send, IInv, TypeOK
  <2>3. proc \in [Terminals -> Proc(L)]
    BY DEF IInv, TypeOK, Proc
  <2>4. proc[t] \in Proc(L)
    BY <2>3
  <2> HIDE DEF L
  <2> QED BY <2>1, <2>2, <2>3, <2>4
<1>2. run \in 1..(L + 1) /\ (proc[t].run # 0 => run = proc[t].run)
      /\ (proc[t].run = 0 => run = L + 1)
  BY <1>1 DEF RunOf, Proc
<1>3. Head(proc[t].plan) \in {"create", "call"}
  <2> DEFINE K == {"create", "call"}
  <2>1. proc[t].plan \in Seq(K) /\ proc[t].plan # <<>>
    BY <1>1 DEF Proc, IInv, TypeOK
  <2> HIDE DEF K
  <2>2. Head(proc[t].plan) \in K
    BY <2>1, HeadTailProperties
  <2> QED BY <2>2 DEF K
<1>4. /\ rec \in Tx /\ rec.run = run /\ rec.state = "pool"
  <2>1. run \in 1..MaxTxs /\ 0 \in 0..MaxHead /\ proc[t].nonce \in 0..MaxTxs
    BY <1>1, <1>2, Constants DEF Proc
  <2> QED BY <1>3, <2>1 DEF Tx, SentTx
<1>5. ASSUME NEW i \in TxIds
      PROVE  /\ old[i] \in Tx /\ old[i].run = txs[i].run /\ old[i].kind = txs[i].kind
             /\ old[i].nonce = txs[i].nonce
             /\ old[i].state \in {"ok", "reverted"} => InBlock(i)
             /\ InBlock(i) => old[i] = txs[i]
  BY TxsTyped DEF IInv, Tx, InPool, InBlock, Replaced, SameNonce
<1>6. old \in Seq(Tx) /\ Len(old) = L
  <2>1. old \in [1..L -> Tx]
    BY <1>1, <1>5 DEF Replaced
  <2> HIDE DEF old, L
  <2> QED BY <1>1, <2>1, SegmentSeq
<1>7. /\ txs' = Append(old, rec) /\ UNCHANGED <<head, trusted, lagged>>
  BY DEF Send, ghosts, SentTx, Replaced, SameNonce
<1> HIDE DEF old, rec
<1>8. /\ txs' \in Seq(Tx) /\ Len(txs') = L + 1 /\ TxIds' = 1..(L + 1)
      /\ \A i \in TxIds : txs'[i] = old[i]
      /\ txs'[L + 1] = rec
  BY <1>1, <1>4, <1>6, <1>7, AppendProperties DEF TxIds
<1>9. proc[t].nonce >= NextNonce
  BY DEF Send
<1> HIDE DEF run
<1> QED BY <1>1, <1>2, <1>7, <1>8, <1>9 DEF L, rec, old, run

(* What is sent is the next transaction of its command's run; of those in   *)
(* the pool, none that is in a block or done is replaced.                   *)
LEMMA SendStep ==
  ASSUME IInv, NEW t \in Terminals, Send(t)
  PROVE  IInv'
<1> DEFINE L == Len(txs)
           run == RunOf(t)
           rec == SentTx(t)
           old == Replaced(t)
           me == [proc[t] EXCEPT !.pc = "wait", !.tx = L + 1, !.run = run]
<1>1. /\ L \in Nat /\ TxIds = 1..L /\ L + 1 <= MaxTxs /\ MaxTxs \in Nat /\ txs \in Seq(Tx)
      /\ proc \in [Terminals -> Proc(L)] /\ proc[t] \in Proc(L) /\ proc[t].pc = "send"
      /\ head \in 0..MaxHead
  BY SendEffect, TxsTyped, Constants DEF IInv, TypeOK
<1>2. run \in 1..(L + 1) /\ (proc[t].run # 0 => run = proc[t].run)
      /\ (proc[t].run = 0 => run = L + 1)
  BY SendEffect
<1>4. rec.run = run /\ rec.state = "pool"
  BY DEF SentTx
<1>5. ASSUME NEW i \in TxIds
      PROVE  /\ old[i] \in Tx /\ old[i].run = txs[i].run /\ old[i].kind = txs[i].kind
             /\ old[i].nonce = txs[i].nonce
             /\ old[i].state \in {"ok", "reverted"} => InBlock(i)
             /\ InBlock(i) => old[i] = txs[i]
  BY TxsTyped DEF IInv, Tx, InPool, InBlock, Replaced, SameNonce
<1>7. UNCHANGED <<head, trusted, lagged>>
  BY SendEffect
<1>8. /\ txs' \in Seq(Tx) /\ Len(txs') = L + 1 /\ TxIds' = 1..(L + 1)
      /\ \A i \in TxIds : txs'[i] = old[i]
      /\ txs'[L + 1] = rec
  BY SendEffect
<1> HIDE DEF old, rec
<1>9. proc' = [proc EXCEPT ![t] = me]
  BY <1>8 DEF Send
<1>10. /\ me \in Proc(L + 1) /\ me.pc = "wait" /\ me.tx = L + 1 /\ me.run = run
       /\ me.plan = proc[t].plan
  <2> HIDE DEF run, L
  <2>1. L + 1 \in 0..(L + 1) /\ run \in 0..(L + 1)
    BY <1>1, <1>2
  <2> QED BY <1>1, <2>1 DEF Proc
<1> HIDE DEF me, L
<1>11. /\ proc' \in [Terminals -> Proc(L + 1)] /\ proc'[t] = me
       /\ \A s \in Terminals : s # t => proc'[s] = proc[s]
  <2>1. Proc(L) \subseteq Proc(L + 1)
    BY <1>1 DEF Proc
  <2> QED BY <1>1, <1>9, <1>10, <2>1
<1>12. TypeOK'
  <2>1. TxIds \subseteq TxIds'
    BY <1>1, <1>8
  <2>2. \A s \in Terminals : proc'[s].pc # "idle" => proc'[s].plan # <<>>
    BY <1>1, <1>10, <1>11 DEF IInv, TypeOK
  <2> QED BY <1>1, <1>7, <1>8, <1>11, <2>1, <2>2 DEF IInv, TypeOK, Proc
<1>13. /\ txs'[L + 1].run = run /\ txs'[L + 1].state = "pool"
       /\ \A i \in TxIds' : InBlock(i)' => i \in TxIds /\ InBlock(i)
  <2>1. ASSUME NEW i \in TxIds', InBlock(i)'
        PROVE  i \in TxIds /\ InBlock(i)
    <3>1. i # L + 1
      BY <1>4, <1>8, <2>1 DEF InBlock
    <3>2. i \in TxIds /\ txs'[i] = old[i]
      BY <1>1, <1>8, <3>1
    <3> QED BY <1>5, <2>1, <3>2 DEF InBlock
  <2> QED BY <1>4, <1>8, <2>1
<1>14. Kept
  <2>1. head' >= head
    BY <1>1, <1>7
  <2>2. Len(txs') \in Nat /\ Len(txs') >= Len(txs)
    BY <1>1, <1>8 DEF L
  <2> QED BY <1>5, <1>8, <2>1, <2>2 DEF Kept
<1>15. Mining' /\ Trust'
  BY <1>7, <1>12, <1>13, <1>14, MiningKept, TrustKept DEF IInv
<1>16. \A i \in TxIds : txs[i].run = run => proc[t].run # 0 /\ i \in trusted
  <2>1. \A i \in TxIds : txs[i].run <= L
    BY <1>1, TxsTyped DEF IInv, Runs, Tx
  <2>2. \A i \in TxIds : txs[i].run = proc[t].run => i \in trusted
    BY <1>1 DEF IInv, Own, Awaits
  <2> QED BY <1>1, <1>2, <2>1, <2>2
<1>17. ASSUME NEW s \in Terminals, s # t
       PROVE  proc[s].run # run /\ proc'[s] = proc[s]
  <2>1. proc[s].run \in 0..L
    BY <1>1 DEF Proc
  <2>2. proc[t].run # 0 => proc[s].run # proc[t].run
    BY <1>17 DEF IInv, Runs
  <2> QED BY <1>1, <1>2, <1>11, <1>17, <2>1, <2>2
<1>18. Runs'
  <2>1. ASSUME NEW i \in TxIds'
        PROVE  txs'[i].run <= i
    <3>1. CASE i = L + 1
      BY <1>1, <1>2, <1>13, <3>1
    <3>2. CASE i # L + 1
      BY <1>1, <1>8, <1>14, <3>2 DEF IInv, Runs, Kept
    <3> QED BY <3>1, <3>2
  <2>2. \A s, r \in Terminals : s # r /\ proc'[s].run # 0 => proc'[s].run # proc'[r].run
    BY <1>10, <1>11, <1>17 DEF IInv, Runs
  <2> QED BY <2>1, <2>2 DEF Runs
<1>19. ASSUME NEW s \in Terminals
       PROVE  Own(s)'
  <2>1. CASE s = t
    <3>1. /\ proc'[t].pc = "wait" /\ proc'[t].tx = L + 1 /\ proc'[t].run = run /\ run # 0
          /\ L + 1 \in TxIds' /\ txs'[L + 1].run = run
      BY <1>1, <1>2, <1>8, <1>10, <1>11, <1>13
    <3>2. ASSUME NEW i \in TxIds', txs'[i].run = run
          PROVE  i \in trusted \/ i = L + 1
      <4>1. CASE i # L + 1
        <5>1. i \in TxIds /\ txs[i].run = run
          BY <1>1, <1>8, <1>14, <3>2, <4>1 DEF Kept
        <5> QED BY <1>16, <5>1
      <4> QED BY <4>1
    <3> QED BY <1>7, <2>1, <3>1, <3>2 DEF Own, Awaits
  <2>2. CASE s # t
    <3>1. \A i \in TxIds' \ TxIds : txs'[i].run # proc[s].run
      BY <1>1, <1>8, <1>13, <1>17, <2>2
    <3> QED BY <1>7, <1>14, <1>17, <2>2, <3>1, OwnKept
  <2> QED BY <2>1, <2>2
<1>20. InOrder'
  <2> SUFFICES ASSUME NEW j \in TxIds', NEW k \in TxIds', txs'[j].run = txs'[k].run, j < k
               PROVE  j \in trusted' /\ (InBlock(k)' => txs'[j].block < txs'[k].block)
    BY DEF InOrder
  <2>1. j \in TxIds /\ txs'[j].run = txs[j].run
    BY <1>1, <1>8, <1>14 DEF Kept
  <2>2. CASE k = L + 1
    <3>1. txs[j].run = run /\ ~InBlock(k)'
      BY <1>13, <2>1, <2>2 DEF InBlock
    <3> QED BY <1>7, <1>16, <2>1, <3>1
  <2>3. CASE k # L + 1
    <3>1. k \in TxIds /\ txs[j].run = txs[k].run
      <4>1. k \in TxIds
        BY <1>1, <1>8, <2>3
      <4> QED BY <1>14, <2>1, <4>1 DEF Kept
    <3>2. j \in trusted /\ (InBlock(k) => txs[j].block < txs[k].block)
      BY <2>1, <3>1 DEF IInv, InOrder
    <3>3. txs'[j] = txs[j]
      BY <1>14, <2>1, <3>2 DEF Kept, IInv, Trust, Succeeded
    <3>4. InBlock(k)' => InBlock(k) /\ txs'[k] = txs[k]
      BY <1>13, <1>14, <3>1 DEF Kept
    <3> QED BY <1>7, <3>2, <3>3, <3>4
  <2> QED BY <2>2, <2>3
<1> QED BY <1>12, <1>15, <1>18, <1>19, <1>20 DEF IInv
-----------------------------------------------------------------------------
LEMMA InitInv == Init => IInv
<1> SUFFICES ASSUME Init
             PROVE  IInv
  OBVIOUS
<1>1. /\ txs = <<>> /\ Len(txs) = 0 /\ txs \in Seq(Tx) /\ head = 0 /\ trusted = {} /\ lagged = {}
      /\ proc = [t \in Terminals |-> Idle]
  BY DEF Init
<1>2. TxIds = {}
  BY <1>1 DEF TxIds
<1>3. /\ MaxTxs \in Nat /\ MaxHead \in Nat /\ 0 \in 0..MaxHead /\ 0 \in 0..0 /\ 0 \in 0..MaxTxs
      /\ <<>> \in Seq({"create", "call"})
  BY Constants
<1>4. Idle \in Proc(Len(txs)) /\ Idle.pc = "idle" /\ Idle.run = 0
  BY <1>1, <1>3 DEF Idle, Proc
<1>5. \A t \in Terminals : proc[t].pc = "idle" /\ proc[t].run = 0
  BY <1>1, <1>4
<1>6. TypeOK
  <2>1. proc \in [Terminals -> Proc(Len(txs))]
    BY <1>1, <1>4
  <2> QED BY <1>1, <1>2, <1>3, <1>5, <2>1 DEF TypeOK, Proc
<1>7. Mining /\ Runs /\ Trust /\ InOrder
  BY <1>1, <1>2, <1>5 DEF Mining, Runs, Trust, InOrder
<1>8. \A t \in Terminals : Own(t)
  BY <1>2, <1>5 DEF Own, Awaits
<1> QED BY <1>6, <1>7, <1>8 DEF IInv

LEMMA StutterStep ==
  ASSUME IInv, UNCHANGED vars
  PROVE  IInv'
<1>1. UNCHANGED <<txs, head, proc, trusted, lagged>> /\ TxIds' = TxIds
  BY DEF vars, TxIds
<1>2. TypeOK'
  BY <1>1 DEF IInv, TypeOK
<1>3. Kept
  <2>1. head' >= head
    BY <1>1 DEF IInv, TypeOK
  <2> QED BY <1>1, <2>1, TxsTyped DEF Kept, IInv
<1>4. Mining'
  BY <1>1, <1>2, <1>3, MiningKept DEF InBlock
<1>5. InOrder'
  BY <1>1 DEF IInv, InOrder, InBlock
<1> QED BY <1>1, <1>2, <1>3, <1>4, <1>5, ChainKept DEF IInv

LEMMA InductiveStep == IInv /\ [Next]_vars => IInv'
<1> SUFFICES ASSUME IInv, [Next]_vars
             PROVE  IInv'
  OBVIOUS
<1>1. ASSUME NEW t \in Terminals, NEW plan \in Plans, Begin(t, plan)
      PROVE  IInv'
  BY <1>1, BeginStep
<1>2. ASSUME NEW t \in Terminals, BuildTxOpts(t)
      PROVE  IInv'
  BY <1>2, BuildTxOptsStep
<1>3. ASSUME NEW t \in Terminals, Send(t)
      PROVE  IInv'
  BY <1>3, SendStep
<1>4. ASSUME NEW t \in Terminals, Mined(t)
      PROVE  IInv'
  BY <1>4, MinedStep
<1>5. ASSUME NEW t \in Terminals, Fail(t) \/ Reverted(t)
      PROVE  IInv'
  BY <1>5, EndStep
<1>6. ASSUME NEW t \in Terminals, NEW seen \in Heads, Confirmed(t, seen)
      PROVE  IInv'
  BY <1>6, ConfirmedStep
<1>7. ASSUME NEW i \in TxIds, NEW outcome \in {"ok", "reverted"}, Mine(i, outcome)
      PROVE  IInv'
  BY <1>7, MineStep
<1>8. ASSUME NEW i \in TxIds, Drop(i)
      PROVE  IInv'
  BY <1>8, DropStep
<1>9. CASE EmptyBlock
  BY <1>9, EmptyBlockStep
<1>10. CASE UNCHANGED vars
  BY <1>10, StutterStep
<1> QED BY <1>1, <1>2, <1>3, <1>4, <1>5, <1>6, <1>7, <1>8, <1>9, <1>10 DEF Next, GoOn, Chain

(* The strengthened invariant holds of every state the commands and the      *)
(* chain reach (deploy.go, from BuildTxOpts to waitConfirmations).           *)
THEOREM Invariance == Spec => []IInv
BY InitInv, InductiveStep, PTL DEF Spec

(* Every command's nonce is found, its transaction is one that was sent, and *)
(* it has a transaction left to send for as long as it runs.                 *)
THEOREM TypeCorrect == Spec => []TypeOK
<1>1. IInv => TypeOK
  BY DEF IInv
<1> QED BY <1>1, Invariance, PTL

(* What waitDeployment or wait returned for is in a block and, but for a     *)
(* creation, has succeeded: however many commands use the account's nonces.  *)
THEOREM TrustIsMined == Spec => []TrustedMined
<1>1. IInv => TrustedMined
  BY DEF IInv, Trust, Succeeded, TrustedMined
<1> QED BY <1>1, Invariance, PTL

(* waitConfirmations has waited for all of them, unless its subtraction has  *)
(* wrapped: for any number of confirmations and any lag.                     *)
THEOREM TrustIsConfirmed == Spec => []TrustedConfirmed
<1>1. IInv => TrustedConfirmed
  BY DEF IInv, Trust, TrustedConfirmed
<1> QED BY <1>1, Invariance, PTL

(* Two contracts taken for deployed have different nonces, and so different  *)
(* addresses, though BuildTxOpts of two commands may read the same nonce.    *)
THEOREM AddressesDiffer == Spec => []OwnAddress
<1>1. IInv => OwnAddress
  BY DEF IInv, TypeOK, Mining, Trust, Succeeded, OwnAddress
<1> QED BY <1>1, Invariance, PTL

(* RegistryDeploy builds each of its contracts on parts that are in earlier  *)
(* blocks.                                                                   *)
THEOREM PartsInOrder == Spec => []InOrder
<1>1. IInv => InOrder
  BY DEF IInv
<1> QED BY <1>1, Invariance, PTL
-----------------------------------------------------------------------------
(* Nothing is lost by a step after which nothing is, and what is not in the  *)
(* pool or in a block is lost.                                               *)
LEMMA QueueTyped ==
  ASSUME IInv
  PROVE  /\ NextNonce \in Nat /\ \A i \in TxIds : txs[i].nonce \in Nat
         /\ \A t \in Terminals : proc[t].nonce \in Nat
         /\ NoneLost => \A i \in TxIds : InPool(i) \/ InBlock(i)
<1>1. NextNonce \in Nat
  BY PendingNonceTyped DEF IInv
<1>2. \A i \in TxIds : txs[i].nonce \in Nat
                       /\ txs[i].state \in {"pool", "ok", "reverted", "gone"}
  BY TxsTyped, Constants DEF IInv, Tx
<1>3. \A t \in Terminals : proc[t].nonce \in Nat
  BY Constants DEF IInv, TypeOK
<1> QED BY <1>1, <1>2, <1>3 DEF NoneLost, InPool, InBlock

(* A command that reads its nonce reads the first that is free.              *)
LEMMA QuietQueue ==
  ASSUME IInv, Queue, UNCHANGED txs,
         \A t \in Terminals : proc'[t].pc = "send" =>
            proc'[t] = proc[t] \/ proc'[t].nonce = PendingNonce
  PROVE  Queue' /\ NextNonce' = NextNonce
<1>1. TxIds' = TxIds /\ NextNonce' = NextNonce /\ (NoneLost' <=> NoneLost)
  BY DEF TxIds, NextNonce, InBlock, NoneLost
<1>2. \A n : Pooled(n)' <=> Pooled(n)
  BY DEF TxIds, Pooled, InPool
<1>3. \A n \in NextNonce..(PendingNonce - 1) : Pooled(n)
  BY PendingNonceTyped DEF IInv
<1>4. ASSUME NoneLost, NEW t \in Terminals, proc'[t].pc = "send"
      PROVE  \A n \in NextNonce..(proc'[t].nonce - 1) : Pooled(n)
  BY <1>3, <1>4 DEF Queue
<1>5. \A i \in TxIds : InPool(i)' <=> InPool(i)
  BY DEF InPool
<1> QED BY <1>1, <1>2, <1>4, <1>5 DEF Queue

LEMMA MineQueue ==
  ASSUME IInv, Queue, NEW i \in TxIds, NEW outcome \in {"ok", "reverted"}, Mine(i, outcome)
  PROVE  Queue' /\ NextNonce' = NextNonce + 1
<1>1. /\ InPool(i) /\ txs[i].nonce = NextNonce /\ TxIds' = TxIds /\ UNCHANGED proc
      /\ NextNonce' = NextNonce + 1 /\ InBlock(i)'
      /\ \A k \in TxIds : k # i => txs'[k] = txs[k]
  BY MineEffect
<1>2. /\ NextNonce \in Nat /\ \A k \in TxIds : txs[k].nonce \in Nat
      /\ \A t \in Terminals : proc[t].nonce \in Nat
  BY QueueTyped
<1>3. \A k \in TxIds : InPool(k)' <=> k # i /\ InPool(k)
  BY <1>1 DEF InPool, InBlock
<1>4. \A k \in TxIds : k # i /\ InPool(k) => txs[k].nonce > NextNonce
  BY <1>1, <1>2 DEF Queue
<1>5. ASSUME NEW n \in Nat, n > NextNonce, Pooled(n)
      PROVE  Pooled(n)'
  <2>1. PICK k \in TxIds : InPool(k) /\ txs[k].nonce = n
    BY <1>5 DEF Pooled
  <2>2. k # i
    BY <1>1, <1>2, <1>5, <2>1
  <2> QED BY <1>1, <1>3, <2>1, <2>2 DEF Pooled
<1>6. NoneLost' => NoneLost
  BY <1>1 DEF NoneLost, InPool
<1>7. \A k \in TxIds' : InPool(k)' => txs'[k].nonce >= NextNonce'
  BY <1>1, <1>2, <1>3, <1>4
<1>8. \A j, k \in TxIds' : InPool(j)' /\ InPool(k)' /\ txs'[j].nonce = txs'[k].nonce => j = k
  BY <1>1, <1>3 DEF Queue
<1>9. ASSUME NoneLost', NEW k \in TxIds', InPool(k)', NEW n \in NextNonce'..txs'[k].nonce
      PROVE  Pooled(n)'
  <2>1. k \in TxIds /\ InPool(k) /\ txs'[k] = txs[k]
    BY <1>1, <1>3, <1>9
  <2>2. n \in Nat /\ n > NextNonce /\ n \in NextNonce..txs[k].nonce
    BY <1>1, <1>2, <2>1
  <2>3. Pooled(n)
    BY <1>6, <1>9, <2>1, <2>2 DEF Queue
  <2> QED BY <1>5, <2>2, <2>3
<1>10. ASSUME NoneLost', NEW t \in Terminals, proc'[t].pc = "send",
              NEW n \in NextNonce'..(proc'[t].nonce - 1)
       PROVE  Pooled(n)'
  <2>1. n \in Nat /\ n > NextNonce /\ n \in NextNonce..(proc[t].nonce - 1)
    BY <1>1, <1>2
  <2>2. Pooled(n)
    BY <1>1, <1>6, <1>10, <2>1 DEF Queue
  <2> QED BY <1>5, <2>1, <2>2
<1> QED BY <1>1, <1>7, <1>8, <1>9, <1>10 DEF Queue

LEMMA DropQueue ==
  ASSUME IInv, Queue, NEW i \in TxIds, Drop(i)
  PROVE  Queue' /\ NextNonce' = NextNonce /\ ~NoneLost'
<1> DEFINE new == [txs[i] EXCEPT !.state = "gone"]
<1>1. txs \in Seq(Tx) /\ TxIds = 1..Len(txs) /\ txs[i] \in Tx
  BY TxsTyped DEF IInv, TypeOK
<1>2. new \in Tx /\ new.state = "gone" /\ InPool(i) /\ txs' = [txs EXCEPT ![i] = new]
  BY <1>1 DEF Drop, Tx
<1> HIDE DEF new
<1>3. /\ Len(txs') = Len(txs) /\ TxIds' = TxIds /\ txs'[i] = new
      /\ \A k \in TxIds : k # i => txs'[k] = txs[k]
  BY <1>1, <1>2, ExceptSeq DEF TxIds
<1>4. /\ \A k \in TxIds : InPool(k)' => InPool(k) /\ txs'[k] = txs[k]
      /\ \A k \in TxIds : InBlock(k)' <=> InBlock(k)
  BY <1>2, <1>3 DEF InPool, InBlock
<1>5. NextNonce' = NextNonce
  <2>1. {k \in TxIds' : InBlock(k)'} = {k \in TxIds : InBlock(k)}
    BY <1>3, <1>4
  <2> QED BY <2>1 DEF NextNonce
<1>6. ~NoneLost'
  BY <1>2, <1>3 DEF NoneLost
<1> QED BY <1>3, <1>4, <1>5, <1>6 DEF Queue

(* What is sent follows on what is in the pool, or replaces one of it.       *)
LEMMA SendQueue ==
  ASSUME IInv, Queue, NEW t \in Terminals, Send(t)
  PROVE  Queue' /\ NextNonce' = NextNonce
<1>0. PICK L \in Nat, N \in Nat : L = Len(txs) /\ N = proc[t].nonce
  BY QueueTyped, TxsTyped DEF IInv
<1>1. /\ L \in Nat /\ TxIds = 1..L /\ TxIds' = 1..(L + 1) /\ TxIds' = TxIds \cup {L + 1}
      /\ L + 1 \notin TxIds /\ proc[t].pc = "send" /\ N >= NextNonce
  <2>1. TxIds = 1..L /\ L \in Nat /\ TxIds' = 1..(L + 1)
    BY <1>0, SendEffect, TxsTyped DEF IInv
  <2>2. proc[t].pc = "send" /\ N >= NextNonce
    BY <1>0, SendEffect
  <2> QED BY <2>1, <2>2
<1>2. /\ NextNonce \in Nat /\ \A k \in TxIds : txs[k].nonce \in Nat
      /\ \A s \in Terminals : proc[s].nonce \in Nat
  BY QueueTyped
<1>3. txs'[L + 1].state = "pool" /\ txs'[L + 1].nonce = N
  <2>1. SentTx(t).state = "pool" /\ SentTx(t).nonce = N
    BY <1>0 DEF SentTx
  <2>2. txs'[L + 1] = SentTx(t)
    BY <1>0, SendEffect
  <2> QED BY <2>1, <2>2
<1>4. \A k \in TxIds : /\ SameNonce(t, k) => txs'[k].state = "gone"
                       /\ ~SameNonce(t, k) => txs'[k] = txs[k]
  <2>1. \A k \in TxIds : txs'[k] = Replaced(t)[k]
    BY SendEffect
  <2>2. \A k \in TxIds : txs[k] \in Tx
    BY TxsTyped DEF IInv
  <2> QED BY <2>1, <2>2 DEF Replaced, Tx
<1>5. /\ \A k \in TxIds : InPool(k)' <=> InPool(k) /\ ~SameNonce(t, k)
      /\ \A k \in TxIds : InBlock(k)' <=> InBlock(k)
      /\ InPool(L + 1)' /\ ~InBlock(L + 1)'
  BY <1>3, <1>4 DEF InPool, InBlock, SameNonce
<1>6. NextNonce' = NextNonce
  <2>1. {k \in TxIds' : InBlock(k)'} = {k \in TxIds : InBlock(k)}
    BY <1>1, <1>5
  <2> QED BY <2>1 DEF NextNonce
<1>7. ASSUME NEW k \in TxIds, InPool(k)'
      PROVE  InPool(k) /\ txs'[k] = txs[k] /\ txs[k].nonce # N
  BY <1>0, <1>4, <1>5, <1>7 DEF SameNonce
<1>8. \A k \in TxIds' : InPool(k)' => txs'[k].nonce >= NextNonce'
  BY <1>1, <1>3, <1>6, <1>7 DEF Queue
<1>9. \A j, k \in TxIds' : InPool(j)' /\ InPool(k)' /\ txs'[j].nonce = txs'[k].nonce => j = k
  <2> SUFFICES ASSUME NEW j \in TxIds', NEW k \in TxIds', InPool(j)', InPool(k)',
                      txs'[j].nonce = txs'[k].nonce
               PROVE  j = k
    OBVIOUS
  <2>1. CASE j = L + 1 \/ k = L + 1
    BY <1>1, <1>3, <1>7, <2>1
  <2>2. CASE j \in TxIds /\ k \in TxIds
    BY <1>7, <2>2 DEF Queue
  <2> QED BY <1>1, <2>1, <2>2
<1>10. NoneLost' => NoneLost /\ \A k \in TxIds : ~SameNonce(t, k)
  BY <1>1, <1>4 DEF NoneLost
<1>11. ASSUME NoneLost', NEW n, Pooled(n)
       PROVE  Pooled(n)'
  BY <1>1, <1>4, <1>5, <1>10, <1>11 DEF Pooled
<1>12. Pooled(N)'
  BY <1>1, <1>3, <1>5 DEF Pooled
<1>13. ASSUME NoneLost', NEW n \in NextNonce..(N - 1)
       PROVE  Pooled(n)'
  <2>1. Pooled(n)
    BY <1>0, <1>1, <1>10, <1>13 DEF Queue
  <2> QED BY <1>11, <1>13, <2>1
<1>14. ASSUME NoneLost', NEW k \in TxIds', InPool(k)', NEW n \in NextNonce'..txs'[k].nonce
       PROVE  Pooled(n)'
  <2>1. CASE k = L + 1
    <3>1. n = N \/ n \in NextNonce..(N - 1)
      BY <1>2, <1>3, <1>6, <2>1
    <3> QED BY <1>12, <1>13, <1>14, <3>1
  <2>2. CASE k \in TxIds
    <3>1. InPool(k) /\ txs'[k] = txs[k]
      BY <1>7, <1>14, <2>2
    <3>2. Pooled(n)
      BY <1>6, <1>10, <1>14, <2>2, <3>1 DEF Queue
    <3> QED BY <1>11, <1>14, <3>2
  <2> QED BY <1>1, <2>1, <2>2
<1>15. ASSUME NoneLost', NEW s \in Terminals, proc'[s].pc = "send",
              NEW n \in NextNonce'..(proc'[s].nonce - 1)
       PROVE  Pooled(n)'
  <2>1. proc'[s] = proc[s]
    <3>1. s # t
      BY <1>15 DEF Send, IInv, TypeOK
    <3> QED BY <3>1 DEF Send, IInv, TypeOK
  <2>2. Pooled(n)
    BY <1>6, <1>10, <1>15, <2>1 DEF Queue
  <2> QED BY <1>11, <1>15, <2>2
<1> QED BY <1>6, <1>8, <1>9, <1>14, <1>15 DEF Queue
-----------------------------------------------------------------------------
LEMMA InitQueue == Init => Queue
<1> SUFFICES ASSUME Init
             PROVE  Queue
  OBVIOUS
<1>1. TxIds = {}
  BY DEF Init, TxIds
<1>2. \A t \in Terminals : proc[t].pc # "send"
  BY DEF Init, Idle
<1> QED BY <1>1, <1>2 DEF Queue

LEMMA QueueStep == IInv /\ Queue /\ [Next]_vars => Queue'
<1> SUFFICES ASSUME IInv, Queue, [Next]_vars
             PROVE  Queue'
  OBVIOUS
<1> USE DEF IInv, TypeOK
<1>1. ASSUME NEW t \in Terminals, NEW plan \in Plans, Begin(t, plan)
      PROVE  Queue'
  BY <1>1, QuietQueue DEF Begin, chain
<1>2. ASSUME NEW t \in Terminals, BuildTxOpts(t)
      PROVE  Queue'
  BY <1>2, QuietQueue DEF BuildTxOpts, chain
<1>3. ASSUME NEW t \in Terminals, Send(t)
      PROVE  Queue'
  BY <1>3, SendQueue
<1>4. ASSUME NEW t \in Terminals, Mined(t)
      PROVE  Queue'
  BY <1>4, QuietQueue DEF Mined, chain
<1>5. ASSUME NEW t \in Terminals, Fail(t) \/ Reverted(t)
      PROVE  Queue'
  BY <1>5, QuietQueue DEF Fail, Reverted, Idle, chain
<1>6. ASSUME NEW t \in Terminals, NEW seen \in Heads, Confirmed(t, seen)
      PROVE  Queue'
  BY <1>6, QuietQueue DEF Confirmed, Idle, chain
<1>7. ASSUME NEW i \in TxIds, NEW outcome \in {"ok", "reverted"}, Mine(i, outcome)
      PROVE  Queue'
  BY <1>7, MineQueue
<1>8. ASSUME NEW i \in TxIds, Drop(i)
      PROVE  Queue'
  BY <1>8, DropQueue
<1>9. CASE EmptyBlock
  BY <1>9, QuietQueue DEF EmptyBlock
<1>10. CASE UNCHANGED vars
  BY <1>10, QuietQueue DEF vars
<1> QED BY <1>1, <1>2, <1>3, <1>4, <1>5, <1>6, <1>7, <1>8, <1>9, <1>10 DEF Next, GoOn, Chain

(* The account's transactions queue by nonce: those in the pool have nonces  *)
(* of their own, not below the next one, and as long as none is lost, no     *)
(* nonce is left out before them nor before what a command is about to send: *)
(* BuildTxOpts reads the first free one, however many commands do at once.   *)
THEOREM QueueByNonce == Spec => []Queue
<1>1. Init => Queue
  BY InitQueue
<1>2. IInv /\ Queue /\ [Next]_vars => Queue'
  BY QueueStep
<1> QED BY <1>1, <1>2, Invariance, PTL DEF Spec

(* The guards of what a command that waits can do next.                      *)
AnswerCan(t) ==
  \/ /\ proc[t].pc = "wait" /\ InBlock(proc[t].tx)
     /\ \/ txs[proc[t].tx].kind = "call" => txs[proc[t].tx].state = "ok"
        \/ txs[proc[t].tx].kind = "call" /\ txs[proc[t].tx].state = "reverted"
  \/ /\ proc[t].pc = "confirm"
     /\ \E seen \in Heads : Enough(seen, txs[proc[t].tx].block)

WaitsInQueue(t) == proc[t].pc = "wait" /\ InPool(proc[t].tx) /\ Pooled(NextNonce)
WaitsForBlocks(t) == proc[t].pc = "confirm" /\ head < txs[proc[t].tx].block + Confirmations

Answered == \A t \in Terminals :
  Awaits(t) => AnswerCan(t) \/ WaitsInQueue(t) \/ WaitsForBlocks(t) \/ ~NoneLost

(* A command that waits has its answer, or lacks only blocks: the account's  *)
(* next transaction can be mined, or its own needs confirmations - unless a  *)
(* transaction of the account has been lost (waitDeployment, wait).          *)
THEOREM WaitsAnswered == Spec => []Answered
<1>1. ASSUME IInv, Queue, NEW t \in Terminals, Awaits(t), NoneLost
      PROVE  AnswerCan(t) \/ WaitsInQueue(t) \/ WaitsForBlocks(t)
  <2>1. proc[t].tx \in TxIds
    BY <1>1 DEF IInv, Own
  <2>2. InPool(proc[t].tx) \/ InBlock(proc[t].tx)
    BY <1>1, <2>1, QueueTyped
  <2>3. CASE proc[t].pc = "wait" /\ InBlock(proc[t].tx)
    BY <2>3 DEF AnswerCan, InBlock
  <2>4. CASE proc[t].pc = "wait" /\ InPool(proc[t].tx)
    <3>1. NextNonce \in NextNonce..txs[proc[t].tx].nonce
      BY <1>1, <2>1, <2>4, QueueTyped DEF Queue
    <3> QED BY <1>1, <2>1, <2>4, <3>1 DEF Queue, WaitsInQueue
  <2>5. CASE proc[t].pc = "confirm"
    <3>1. /\ head \in Nat /\ Confirmations \in Nat /\ txs[proc[t].tx].block \in Nat
          /\ head \in Heads
      BY <1>1, <2>1, TxsTyped, Constants DEF IInv, TypeOK, Tx, Heads
    <3>2. head >= txs[proc[t].tx].block + Confirmations => Enough(head, txs[proc[t].tx].block)
      BY <3>1 DEF Enough
    <3> QED BY <2>5, <3>1, <3>2 DEF AnswerCan, WaitsForBlocks
  <2> QED BY <1>1, <2>2, <2>3, <2>4, <2>5 DEF Awaits
<1>2. IInv /\ Queue => Answered
  BY <1>1 DEF Answered
<1> QED BY <1>2, Invariance, QueueByNonce, PTL

(* How many of the account's transactions go before a command's, with it.    *)
Before(i) == IF InPool(i) THEN txs[i].nonce + 1 - NextNonce ELSE 0

MovesUp == \A i \in TxIds :
  NoneLost' => /\ Before(i) \in Nat
               /\ NextNonce' > NextNonce /\ Before(i) # 0 => Before(i)' < Before(i)
               /\ ~(NextNonce' > NextNonce) => Before(i)' = Before(i)

LEMMA BeforeTyped ==
  ASSUME IInv, Queue, NEW i \in TxIds
  PROVE  /\ Before(i) \in Nat /\ NextNonce \in Nat /\ txs[i].nonce \in Nat
         /\ InPool(i) <=> Before(i) # 0
<1>1. NextNonce \in Nat /\ txs[i].nonce \in Nat
  BY QueueTyped
<1>2. InPool(i) => txs[i].nonce >= NextNonce
  BY DEF Queue
<1> QED BY <1>1, <1>2 DEF Before

LEMMA QuietMoves ==
  ASSUME IInv, Queue, UNCHANGED txs
  PROVE  MovesUp
<1>1. NextNonce' = NextNonce
  BY DEF NextNonce, TxIds, InBlock
<1>2. ASSUME NEW i \in TxIds
      PROVE  Before(i)' = Before(i) /\ Before(i) \in Nat /\ NextNonce \in Nat
  <2>1. Before(i)' = Before(i)
    BY <1>1 DEF Before, InPool
  <2> QED BY <2>1, BeforeTyped
<1> QED BY <1>1, <1>2 DEF MovesUp

LEMMA MineMoves ==
  ASSUME IInv, Queue, NEW j \in TxIds, NEW outcome \in {"ok", "reverted"}, Mine(j, outcome)
  PROVE  MovesUp
<1>1. /\ NextNonce' = NextNonce + 1 /\ NextNonce \in Nat /\ InBlock(j)'
      /\ \A k \in TxIds : k # j => txs'[k] = txs[k]
  BY MineEffect
<1>2. ASSUME NEW i \in TxIds, Before(i) # 0
      PROVE  Before(i)' < Before(i)
  <2>1. /\ InPool(i) /\ txs[i].nonce \in Nat /\ txs[i].nonce >= NextNonce
        /\ Before(i) = txs[i].nonce + 1 - NextNonce
    BY <1>2, BeforeTyped DEF Before, Queue
  <2>2. CASE i = j
    <3>1. Before(i)' = 0
      BY <1>1, <2>2 DEF Before, InPool, InBlock
    <3> QED BY <1>1, <2>1, <3>1
  <2>3. CASE i # j
    <3>1. Before(i)' = txs[i].nonce + 1 - (NextNonce + 1)
      BY <1>1, <2>1, <2>3 DEF Before, InPool
    <3> QED BY <1>1, <2>1, <3>1
  <2> QED BY <2>2, <2>3
<1>3. \A i \in TxIds : Before(i) \in Nat
  BY BeforeTyped
<1>4. NextNonce' > NextNonce
  BY <1>1
<1> QED BY <1>2, <1>3, <1>4 DEF MovesUp

LEMMA SendMoves ==
  ASSUME IInv, Queue, NEW t \in Terminals, Send(t)
  PROVE  MovesUp
<1>1. NextNonce' = NextNonce
  BY SendQueue
<1>2. ASSUME NoneLost', NEW i \in TxIds
      PROVE  Before(i)' = Before(i) /\ Before(i) \in Nat /\ NextNonce \in Nat
  <2>1. txs'[i] = Replaced(t)[i] /\ i \in TxIds' /\ txs[i] \in Tx
    BY SendEffect, TxsTyped DEF IInv
  <2>2. txs'[i].state # "gone"
    BY <1>2, <2>1 DEF NoneLost
  <2>3. txs'[i] = txs[i]
    BY <2>1, <2>2 DEF Replaced, Tx
  <2>4. Before(i)' = Before(i)
    BY <1>1, <2>3 DEF Before, InPool
  <2> QED BY <2>4, BeforeTyped
<1> QED BY <1>1, <1>2 DEF MovesUp

(* Whatever other commands send meanwhile, with the same key: while none is  *)
(* lost, each of the account's transactions that is mined brings every other *)
(* one nearer to its block, and nothing puts one back.  With WaitsAnswered,  *)
(* all of WaitEnds but that blocks go on being made and commands go on.      *)
THEOREM QueueMovesUp == Spec => [][MovesUp]_vars
<1> USE DEF IInv, TypeOK
<1>1. ASSUME IInv, Queue, Next
      PROVE  MovesUp
  <2>1. ASSUME NEW t \in Terminals, NEW plan \in Plans, Begin(t, plan)
        PROVE  MovesUp
    BY <1>1, <2>1, QuietMoves DEF Begin, chain
  <2>2. ASSUME NEW t \in Terminals,
               BuildTxOpts(t) \/ Mined(t) \/ Reverted(t) \/ Fail(t)
        PROVE  MovesUp
    BY <1>1, <2>2, QuietMoves DEF BuildTxOpts, Mined, Reverted, Fail, chain
  <2>3. ASSUME NEW t \in Terminals, Send(t)
        PROVE  MovesUp
    BY <1>1, <2>3, SendMoves
  <2>4. ASSUME NEW t \in Terminals, NEW seen \in Heads, Confirmed(t, seen)
        PROVE  MovesUp
    BY <1>1, <2>4, QuietMoves DEF Confirmed, chain
  <2>5. ASSUME NEW i \in TxIds, NEW outcome \in {"ok", "reverted"}, Mine(i, outcome)
        PROVE  MovesUp
    BY <1>1, <2>5, MineMoves
  <2>6. ASSUME NEW i \in TxIds, Drop(i)
        PROVE  MovesUp
    BY <1>1, <2>6, DropQueue DEF MovesUp
  <2>7. CASE EmptyBlock
    BY <1>1, <2>7, QuietMoves DEF EmptyBlock
  <2> QED BY <1>1, <2>1, <2>2, <2>3, <2>4, <2>5, <2>6, <2>7 DEF Next, GoOn, Chain
<1>2. IInv /\ Queue /\ [Next]_vars => [MovesUp]_vars
  BY <1>1
<1> QED BY <1>2, Invariance, QueueByNonce, PTL DEF Spec
=============================================================================
