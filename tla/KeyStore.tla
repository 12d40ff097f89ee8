------------------------------ MODULE KeyStore ------------------------------
(***************************************************************************)
(* The private keys of all environments: the commands `key create`,        *)
(* `store`, `delete`, `import-ganache` and `import-geth` (src/cmd/key) on  *)
(* the file keys.json (src/internal/config/io.go, src/internal/io).        *)
(*                                                                         *)
(* A command reads the whole file, changes its copy and writes the copy    *)
(* back; opening the file for writing empties it.  No lock is taken:       *)
(* commands of several terminals interleave.  A command may be             *)
(* interrupted anywhere.                                                   *)
(***************************************************************************)
EXTENDS Naturals, Sequences, FiniteSets, SequencesExt

CONSTANTS Terminals,  \* where commands are run
          Aliases,    \* the names of keys
          Patterns,   \* the sets of aliases that a pattern "p*" matches
          Ganache,    \* the aliases an import-ganache gives, as a sequence
          Geth,       \* the aliases each import-geth gives, a set of sequences
          MaxKeys     \* bound on the keys ever made

ASSUME KeysAssumption == /\ Patterns \subseteq SUBSET Aliases
                         /\ IsInjective(Ganache)
                         /\ {Ganache} \cup Geth \subseteq Seq(Aliases)
                         /\ MaxKeys \in Nat

Values == 1..MaxKeys      \* private keys, in the order they are made
NoKey == 0

VARIABLES
  file,     \* keys.json: a sequence of [alias, value]
  proc,     \* the command of each terminal
  made,     \* private keys made or supplied so far
  bucket,   \* the keys each alias should hold, oldest first (ghost, until spoiled)
  spoiled   \* a command wrote a stale copy, or died with the file empty (ghost)

vars == <<file, proc, made, bucket, spoiled>>

NoCommand == [op |-> "none", entries |-> <<>>, match |-> {}]
Idle == [pc |-> "idle", change |-> NoCommand, copy |-> <<>>]

Init == /\ file = <<>>
        /\ proc = [t \in Terminals |-> Idle]
        /\ made = 0
        /\ bucket = [a \in Aliases |-> <<>>]
        /\ spoiled = FALSE
-----------------------------------------------------------------------------
(* What a command does to its copy of the keys. *)

IndexesOf(keys, as) == {i \in 1..Len(keys) : keys[i].alias \in as}

First(S) == CHOOSE i \in S : \A k \in S : i <= k

(* The keys with an alias in as, in their order. *)
Named(keys, as) ==
  LET named[n \in 0..Len(keys)] ==
        IF n = 0 THEN <<>>
        ELSE IF keys[n].alias \in as THEN Append(named[n - 1], keys[n])
        ELSE named[n - 1]
  IN  named[Len(keys)]

(* The private keys on record for an alias, oldest first. *)
ValuesOf(keys, a) ==
  LET mine == Named(keys, {a})
  IN  [i \in 1..Len(mine) |-> mine[i].value]

(* PrivateKeys.KeyForAlias, the lookup of every command that signs. *)
KeyForAlias(keys, a) ==
  IF IndexesOf(keys, {a}) = {} THEN NoKey ELSE keys[First(IndexesOf(keys, {a}))].value

\* Mutant: new keys are put in front.
AddInFront(keys, entries) == entries \o keys

(* create and import-geth: appended, whether or not the alias is in use. *)
Add(keys, entries) == keys \o entries

\* Mutant: stored without a look at what is there.
StoreBlindly(keys, entries) == keys \o entries

(* store and import-ganache: the first key with the alias is replaced, and   *)
(* what has no key yet is appended after all of them.                        *)
Store(keys, entries) ==
  LET replaced == [i \in 1..Len(keys) |->
        LET new == {k \in 1..Len(entries) : entries[k].alias = keys[i].alias}
        IN  IF new # {} /\ i = First(IndexesOf(keys, {keys[i].alias}))
            THEN entries[First(new)] ELSE keys[i]]
      absent == {a \in Aliases : IndexesOf(keys, {a}) = {}}
  IN  replaced \o Named(entries, absent)

\* Mutant: the key is blanked and its entry stays.
DeleteBlanks(keys, match) == [keys EXCEPT ![First(IndexesOf(keys, match))].value = NoKey]

(* delete: the first match is removed, and the loop is left. *)
Delete(keys, match) == RemoveAt(keys, First(IndexesOf(keys, match)))

Changed(c, keys) == CASE c.op = "add"    -> Add(keys, c.entries)
                      [] c.op = "store"  -> Store(keys, c.entries)
                      [] c.op = "delete" -> Delete(keys, c.match)
-----------------------------------------------------------------------------
(* The commands. *)

(* keys.json is read: empty, or cut off, it counts as holding no key. *)
Load(t, change) ==
  /\ proc[t].pc = "idle"
  /\ made + Len(change.entries) <= MaxKeys
  /\ made' = made + Len(change.entries)
  /\ proc' = [proc EXCEPT ![t] = [pc |-> "loaded", change |-> change, copy |-> file]]
  /\ UNCHANGED <<file, bucket, spoiled>>

Keyed(aliases) == [i \in 1..Len(aliases) |-> [alias |-> aliases[i], value |-> made + i]]

Create(t, a) == Load(t, [NoCommand EXCEPT !.op = "add", !.entries = Keyed(<<a>>)])
StoreKey(t, a) == Load(t, [NoCommand EXCEPT !.op = "store", !.entries = Keyed(<<a>>)])
DeleteKeys(t, as) == Load(t, [NoCommand EXCEPT !.op = "delete", !.match = as])
ImportGanache(t) == Load(t, [NoCommand EXCEPT !.op = "store", !.entries = Keyed(Ganache)])
ImportGeth(t, as) == Load(t, [NoCommand EXCEPT !.op = "add", !.entries = Keyed(as)])

(* delete without a match writes nothing. *)
NoMatch(t) == /\ proc[t].pc = "loaded"
              /\ proc[t].change.op = "delete"
              /\ IndexesOf(proc[t].copy, proc[t].change.match) = {}
              /\ proc' = [proc EXCEPT ![t] = Idle]
              /\ UNCHANGED <<file, made, bucket, spoiled>>

(* The ghosts, when one more thing can have spoiled the file. *)
Judge(harm) == /\ spoiled' = (spoiled \/ harm)
               /\ bucket' = IF spoiled' THEN [a \in Aliases |-> <<>>] ELSE bucket

(* MustWrite: the file is opened with O_TRUNC. *)
Truncate(t) ==
  /\ proc[t].pc = "loaded"
  /\ proc[t].change.op = "delete" =>
       IndexesOf(proc[t].copy, proc[t].change.match) # {}
  /\ file' = <<>>
  /\ proc' = [proc EXCEPT ![t].pc = "writing"]
  /\ Judge(file # proc[t].copy \/ \E o \in Terminals : proc[o].pc = "writing")
  /\ UNCHANGED made

(* What the change means for one alias. *)
Kept(c, keys, a) ==
  LET values == ValuesOf(c.entries, a)
      b == bucket[a]
  IN  CASE c.op = "add"    -> b \o values
        [] c.op = "store"  -> IF b = <<>> \/ values = <<>> THEN b \o values
                              ELSE values \o Tail(b)
        [] c.op = "delete" -> IF a = keys[First(IndexesOf(keys, c.match))].alias
                              THEN Tail(b) ELSE b

(* WritePrivateKeys: one write, from the start of the file.  A reader takes  *)
(* the first JSON value only, so of several open writers it gets the last    *)
(* one's keys, though a longer list before them may end the file.            *)
Save(t) ==
  /\ proc[t].pc = "writing"
  /\ file' = Changed(proc[t].change, proc[t].copy)
  /\ bucket' = IF spoiled THEN bucket
               ELSE [a \in Aliases |-> Kept(proc[t].change, proc[t].copy, a)]
  /\ proc' = [proc EXCEPT ![t] = Idle]
  /\ UNCHANGED <<made, spoiled>>

(* The command is interrupted, or import-geth cannot decrypt a key. *)
Die(t) == /\ proc[t].pc # "idle"
          /\ proc' = [proc EXCEPT ![t] = Idle]
          /\ Judge(proc[t].pc = "writing")
          /\ UNCHANGED <<file, made>>

Next == \E t \in Terminals :
  \/ \E a \in Aliases : Create(t, a) \/ StoreKey(t, a) \/ DeleteKeys(t, {a})
  \/ \E as \in Patterns : DeleteKeys(t, as)
  \/ ImportGanache(t)
  \/ \E as \in Geth : ImportGeth(t, as)
  \/ NoMatch(t) \/ Truncate(t) \/ Save(t) \/ Die(t)

Spec == Init /\ [][Next]_vars
-----------------------------------------------------------------------------
Entry == [alias : Aliases, value : Values]

(* Variables have values of their types. *)
TypeOK == /\ file \in Seq(Entry)
          /\ proc \in [Terminals -> [pc : {"idle", "loaded", "writing"},
                                     change : [op : {"none", "add", "store", "delete"},
                                               entries : Seq(Entry),
                                               match : SUBSET Aliases],
                                     copy : Seq(Entry)]]
          /\ made \in 0..MaxKeys
          /\ bucket \in [Aliases -> Seq(Values)]
          /\ spoiled \in BOOLEAN

(* The keys on record: while a command writes, those it will start from. *)
Writing == {t \in Terminals : proc[t].pc = "writing"}
OnRecord == IF Writing = {} THEN file ELSE proc[CHOOSE t \in Writing : TRUE].copy

(* As long as no command wrote a stale copy or died in the middle of its    *)
(* write, each alias has the keys that the finished commands gave it: a     *)
(* command that only read, failed, or was killed before it wrote leaves no  *)
(* trace, and no command touches the keys of another alias.                 *)
NothingLost == ~spoiled => \A a \in Aliases : ValuesOf(OnRecord, a) = bucket[a]

(* The key an alias signs with is replaced only by store, import-ganache or *)
(* delete of that alias: create and import-geth under a name that is in use *)
(* leave it as it is.                                                       *)
SigningKeyKept ==
  [][\A a \in Aliases :
       LET before == KeyForAlias(OnRecord, a)
       IN  ~spoiled' /\ before # NoKey /\ KeyForAlias(OnRecord', a) # before
           => \E t \in Writing :
                \/ a \in proc[t].change.match
                \/ /\ proc[t].change.op = "store"
                   /\ \E i \in 1..Len(proc[t].change.entries) :
                        proc[t].change.entries[i].alias = a]_vars
=============================================================================
