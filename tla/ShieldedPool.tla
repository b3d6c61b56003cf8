---------------------------- MODULE ShieldedPool ----------------------------
(***************************************************************************)
(* The Solana Privacy Program (SPP) as the programs of this repository use *)
(* it: an append-only tree of notes, a nullifier per spent note, and one   *)
(* operation, transact, that atomically spends notes and appends others.   *)
(* SPP is not part of the repository; what is modelled here is what the    *)
(* code and its tests rely on:                                             *)
(*   - an input must be in the tree and not yet nullified;                 *)
(*   - the owner of every input must sign;                                 *)
(*   - an output that carries data is authorized by an input of the same   *)
(*     owner (the test fixtures fund the PDA for exactly this reason);     *)
(*   - amounts are conserved per asset;                                    *)
(*   - the transaction's own expiry_unix_ts must not have passed.          *)
(***************************************************************************)
EXTENDS Notes

CONSTANTS
  Genesis,       \* the notes shielded before the system is observed
  StartTime,     \* the clock when it is first observed
  MaxTransfers   \* bound: transfers outside the programs

ASSUME PoolAssumption ==
  /\ Genesis \in Seq({n \in Note : n.data = NoData})
  /\ StartTime \in Int /\ StartTime <= MaxTime
  /\ MaxTransfers \in Nat

VARIABLES
  leaves,        \* the UTXO tree: a sequence of notes
  nullifiers,    \* spent leaf |-> what the transaction that spent it published
  now            \* Clock::unix_timestamp

poolVars == <<leaves, nullifiers, now>>

\* The instructions a transact may belong to.
Instruction ==
  {"transfer", "make", "take", "take_verifiable_encryption", "cancel",
   "escrow", "withdraw"}

(***************************************************************************)
(* What the chain publishes of the transaction that spent a leaf: which    *)
(* instruction ran, when, its first nullifier, the index of its first      *)
(* output and who signed.                                                  *)
(***************************************************************************)
Receipt ==
  [ix : Instruction, at : Int, first : Nat, out : Nat, signers : SUBSET Owner]

Unspent == DOMAIN leaves \ DOMAIN nullifiers

PoolTypeOK ==
  /\ leaves \in Seq(Note)
  /\ DOMAIN nullifiers \subseteq DOMAIN leaves
  /\ \A i \in DOMAIN nullifiers : nullifiers[i] \in Receipt
  /\ now \in Int /\ now <= MaxTime

PoolInit ==
  /\ leaves = Genesis
  /\ nullifiers = [i \in {} |-> {}]
  /\ now = StartTime

\* What transact checks of the leaves ins it is to spend and the notes outs it
\* is to append.
Accepts(ins, outs, signers, expiry) ==
  LET spends   == ToSet(ins)
      received == [k \in DOMAIN ins |-> leaves[ins[k]]]
  IN  /\ now <= expiry
      /\ spends \subseteq Unspent
      /\ IsInjective(ins)
      /\ \A i \in spends : leaves[i].owner \in signers
      /\ \A n \in ToSet(outs) :
           n.data # NoData => \E i \in spends : leaves[i].owner = n.owner
      /\ \A a \in Asset : Total(received, a) = Total(outs, a)

(***************************************************************************)
(* transact: spend the leaves ins, append the notes outs.                  *)
(***************************************************************************)
Transact(ix, ins, outs, signers, expiry) ==
  LET receipt == [ix |-> ix, at |-> now, first |-> ins[1],
                  out |-> Len(leaves) + 1, signers |-> signers]
  IN  /\ Accepts(ins, outs, signers, expiry)
      /\ leaves' = leaves \o outs
      /\ nullifiers' = [i \in DOMAIN nullifiers \cup ToSet(ins) |->
                          IF i \in DOMAIN nullifiers THEN nullifiers[i] ELSE receipt]
      /\ UNCHANGED now

Transfers == {i \in DOMAIN nullifiers : nullifiers[i].ix = "transfer"}

(***************************************************************************)
(* A wallet spends one of its notes in a transaction that calls SPP        *)
(* directly, without either program.                                       *)
(***************************************************************************)
Transfer(p, i, n) ==
  /\ Cardinality(Transfers) < MaxTransfers
  /\ Transact("transfer", <<i>>, <<n>>, {p}, MaxExpiry)

\* The notes wallet p can send with leaf i.
TransferOutputs(p, i) ==
  [owner : Owner, asset : {leaves[i].asset}, amount : {leaves[i].amount},
   data : Payload \cup {NoData}, ring : {leaves[i].ring},
   blinding : {Chosen(p)}, ciphertext : {NoCiphertext}]

\* The clock moves forward.
Tick ==
  /\ now < MaxTime
  /\ now' = now + 1
  /\ UNCHANGED <<leaves, nullifiers>>
=============================================================================
