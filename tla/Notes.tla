------------------------------- MODULE Notes --------------------------------
(***************************************************************************)
(* The shielded UTXOs ("notes") that both programs move, and the constants *)
(* every module shares.                                                    *)
(*                                                                         *)
(* A UTXO hash commits to owner, asset, amount, data hash, ring fields and *)
(* blinding (state/order.rs).  Hashes are taken to be injective, so a note *)
(* stands for its own hash: two notes are equal exactly when their hashes  *)
(* are.  A data hash is represented by the terms it commits to.            *)
(***************************************************************************)
EXTENDS Integers, SequencesExt

CONSTANTS
  Party,         \* wallets: a Solana key and the shielded owner hash of it
  Authority,     \* the program's PDA (order_authority / escrow_authority)
  Asset,         \* asset ids
  Ring,          \* ring program ids, the default one included
  DefaultRing,   \* the zero ring fields AssertDefaultRing asks for
  Payload,       \* the terms a note's data hash may commit to
  NoData,        \* the zero data hash
  NoCiphertext,  \* an output that publishes no data
  MaxAmount,     \* bound: the largest amount (u64::MAX)
  MaxTime,       \* bound: the last value of the clock (i64::MAX)
  MaxExpiry      \* bound: the largest deadline (u64::MAX)

\* Deadlines are u64 and the clock is i64: some deadlines the clock never passes.
ASSUME BoundsAssumption ==
  /\ MaxAmount \in Nat
  /\ MaxTime \in Nat
  /\ MaxExpiry \in Nat
  /\ MaxTime <= MaxExpiry

ASSUME OwnerAssumption == Authority \notin Party

ASSUME DataAssumption == NoData \notin Payload /\ DefaultRing \in Ring

Amount == 0 .. MaxAmount
Expiry == 0 .. MaxExpiry
Owner  == Party \cup {Authority}

(***************************************************************************)
(* A blinding is derived from a seed, the transaction's first nullifier    *)
(* and the output slot.  The seed is either a secret of the party that     *)
(* builds the transaction or, in a derived take, a hash of the blinding of *)
(* the order that is taken; the order is named by its leaf index.          *)
(***************************************************************************)
Blinding == [seed : Party \cup Nat, nullifier : Nat, slot : 0 .. 1]

\* A blinding that only party p can reconstruct.
Chosen(p) == [seed |-> p, nullifier |-> 0, slot |-> 0]

\* The blinding of output `slot' under the seed Poseidon("SWTX", blinding of
\* the order) and the first published nullifier.
Derived(order, nullifier, slot) ==
  [seed |-> order, nullifier |-> nullifier, slot |-> slot]

\* A published output ciphertext: the order whose blinding keys it, and the
\* blinding it decrypts to.
Ciphertext == [key : Nat, opens : Blinding] \cup {NoCiphertext}

\* No data is not a ciphertext of anything.
ASSUME CiphertextAssumption == NoCiphertext \notin [key : Nat, opens : Blinding]

Note ==
  [owner : Owner, asset : Asset, amount : Amount, data : Payload \cup {NoData},
   ring : Ring, blinding : Blinding, ciphertext : Ciphertext]

\* The total amount of asset a in a sequence of notes.
Total(notes, a) ==
  SumFunction([k \in DOMAIN notes |-> IF notes[k].asset = a THEN notes[k].amount ELSE 0])
=============================================================================
