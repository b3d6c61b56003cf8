------------------------------- MODULE SwapSdk -------------------------------
(***************************************************************************)
(* The swap SDK: the notes it builds from an order's opening, what its     *)
(* proof builders (to_proof_inputs) reject, and the proofs its prover      *)
(* client returns.  A builder's own checks and the circuit's are different *)
(* code, so they are kept apart: a builder may accept what the prover then *)
(* refuses.                                                                *)
(***************************************************************************)
EXTENDS SwapCircuits, Groth16

(***************************************************************************)
(* OrderUtxo: the opening of an order.  leaf identifies the order's        *)
(* blinding where it is used as key material.                              *)
(***************************************************************************)
OrderUtxo(leaf, terms, mint, amount, blinding) ==
  [leaf |-> leaf, terms |-> terms, source_mint |-> mint, source_amount |-> amount,
   blinding |-> blinding]

OutputUtxo(owner, asset, amount, data, blinding) ==
  [owner |-> owner, asset |-> asset, amount |-> amount, data |-> data,
   ring |-> DefaultRing, blinding |-> blinding, ciphertext |-> NoCiphertext]

\* The order output; to_input_utxo has the same hash.
output_utxo(order) ==
  OutputUtxo(Authority, order.source_mint, order.source_amount, order.terms, order.blinding)

source_output(order, recipient, blinding) ==
  OutputUtxo(recipient, order.source_mint, order.source_amount, NoData, blinding)

destination_output(order, recipient, blinding) ==
  OutputUtxo(recipient, order.terms.destinationAsset, order.terms.destinationAmount,
             NoData, blinding)

\* Fault: the maker derives the blinding of the taker's output.
DerivedFromSlotZero(order, first) ==
  destination_output(order, order.terms.maker, Derived(order.leaf, first, 0))

\* The maker rebuilds the payout of a derived take from the opening and the
\* settlement's first nullifier.
derived_destination_output(order, first) ==
  destination_output(order, order.terms.maker, Derived(order.leaf, first, 1))

\* The payout's blinding, encrypted under a key that the opening determines.
destination_ciphertext(order, destination) ==
  [key |-> order.leaf, opens |-> destination.blinding]

\* The maker decrypts the ciphertext of a verifiable take and rebuilds the
\* payout; with another order's key the plaintext is not the payout's.
decrypt_destination(order, ciphertext) ==
  {destination_output(order, order.terms.maker, b) :
     b \in {x \in {ciphertext.opens} : ciphertext.key = order.leaf}}

-----------------------------------------------------------------------------
(***************************************************************************)
(* The checks of the proof builders.                                       *)
(***************************************************************************)
check_output_utxo(n, mint, amount) == n.asset = mint /\ n.amount = amount /\ PlainNote(n)

MakeProofInputs(order, change) ==
  /\ change.owner = order.terms.maker
  /\ change.asset = order.source_mint
  /\ PlainNote(change)

\* What both take builders check.
TakeNotes(order, takerIn, source, destination) ==
  LET terms == order.terms
  IN  /\ check_output_utxo(takerIn, terms.destinationAsset, terms.destinationAmount)
      /\ check_output_utxo(source, order.source_mint, order.source_amount)
      /\ source.owner = takerIn.owner
      /\ check_output_utxo(destination, terms.destinationAsset, terms.destinationAmount)
      /\ destination.owner = terms.maker

\* The derived rail: the outputs are blinded under the order's seed and the
\* nullifier of the order, which must be the first input.
TakeProofInputs(order, takerIn, source, destination) ==
  /\ TakeNotes(order, takerIn, source, destination)
  /\ order.terms.takeMode = TakeModeDerived
  /\ source.blinding = Derived(order.leaf, order.leaf, 0)
  /\ destination.blinding = Derived(order.leaf, order.leaf, 1)

\* The verifiable rail: the designated taker is left to the circuit.
TakeVerifiableEncryptionProofInputs(order, takerIn, source, destination) ==
  /\ TakeNotes(order, takerIn, source, destination)
  /\ order.terms.takeMode = TakeModeVerifiable

CancelProofInputs(order, source) ==
  /\ check_output_utxo(source, order.source_mint, order.source_amount)
  /\ source.owner = order.terms.maker

-----------------------------------------------------------------------------
(***************************************************************************)
(* The prover client: the circuit's predicate on the witness the builder   *)
(* laid out, and the public input it hashed.                               *)
(***************************************************************************)
prove_make(order, change, input) ==
  Prove("make",
        /\ CheckTerms(order.terms)
        /\ checkOrderOutputUtxo(output_utxo(order), order.terms)
        /\ checkChangeOutputUtxo(change, output_utxo(order), order.terms),
        <<PrivateTxHash(<<input>>, <<change, output_utxo(order)>>)>>)

prove_take(order, takerIn, source, destination) ==
  LET note == output_utxo(order)
  IN  Prove("take",
            /\ TakeInputs(order.terms, note, takerIn, order.terms.expiry)
            /\ TransactionBlinding(source, order.leaf, order.leaf, 0)
            /\ TransactionBlinding(destination, order.leaf, order.leaf, 1)
            /\ checkSourceOutputUtxo(source, note, takerIn)
            /\ checkDestinationOutputUtxo(destination, order.terms),
            <<PrivateTxHash(<<note, takerIn>>, <<source, destination>>),
              order.terms.expiry, order.leaf>>)

prove_take_verifiable_encryption(order, takerIn, source, destination) ==
  LET note   == output_utxo(order)
      sealed == [destination EXCEPT !.ciphertext = destination_ciphertext(order, destination)]
  IN  Prove("take_verifiable_encryption",
            /\ TakeVerifiableInputs(order.terms, note, takerIn, order.terms.expiry)
            /\ checkSourceOutputUtxo(source, note, takerIn)
            /\ checkDestinationOutputUtxo(sealed, order.terms)
            /\ checkVerifiableEncryption(sealed, order.leaf),
            <<PrivateTxHash(<<note, takerIn>>, <<source, destination>>),
              order.terms.expiry, sealed.ciphertext>>)

prove_cancel(order, source) ==
  LET note == output_utxo(order)
  IN  Prove("cancel",
            /\ CancelInputs(order.terms, note, order.terms.expiry, source.owner)
            /\ checkRefundOutputUtxo(source, note, order.terms),
            <<PrivateTxHash(<<note>>, <<source>>), order.terms.expiry, source.owner>>)
=============================================================================
