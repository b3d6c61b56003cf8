------------------------------- MODULE Groth16 -------------------------------
(***************************************************************************)
(* Proofs as the programs and their SDKs use them.  A prover produces a    *)
(* proof exactly when the witness satisfies the circuit, and the proof is  *)
(* about the public input of that witness and of no other.  Poseidon and   *)
(* the private transaction hash are taken to be injective, so a hash is    *)
(* represented by what it is computed from.                                *)
(***************************************************************************)
EXTENDS Notes

\* The circuits that are set up with a BSB22 commitment.
Committed == {"take_verifiable_encryption"}

\* A UTXO hash covers the note, not the ciphertext published next to it.
UtxoHash(n) == [n EXCEPT !.ciphertext = NoCiphertext]

\* The hash of a private transaction: its input and output notes, in order.
\* Dummy inputs and compact outputs are padding and left out.
PrivateTxHash(ins, outs) ==
  <<[k \in DOMAIN ins |-> UtxoHash(ins[k])], [k \in DOMAIN outs |-> UtxoHash(outs[k])]>>

\* PROVER.prove and compress: no proof without a satisfying witness.
Prove(circuit, satisfied, public) ==
  {[circuit |-> c, commitment |-> circuit \in Committed, public |-> public] :
     c \in {x \in {circuit} : satisfied}}

(***************************************************************************)
(* verify_groth16: the proof is one for this circuit's key, it carries a   *)
(* commitment exactly if the key asks for one, and its public input is the *)
(* one the program computed.                                               *)
(***************************************************************************)
verify_groth16(proof, circuit, public) ==
  /\ proof.circuit = circuit
  /\ proof.commitment = (circuit \in Committed)
  /\ proof.public = public
=============================================================================
