---------------------------- MODULE EscrowClient ----------------------------
(***************************************************************************)
(* Clients of the timelock escrow program that use its SDK and prover, and *)
(* the transactions they have in flight.  A client builds, proves and      *)
(* submits on what it knows at that moment; the transaction lands later,   *)
(* never, or is delivered again.  Where EscrowProgram applies a circuit to *)
(* the notes of a landed transaction, the program here verifies a proof    *)
(* against the public input it computes from the instruction.              *)
(*                                                                         *)
(* There is no discovery: an escrow note is tagged for the PDA and carries *)
(* no data, so its opening is known to the client that built it and to     *)
(* nobody else.                                                            *)
(***************************************************************************)
EXTENDS EscrowProgram, Groth16

CONSTANT MaxBuilt  \* bound: escrows submitted

\* Whoever pays, a client's transaction is one that may be signed that way: the
\* payer alone, or a relayer next to the creator.
ASSUME ClientAssumption ==
  /\ MaxBuilt \in Nat
  /\ \A p, q \in Party : {p, q} \in SignerSets

VARIABLES
  flight,    \* the submitted transactions
  openings   \* the openings that the creators keep

clientVars == <<leaves, nullifiers, now, flight, openings>>

(***************************************************************************)
(* The SDK: the notes it builds from an opening, what its proof builders   *)
(* (to_proof_inputs) reject, and the proofs its prover client returns.     *)
(***************************************************************************)
EscrowUtxo(terms, blinding, asset, amount) ==
  [terms |-> terms, blinding |-> blinding, asset |-> asset, amount |-> amount]

OutputUtxo(owner, asset, amount, data, blinding) ==
  [owner |-> owner, asset |-> asset, amount |-> amount, data |-> data,
   ring |-> DefaultRing, blinding |-> blinding, ciphertext |-> NoCiphertext]

\* The escrow output; to_input_utxo has the same hash.
output_utxo(escrow) ==
  OutputUtxo(Authority, escrow.asset, escrow.amount, escrow.terms, escrow.blinding)

source_output(escrow, recipient, blinding) ==
  OutputUtxo(recipient, escrow.asset, escrow.amount, NoData, blinding)

check_output_utxo(n, mint, amount) == n.asset = mint /\ n.amount = amount /\ PlainNote(n)

EscrowProofInputs(escrow, change) ==
  /\ change.owner = escrow.terms.owner
  /\ change.asset = escrow.asset
  /\ PlainNote(change)

WithdrawProofInputs(escrow, source) ==
  /\ check_output_utxo(source, escrow.asset, escrow.amount)
  /\ source.owner = escrow.terms.owner

\* Fault: the proof hashes the outputs in another order than the transact.
ProveSwapped(escrow, change, input) ==
  Prove("escrow",
        checkEscrowOutputUtxo(output_utxo(escrow), escrow.terms),
        <<PrivateTxHash(<<input>>, <<output_utxo(escrow), change>>)>>)

prove_escrow(escrow, change, input) ==
  Prove("escrow",
        /\ checkEscrowOutputUtxo(output_utxo(escrow), escrow.terms)
        /\ checkChangeOutputUtxo(change, output_utxo(escrow), escrow.terms),
        <<PrivateTxHash(<<input>>, <<change, output_utxo(escrow)>>)>>)

prove_withdraw(escrow, source) ==
  Prove("withdraw",
        /\ checkEscrowInputUtxo(output_utxo(escrow), escrow.terms)
        /\ checkOwnerAuthorization(escrow.terms, source.owner)
        /\ checkSourceOutputUtxo(source, output_utxo(escrow), escrow.terms),
        <<PrivateTxHash(<<output_utxo(escrow)>>, <<source>>),
          escrow.terms.unlock, source.owner>>)

(***************************************************************************)
(* A submitted instruction.  expiry is expiry_unix_ts of the transact,     *)
(* unlock the field that withdraw has of its own.                          *)
(***************************************************************************)
Transaction(ix, ins, outs, payer, creator, expiry, unlock, proof) ==
  [ix |-> ix, ins |-> ins, outs |-> outs, payer |-> payer, creator |-> creator,
   expiry |-> expiry, unlock |-> unlock, proof |-> proof]

Escrow(i, change, escrow, payer, expiry, proof) ==
  Transaction("escrow", <<i>>, <<change, escrow>>, payer, payer, expiry, 0, proof)

\* Fault: one deadline serves the lock and the relayer.
WithdrawOneDeadline(e, source, payer, creator, unlock, expiry, proof) ==
  Transaction("withdraw", <<e>>, <<source>>, payer, creator, unlock, unlock, proof)

\* The creator signs next to whoever pays.
Withdraw(e, source, payer, creator, unlock, expiry, proof) ==
  Transaction("withdraw", <<e>>, <<source>>, payer, creator, expiry, unlock, proof)

-----------------------------------------------------------------------------
Submit(tx) ==
  /\ tx \notin flight
  /\ flight' = flight \cup {tx}
  /\ UNCHANGED vars

Built == {tx \in flight : tx.ix = "escrow"}

\* Fault: an escrow note will do as the source of another escrow.
AnyNoteOfAuthority(i) == i \in Unspent /\ leaves[i].owner = Authority

\* The source of an escrow: a plain deposit shielded to the PDA.
FundingNote(i) == i \in Unspent /\ leaves[i].owner = Authority /\ PlainNote(leaves[i])

(***************************************************************************)
(* A creator locks part of a plain funding note held by the PDA and keeps  *)
(* the opening.  The change is what the note holds beyond the lock; a note *)
(* that holds less is an error of the client.                              *)
(***************************************************************************)
SubmitEscrow(i, terms, amount) ==
  LET creator == terms.owner
      source  == leaves[i]
      escrow  == EscrowUtxo(terms, Chosen(creator), source.asset, amount)
      change  == OutputUtxo(creator, source.asset, source.amount - amount, NoData, Chosen(creator))
  IN  /\ Cardinality(Built) < MaxBuilt
      /\ FundingNote(i)
      /\ source.amount >= amount
      /\ EscrowProofInputs(escrow, change)
      /\ \E proof \in prove_escrow(escrow, change, source) :
           Submit(Escrow(i, change, output_utxo(escrow), creator, MaxExpiry, proof))
      /\ openings' = openings \cup {escrow}

\* A withdraw of leaf e that may still land.
Pending(e) == {tx \in flight : tx.ix = "withdraw" /\ tx.ins = <<e>> /\ now <= tx.expiry}

(***************************************************************************)
(* The creator withdraws an escrow whose opening it kept, once the indexer *)
(* has a Merkle proof of the note, with a relayer deadline; it tries again *)
(* when that has passed.                                                   *)
(***************************************************************************)
SubmitWithdraw(payer, e, escrow, deadline) ==
  LET creator == escrow.terms.owner
      source  == source_output(escrow, creator, Chosen(creator))
  IN  /\ leaves[e] = output_utxo(escrow)
      /\ Pending(e) = {}
      /\ now <= deadline
      /\ WithdrawProofInputs(escrow, source)
      /\ \E proof \in prove_withdraw(escrow, source) :
           Submit(Withdraw(e, source, payer, creator, escrow.terms.unlock, deadline, proof))
      /\ UNCHANGED openings

(***************************************************************************)
(* The handlers, on the data of one instruction.                           *)
(***************************************************************************)
HashOf(tx) == PrivateTxHash([k \in DOMAIN tx.ins |-> leaves[tx.ins[k]]], tx.outs)

Signers(tx) == {tx.payer, tx.creator}

cpi(tx)     == cpi_spp_transact_signed(tx.ix, tx.ins, tx.outs, Signers(tx), tx.expiry)
accepts(tx) == cpi_accepts(tx.ix, tx.ins, tx.outs, Signers(tx), tx.expiry)

EscrowChecks(tx) ==
  /\ tx.ix = "escrow"
  /\ Cardinality(Landings) < MaxEscrows
  /\ verify_groth16(tx.proof, "escrow", <<HashOf(tx)>>)

WithdrawChecks(tx) ==
  /\ tx.ix = "withdraw"
  /\ check_after_window(now, tx.unlock)
  /\ verify_groth16(tx.proof, "withdraw", <<HashOf(tx), tx.unlock, tx.creator>>)

\* Fault: the outputs reach SPP in another order than the proof fixed.
EscrowReversed(tx) == EscrowChecks(tx) /\ cpi([tx EXCEPT !.outs = Reverse(@)])

\* Each handler ends in the CPI.
EscrowLands(tx)   == EscrowChecks(tx) /\ cpi(tx)
WithdrawLands(tx) == WithdrawChecks(tx) /\ cpi(tx)

\* The program and SPP would accept tx.
Accepted(tx) == (EscrowChecks(tx) \/ WithdrawChecks(tx)) /\ accepts(tx)

\* A transaction lands; it may be delivered again later.
Land(tx) ==
  /\ EscrowLands(tx) \/ WithdrawLands(tx)
  /\ UNCHANGED <<flight, openings>>

SubmitWithdraws ==
  \E payer \in Party, e \in DOMAIN leaves, escrow \in openings, deadline \in Expiry :
    SubmitWithdraw(payer, e, escrow, deadline)

LandWithdraws == \E tx \in flight : WithdrawLands(tx) /\ UNCHANGED <<flight, openings>>

ClientInit == Init /\ flight = {} /\ openings = {}

ClientNext ==
  \/ \E i \in Unspent, terms \in Payload, amount \in Amount : SubmitEscrow(i, terms, amount)
  \/ SubmitWithdraws
  \/ \E tx \in flight : Land(tx)
  \/ SppTransfer /\ UNCHANGED <<flight, openings>>
  \/ Tick /\ UNCHANGED <<flight, openings>>

ClientSpec == ClientInit /\ [][ClientNext]_clientVars

(***************************************************************************)
(* The clock advances, a creator with no pending withdraw submits one, and *)
(* a withdraw that can land is not held back for ever.                     *)
(***************************************************************************)
ClientLiveSpec ==
  /\ ClientSpec
  /\ WF_clientVars(Tick /\ UNCHANGED <<flight, openings>>)
  /\ WF_clientVars(SubmitWithdraws)
  /\ WF_clientVars(LandWithdraws)

-----------------------------------------------------------------------------
\* What a submitted transaction still depends on: its inputs and the clock.
Live(tx) ==
  /\ ToSet(tx.ins) \subseteq Unspent
  /\ now <= tx.expiry
  /\ tx.ix = "escrow" => Cardinality(Landings) < MaxEscrows
  /\ tx.ix = "withdraw" => now > leaves[tx.ins[1]].data.unlock

(***************************************************************************)
(* What the SDK builds, the program and SPP accept: however long it was in *)
(* flight, a submitted transaction lands exactly while its inputs are      *)
(* unspent and its window is open.  Builder, prover, circuit, program and  *)
(* pool agree on hashes, unlock time, deadline and signers.                *)
(***************************************************************************)
LandsExactlyWhenLive == \A tx \in flight : Accepted(tx) <=> Live(tx)

(***************************************************************************)
(* The clients, the prover and a program that only verifies proofs         *)
(* implement the program that applies the circuits to the notes.           *)
(***************************************************************************)
ImplementsProgram == Spec
=============================================================================
