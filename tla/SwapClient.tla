----------------------------- MODULE SwapClient -----------------------------
(***************************************************************************)
(* Clients of the swap program that use its SDK, and the transactions they *)
(* have in flight.                                                         *)
(*                                                                         *)
(* A client reads an order (discovery) and its own notes, lets the SDK     *)
(* check and prove, assembles the instruction and submits it; all of this  *)
(* uses what it read before, so it is one action, and the transaction then *)
(* lands at any later moment, or never, or is delivered again.  Where      *)
(* SwapProgram applies a circuit to the notes of a landed transaction, the *)
(* program here only sees what it really sees: the instruction data and a  *)
(* proof to verify against the public input it computes.                   *)
(***************************************************************************)
EXTENDS SwapProgram, SwapSdk

CONSTANT MaxBuilt  \* bound: makes and takes submitted

\* Whoever pays, a client's transaction is one that may be signed that way: the
\* payer alone, or a relayer next to the maker.
ASSUME ClientAssumption ==
  /\ MaxBuilt \in Nat
  /\ \A p, q \in Party : {p, q} \in SignerSets

VARIABLE flight    \* the submitted transactions

clientVars == <<leaves, nullifiers, now, markers, flight>>

\* The marker as the client committed to it in the SPP transaction's external
\* data: the order's hash and the maker's key.
OrderMarker(order, maker) == [order |-> UtxoHash(order), maker |-> maker]

NoMarker == [order |-> NoData, maker |-> Authority]

(***************************************************************************)
(* A submitted instruction: its data and the wallets that sign it.         *)
(*   expiry        expiry_unix_ts of the transact                          *)
(*   order_expiry  cancel's own field                                      *)
(*   messages      the data of the transact's messages                     *)
(*   external      what the SPP proof committed to for the first message   *)
(***************************************************************************)
Transaction(ix, ins, outs, payer, maker, expiry, order_expiry, messages, external, proof) ==
  [ix |-> ix, ins |-> ins, outs |-> outs, payer |-> payer, maker |-> maker,
   expiry |-> expiry, order_expiry |-> order_expiry, messages |-> messages,
   external |-> external, proof |-> proof]

\* Make::instruction empties the data of the first message; the marker in it
\* stays committed in the SPP proof.
Make(i, change, order, payer, expiry, proof) ==
  Transaction("make", <<i>>, <<change, order>>, payer, payer, expiry, 0,
              <<EmptyData>>, OrderMarker(order, payer), proof)

\* Take::instruction: the order is the first input, the taker's note the
\* second; the taker pays and signs for its note.
Take(o, j, source, destination, payer, expiry, proof) ==
  Transaction("take", <<o, j>>, <<source, destination>>, payer, payer, expiry, 0,
              <<>>, NoMarker, proof)

TakeVerifiableEncryption(o, j, source, destination, payer, expiry, proof) ==
  Transaction("take_verifiable_encryption", <<o, j>>, <<source, destination>>,
              payer, payer, expiry, 0, <<>>, NoMarker, proof)

\* Fault: one deadline serves the order and the relayer.
CancelOneDeadline(o, source, payer, maker, order_expiry, expiry, proof) ==
  Transaction("cancel", <<o>>, <<source>>, payer, maker, order_expiry, order_expiry,
              <<>>, NoMarker, proof)

\* Cancel::instruction: the maker signs next to whoever pays.
Cancel(o, source, payer, maker, order_expiry, expiry, proof) ==
  Transaction("cancel", <<o>>, <<source>>, payer, maker, expiry, order_expiry,
              <<>>, NoMarker, proof)

Submit(tx) ==
  /\ tx \notin flight
  /\ flight' = flight \cup {tx}
  /\ UNCHANGED vars

Built == {tx \in flight : tx.ix # "cancel"}

\* The opening of the order at leaf o, as discovery returns it.
Opened(o) ==
  OrderUtxo(o, leaves[o].data, leaves[o].asset, leaves[o].amount, leaves[o].blinding)

\* Orders as the indexer shows them, consumed ones too.  A note is an order if
\* its opening has the leaf's hash, the PDA as owner included.
Discovered ==
  {o \in DOMAIN leaves : leaves[o].data # NoData /\ output_utxo(Opened(o)) = UtxoHash(leaves[o])}

(***************************************************************************)
(* A maker locks part of a plain funding note, which is held by the PDA so *)
(* that it may create a note that carries data.  The leaf the order will   *)
(* get is not known yet and nothing here depends on it.  That the funding  *)
(* note is plain is what the repository's tests see to, not the builder.   *)
(***************************************************************************)
SubmitMake(i, terms, amount) ==
  LET maker  == terms.maker
      source == leaves[i]
      order  == OrderUtxo(0, terms, source.asset, amount, Chosen(maker))
      change == OutputUtxo(maker, source.asset, source.amount - amount, NoData, Chosen(maker))
  IN  /\ Cardinality(Built) < MaxBuilt
      /\ i \in Unspent /\ source.owner = Authority /\ PlainNote(source)
      /\ amount <= source.amount
      /\ MakeProofInputs(order, change)
      /\ \E proof \in prove_make(order, change, source) :
           Submit(Make(i, change, output_utxo(order), maker, MaxExpiry, proof))

\* The client selects a note of its own in the order's destination mint that
\* holds at least the price.
Selected(j, p, order) ==
  /\ j \in Unspent
  /\ leaves[j].owner = p
  /\ leaves[j].asset = order.terms.destinationAsset
  /\ leaves[j].amount >= order.terms.destinationAmount

\* Fault: the proof is about a note with another blinding than the selected one.
PaidWithNewBlinding(j, order) == destination_output(order, leaves[j].owner, Derived(j, j, 0))

\* The note the taker pays with, as it goes into the proof: rebuilt from the
\* order's terms and the blinding of the selected note.
taker_in(j, order) == destination_output(order, leaves[j].owner, leaves[j].blinding)

(***************************************************************************)
(* A wallet that knows the opening of order o takes it with its note j.    *)
(***************************************************************************)
SubmitTake(p, o, j) ==
  LET order       == Opened(o)
      source      == source_output(order, p, Derived(o, o, 0))
      destination == destination_output(order, order.terms.maker, Derived(o, o, 1))
      paid        == taker_in(j, order)
  IN  /\ Cardinality(Built) < MaxBuilt
      /\ o \in Discovered /\ Selected(j, p, order)
      /\ TakeProofInputs(order, paid, source, destination)
      /\ \E proof \in prove_take(order, paid, source, destination) :
           Submit(Take(o, j, source, destination, p, order.terms.expiry, proof))

SubmitTakeVerifiableEncryption(p, o, j) ==
  LET order       == Opened(o)
      source      == source_output(order, p, Chosen(p))
      destination == destination_output(order, order.terms.maker, Chosen(p))
      sealed      == [destination EXCEPT !.ciphertext = destination_ciphertext(order, destination)]
      paid        == taker_in(j, order)
  IN  /\ Cardinality(Built) < MaxBuilt
      /\ o \in Discovered /\ Selected(j, p, order)
      /\ TakeVerifiableEncryptionProofInputs(order, paid, source, destination)
      /\ \E proof \in prove_take_verifiable_encryption(order, paid, source, destination) :
           Submit(TakeVerifiableEncryption(o, j, source, sealed, p, order.terms.expiry, proof))

\* A cancel of o that may still land.
Pending(o) == {tx \in flight : tx.ix = "cancel" /\ tx.ins = <<o>> /\ now <= tx.expiry}

(***************************************************************************)
(* The maker cancels an order it rediscovered, through a relayer or by     *)
(* itself, with a relayer deadline; it tries again when that has passed.   *)
(***************************************************************************)
SubmitCancel(payer, o, deadline) ==
  LET order  == Opened(o)
      maker  == order.terms.maker
      source == source_output(order, maker, Chosen(maker))
  IN  /\ o \in Discovered
      /\ Pending(o) = {}
      /\ now <= deadline
      /\ CancelProofInputs(order, source)
      /\ \E proof \in prove_cancel(order, source) :
           Submit(Cancel(o, source, payer, maker, order.terms.expiry, deadline, proof))

-----------------------------------------------------------------------------
(***************************************************************************)
(* The handlers, on the data of one instruction.                           *)
(***************************************************************************)
Signers(tx) == {tx.payer, tx.maker}

HashOf(tx) == PrivateTxHash([k \in DOMAIN tx.ins |-> leaves[tx.ins[k]]], tx.outs)

cpi(tx)     == cpi_spp_transact_signed(tx.ix, tx.ins, tx.outs, Signers(tx), tx.expiry)
accepts(tx) == cpi_accepts(tx.ix, tx.ins, tx.outs, Signers(tx), tx.expiry)

\* make: one message, empty; the program writes the marker, and SPP rejects
\* the transact unless that is the marker its proof committed to.
MakeChecks(tx) ==
  /\ tx.ix = "make"
  /\ Cardinality(markers) < MaxMakes
  /\ Len(tx.messages) = 1 /\ tx.messages[1] = EmptyData
  /\ verify_groth16(tx.proof, "make", <<HashOf(tx)>>)
  /\ tx.external = OrderMarker(tx.outs[ORDER_OUTPUT_INDEX + 1], tx.payer)

TakeChecks(tx) ==
  /\ tx.ix = "take"
  /\ check_within_window(now, tx.expiry)
  /\ verify_groth16(tx.proof, "take", <<HashOf(tx), tx.expiry, tx.ins[1]>>)

TakeVerifiableEncryptionChecks(tx) ==
  /\ tx.ix = "take_verifiable_encryption"
  /\ check_within_window(now, tx.expiry)
  /\ tx.outs[2].ciphertext # NoCiphertext
  /\ verify_groth16(tx.proof, "take_verifiable_encryption",
                    <<HashOf(tx), tx.expiry, tx.outs[2].ciphertext>>)

CancelChecks(tx) ==
  /\ tx.ix = "cancel"
  /\ check_after_window(now, tx.order_expiry)
  /\ verify_groth16(tx.proof, "cancel", <<HashOf(tx), tx.order_expiry, tx.maker>>)

\* Fault: the outputs reach SPP in another order than the proof fixed.
MakeReversed(tx) ==
  /\ MakeChecks(tx)
  /\ cpi([tx EXCEPT !.outs = Reverse(@)])
  /\ markers' = markers \cup {MarkerData(Len(leaves) + 1, tx.payer)}

\* Each handler ends in the CPI; make also publishes the marker.
MakeLands(tx) ==
  /\ MakeChecks(tx)
  /\ cpi(tx)
  /\ markers' = markers \cup {MarkerData(Len(leaves) + 1, tx.payer)}

TakeLands(tx) == TakeChecks(tx) /\ cpi(tx) /\ UNCHANGED markers

TakeVerifiableEncryptionLands(tx) ==
  TakeVerifiableEncryptionChecks(tx) /\ cpi(tx) /\ UNCHANGED markers

CancelLands(tx) == CancelChecks(tx) /\ cpi(tx) /\ UNCHANGED markers

\* The program and SPP would accept tx.
Accepted(tx) ==
  /\ MakeChecks(tx) \/ TakeChecks(tx) \/ TakeVerifiableEncryptionChecks(tx) \/ CancelChecks(tx)
  /\ accepts(tx)

\* A transaction lands; it may be delivered again later.
Land(tx) ==
  /\ MakeLands(tx) \/ TakeLands(tx) \/ TakeVerifiableEncryptionLands(tx) \/ CancelLands(tx)
  /\ UNCHANGED flight

SubmitCancels == \E payer \in Party, o \in Discovered, deadline \in Expiry :
                   SubmitCancel(payer, o, deadline)

LandCancels == \E tx \in flight : CancelLands(tx) /\ UNCHANGED flight

ClientInit == Init /\ flight = {}

ClientNext ==
  \/ \E i \in Unspent, terms \in Payload, amount \in Amount : SubmitMake(i, terms, amount)
  \/ \E p \in Party, o \in Discovered, j \in Unspent :
       SubmitTake(p, o, j) \/ SubmitTakeVerifiableEncryption(p, o, j)
  \/ SubmitCancels
  \/ \E tx \in flight : Land(tx)
  \/ SppTransfer /\ UNCHANGED flight
  \/ Clock /\ UNCHANGED flight

ClientSpec == ClientInit /\ [][ClientNext]_clientVars

(***************************************************************************)
(* The clock advances, a maker with an expired order and no pending cancel *)
(* submits one, and a cancel that can land is not held back for ever.      *)
(***************************************************************************)
ClientLiveSpec ==
  /\ ClientSpec
  /\ WF_clientVars(Clock /\ UNCHANGED flight)
  /\ WF_clientVars(SubmitCancels)
  /\ WF_clientVars(LandCancels)

-----------------------------------------------------------------------------
(***************************************************************************)
(* Whatever a submitted transaction still depends on: its inputs, the      *)
(* clock, and for a take that the note it selected is a plain one that     *)
(* holds the price exactly (neither the client nor the SDK compares them). *)
(***************************************************************************)
Live(tx) ==
  /\ ToSet(tx.ins) \subseteq Unspent
  /\ now <= tx.expiry
  /\ tx.ix = "make" => Cardinality(markers) < MaxMakes
  /\ tx.ix \in TakeRails =>
       LET paying == leaves[tx.ins[2]]
       IN  /\ now >= 0
           /\ PlainNote(paying)
           /\ paying.amount = leaves[tx.ins[1]].data.destinationAmount
  /\ tx.ix = "cancel" => now > leaves[tx.ins[1]].data.expiry

(***************************************************************************)
(* What the SDK builds, the program and SPP accept: however long it was in *)
(* flight, a submitted transaction lands exactly while its inputs are      *)
(* unspent and its window is open.  So builder, prover, circuit, program   *)
(* and pool agree on hashes, markers, deadlines and signers; a take built  *)
(* on an order that discovery returned although it was already consumed    *)
(* spends nothing, and so does one that pays with a note above the price.  *)
(***************************************************************************)
LandsExactlyWhenLive == \A tx \in flight : Accepted(tx) <=> Live(tx)

(***************************************************************************)
(* The maker's SDK rebuilds the payout note itself, all of its fields, from *)
(* the order's opening and what the settlement published.                  *)
(***************************************************************************)
PayoutsRebuilt ==
  \A o \in Orders \cap DOMAIN nullifiers :
    nullifiers[o].ix \in TakeRails =>
      LET payout  == leaves[nullifiers[o].out + 1]
          rebuilt == IF leaves[o].data.takeMode = TakeModeDerived
                     THEN {derived_destination_output(Opened(o), nullifiers[o].first)}
                     ELSE decrypt_destination(Opened(o), payout.ciphertext)
      IN  rebuilt = {UtxoHash(payout)}

(***************************************************************************)
(* The clients, the prover and a program that only verifies proofs         *)
(* implement the program that applies the circuits to the notes.           *)
(***************************************************************************)
ImplementsProgram == Spec
=============================================================================
