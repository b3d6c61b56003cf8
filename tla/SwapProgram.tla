---------------------------- MODULE SwapProgram -----------------------------
(***************************************************************************)
(* The swap program: make, take, take_verifiable_encryption and cancel.    *)
(*                                                                         *)
(* The program keeps no state.  An instruction either lands, and then all  *)
(* of its checks and the transact it CPIs into hold at that moment, or     *)
(* fails and changes nothing; so an action is one landed instruction, and  *)
(* everything a client did earlier (reading the order, proving, waiting in *)
(* a relayer) is covered by letting every unspent note and every signer be *)
(* used at every moment.                                                   *)
(***************************************************************************)
EXTENDS ShieldedPool, SwapCircuits

CONSTANTS
  SignerSets,    \* the sets of wallets that may sign one transaction
  OrdersFundMakes, \* may a make spend an order as its source note?
  MaxMakes       \* bound: landed makes

ASSUME SwapAssumption ==
  /\ Payload \subseteq OrderTerms
  /\ SignerSets \subseteq SUBSET Party
  /\ \A p \in Party : \E signers \in SignerSets : p \in signers
  /\ OrdersFundMakes \in BOOLEAN
  /\ MaxMakes \in Nat

VARIABLE
  markers        \* the marker messages published by makes

vars == <<leaves, nullifiers, now, markers>>

\* MarkerData, with the order's leaf standing for its hash.
Marker == [order : Nat, maker : Party]

\* Fault: the marker points at the change.
ChangeOutputIndex == 0

ORDER_OUTPUT_INDEX == 1

\* Fault: the marker names the PDA instead of the payer.
MarkerOfAuthority(first, payer) ==
  [order |-> first + ORDER_OUTPUT_INDEX, maker |-> Authority]

\* The marker a make writes when its first output becomes leaf `first'.
MarkerData(first, payer) == [order |-> first + ORDER_OUTPUT_INDEX, maker |-> payer]

\* The data of the transact's messages, as a client may submit them.
EmptyData == "empty"
Messages  == {<<>>, <<EmptyData>>, <<"filled">>, <<EmptyData, EmptyData>>}

Init == PoolInit /\ markers = {}

(***************************************************************************)
(* cpi_spp_transact_signed: the PDA is flipped to a signer of the CPI,     *)
(* whichever instruction calls it.                                         *)
(***************************************************************************)
cpi_spp_transact_signed(ix, ins, outs, signers, expiry) ==
  Transact(ix, ins, outs, signers \cup {Authority}, expiry)

\* The CPI would succeed, whatever the instruction.
cpi_accepts(ix, ins, outs, signers, expiry) ==
  Accepts(ins, outs, signers \cup {Authority}, expiry)

(***************************************************************************)
(* The output notes a client may put into a transaction: any owner, asset  *)
(* and amount, blinded by one of the signers or under the seed of the      *)
(* order that is spent.                                                    *)
(***************************************************************************)
Outputs(data, blindings, ciphertexts) ==
  [owner : Owner, asset : Asset, amount : Amount, data : data, ring : Ring,
   blinding : blindings, ciphertext : ciphertexts]

SignerBlindings(signers)  == {Chosen(p) : p \in signers}
OrderBlindings(o, signers) ==
  SignerBlindings(signers) \cup {Derived(o, o, slot) : slot \in 0 .. 1}

MakeOutputs(signers) ==
  Outputs(Payload \cup {NoData}, SignerBlindings(signers), {NoCiphertext})

RefundOutputs(signers) == Outputs({NoData}, SignerBlindings(signers), {NoCiphertext})

TakeOutputs(o, signers) == Outputs({NoData}, OrderBlindings(o, signers), {NoCiphertext})

VerifiableOutputs(o, signers) ==
  Outputs({NoData}, SignerBlindings(signers),
          {NoCiphertext} \cup [key : {o}, opens : OrderBlindings(o, signers)])

(***************************************************************************)
(* make: lock funds of the source note into an order; write the marker.    *)
(* Neither the program nor the circuit looks at the source note, so what   *)
(* clients spend as source is an assumption: with OrdersFundMakes = FALSE  *)
(* they spend plain notes only, as the repository's tests do.              *)
(***************************************************************************)
process_make_ix ==
  /\ Cardinality(markers) < MaxMakes
  /\ \E signers \in SignerSets : \E payer \in signers :
     \E i \in Unspent, terms \in Payload, messages \in Messages :
       /\ CheckTerms(terms)
       /\ leaves[i].data # NoData => OrdersFundMakes
       /\ Len(messages) = 1 /\ messages[1] = EmptyData
       /\ \E order \in MakeOutputs(signers) :
          /\ checkOrderOutputUtxo(order, terms)
          /\ \E change \in MakeOutputs(signers) :
             /\ checkChangeOutputUtxo(change, order, terms)
             /\ \E expiry \in Expiry : cpi_spp_transact_signed(
                  "make", <<i>>, <<change, order>>, signers, expiry)
             /\ markers' = markers \cup {MarkerData(Len(leaves) + 1, payer)}

(***************************************************************************)
(* take: settle a derived order inside its window.  The expiry is the      *)
(* transact's own, the first nullifier the one its first input publishes.  *)
(***************************************************************************)
process_take_ix ==
  \E signers \in SignerSets, o \in Unspent, j \in Unspent, expiry \in Expiry :
    LET terms == leaves[o].data
    IN  /\ terms # NoData
        /\ check_within_window(now, expiry)
        /\ TakeInputs(terms, leaves[o], leaves[j], expiry)
        /\ \E source \in TakeOutputs(o, signers) :
           /\ TransactionBlinding(source, o, o, 0)
           /\ checkSourceOutputUtxo(source, leaves[o], leaves[j])
           /\ \E destination \in TakeOutputs(o, signers) :
              /\ TransactionBlinding(destination, o, o, 1)
              /\ checkDestinationOutputUtxo(destination, terms)
              /\ cpi_spp_transact_signed("take", <<o, j>>, <<source, destination>>,
                                         signers, expiry)
              /\ UNCHANGED markers

(***************************************************************************)
(* take_verifiable_encryption: settle a verifiable order inside its window *)
(* with a payout ciphertext the proof checks.                              *)
(***************************************************************************)
process_take_verifiable_encryption_ix ==
  \E signers \in SignerSets, o \in Unspent, j \in Unspent, expiry \in Expiry :
    LET terms == leaves[o].data
    IN  /\ terms # NoData
        /\ check_within_window(now, expiry)
        /\ TakeVerifiableInputs(terms, leaves[o], leaves[j], expiry)
        /\ \E source \in RefundOutputs(signers) :
           /\ checkSourceOutputUtxo(source, leaves[o], leaves[j])
           /\ \E destination \in VerifiableOutputs(o, signers) :
              /\ destination.ciphertext # NoCiphertext
              /\ checkDestinationOutputUtxo(destination, terms)
              /\ checkVerifiableEncryption(destination, o)
              /\ cpi_spp_transact_signed("take_verifiable_encryption", <<o, j>>,
                                         <<source, destination>>, signers, expiry)
              /\ UNCHANGED markers

(***************************************************************************)
(* cancel: refund an order after its window.  orderExpiry is a field of    *)
(* the instruction data of its own; expiry is the relayer deadline of the  *)
(* transact.  What the handler checks is stated apart from the transact it *)
(* ends in, so that it also says when an order can be cancelled.           *)
(***************************************************************************)
Cancels(o, spp(_, _, _, _, _)) ==
  \E signers \in SignerSets : \E maker \in signers, orderExpiry \in Expiry :
    LET terms == leaves[o].data
    IN  /\ terms # NoData
        /\ check_after_window(now, orderExpiry)
        /\ CancelInputs(terms, leaves[o], orderExpiry, maker)
        /\ \E source \in RefundOutputs(signers) :
           /\ checkRefundOutputUtxo(source, leaves[o], terms)
           /\ \E expiry \in Expiry : spp("cancel", <<o>>, <<source>>, signers, expiry)

CancelOrder(o) == Cancels(o, cpi_spp_transact_signed) /\ UNCHANGED markers

process_cancel_ix == \E o \in Unspent : CancelOrder(o)

\* A wallet uses SPP directly.
SppTransfer ==
  /\ \E p \in Party, i \in Unspent : \E n \in TransferOutputs(p, i) : Transfer(p, i, n)
  /\ UNCHANGED markers

Clock == Tick /\ UNCHANGED markers

\* process_instruction: the tag selects the handler.
process_instruction ==
  \/ process_make_ix
  \/ process_take_ix
  \/ process_take_verifiable_encryption_ix
  \/ process_cancel_ix

Next == process_instruction \/ SppTransfer \/ Clock

Spec == Init /\ [][Next]_vars

(***************************************************************************)
(* The clock advances, and a maker that can cancel keeps trying until the  *)
(* cancel lands.                                                           *)
(***************************************************************************)
Fairness == WF_vars(Clock) /\ WF_vars(process_cancel_ix)

LiveSpec == Spec /\ Fairness

-----------------------------------------------------------------------------
(***************************************************************************)
(* The type invariant: the tree holds well-typed notes, every nullifier    *)
(* belongs to a leaf, and a marker is a leaf number and a wallet.          *)
(***************************************************************************)
TypeOK ==
  /\ PoolTypeOK
  /\ markers \subseteq Marker

\* The orders of the program: notes of the PDA that commit terms.
Orders == {o \in DOMAIN leaves : leaves[o].owner = Authority /\ leaves[o].data # NoData}

OpenOrders == Orders \cap Unspent

TakeRails == {"take", "take_verifiable_encryption"}

Rail(takeMode) ==
  IF takeMode = TakeModeDerived THEN "take" ELSE "take_verifiable_encryption"

Holds(n, owner, asset, amount) ==
  PlainNote(n) /\ n.owner = owner /\ n.asset = asset /\ n.amount = amount

(***************************************************************************)
(* An order that a take consumed was taken inside its window, on the rail  *)
(* its terms name, and settled at the committed price: the maker received  *)
(* exactly the destination amount, and the order's funds went to the owner *)
(* of the note that paid (on the verifiable rail, the designated taker).   *)
(***************************************************************************)
SettledAsCommitted(o) ==
  LET terms   == leaves[o].data
      receipt == nullifiers[o]
      price(n, owner) == Holds(n, owner, terms.destinationAsset, terms.destinationAmount)
  IN  /\ receipt.ix = Rail(terms.takeMode)
      /\ 0 <= receipt.at /\ receipt.at <= terms.expiry
      /\ receipt.first = o
      /\ {receipt.out, receipt.out + 1} \subseteq DOMAIN leaves
      /\ price(leaves[receipt.out + 1], terms.maker)
      /\ \E j \in DOMAIN nullifiers \ {o} :
           LET buyer == leaves[j].owner
           IN  /\ nullifiers[j] = receipt
               /\ price(leaves[j], buyer)
               /\ Holds(leaves[receipt.out], buyer, leaves[o].asset, leaves[o].amount)
               /\ terms.takeMode = TakeModeVerifiable => buyer = terms.taker

TakesSettleAsCommitted ==
  \A o \in Orders \cap DOMAIN nullifiers :
    nullifiers[o].ix \in TakeRails => SettledAsCommitted(o)

(***************************************************************************)
(* An order that a cancel consumed had expired, its maker signed, and the  *)
(* maker received all of the order's funds.                                *)
(***************************************************************************)
RefundedAsCommitted(o) ==
  LET terms   == leaves[o].data
      receipt == nullifiers[o]
  IN  /\ receipt.ix = "cancel"
      /\ receipt.at > terms.expiry
      /\ terms.maker \in receipt.signers
      /\ receipt.out \in DOMAIN leaves
      /\ Holds(leaves[receipt.out], terms.maker, leaves[o].asset, leaves[o].amount)

CancelsRefundTheMaker ==
  \A o \in Orders \cap DOMAIN nullifiers :
    nullifiers[o].ix = "cancel" => RefundedAsCommitted(o)

(***************************************************************************)
(* The program alone moves an order, and only by settling the committed    *)
(* order or refunding the maker after expiry (swap_program.md:11-13).      *)
(***************************************************************************)
OrdersMoveOnlyBySettlement ==
  \A o \in Orders \cap DOMAIN nullifiers :
    SettledAsCommitted(o) \/ RefundedAsCommitted(o)

(***************************************************************************)
(* The maker can rebuild the payout of a take from the order's opening and *)
(* what the chain published, whatever the taker encrypted or left out:     *)
(* OrderUtxo::derived_destination_output on the derived rail, the checked  *)
(* ciphertext, keyed by the order's blinding, on the verifiable one.       *)
(***************************************************************************)
PayoutsRecoverable ==
  \A o \in Orders \cap DOMAIN nullifiers :
    nullifiers[o].ix \in TakeRails =>
      LET payout == leaves[nullifiers[o].out + 1]
      IN  IF leaves[o].data.takeMode = TakeModeDerived
          THEN payout.blinding = derived_destination_blinding(o, nullifiers[o].first)
          ELSE payout.ciphertext = [key |-> o, opens |-> payout.blinding]

(***************************************************************************)
(* Every order in the tree can be settled: make admits only terms that a   *)
(* take circuit accepts, and no other instruction or transfer can create   *)
(* an order.  Each order has exactly one marker, and it names the order    *)
(* itself, not the change.  The wallet that a marker names signed the make *)
(* of that order: takers look up the maker's address under it.             *)
(***************************************************************************)
OrdersWellFormed ==
  /\ \A o \in Orders : /\ CheckTerms(leaves[o].data)
                       /\ checkOrderInputUtxo(leaves[o], leaves[o].data)
  /\ \A o \in Orders : \E m \in markers : m.order = o
  /\ \A m \in markers : m.order \in DOMAIN leaves /\ leaves[m.order].data # NoData
  /\ \A m, k \in markers : m.order = k.order => m = k
  /\ \A m \in markers : \E i \in DOMAIN nullifiers :
       /\ nullifiers[i].ix = "make"
       /\ nullifiers[i].out + 1 = m.order
       /\ m.maker \in nullifiers[i].signers

(***************************************************************************)
(* No order is stranded: once it has expired its maker can cancel it, for  *)
(* as long as it is open and whatever else has landed.                     *)
(***************************************************************************)
ExpiredOrdersCancellable ==
  \A o \in OpenOrders : now > leaves[o].data.expiry => Cancels(o, cpi_accepts)

\* The leaves the bounds leave room for: two per make, one per transfer and
\* two for the settlement of each note that commits terms.
LeafIndex == 1 .. (Len(Genesis) + 4 * MaxMakes + 3 * MaxTransfers)

(***************************************************************************)
(* Every order whose expiry the clock can pass is eventually consumed.     *)
(***************************************************************************)
OrdersEventuallyResolved ==
  \A o \in LeafIndex :
    (o \in OpenOrders /\ leaves[o].data.expiry < MaxTime) ~> (o \in DOMAIN nullifiers)
=============================================================================
