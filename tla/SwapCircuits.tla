---------------------------- MODULE SwapCircuits ----------------------------
(***************************************************************************)
(* The four circuits of the swap program and its two clock windows, as     *)
(* predicates.  A circuit witnesses the notes of the SPP transaction whose *)
(* private_tx_hash it recomputes; with injective hashes that recomputation *)
(* says that the witnessed notes are the transaction's own, so a predicate *)
(* is applied to the notes of the transaction directly.  A value that the  *)
(* program feeds into the public input hash is a parameter.                *)
(***************************************************************************)
EXTENDS Notes

TakeModeDerived    == 0
TakeModeVerifiable == 1

(***************************************************************************)
(* The terms an order's data hash commits to.  maker stands for the owner  *)
(* hash and viewing key that MakerAddressFE folds together.                *)
(***************************************************************************)
OrderTerms ==
  [destinationAsset : Asset, destinationAmount : Amount, maker : Party,
   expiry : Expiry, taker : Party, takeMode : Nat]

\* OrderTerms.Check
CheckTerms(terms) ==
  /\ terms.destinationAmount # 0
  /\ terms.takeMode \in {TakeModeDerived, TakeModeVerifiable}

(***************************************************************************)
(* The clock windows: an i64 clock against a u64 deadline.                 *)
(***************************************************************************)
\* Faults: refunding in the last second of the window; waiting one too many.
AfterWindowInclusive(time, expiry) == time >= 0 /\ time >= expiry
AfterWindowLate(time, expiry)      == time >= 0 /\ time > expiry + 1

check_within_window(time, expiry) == time >= 0 /\ time <= expiry
check_after_window(time, expiry)  == time >= 0 /\ time > expiry

(***************************************************************************)
(* Checks on single notes.                                                 *)
(***************************************************************************)
PlainNote(n) == n.ring = DefaultRing /\ n.data = NoData

\* make: the order output commits the terms; its owner is a free witness.
checkOrderOutputUtxo(order, terms) ==
  /\ order.ring = DefaultRing
  /\ order.data = terms
  /\ order.amount # 0

\* make: the change goes back to the maker the terms name.
checkChangeOutputUtxo(change, order, terms) ==
  /\ PlainNote(change)
  /\ change.asset = order.asset
  /\ change.owner = terms.maker

\* take, cancel: the order that is spent opens to the terms.
checkOrderInputUtxo(order, terms) ==
  /\ order.ring = DefaultRing
  /\ order.data = terms
  /\ order.amount # 0

\* take: the taker pays with a plain note of exactly the price.
checkTakerInputUtxo(takerIn, terms) ==
  /\ PlainNote(takerIn)
  /\ takerIn.asset = terms.destinationAsset
  /\ takerIn.amount = terms.destinationAmount

\* Fault: the order's funds may go to anybody.
SourceToAnyone(source, order, takerIn) ==
  /\ PlainNote(source)
  /\ source.asset = order.asset
  /\ source.amount = order.amount

\* take: whoever owned the paying note receives the order's funds.
checkSourceOutputUtxo(source, order, takerIn) ==
  /\ PlainNote(source)
  /\ source.asset = order.asset
  /\ source.amount = order.amount
  /\ source.owner = takerIn.owner

\* Fault: the price may go to anybody.
DestinationToAnyone(destination, terms) ==
  /\ PlainNote(destination)
  /\ destination.asset = terms.destinationAsset
  /\ destination.amount = terms.destinationAmount

\* take: the maker receives the price.
checkDestinationOutputUtxo(destination, terms) ==
  /\ PlainNote(destination)
  /\ destination.asset = terms.destinationAsset
  /\ destination.amount = terms.destinationAmount
  /\ destination.owner = terms.maker

\* cancel: the maker receives the order's funds.
checkRefundOutputUtxo(source, order, terms) ==
  /\ PlainNote(source)
  /\ source.asset = order.asset
  /\ source.amount = order.amount
  /\ source.owner = terms.maker

(***************************************************************************)
(* take.Core.Check on the notes a take spends.                             *)
(***************************************************************************)
CoreInputs(terms, order, takerIn) ==
  /\ CheckTerms(terms)
  /\ checkOrderInputUtxo(order, terms)
  /\ checkTakerInputUtxo(takerIn, terms)

\* take: the derived rail, with the expiry the program checked.
TakeInputs(terms, order, takerIn, expiry) ==
  /\ terms.takeMode = TakeModeDerived
  /\ CoreInputs(terms, order, takerIn)
  /\ terms.expiry = expiry

\* AssertTransactionBlindings: output `slot' of a take whose first nullifier
\* is the given one is blinded under the seed of the order at leaf o.
TransactionBlinding(n, o, nullifier, slot) ==
  n.blinding = Derived(o, nullifier, slot)

\* The maker's side of it: the payout is output 1 (source first, maker second).
derived_destination_blinding(o, nullifier) == Derived(o, nullifier, 1)

\* Fault: any wallet may take a designated order.
TakeVerifiableByAnyone(terms, order, takerIn, expiry) ==
  /\ terms.takeMode = TakeModeVerifiable
  /\ CoreInputs(terms, order, takerIn)
  /\ terms.expiry = expiry

\* take_verifiable_encryption: the paying note belongs to the taker the
\* terms designate.
TakeVerifiableInputs(terms, order, takerIn, expiry) ==
  /\ terms.takeMode = TakeModeVerifiable
  /\ takerIn.owner = terms.taker
  /\ CoreInputs(terms, order, takerIn)
  /\ terms.expiry = expiry

\* Fault: the plaintext is not tied to the payout.
EncryptionOfAnything(destination, o) == destination.ciphertext.key = o

\* The ciphertext that the program hashes into the public input encrypts the
\* blinding of the payout under a key derived from the order's blinding.
checkVerifiableEncryption(destination, o) ==
  destination.ciphertext = [key |-> o, opens |-> destination.blinding]

\* Fault: only orders of the derived rail can be cancelled.
CancelDerivedOnly(terms, order, orderExpiry, makerSigner) ==
  /\ terms.takeMode = TakeModeDerived
  /\ checkOrderInputUtxo(order, terms)
  /\ terms.maker = makerSigner
  /\ terms.expiry = orderExpiry

\* cancel: the expiry and the maker signer are those the program supplies.
CancelInputs(terms, order, orderExpiry, makerSigner) ==
  /\ checkOrderInputUtxo(order, terms)
  /\ terms.maker = makerSigner
  /\ terms.expiry = orderExpiry
=============================================================================
