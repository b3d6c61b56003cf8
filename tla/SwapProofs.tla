----------------------------- MODULE SwapProofs -----------------------------
(***************************************************************************)
(* Proofs about SwapProgram, for every set of wallets, assets, terms and   *)
(* signer sets and for every bound.                                        *)
(*                                                                         *)
(* Each instruction gets a lemma that says what its landing does to the    *)
(* order it spends (StepOfMake ... StepOfTransfer).  They are combined     *)
(* into one inductive invariant, SwapInv: every spent order carries the    *)
(* receipt of a settlement, of a refund, or of a make that was allowed to  *)
(* spend it.                                                               *)
(*                                                                         *)
(* The second half proves that the program implements AtomicSwap: every    *)
(* landed instruction is one action of it, on balances that are sums over  *)
(* the unspent notes and a book read off the tree.                         *)
(***************************************************************************)
EXTENDS SwapRefinement, PoolProofs

\* The payout of the take that consumed order o can be rebuilt by the maker.
Recoverable(o) ==
  LET payout == leaves[nullifiers[o].out + 1]
  IN  IF leaves[o].data.takeMode = TakeModeDerived
      THEN payout.blinding = derived_destination_blinding(o, nullifiers[o].first)
      ELSE payout.ciphertext = [key |-> o, opens |-> payout.blinding]

\* What a spent order's receipt says of its end.
Settlement(o) == nullifiers[o].ix \in TakeRails /\ SettledAsCommitted(o) /\ Recoverable(o)
Refund(o)     == nullifiers[o].ix = "cancel" /\ RefundedAsCommitted(o)
SpentByMake(o) == nullifiers[o].ix = "make" /\ OrdersFundMakes

Outcome(o) == Settlement(o) \/ Refund(o) \/ SpentByMake(o)

AllAccounted == \A o \in Orders \cap DOMAIN nullifiers : Outcome(o)

\* A make splits the note it spends into the order and the maker's change.
Splits(i, change, order) ==
  /\ checkChangeOutputUtxo(change, order, order.data)
  /\ leaves[i].owner = order.owner
  /\ leaves[i].asset = order.asset
  /\ leaves[i].amount = change.amount + order.amount

\* A take exchanges order o for the note j that pays for it.
Trades(o, j, source, destination) ==
  /\ o # j
  /\ leaves[o].data # NoData
  /\ 0 <= now /\ now <= leaves[o].data.expiry
  /\ leaves[o].data.takeMode = TakeModeVerifiable => leaves[j].owner = leaves[o].data.taker
  /\ checkTakerInputUtxo(leaves[j], leaves[o].data)
  /\ checkSourceOutputUtxo(source, leaves[o], leaves[j])
  /\ checkDestinationOutputUtxo(destination, leaves[o].data)

\* A cancel returns the funds of order o to its maker.
Returns(o, source) ==
  /\ leaves[o].data # NoData
  /\ now > leaves[o].data.expiry
  /\ checkRefundOutputUtxo(source, leaves[o], leaves[o].data)

\* A transfer hands a wallet's note on; only the wallet may keep data on it.
Sends(i, n) ==
  /\ leaves[i].owner \in Party
  /\ n.asset = leaves[i].asset
  /\ n.amount = leaves[i].amount
  /\ n.data # NoData => n.owner = leaves[i].owner

\* The inductive invariant.
SwapInv == TypeOK /\ AllAccounted

\* The step accounts for every order among the leaves it spends.
Accounts(spends) == \A o \in spends : o \in Orders => Outcome(o)'

-----------------------------------------------------------------------------
(***************************************************************************)
(* The notes a client may submit are notes.                                *)
(***************************************************************************)
LEMMA OutputsAreNotes ==
  ASSUME NEW signers \in SUBSET Party, NEW o \in Nat
  PROVE  /\ MakeOutputs(signers) \subseteq Note
         /\ RefundOutputs(signers) \subseteq Note
         /\ TakeOutputs(o, signers) \subseteq Note
         /\ VerifiableOutputs(o, signers) \subseteq Note
  <1>1. SignerBlindings(signers) \subseteq Blinding
    BY DEF SignerBlindings, Chosen, Blinding
  <1>2. OrderBlindings(o, signers) \subseteq Blinding
    BY <1>1 DEF OrderBlindings, Derived, Blinding
  <1>3. [key : {o}, opens : OrderBlindings(o, signers)] \subseteq Ciphertext
    BY <1>2 DEF Ciphertext
  <1>4. NoCiphertext \in Ciphertext
    BY DEF Ciphertext
  <1> QED
    BY <1>1, <1>2, <1>3, <1>4
    DEF MakeOutputs, RefundOutputs, TakeOutputs, VerifiableOutputs, Outputs, Note

-----------------------------------------------------------------------------
(***************************************************************************)
(* make: one note is spent, an order only if makes may spend orders.       *)
(***************************************************************************)
LEMMA StepOfMake ==
  ASSUME TypeOK, process_make_ix
  PROVE  \E signers \in SUBSET Owner, payer \in Party, i \in Unspent,
            change \in Note, order \in Note :
           /\ Landed("make", {i}, i, <<change, order>>, signers)
           /\ leaves[i].data # NoData => OrdersFundMakes
           /\ PlainNote(change)
           /\ CheckTerms(order.data)
           /\ checkOrderOutputUtxo(order, order.data)
           /\ order.data \in Payload
           /\ Splits(i, change, order)
           /\ payer \in signers
           /\ markers' = markers \cup {MarkerData(Len(leaves) + 1, payer)}
  <1>1. PICK signers \in SignerSets : \E payer \in signers :
          \E i \in Unspent, terms \in Payload :
            /\ CheckTerms(terms)
            /\ leaves[i].data # NoData => OrdersFundMakes
            /\ \E order \in MakeOutputs(signers), change \in MakeOutputs(signers) :
                 /\ checkOrderOutputUtxo(order, terms)
                 /\ checkChangeOutputUtxo(change, order, terms)
                 /\ \E expiry \in Expiry :
                      Transact("make", <<i>>, <<change, order>>,
                               signers \cup {Authority}, expiry)
            /\ markers' = markers \cup {MarkerData(Len(leaves) + 1, payer)}
    BY DEF process_make_ix, cpi_spp_transact_signed
  <1>2. PICK payer \in signers, i \in Unspent, terms \in Payload,
             order \in MakeOutputs(signers), change \in MakeOutputs(signers),
             expiry \in Expiry :
          /\ CheckTerms(terms)
          /\ leaves[i].data # NoData => OrdersFundMakes
          /\ checkOrderOutputUtxo(order, terms)
          /\ checkChangeOutputUtxo(change, order, terms)
          /\ Transact("make", <<i>>, <<change, order>>, signers \cup {Authority}, expiry)
          /\ markers' = markers \cup {MarkerData(Len(leaves) + 1, payer)}
    BY <1>1
  <1>3. signers \in SUBSET Party /\ signers \cup {Authority} \in SUBSET Owner
    BY SwapAssumption DEF Owner
  <1>4. change \in Note /\ order \in Note
    BY <1>3, OutputsAreNotes
  <1> DEFINE outs == <<change, order>>
  <1>5. /\ Landed("make", {i}, i, outs, signers \cup {Authority})
        /\ \A n \in ToSet(outs) : n.data # NoData => leaves[i].owner = n.owner
    BY <1>2, TransactOneInput, Zenon
  <1>6. PlainNote(change) /\ order.data = terms
    BY <1>2 DEF checkChangeOutputUtxo, checkOrderOutputUtxo
  <1>7. Splits(i, change, order)
    <2>1. order \in ToSet(outs) /\ order.data # NoData
      BY <1>6, DataAssumption DEF ToSet
    <2>2. leaves[i].asset = order.asset /\ leaves[i].amount = change.amount + order.amount
      BY <1>2, <1>4, Conserved DEF checkOrderOutputUtxo, checkChangeOutputUtxo, TypeOK
    <2>3. checkChangeOutputUtxo(change, order, order.data)
      BY <1>2, <1>6
    <2>4. leaves[i].owner = order.owner
      BY <1>5, <2>1
    <2> QED
      BY <2>2, <2>3, <2>4 DEF Splits
  <1> QED
    BY <1>2, <1>3, <1>4, <1>5, <1>6, <1>7

(***************************************************************************)
(* take: an order and the note that pays for it are spent; the paying note *)
(* is no order, and the order is settled as committed.                     *)
(***************************************************************************)
LEMMA StepOfTake ==
  ASSUME TypeOK, process_take_ix
  PROVE  \E signers \in SUBSET Owner, o \in Unspent, j \in Unspent,
            source \in Note, destination \in Note :
           /\ Landed("take", {o, j}, o, <<source, destination>>, signers)
           /\ PlainNote(leaves[j]) /\ PlainNote(source) /\ PlainNote(destination)
           /\ Trades(o, j, source, destination)
           /\ Settlement(o)'
  <1>1. PICK signers \in SignerSets, o \in Unspent, j \in Unspent, expiry \in Expiry :
          /\ leaves[o].data # NoData
          /\ check_within_window(now, expiry)
          /\ TakeInputs(leaves[o].data, leaves[o], leaves[j], expiry)
          /\ \E source \in TakeOutputs(o, signers) :
               /\ checkSourceOutputUtxo(source, leaves[o], leaves[j])
               /\ \E destination \in TakeOutputs(o, signers) :
                    /\ TransactionBlinding(destination, o, o, 1)
                    /\ checkDestinationOutputUtxo(destination, leaves[o].data)
                    /\ Transact("take", <<o, j>>, <<source, destination>>,
                                signers \cup {Authority}, expiry)
    BY ZenonT(60) DEF process_take_ix, cpi_spp_transact_signed
  <1>2. PICK source \in TakeOutputs(o, signers), destination \in TakeOutputs(o, signers) :
          /\ checkSourceOutputUtxo(source, leaves[o], leaves[j])
          /\ checkDestinationOutputUtxo(destination, leaves[o].data)
          /\ TransactionBlinding(destination, o, o, 1)
          /\ Transact("take", <<o, j>>, <<source, destination>>,
                      signers \cup {Authority}, expiry)
    BY <1>1
  <1> DEFINE outs == <<source, destination>>
             all  == signers \cup {Authority}
             terms == leaves[o].data
             out  == Len(leaves) + 1
  <1>3. signers \in SUBSET Party /\ all \in SUBSET Owner
    BY SwapAssumption DEF Owner
  <1>4. o \in Nat /\ source \in Note /\ destination \in Note
    <2>1. o \in Nat
      BY DEF TypeOK, PoolTypeOK, Unspent
    <2> QED
      BY <1>3, <2>1, OutputsAreNotes
  <1>5. Landed("take", {o, j}, o, outs, all) /\ o # j
    BY <1>2, TransactTwoInputs, Zenon
  <1>6. /\ \A k \in DOMAIN leaves : leaves'[k] = leaves[k]
        /\ out \in DOMAIN leaves' /\ leaves'[out] = source
        /\ out + 1 \in DOMAIN leaves' /\ leaves'[out + 1] = destination
    <2>1. outs \in Seq(Note)
      BY <1>4
    <2>2. Kept(outs)
      <3> HIDE DEF outs, all
      <3> QED
        BY <1>5, <2>1, LandedKeeps, Zenon DEF TypeOK
    <2>3. /\ 1 \in DOMAIN outs /\ outs[1] = source
          /\ 2 \in DOMAIN outs /\ outs[2] = destination
      OBVIOUS
    <2>4. Len(leaves) \in Nat
      BY DEF TypeOK, PoolTypeOK
    <2> HIDE DEF outs
    <2> QED
      BY <2>2, <2>3, <2>4 DEF Kept
  <1>7. /\ DOMAIN nullifiers' = DOMAIN nullifiers \cup {o, j}
        /\ nullifiers'[o] = TheReceipt("take", o, all)
        /\ nullifiers'[j] = TheReceipt("take", o, all)
    BY <1>5 DEF Landed
  <1>8. o \in DOMAIN leaves /\ j \in DOMAIN leaves
    BY DEF Unspent
  <1>9. /\ PlainNote(leaves[j]) /\ PlainNote(source) /\ PlainNote(destination)
        /\ terms.expiry = expiry
    BY <1>1, <1>2 DEF TakeInputs, CoreInputs, checkTakerInputUtxo,
                      checkSourceOutputUtxo, checkDestinationOutputUtxo
  <1>10. SettledAsCommitted(o)'
    <2>1. /\ Holds(destination, terms.maker, terms.destinationAsset, terms.destinationAmount)
          /\ Holds(leaves[j], leaves[j].owner, terms.destinationAsset, terms.destinationAmount)
          /\ Holds(source, leaves[j].owner, leaves[o].asset, leaves[o].amount)
      BY <1>1, <1>2, <1>9 DEF TakeInputs, CoreInputs, checkTakerInputUtxo,
           checkSourceOutputUtxo, checkDestinationOutputUtxo, Holds
    <2>2. /\ Rail(terms.takeMode) = "take"
          /\ terms.takeMode = TakeModeVerifiable => leaves[j].owner = terms.taker
      BY <1>1 DEF TakeInputs, Rail, TakeModeDerived, TakeModeVerifiable
    <2>3. 0 <= now /\ now <= terms.expiry
      BY <1>1, <1>9 DEF check_within_window
    <2> HIDE DEF outs, all, terms
    <2>4. /\ leaves[o]' = leaves[o] /\ leaves[j]' = leaves[j]
          /\ j \in (DOMAIN nullifiers)' \ {o}
          /\ nullifiers[o]' = nullifiers[j]'
      BY <1>5, <1>6, <1>7, <1>8
    <2>5. /\ nullifiers[o]'.ix = "take"
          /\ nullifiers[o]'.at = now
          /\ nullifiers[o]'.first = o
          /\ nullifiers[o]'.out = out
      BY <1>7 DEF TheReceipt
    <2> QED
      BY <1>6, <2>1, <2>2, <2>3, <2>4, <2>5 DEF SettledAsCommitted, Holds, PlainNote, terms
  <1>11. Recoverable(o)'
    BY <1>1, <1>2, <1>6, <1>7, <1>8
    DEF Recoverable, TheReceipt, TakeInputs, TransactionBlinding,
        derived_destination_blinding, TakeModeDerived
  <1>12. nullifiers'[o].ix \in TakeRails
    BY <1>7 DEF TheReceipt, TakeRails
  <1>13. Trades(o, j, source, destination)
    <2>1. 0 <= now /\ now <= terms.expiry
      BY <1>1, <1>9 DEF check_within_window
    <2>2. /\ checkTakerInputUtxo(leaves[j], leaves[o].data)
          /\ leaves[o].data.takeMode = TakeModeVerifiable => leaves[j].owner = leaves[o].data.taker
      BY <1>1 DEF CoreInputs, TakeInputs, TakeModeDerived, TakeModeVerifiable
    <2> QED
      BY <1>1, <1>2, <1>5, <2>1, <2>2 DEF Trades
  <1> HIDE DEF outs, all, terms
  <1>14. Settlement(o)'
    BY <1>10, <1>11, <1>12 DEF Settlement
  <1> QED
    BY <1>3, <1>4, <1>5, <1>9, <1>13, <1>14 DEF outs

(***************************************************************************)
(* take_verifiable_encryption: the same, with the payout's blinding in the *)
(* ciphertext that the proof checks.                                       *)
(***************************************************************************)
LEMMA StepOfTakeVerifiable ==
  ASSUME TypeOK, process_take_verifiable_encryption_ix
  PROVE  \E signers \in SUBSET Owner, o \in Unspent, j \in Unspent,
            source \in Note, destination \in Note :
           /\ Landed("take_verifiable_encryption", {o, j}, o, <<source, destination>>, signers)
           /\ PlainNote(leaves[j]) /\ PlainNote(source) /\ PlainNote(destination)
           /\ Trades(o, j, source, destination)
           /\ Settlement(o)'
  <1>1. PICK signers \in SignerSets, o \in Unspent, j \in Unspent, expiry \in Expiry :
          /\ leaves[o].data # NoData
          /\ check_within_window(now, expiry)
          /\ TakeVerifiableInputs(leaves[o].data, leaves[o], leaves[j], expiry)
          /\ \E source \in RefundOutputs(signers), destination \in VerifiableOutputs(o, signers) :
               /\ checkSourceOutputUtxo(source, leaves[o], leaves[j])
               /\ checkDestinationOutputUtxo(destination, leaves[o].data)
               /\ checkVerifiableEncryption(destination, o)
               /\ Transact("take_verifiable_encryption", <<o, j>>, <<source, destination>>,
                           signers \cup {Authority}, expiry)
    BY DEF process_take_verifiable_encryption_ix, cpi_spp_transact_signed
  <1>2. PICK source \in RefundOutputs(signers), destination \in VerifiableOutputs(o, signers) :
          /\ checkSourceOutputUtxo(source, leaves[o], leaves[j])
          /\ checkDestinationOutputUtxo(destination, leaves[o].data)
          /\ checkVerifiableEncryption(destination, o)
          /\ Transact("take_verifiable_encryption", <<o, j>>, <<source, destination>>,
                      signers \cup {Authority}, expiry)
    BY <1>1
  <1> DEFINE outs == <<source, destination>>
             all  == signers \cup {Authority}
             terms == leaves[o].data
             out  == Len(leaves) + 1
  <1>3. signers \in SUBSET Party /\ all \in SUBSET Owner
    BY SwapAssumption DEF Owner
  <1>4. o \in Nat /\ source \in Note /\ destination \in Note
    <2>1. o \in Nat
      BY DEF TypeOK, PoolTypeOK, Unspent
    <2> QED
      BY <1>3, <2>1, OutputsAreNotes
  <1>5. Landed("take_verifiable_encryption", {o, j}, o, outs, all) /\ o # j
    BY <1>2, TransactTwoInputs, Zenon
  <1>6. /\ \A k \in DOMAIN leaves : leaves'[k] = leaves[k]
        /\ out \in DOMAIN leaves' /\ leaves'[out] = source
        /\ out + 1 \in DOMAIN leaves' /\ leaves'[out + 1] = destination
    <2>1. outs \in Seq(Note)
      BY <1>4
    <2>2. Kept(outs)
      <3> HIDE DEF outs, all
      <3> QED
        BY <1>5, <2>1, LandedKeeps, Zenon DEF TypeOK
    <2>3. /\ 1 \in DOMAIN outs /\ outs[1] = source
          /\ 2 \in DOMAIN outs /\ outs[2] = destination
      OBVIOUS
    <2>4. Len(leaves) \in Nat
      BY DEF TypeOK, PoolTypeOK
    <2> HIDE DEF outs
    <2> QED
      BY <2>2, <2>3, <2>4 DEF Kept
  <1>7. /\ DOMAIN nullifiers' = DOMAIN nullifiers \cup {o, j}
        /\ nullifiers'[o] = TheReceipt("take_verifiable_encryption", o, all)
        /\ nullifiers'[j] = TheReceipt("take_verifiable_encryption", o, all)
    BY <1>5 DEF Landed
  <1>8. o \in DOMAIN leaves /\ j \in DOMAIN leaves
    BY DEF Unspent
  <1>9. /\ PlainNote(leaves[j]) /\ PlainNote(source) /\ PlainNote(destination)
        /\ terms.expiry = expiry
    BY <1>1, <1>2 DEF TakeVerifiableInputs, CoreInputs, checkTakerInputUtxo,
                      checkSourceOutputUtxo, checkDestinationOutputUtxo
  <1>10. SettledAsCommitted(o)'
    <2>1. /\ Holds(destination, terms.maker, terms.destinationAsset, terms.destinationAmount)
          /\ Holds(leaves[j], leaves[j].owner, terms.destinationAsset, terms.destinationAmount)
          /\ Holds(source, leaves[j].owner, leaves[o].asset, leaves[o].amount)
      BY <1>1, <1>2, <1>9 DEF TakeVerifiableInputs, CoreInputs, checkTakerInputUtxo,
           checkSourceOutputUtxo, checkDestinationOutputUtxo, Holds
    <2>2. /\ Rail(terms.takeMode) = "take_verifiable_encryption"
          /\ terms.takeMode = TakeModeVerifiable => leaves[j].owner = terms.taker
      BY <1>1 DEF TakeVerifiableInputs, Rail, TakeModeDerived, TakeModeVerifiable
    <2>3. 0 <= now /\ now <= terms.expiry
      BY <1>1, <1>9 DEF check_within_window
    <2> HIDE DEF outs, all, terms
    <2>4. /\ leaves[o]' = leaves[o] /\ leaves[j]' = leaves[j]
          /\ j \in (DOMAIN nullifiers)' \ {o}
          /\ nullifiers[o]' = nullifiers[j]'
      BY <1>5, <1>6, <1>7, <1>8
    <2>5. /\ nullifiers[o]'.ix = "take_verifiable_encryption"
          /\ nullifiers[o]'.at = now
          /\ nullifiers[o]'.first = o
          /\ nullifiers[o]'.out = out
      BY <1>7 DEF TheReceipt
    <2> QED
      BY <1>6, <2>1, <2>2, <2>3, <2>4, <2>5 DEF SettledAsCommitted, Holds, PlainNote, terms
  <1>11. Recoverable(o)'
    BY <1>1, <1>2, <1>6, <1>7, <1>8
    DEF Recoverable, TheReceipt, TakeVerifiableInputs, checkVerifiableEncryption,
        TakeModeDerived, TakeModeVerifiable
  <1>12. nullifiers'[o].ix \in TakeRails
    BY <1>7 DEF TheReceipt, TakeRails
  <1>13. Trades(o, j, source, destination)
    <2>1. 0 <= now /\ now <= terms.expiry
      BY <1>1, <1>9 DEF check_within_window
    <2>2. /\ checkTakerInputUtxo(leaves[j], leaves[o].data)
          /\ leaves[o].data.takeMode = TakeModeVerifiable => leaves[j].owner = leaves[o].data.taker
      BY <1>1 DEF CoreInputs, TakeVerifiableInputs
    <2> QED
      BY <1>1, <1>2, <1>5, <2>1, <2>2 DEF Trades
  <1> HIDE DEF outs, all, terms
  <1>14. Settlement(o)'
    BY <1>10, <1>11, <1>12 DEF Settlement
  <1> QED
    BY <1>3, <1>4, <1>5, <1>9, <1>13, <1>14 DEF outs

(***************************************************************************)
(* cancel: one order is spent, and it is refunded as committed.            *)
(***************************************************************************)
LEMMA StepOfCancel ==
  ASSUME TypeOK, process_cancel_ix
  PROVE  \E signers \in SUBSET Owner, o \in Unspent, source \in Note :
           /\ Landed("cancel", {o}, o, <<source>>, signers)
           /\ PlainNote(source)
           /\ Returns(o, source)
           /\ Refund(o)'
  <1>1. PICK o \in Unspent, signers \in SignerSets :
          \E maker \in signers, orderExpiry \in Expiry :
            /\ leaves[o].data # NoData
            /\ check_after_window(now, orderExpiry)
            /\ CancelInputs(leaves[o].data, leaves[o], orderExpiry, maker)
            /\ \E source \in RefundOutputs(signers) :
                 /\ checkRefundOutputUtxo(source, leaves[o], leaves[o].data)
                 /\ \E expiry \in Expiry :
                      Transact("cancel", <<o>>, <<source>>, signers \cup {Authority}, expiry)
    BY DEF process_cancel_ix, CancelOrder, Cancels, cpi_spp_transact_signed
  <1>2. PICK maker \in signers, orderExpiry \in Expiry,
             source \in RefundOutputs(signers), expiry \in Expiry :
          /\ leaves[o].data # NoData
          /\ check_after_window(now, orderExpiry)
          /\ CancelInputs(leaves[o].data, leaves[o], orderExpiry, maker)
          /\ checkRefundOutputUtxo(source, leaves[o], leaves[o].data)
          /\ Transact("cancel", <<o>>, <<source>>, signers \cup {Authority}, expiry)
    BY <1>1
  <1> DEFINE outs == <<source>>
             all  == signers \cup {Authority}
             terms == leaves[o].data
             out  == Len(leaves) + 1
  <1>3. signers \in SUBSET Party /\ all \in SUBSET Owner
    BY SwapAssumption DEF Owner
  <1>4. source \in Note
    BY <1>3, OutputsAreNotes
  <1>5. Landed("cancel", {o}, o, outs, all)
    BY <1>2, TransactOneInput, Zenon
  <1>6. /\ \A k \in DOMAIN leaves : leaves'[k] = leaves[k]
        /\ out \in DOMAIN leaves' /\ leaves'[out] = source
    <2>1. outs \in Seq(Note) /\ 1 \in DOMAIN outs /\ outs[1] = source
      BY <1>4
    <2> HIDE DEF outs, all
    <2>2. Kept(outs)
      BY <1>5, <2>1, LandedKeeps, Zenon DEF TypeOK
    <2> QED
      BY <2>1, <2>2 DEF Kept
  <1>7. nullifiers'[o] = TheReceipt("cancel", o, all)
    BY <1>5 DEF Landed
  <1>8. o \in DOMAIN leaves
    BY DEF Unspent
  <1>9. /\ Holds(source, terms.maker, leaves[o].asset, leaves[o].amount)
        /\ terms.maker \in all
        /\ now > terms.expiry
    BY <1>2 DEF checkRefundOutputUtxo, CancelInputs, check_after_window, Holds
  <1>10. RefundedAsCommitted(o)'
    <2> HIDE DEF outs, all, terms
    <2>1. /\ nullifiers[o]'.ix = "cancel"
          /\ nullifiers[o]'.at = now
          /\ nullifiers[o]'.out = out
          /\ nullifiers[o]'.signers = all
      BY <1>7 DEF TheReceipt
    <2> QED
      BY <1>6, <1>8, <1>9, <2>1 DEF RefundedAsCommitted, Holds, PlainNote, terms
  <1>11. nullifiers'[o].ix = "cancel"
    BY <1>7 DEF TheReceipt
  <1>12. PlainNote(source)
    BY <1>9 DEF Holds
  <1>13. Returns(o, source)
    BY <1>2, <1>9 DEF Returns
  <1> QED
    BY <1>3, <1>4, <1>5, <1>10, <1>11, <1>12, <1>13 DEF Refund

(***************************************************************************)
(* A transfer outside the program cannot spend a note of the PDA, nor can  *)
(* it give the PDA a note that carries data.                               *)
(***************************************************************************)
LEMMA StepOfTransfer ==
  ASSUME TypeOK, SppTransfer
  PROVE  \E signers \in SUBSET Owner, i \in Unspent, n \in Note :
           /\ Landed("transfer", {i}, i, <<n>>, signers)
           /\ leaves[i].owner # Authority
           /\ n.data # NoData => n.owner # Authority
           /\ Sends(i, n)
  <1>0. PICK p \in Party, i \in Unspent : \E n \in TransferOutputs(p, i) :
          Transact("transfer", <<i>>, <<n>>, {p}, MaxExpiry)
    BY DEF SppTransfer, Transfer
  <1>1. PICK n \in TransferOutputs(p, i) : Transact("transfer", <<i>>, <<n>>, {p}, MaxExpiry)
    BY <1>0
  <1>2. n \in Note
    BY TransferOutputsAreNotes DEF TypeOK
  <1>3. /\ Landed("transfer", {i}, i, <<n>>, {p})
        /\ leaves[i].owner \in {p}
        /\ \A x \in ToSet(<<n>>) : x.data # NoData => leaves[i].owner = x.owner
    BY <1>1, TransactOneInput, Zenon
  <1>4. n \in ToSet(<<n>>)
    BY DEF ToSet
  <1>5. {p} \in SUBSET Owner
    BY DEF Owner
  <1>6. n.asset = leaves[i].asset /\ n.amount = leaves[i].amount
    BY DEF TransferOutputs
  <1>7. leaves[i].owner = p /\ leaves[i].owner # Authority
    BY <1>3, OwnerAssumption
  <1>8. n.data # NoData => n.owner = leaves[i].owner
    BY <1>3, <1>4
  <1>9. Sends(i, n)
    BY <1>6, <1>7, <1>8 DEF Sends
  <1> QED
    BY <1>2, <1>3, <1>5, <1>7, <1>8, <1>9

-----------------------------------------------------------------------------
(***************************************************************************)
(* The end of an order is recorded for good.                               *)
(***************************************************************************)
LEMMA OutcomeKept ==
  ASSUME PoolTypeOK,
         DOMAIN leaves \subseteq DOMAIN leaves',
         \A k \in DOMAIN leaves : leaves'[k] = leaves[k],
         DOMAIN nullifiers \subseteq DOMAIN nullifiers',
         \A k \in DOMAIN nullifiers : nullifiers'[k] = nullifiers[k],
         NEW o \in DOMAIN nullifiers, Outcome(o)
  PROVE  Outcome(o)'
  <1>0. DOMAIN nullifiers \subseteq DOMAIN leaves
    BY DEF PoolTypeOK
  <1>1. leaves'[o] = leaves[o] /\ nullifiers'[o] = nullifiers[o]
    BY <1>0
  <1>2. CASE Settlement(o)
    <2>1. /\ nullifiers[o].out \in DOMAIN leaves
          /\ nullifiers[o].out + 1 \in DOMAIN leaves
      BY <1>2 DEF Settlement, SettledAsCommitted
    <2>2. /\ leaves'[nullifiers[o].out] = leaves[nullifiers[o].out]
          /\ leaves'[nullifiers[o].out + 1] = leaves[nullifiers[o].out + 1]
      BY <2>1
    <2>3. SettledAsCommitted(o)'
      BY <1>0, <1>1, <1>2, <2>1, <2>2 DEF Settlement, SettledAsCommitted, Holds, PlainNote
    <2>4. Recoverable(o)'
      BY <1>1, <1>2, <2>2 DEF Settlement, Recoverable
    <2> QED
      BY <1>1, <1>2, <2>3, <2>4 DEF Outcome, Settlement
  <1>3. CASE Refund(o)
    <2>1. nullifiers[o].out \in DOMAIN leaves
      BY <1>3 DEF Refund, RefundedAsCommitted
    <2>2. RefundedAsCommitted(o)'
      BY <1>1, <1>3, <2>1 DEF Refund, RefundedAsCommitted, Holds, PlainNote
    <2> QED
      BY <1>1, <1>3, <2>2 DEF Outcome, Refund
  <1>4. CASE SpentByMake(o)
    BY <1>1, <1>4 DEF Outcome, SpentByMake
  <1> QED
    BY <1>2, <1>3, <1>4 DEF Outcome

\* A transact keeps the invariant if it ends well every order it spends.
LEMMA LandedInv ==
  ASSUME SwapInv,
         NEW ix \in Instruction, NEW spends, NEW first, NEW outs \in Seq(Note),
         NEW signers \in SUBSET Owner,
         Landed(ix, spends, first, outs, signers),
         Accounts(spends)
  PROVE  PoolTypeOK' /\ AllAccounted'
  <1>0. PoolTypeOK
    BY DEF SwapInv, TypeOK
  <1>1. PoolTypeOK'
    BY <1>0, LandedType, Zenon
  <1>2. Kept(outs)
    BY <1>0, LandedKeeps, Zenon
  <1>3. ASSUME NEW o \in (Orders \cap DOMAIN nullifiers)'
        PROVE  Outcome(o)'
    <2>1. o \in DOMAIN leaves /\ leaves'[o] = leaves[o]
      BY <1>2 DEF Kept
    <2>2. o \in Orders
      BY <2>1 DEF Orders
    <2>3. o \in DOMAIN nullifiers \/ o \in spends
      BY DEF Landed
    <2>4. CASE o \in DOMAIN nullifiers
      <3>1. Outcome(o)
        BY <2>2, <2>4 DEF SwapInv, AllAccounted
      <3> QED
        BY <1>0, <1>2, <2>4, <3>1, OutcomeKept DEF Kept
    <2> QED
      BY <2>2, <2>3, <2>4 DEF Accounts
  <1> QED
    BY <1>1, <1>3 DEF AllAccounted

LEMMA SwapInvInit == Init => SwapInv
  BY PoolInitType DEF Init, PoolInit, SwapInv, AllAccounted, TypeOK

\* Every step keeps the invariant.
LEMMA SwapInvStep == SwapInv /\ [Next]_vars => SwapInv'
  <1> SUFFICES ASSUME SwapInv, [Next]_vars
               PROVE  SwapInv'
    OBVIOUS
  <1>0. TypeOK /\ PoolTypeOK /\ markers \subseteq Marker
    BY DEF SwapInv, TypeOK
  <1>1. CASE process_make_ix
    <2>1. PICK signers \in SUBSET Owner, payer \in Party, i \in Unspent,
               change \in Note, order \in Note :
            /\ Landed("make", {i}, i, <<change, order>>, signers)
            /\ leaves[i].data # NoData => OrdersFundMakes
            /\ markers' = markers \cup {MarkerData(Len(leaves) + 1, payer)}
      BY <1>0, <1>1, StepOfMake, Zenon
    <2>2. Accounts({i})
      BY <2>1 DEF Landed, TheReceipt, Orders, Outcome, SpentByMake, Accounts
    <2>3. <<change, order>> \in Seq(Note)
      OBVIOUS
    <2>s. "make" \in Instruction
      BY DEF Instruction
    <2>4. PoolTypeOK' /\ AllAccounted'
      BY <2>1, <2>2, <2>3, <2>s, LandedInv, Zenon
    <2>5. MarkerData(Len(leaves) + 1, payer) \in Marker
      BY <1>0 DEF MarkerData, Marker, ORDER_OUTPUT_INDEX, PoolTypeOK
    <2> QED
      BY <1>0, <2>1, <2>4, <2>5 DEF SwapInv, TypeOK
  <1>2. CASE process_take_ix
    <2>1. PICK signers \in SUBSET Owner, o \in Unspent, j \in Unspent,
               source \in Note, destination \in Note :
            /\ Landed("take", {o, j}, o, <<source, destination>>, signers)
            /\ PlainNote(leaves[j])
            /\ Settlement(o)'
      BY <1>0, <1>2, StepOfTake, Zenon
    <2>2. Accounts({o, j})
      BY <2>1 DEF Orders, PlainNote, Outcome, Accounts
    <2>3. <<source, destination>> \in Seq(Note)
      OBVIOUS
    <2>s. "take" \in Instruction
      BY DEF Instruction
    <2>4. PoolTypeOK' /\ AllAccounted'
      BY <2>1, <2>2, <2>3, <2>s, LandedInv, Zenon
    <2>5. markers' = markers
      BY <1>2 DEF process_take_ix
    <2> QED
      BY <1>0, <2>4, <2>5 DEF SwapInv, TypeOK
  <1>3. CASE process_take_verifiable_encryption_ix
    <2>1. PICK signers \in SUBSET Owner, o \in Unspent, j \in Unspent,
               source \in Note, destination \in Note :
            /\ Landed("take_verifiable_encryption", {o, j}, o,
                      <<source, destination>>, signers)
            /\ PlainNote(leaves[j])
            /\ Settlement(o)'
      BY <1>0, <1>3, StepOfTakeVerifiable, Zenon
    <2>2. Accounts({o, j})
      BY <2>1 DEF Orders, PlainNote, Outcome, Accounts
    <2>3. <<source, destination>> \in Seq(Note)
      OBVIOUS
    <2>s. "take_verifiable_encryption" \in Instruction
      BY DEF Instruction
    <2>4. PoolTypeOK' /\ AllAccounted'
      BY <2>1, <2>2, <2>3, <2>s, LandedInv, Zenon
    <2>5. markers' = markers
      BY <1>3 DEF process_take_verifiable_encryption_ix
    <2> QED
      BY <1>0, <2>4, <2>5 DEF SwapInv, TypeOK
  <1>4. CASE process_cancel_ix
    <2>1. PICK signers \in SUBSET Owner, o \in Unspent, source \in Note :
            /\ Landed("cancel", {o}, o, <<source>>, signers)
            /\ Refund(o)'
      BY <1>0, <1>4, StepOfCancel, Zenon
    <2>2. Accounts({o})
      BY <2>1 DEF Outcome, Accounts
    <2>3. <<source>> \in Seq(Note)
      OBVIOUS
    <2>s. "cancel" \in Instruction
      BY DEF Instruction
    <2>4. PoolTypeOK' /\ AllAccounted'
      BY <2>1, <2>2, <2>3, <2>s, LandedInv, Zenon
    <2>5. markers' = markers
      BY <1>4 DEF process_cancel_ix, CancelOrder
    <2> QED
      BY <1>0, <2>4, <2>5 DEF SwapInv, TypeOK
  <1>5. CASE SppTransfer
    <2>1. PICK signers \in SUBSET Owner, i \in Unspent, n \in Note :
            /\ Landed("transfer", {i}, i, <<n>>, signers)
            /\ leaves[i].owner # Authority
      BY <1>0, <1>5, StepOfTransfer, Zenon
    <2>2. Accounts({i})
      BY <2>1 DEF Orders, Accounts
    <2>3. <<n>> \in Seq(Note)
      OBVIOUS
    <2>s. "transfer" \in Instruction
      BY DEF Instruction
    <2>4. PoolTypeOK' /\ AllAccounted'
      BY <2>1, <2>2, <2>3, <2>s, LandedInv, Zenon
    <2>5. markers' = markers
      BY <1>5 DEF SppTransfer
    <2> QED
      BY <1>0, <2>4, <2>5 DEF SwapInv, TypeOK
  <1>6. CASE Clock \/ UNCHANGED vars
    <2>1. UNCHANGED <<leaves, nullifiers, markers>>
      BY <1>6 DEF Clock, Tick, vars
    <2>2. PoolTypeOK'
      BY <1>0, <1>6, TickType DEF Clock, vars, PoolTypeOK
    <2>3. AllAccounted'
      <3> SUFFICES ASSUME NEW o \in (Orders \cap DOMAIN nullifiers)'
                   PROVE  Outcome(o)'
        BY DEF AllAccounted
      <3>1. o \in Orders \cap DOMAIN nullifiers
        BY <2>1 DEF Orders
      <3>2. Outcome(o)
        BY <3>1 DEF SwapInv, AllAccounted
      <3> QED
        BY <1>0, <2>1, <3>1, <3>2, OutcomeKept
    <2> QED
      BY <1>0, <2>1, <2>2, <2>3 DEF SwapInv, TypeOK
  <1> QED
    BY <1>1, <1>2, <1>3, <1>4, <1>5, <1>6 DEF Next, process_instruction

\* The inductive invariant holds throughout.
THEOREM SwapInvariant == Spec => []SwapInv
  BY SwapInvInit, SwapInvStep, PTL DEF Spec

(***************************************************************************)
(* The tree is a sequence of notes, only leaves of the tree are nullified, *)
(* every nullifier carries a receipt and every marker names a wallet.      *)
(***************************************************************************)
THEOREM TypeCorrect == Spec => []TypeOK
  <1>1. SwapInv => TypeOK
    BY DEF SwapInv
  <1> QED
    BY <1>1, SwapInvariant, PTL

(***************************************************************************)
(* process_take_ix and process_take_verifiable_encryption_ix settle every  *)
(* order they consume in its window, on its rail and at its price,         *)
(* whatever makes may spend.                                               *)
(***************************************************************************)
THEOREM TakesSettle == Spec => []TakesSettleAsCommitted
  <1>1. SwapInv => TakesSettleAsCommitted
    BY DEF SwapInv, AllAccounted, TakesSettleAsCommitted, Outcome, Settlement, Refund,
           SpentByMake, TakeRails
  <1> QED
    BY <1>1, SwapInvariant, PTL

(***************************************************************************)
(* process_cancel_ix consumes an order only after its expiry, with its     *)
(* maker's signature, and refunds that maker in full.                      *)
(***************************************************************************)
THEOREM CancelsRefund == Spec => []CancelsRefundTheMaker
  <1>1. SwapInv => CancelsRefundTheMaker
    BY DEF SwapInv, AllAccounted, CancelsRefundTheMaker, Outcome, Settlement, Refund,
           SpentByMake, TakeRails
  <1> QED
    BY <1>1, SwapInvariant, PTL

(***************************************************************************)
(* Whatever a taker encrypts or leaves out, the maker can rebuild the      *)
(* payout of a take.                                                       *)
(***************************************************************************)
THEOREM PayoutsAreRecoverable == Spec => []PayoutsRecoverable
  <1>1. SwapInv => PayoutsRecoverable
    BY DEF SwapInv, AllAccounted, PayoutsRecoverable, Outcome, Settlement, Refund,
           SpentByMake, Recoverable, TakeRails
  <1> QED
    BY <1>1, SwapInvariant, PTL

(***************************************************************************)
(* As long as makes spend plain notes, an order moves only by settlement   *)
(* or by refund: process_make_ix signs for the PDA too, so without the     *)
(* assumption the invariant only says SpentByMake.                         *)
(***************************************************************************)
THEOREM OrdersMoveBySettlement ==
  ASSUME OrdersFundMakes = FALSE
  PROVE  Spec => []OrdersMoveOnlyBySettlement
  <1>1. SwapInv => OrdersMoveOnlyBySettlement
    BY DEF SwapInv, AllAccounted, OrdersMoveOnlyBySettlement, Outcome, Settlement, Refund, SpentByMake
  <1> QED
    BY <1>1, SwapInvariant, PTL

-----------------------------------------------------------------------------
(***************************************************************************)
(* Orders and their markers.                                               *)
(***************************************************************************)

NoOrderIn(outs) == \A k \in DOMAIN outs : outs[k].data # NoData => outs[k].owner # Authority

\* The wallet that marker m names signed the make of the order that it names.
SignedMake(m) ==
  \E i \in DOMAIN nullifiers :
    /\ nullifiers[i].ix = "make"
    /\ nullifiers[i].out + 1 = m.order
    /\ m.maker \in nullifiers[i].signers

LEMMA MakersStay ==
  ASSUME NEW outs, Kept(outs), NEW m, SignedMake(m)
  PROVE  SignedMake(m)'
  BY DEF Kept, SignedMake

\* A transact that gives the PDA no note with data creates no order.
LEMMA LandedNoOrder ==
  ASSUME TypeOK, OrdersWellFormed, markers' = markers,
         NEW ix, NEW spends, NEW first, NEW outs \in Seq(Note), NEW signers,
         Landed(ix, spends, first, outs, signers),
         NoOrderIn(outs)
  PROVE  OrdersWellFormed'
  <1>0. PoolTypeOK
    BY DEF TypeOK
  <1>1. Kept(outs)
    BY <1>0, LandedKeeps, Zenon
  <1>2. Orders' = Orders
    BY <1>1 DEF Orders, NoOrderIn, Kept
  <1>3. \A o \in Orders : leaves'[o] = leaves[o]
    BY <1>1 DEF Orders, Kept
  <1>4. \A m \in markers' : SignedMake(m)'
    BY <1>1, MakersStay DEF OrdersWellFormed, SignedMake
  <1> QED
    BY <1>1, <1>2, <1>3, <1>4
    DEF Kept, OrdersWellFormed, SignedMake, CheckTerms, checkOrderInputUtxo

\* make creates one order with terms a take accepts, and its own marker.
LEMMA MakeWellFormed ==
  ASSUME TypeOK, OrdersWellFormed, process_make_ix
  PROVE  OrdersWellFormed'
  <1>1. PICK signers \in SUBSET Owner, payer \in Party, i \in Unspent,
             change \in Note, order \in Note :
          /\ Landed("make", {i}, i, <<change, order>>, signers)
          /\ PlainNote(change)
          /\ CheckTerms(order.data)
          /\ checkOrderOutputUtxo(order, order.data)
          /\ order.data \in Payload
          /\ payer \in signers
          /\ markers' = markers \cup {MarkerData(Len(leaves) + 1, payer)}
    BY StepOfMake, Zenon
  <1> DEFINE outs == <<change, order>>
             new  == Len(leaves) + 2
             mark == MarkerData(Len(leaves) + 1, payer)
  <1>2. outs \in Seq(Note) /\ DOMAIN outs = {1, 2} /\ outs[1] = change /\ outs[2] = order
    OBVIOUS
  <1>3. Len(leaves) \in Nat /\ DOMAIN leaves = 1 .. Len(leaves)
    BY DEF TypeOK, PoolTypeOK
  <1>4. Kept(outs)
    <2>1. PoolTypeOK /\ Landed("make", {i}, i, outs, signers)
      BY <1>1 DEF TypeOK
    <2> HIDE DEF outs
    <2> QED
      BY <1>2, <2>1, LandedKeeps, Zenon
  <1>5. /\ new \in DOMAIN leaves' /\ leaves'[new] = order
        /\ leaves'[Len(leaves) + 1] = change
        /\ \A k \in DOMAIN leaves' : k \in DOMAIN leaves \/ k = Len(leaves) + 1 \/ k = new
        /\ new \notin DOMAIN leaves
    <2> HIDE DEF outs
    <2> QED
      BY <1>2, <1>3, <1>4 DEF Kept
  <1>6. mark.order = new /\ markers' = markers \cup {mark}
    BY <1>1, <1>3 DEF MarkerData, ORDER_OUTPUT_INDEX
  <1>7. order.data # NoData /\ change.data = NoData
    BY <1>1, DataAssumption DEF PlainNote
  <1>8. Orders' \subseteq Orders \cup {new}
    BY <1>4, <1>5, <1>7 DEF Orders, Kept
  <1>9. \A o \in Orders : leaves'[o] = leaves[o]
    BY <1>4 DEF Orders, Kept
  <1> HIDE DEF outs, new, mark
  <1>10. \A o \in Orders' : /\ CheckTerms(leaves'[o].data)
                            /\ checkOrderInputUtxo(leaves'[o], leaves'[o].data)
    BY <1>1, <1>5, <1>8, <1>9
    DEF OrdersWellFormed, checkOrderInputUtxo, checkOrderOutputUtxo, CheckTerms
  <1>11. \A o \in Orders' : \E x \in markers' : x.order = o
    BY <1>6, <1>8 DEF OrdersWellFormed
  <1>12. \A x \in markers' : x.order \in DOMAIN leaves' /\ leaves'[x.order].data # NoData
    BY <1>4, <1>5, <1>6, <1>7 DEF OrdersWellFormed, Kept
  <1>13. \A x, k \in markers' : x.order = k.order => x = k
    BY <1>5, <1>6 DEF OrdersWellFormed
  <1>14. ASSUME NEW x, x = mark
         PROVE  SignedMake(x)'
    <2>1. i \in DOMAIN nullifiers' /\ nullifiers'[i] = TheReceipt("make", i, signers)
      BY <1>1 DEF Landed
    <2>2. /\ TheReceipt("make", i, signers).ix = "make"
          /\ TheReceipt("make", i, signers).out = Len(leaves) + 1
          /\ TheReceipt("make", i, signers).signers = signers
      BY DEF TheReceipt
    <2>3. x.maker = payer /\ x.order = Len(leaves) + 2
      BY <1>6, <1>14 DEF mark, MarkerData, new
    <2> QED
      BY <1>1, <1>3, <2>1, <2>2, <2>3 DEF SignedMake
  <1>15. \A x \in markers' : SignedMake(x)'
    <2>1. \A x \in markers : SignedMake(x)
      BY DEF OrdersWellFormed, SignedMake
    <2>2. \A x \in markers : SignedMake(x)'
      BY <1>4, <2>1, MakersStay
    <2>3. \A x \in markers' : x \in markers \/ x = mark
      BY <1>6
    <2> QED
      BY <1>14, <2>2, <2>3
  <1> QED
    BY <1>10, <1>11, <1>12, <1>13, <1>15 DEF OrdersWellFormed, SignedMake

LEMMA WellFormedStep == TypeOK /\ OrdersWellFormed /\ [Next]_vars => OrdersWellFormed'
  <1> SUFFICES ASSUME TypeOK, OrdersWellFormed, [Next]_vars
               PROVE  OrdersWellFormed'
    OBVIOUS
  <1>1. CASE process_make_ix
    BY <1>1, MakeWellFormed
  <1>2. CASE process_take_ix
    <2>1. PICK signers \in SUBSET Owner, o \in Unspent, j \in Unspent,
               source \in Note, destination \in Note :
            /\ Landed("take", {o, j}, o, <<source, destination>>, signers)
            /\ PlainNote(source) /\ PlainNote(destination)
      BY <1>2, StepOfTake, Zenon
    <2>2. <<source, destination>> \in Seq(Note) /\ NoOrderIn(<<source, destination>>)
      BY <2>1 DEF PlainNote, NoOrderIn
    <2>3. markers' = markers
      BY <1>2 DEF process_take_ix
    <2> QED
      BY <2>1, <2>2, <2>3, LandedNoOrder, Zenon
  <1>3. CASE process_take_verifiable_encryption_ix
    <2>1. PICK signers \in SUBSET Owner, o \in Unspent, j \in Unspent,
               source \in Note, destination \in Note :
            /\ Landed("take_verifiable_encryption", {o, j}, o,
                      <<source, destination>>, signers)
            /\ PlainNote(source) /\ PlainNote(destination)
      BY <1>3, StepOfTakeVerifiable, Zenon
    <2>2. <<source, destination>> \in Seq(Note) /\ NoOrderIn(<<source, destination>>)
      BY <2>1 DEF PlainNote, NoOrderIn
    <2>3. markers' = markers
      BY <1>3 DEF process_take_verifiable_encryption_ix
    <2> QED
      BY <2>1, <2>2, <2>3, LandedNoOrder, Zenon
  <1>4. CASE process_cancel_ix
    <2>1. PICK signers \in SUBSET Owner, o \in Unspent, source \in Note :
            Landed("cancel", {o}, o, <<source>>, signers) /\ PlainNote(source)
      BY <1>4, StepOfCancel, Zenon
    <2>2. <<source>> \in Seq(Note) /\ NoOrderIn(<<source>>)
      BY <2>1 DEF PlainNote, NoOrderIn
    <2>3. markers' = markers
      BY <1>4 DEF process_cancel_ix, CancelOrder
    <2> QED
      BY <2>1, <2>2, <2>3, LandedNoOrder, Zenon
  <1>5. CASE SppTransfer
    <2>1. PICK signers \in SUBSET Owner, i \in Unspent, n \in Note :
            /\ Landed("transfer", {i}, i, <<n>>, signers)
            /\ n.data # NoData => n.owner # Authority
      BY <1>5, StepOfTransfer, Zenon
    <2>2. <<n>> \in Seq(Note) /\ NoOrderIn(<<n>>)
      BY <2>1 DEF NoOrderIn
    <2>3. markers' = markers
      BY <1>5 DEF SppTransfer
    <2> QED
      BY <2>1, <2>2, <2>3, LandedNoOrder, Zenon
  <1>6. CASE Clock \/ UNCHANGED vars
    <2>1. UNCHANGED <<leaves, nullifiers, markers>>
      BY <1>6 DEF Clock, Tick, vars
    <2> QED
      BY <2>1 DEF OrdersWellFormed, Orders, CheckTerms, checkOrderInputUtxo
  <1> QED
    BY <1>1, <1>2, <1>3, <1>4, <1>5, <1>6 DEF Next, process_instruction

(***************************************************************************)
(* Every order in the tree has terms a take circuit accepts and exactly    *)
(* one marker, which names it and not its change, and a wallet that signed *)
(* its make: process_make_ix is the only way to create an order.           *)
(***************************************************************************)
THEOREM OrdersAreWellFormed == Spec => []OrdersWellFormed
  <1>1. Init => OrdersWellFormed
    <2> SUFFICES ASSUME Init
                 PROVE  OrdersWellFormed
      OBVIOUS
    <2>1. Orders = {}
      BY PoolAssumption DEF Init, PoolInit, Orders
    <2> QED
      BY <2>1 DEF Init, OrdersWellFormed
  <1> QED
    BY <1>1, WellFormedStep, TypeCorrect, PTL DEF Spec

\* A cancel by the maker, alone or in company, to a plain note of the maker, is
\* what the handler and SPP accept.
LEMMA CancelAccepted ==
  ASSUME TypeOK, OrdersWellFormed, NEW o \in OpenOrders, now > leaves[o].data.expiry
  PROVE  Cancels(o, cpi_accepts)
  <1> DEFINE terms  == leaves[o].data
             maker  == terms.maker
             source == [owner |-> maker, asset |-> leaves[o].asset, amount |-> leaves[o].amount,
                        data |-> NoData, ring |-> DefaultRing, blinding |-> Chosen(maker),
                        ciphertext |-> NoCiphertext]
  <1>1. o \in Unspent /\ leaves[o] \in Note /\ leaves[o].owner = Authority /\ terms # NoData
    BY DEF OpenOrders, Orders, TypeOK, PoolTypeOK
  <1>2. checkOrderInputUtxo(leaves[o], terms)
    BY DEF OrdersWellFormed, OpenOrders
  <1>3. terms \in OrderTerms
    BY <1>1, SwapAssumption DEF Note
  <1>4. maker \in Party /\ terms.expiry \in Expiry
    BY <1>3 DEF OrderTerms
  <1>5. PICK signers \in SignerSets : maker \in signers
    BY <1>4, SwapAssumption
  <1>6. now \in Int /\ now <= MaxTime /\ terms.expiry \in Int /\ 0 <= terms.expiry
    BY <1>4, BoundsAssumption DEF TypeOK, PoolTypeOK, Expiry
  <1>7. check_after_window(now, terms.expiry) /\ now <= MaxExpiry /\ MaxExpiry \in Expiry
    BY <1>6, BoundsAssumption DEF check_after_window, Expiry
  <1>8. source \in RefundOutputs(signers)
    BY <1>1, <1>4, <1>5, DataAssumption
    DEF RefundOutputs, Outputs, SignerBlindings, Note, Owner
  <1>9. CancelInputs(terms, leaves[o], terms.expiry, maker)
    BY <1>2 DEF CancelInputs
  <1>10. checkRefundOutputUtxo(source, leaves[o], terms)
    BY DEF checkRefundOutputUtxo, PlainNote
  <1>11. Accepts(<<o>>, <<source>>, signers \cup {Authority}, MaxExpiry)
    <2>1. signers \in SUBSET Party
      BY SwapAssumption
    <2>2. source \in Note
      BY <1>8, <2>1, OutputsAreNotes
    <2>3. source.data = NoData /\ source.asset = leaves[o].asset /\ source.amount = leaves[o].amount
      OBVIOUS
    <2>4. leaves[o].owner \in signers \cup {Authority}
      BY <1>1
    <2> HIDE DEF source
    <2> QED
      BY <1>1, <1>7, <2>2, <2>3, <2>4, AcceptsOneForOne DEF TypeOK
  <1> HIDE DEF source
  <1>12. cpi_accepts("cancel", <<o>>, <<source>>, signers, MaxExpiry)
    BY <1>11 DEF cpi_accepts
  <1> QED
    BY <1>1, <1>4, <1>5, <1>7, <1>8, <1>9, <1>10, <1>12 DEF Cancels

(***************************************************************************)
(* No order is stranded: whatever has landed, an open order that has       *)
(* expired passes every check of process_cancel_ix and of SPP, with its    *)
(* maker as a signer, at every reading of the clock from then on.          *)
(***************************************************************************)
THEOREM NoOrderIsStranded == Spec => []ExpiredOrdersCancellable
  <1>1. TypeOK /\ OrdersWellFormed => ExpiredOrdersCancellable
    BY CancelAccepted DEF ExpiredOrdersCancellable
  <1> QED
    BY <1>1, TypeCorrect, OrdersAreWellFormed, PTL

-----------------------------------------------------------------------------
(***************************************************************************)
(* Balances.  A transact takes the worth of the notes it spends out of an  *)
(* owner's sum and adds that of its outputs; an update of AtomicSwap's     *)
(* ledger is described by the same terms, At(w, x, owner, asset, amount).  *)
(***************************************************************************)

\* What n of asset a for owner v is to owner w's balance of asset x.
At(w, x, v, a, n) == IF w = v /\ x = a THEN n ELSE 0

Funds == [Owner -> [Asset -> Int]]

\* Two ledgers are the same if every owner has the same of every asset.
LEMMA SameFunds ==
  ASSUME NEW f \in Funds, NEW g \in Funds,
         \A w \in Owner, x \in Asset : f[w][x] = g[w][x]
  PROVE  f = g
  <1>1. \A w \in Owner : f[w] \in [Asset -> Int] /\ g[w] \in [Asset -> Int]
    BY DEF Funds
  <1>2. \A w \in Owner : f[w] = g[w]
    BY <1>1
  <1> QED
    BY <1>2 DEF Funds

\* What one update of a ledger does.
LEMMA GiveAt ==
  ASSUME NEW f \in Funds, NEW v \in Owner, NEW a \in Asset, NEW n \in Int
  PROVE  /\ Atomic!Give(f, v, a, n) \in Funds
         /\ \A w \in Owner, x \in Asset : Atomic!Give(f, v, a, n)[w][x] = f[w][x] + At(w, x, v, a, n)
  <1>1. \A w \in Owner : f[w] \in [Asset -> Int]
    BY DEF Funds
  <1> QED
    BY <1>1 DEF Funds, At, Atomic!Give

LEMMA ChargeAt ==
  ASSUME NEW f \in Funds, NEW v \in Owner, NEW a \in Asset, NEW n \in Int
  PROVE  /\ Atomic!Charge(f, v, a, n) \in Funds
         /\ \A w \in Owner, x \in Asset : Atomic!Charge(f, v, a, n)[w][x] = f[w][x] - At(w, x, v, a, n)
  <1>1. \A w \in Owner : f[w] \in [Asset -> Int]
    BY DEF Funds
  <1> QED
    BY <1>1 DEF Funds, At, Atomic!Charge

\* A move takes from one owner what it gives to another.
LEMMA MoveAt ==
  ASSUME NEW f \in Funds, NEW from \in Owner, NEW to \in Owner, NEW a \in Asset, NEW n \in Int
  PROVE  /\ Atomic!Move(f, from, to, a, n) \in Funds
         /\ \A w \in Owner, x \in Asset :
              Atomic!Move(f, from, to, a, n)[w][x] =
                f[w][x] - At(w, x, from, a, n) + At(w, x, to, a, n)
  <1> DEFINE g == Atomic!Charge(f, from, a, n)
             h == Atomic!Give(g, to, a, n)
  <1>1. g \in Funds /\ \A w \in Owner, x \in Asset : g[w][x] = f[w][x] - At(w, x, from, a, n)
    BY ChargeAt
  <1>2. h \in Funds /\ \A w \in Owner, x \in Asset : h[w][x] = g[w][x] + At(w, x, to, a, n)
    <2> HIDE DEF g
    <2> QED
      BY <1>1, GiveAt
  <1>3. Atomic!Move(f, from, to, a, n) = h
    BY DEF Atomic!Move
  <1> HIDE DEF g, h
  <1> QED
    BY <1>1, <1>2, <1>3
\* What a note is worth to an owner is a natural number.
LEMMA CreditType ==
  ASSUME NEW n \in Note, NEW w, NEW x
  PROVE  Credit(n, w, x) \in Nat
  BY BoundsAssumption DEF Credit, Note, Amount

\* A balance is a sum over the unspent leaves; the tree is finite.
LEMMA BalanceIsSum ==
  ASSUME PoolTypeOK, NEW w \in Owner, NEW x \in Asset
  PROVE  /\ Balance[w][x] = SumFunctionOnSet([i \in Unspent |-> Credit(leaves[i], w, x)], Unspent)
         /\ IsFiniteSet(Unspent)
         /\ \A i \in Unspent : Credit(leaves[i], w, x) \in Nat
         /\ Balance[w][x] \in Nat
  <1> DEFINE v == [i \in Unspent |-> Credit(leaves[i], w, x)]
  <1>1. DOMAIN leaves = 1 .. Len(leaves) /\ Len(leaves) \in Nat
    BY DEF PoolTypeOK
  <1>2. IsFiniteSet(Unspent)
    <2>1. IsFiniteSet(1 .. Len(leaves))
      BY <1>1, FS_Interval
    <2> QED
      BY <1>1, <2>1, FS_Subset DEF Unspent
  <1>3. \A i \in Unspent : Credit(leaves[i], w, x) \in Nat
    <2> TAKE i \in Unspent
    <2>1. leaves[i] \in Note
      BY DEF PoolTypeOK, Unspent
    <2> QED
      BY <2>1, CreditType
  <1>4. Balance[w][x] = SumFunction(v)
    BY DEF Balance
  <1>5. DOMAIN v = Unspent /\ \A i \in Unspent : v[i] \in Nat
    BY <1>3
  <1> HIDE DEF v
  <1>6. Balance[w][x] = SumFunctionOnSet(v, Unspent)
    BY <1>4, <1>5 DEF SumFunction
  <1>7. Balance[w][x] \in Nat
    BY <1>2, <1>5, <1>6, SumNat, Zenon
  <1> QED
    BY <1>2, <1>3, <1>6, <1>7 DEF v

\* Balances are ledgers of natural numbers.
LEMMA BalanceType ==
  ASSUME PoolTypeOK
  PROVE  Balance \in [Owner -> [Asset -> Nat]] /\ Balance \in Funds
  <1>1. \A w \in Owner, x \in Asset : Balance[w][x] \in Nat
    BY BalanceIsSum
  <1>2. Balance = [w \in Owner |-> [x \in Asset |-> Balance[w][x]]]
    BY DEF Balance
  <1> HIDE DEF Balance
  <1> QED
    BY <1>1, <1>2 DEF Funds

\* worth is what the leaves count for owner w's balance of asset x, before and
\* after a transact that spends spends and appends outs as the leaves new.
Weighs(worth, new, spends, outs, w, x) ==
  /\ new = {Len(leaves) + k : k \in DOMAIN outs}
  /\ Balance'[w][x] = Balance[w][x] - SumFunctionOnSet(worth, spends)
                        + SumFunctionOnSet(worth, new)
  /\ SumFunctionOnSet(worth, spends) <= Balance[w][x]
  /\ \A k \in spends : worth[k] = Credit(leaves[k], w, x)
  /\ \A k \in DOMAIN outs : worth[Len(leaves) + k] = Credit(outs[k], w, x)

\* A transact takes the notes it spends out of the sum and adds its outputs.
LEMMA LandedSum ==
  ASSUME PoolTypeOK,
         NEW ix \in Instruction, NEW spends, NEW first, NEW outs \in Seq(Note),
         NEW signers \in SUBSET Owner,
         Landed(ix, spends, first, outs, signers),
         NEW w \in Owner, NEW x \in Asset
  PROVE  \E worth, new : Weighs(worth, new, spends, outs, w, x)
  <1> DEFINE worth == [k \in DOMAIN leaves' |-> Credit(leaves'[k], w, x)]
             new   == {Len(leaves) + k : k \in DOMAIN outs}
  <1>1. Kept(outs)
    BY LandedKeeps, Zenon
  <1>2. PoolTypeOK'
    BY LandedType, Zenon
  <1>3. Unspent' = (Unspent \ spends) \cup new /\ Unspent \cap new = {} /\ new \subseteq DOMAIN leaves'
    BY <1>1 DEF PoolTypeOK, Landed, Unspent, Kept
  <1>4. /\ IsFiniteSet(Unspent)
        /\ \A i \in Unspent : Credit(leaves[i], w, x) \in Nat
        /\ Balance[w][x] = SumFunctionOnSet([i \in Unspent |-> Credit(leaves[i], w, x)], Unspent)
        /\ Balance[w][x] \in Nat
    BY BalanceIsSum
  <1>5. \A k \in DOMAIN leaves' : worth[k] \in Nat
    BY <1>2, CreditType DEF PoolTypeOK
  <1>6. \A i \in DOMAIN leaves : i \in DOMAIN leaves' /\ worth[i] = Credit(leaves[i], w, x)
    BY <1>1 DEF Kept
  <1>a. new = {Len(leaves) + k : k \in DOMAIN outs}
    OBVIOUS
  <1>b. \A i \in DOMAIN leaves' : worth[i] = Credit(leaves'[i], w, x)
    OBVIOUS
  <1>15. \A k \in DOMAIN outs : worth[Len(leaves) + k] = Credit(outs[k], w, x)
    BY <1>1 DEF Kept
  <1> HIDE DEF worth, new
  <1>7. Balance[w][x] = SumFunctionOnSet(worth, Unspent)
    <2> DEFINE v == [i \in Unspent |-> Credit(leaves[i], w, x)]
    <2>1. Unspent \subseteq DOMAIN leaves
      BY DEF Unspent
    <2>2. \A i \in Unspent : worth[i] \in Nat /\ v[i] = worth[i]
      BY <1>5, <1>6, <2>1
    <2>3. Balance[w][x] = SumFunctionOnSet(v, Unspent)
      BY <1>4
    <2>4. \A i \in Unspent : worth[i] \in Int
      BY <2>2
    <2> HIDE DEF v
    <2> QED
      BY <1>4, <2>2, <2>3, <2>4, SumSame, Zenon
  <1>8. IsFiniteSet(new)
    <2>1. DOMAIN outs = 1 .. Len(outs) /\ Len(outs) \in Nat /\ Len(leaves) \in Nat
      BY DEF PoolTypeOK
    <2>2. new \subseteq Len(leaves) + 1 .. Len(leaves) + Len(outs)
      BY <1>a, <2>1
    <2>3. IsFiniteSet(Len(leaves) + 1 .. Len(leaves) + Len(outs))
      BY <2>1, FS_Interval
    <2> QED
      BY <2>2, <2>3, FS_Subset
  <1>9. Balance'[w][x] = SumFunctionOnSet(worth, Unspent')
    <2> DEFINE v == [i \in Unspent' |-> Credit(leaves'[i], w, x)]
    <2>1. Unspent' \subseteq DOMAIN leaves'
      BY DEF Unspent
    <2>2. \A i \in Unspent' : worth[i] \in Nat /\ v[i] = worth[i]
      BY <1>5, <1>b, <2>1
    <2>3. Balance'[w][x] = SumFunction(v)
      BY DEF Balance
    <2>4. DOMAIN v = Unspent'
      OBVIOUS
    <2>5. IsFiniteSet(Unspent')
      <3>1. IsFiniteSet(Unspent \ spends)
        BY <1>4, FS_Subset
      <3>2. IsFiniteSet((Unspent \ spends) \cup new)
        BY <1>8, <3>1, FS_Union
      <3> QED
        BY <1>3, <3>2
    <2> HIDE DEF v
    <2>6. Balance'[w][x] = SumFunctionOnSet(v, Unspent')
      BY <2>3, <2>4 DEF SumFunction
    <2>7. \A i \in Unspent' : worth[i] \in Int
      BY <2>2
    <2> QED
      BY <2>2, <2>5, <2>6, <2>7, SumSame, Zenon
  <1>10. spends \in SUBSET Unspent
    BY DEF Landed
  <1>11. \A k \in Unspent \cup new : worth[k] \in Int
    BY <1>3, <1>5, <1>6 DEF Unspent
  <1>12. SumFunctionOnSet(worth, (Unspent \ spends) \cup new) =
           SumFunctionOnSet(worth, Unspent) - SumFunctionOnSet(worth, spends)
             + SumFunctionOnSet(worth, new)
    <2>1. IsFiniteSet(Unspent) /\ Unspent \cap new = {}
      BY <1>3, <1>4
    <2> QED
      BY <1>8, <1>10, <1>11, <2>1, SumChanges, SMTT(60)
  <1>13. SumFunctionOnSet(worth, spends) <= SumFunctionOnSet(worth, Unspent)
    <2>1. \A k \in Unspent : worth[k] \in Nat
      BY <1>5, <1>6 DEF Unspent
    <2> QED
      BY <1>4, <1>10, <2>1, SumBounds, Zenon
  <1>16. \A k \in spends : worth[k] = Credit(leaves[k], w, x)
    BY <1>6, <1>10 DEF Unspent
  <1>17. /\ Balance'[w][x] = Balance[w][x] - SumFunctionOnSet(worth, spends)
                               + SumFunctionOnSet(worth, new)
         /\ SumFunctionOnSet(worth, spends) <= Balance[w][x]
    BY <1>3, <1>7, <1>9, <1>12, <1>13, Zenon
  <1> QED
    BY <1>a, <1>15, <1>16, <1>17, Zenon DEF Weighs

\* One note becomes another.
LEMMA OneForOne ==
  ASSUME PoolTypeOK, NEW ix \in Instruction, NEW i, NEW n \in Note,
         NEW signers \in SUBSET Owner, Landed(ix, {i}, i, <<n>>, signers),
         NEW w \in Owner, NEW x \in Asset
  PROVE  /\ Balance'[w][x] = Balance[w][x] - Credit(leaves[i], w, x) + Credit(n, w, x)
         /\ Credit(leaves[i], w, x) <= Balance[w][x]
  <1> DEFINE outs == <<n>>
  <1>1. outs \in Seq(Note) /\ DOMAIN outs = {1} /\ outs[1] = n
    OBVIOUS
  <1>2. PICK worth, new : Weighs(worth, new, {i}, outs, w, x)
    <2>1. Landed(ix, {i}, i, outs, signers)
      OBVIOUS
    <2> HIDE DEF outs
    <2> QED
      BY <1>1, <2>1, LandedSum, Zenon
  <1>3. leaves[i] \in Note
    BY DEF Landed, PoolTypeOK, Unspent
  <1>4. Credit(leaves[i], w, x) \in Nat /\ Credit(n, w, x) \in Nat
    BY <1>3, CreditType
  <1> HIDE DEF outs
  <1>5. new = {Len(leaves) + 1}
    BY <1>1, <1>2 DEF Weighs
  <1>6. worth[i] = Credit(leaves[i], w, x) /\ worth[Len(leaves) + 1] = Credit(n, w, x)
    BY <1>1, <1>2 DEF Weighs
  <1>7. worth[i] \in Int /\ worth[Len(leaves) + 1] \in Int
    BY <1>4, <1>6
  <1>8. SumFunctionOnSet(worth, {i}) = worth[i]
    BY <1>7, SumOne, Zenon
  <1>9. SumFunctionOnSet(worth, {Len(leaves) + 1}) = worth[Len(leaves) + 1]
    BY <1>7, SumOne, Zenon
  <1> QED
    BY <1>2, <1>5, <1>6, <1>8, <1>9 DEF Weighs

\* One note becomes two.
LEMMA OneForTwo ==
  ASSUME PoolTypeOK, NEW ix \in Instruction, NEW i, NEW m \in Note, NEW n \in Note,
         NEW signers \in SUBSET Owner, Landed(ix, {i}, i, <<m, n>>, signers),
         NEW w \in Owner, NEW x \in Asset
  PROVE  /\ Balance'[w][x] = Balance[w][x] - Credit(leaves[i], w, x)
                               + Credit(m, w, x) + Credit(n, w, x)
         /\ Credit(leaves[i], w, x) <= Balance[w][x]
  <1> DEFINE outs == <<m, n>>
             one  == Len(leaves) + 1
             two  == Len(leaves) + 2
  <1>1. outs \in Seq(Note) /\ DOMAIN outs = {1, 2} /\ outs[1] = m /\ outs[2] = n
    OBVIOUS
  <1>2. PICK worth, new : Weighs(worth, new, {i}, outs, w, x)
    <2>1. Landed(ix, {i}, i, outs, signers)
      OBVIOUS
    <2> HIDE DEF outs
    <2> QED
      BY <1>1, <2>1, LandedSum, Zenon
  <1>3. leaves[i] \in Note
    BY DEF Landed, PoolTypeOK, Unspent
  <1>4. Credit(leaves[i], w, x) \in Nat /\ Credit(m, w, x) \in Nat /\ Credit(n, w, x) \in Nat
    BY <1>3, CreditType
  <1>d. one # two
    BY DEF PoolTypeOK
  <1> HIDE DEF outs
  <1>5. new = {one, two}
    BY <1>1, <1>2 DEF Weighs
  <1>6. worth[i] = Credit(leaves[i], w, x) /\ worth[one] = Credit(m, w, x) /\ worth[two] = Credit(n, w, x)
    BY <1>1, <1>2 DEF Weighs
  <1> HIDE DEF one, two
  <1>7. worth[i] \in Int /\ worth[one] \in Int /\ worth[two] \in Int
    BY <1>4, <1>6
  <1>8. SumFunctionOnSet(worth, {i}) = worth[i]
    BY <1>7, SumOne, Zenon
  <1>9. SumFunctionOnSet(worth, {one, two}) = worth[one] + worth[two]
    BY <1>d, <1>7, SumTwo, Zenon
  <1>10. Balance[w][x] \in Nat
    BY BalanceIsSum
  <1>11. /\ Balance'[w][x] = Balance[w][x] - SumFunctionOnSet(worth, {i})
                               + SumFunctionOnSet(worth, {one, two})
         /\ SumFunctionOnSet(worth, {i}) <= Balance[w][x]
    BY <1>2, <1>5, Zenon DEF Weighs
  <1> QED
    BY <1>4, <1>6, <1>8, <1>9, <1>10, <1>11

\* Two notes become two.
LEMMA TwoForTwo ==
  ASSUME PoolTypeOK, NEW ix \in Instruction, NEW i, NEW j, i # j, NEW m \in Note, NEW n \in Note,
         NEW signers \in SUBSET Owner, Landed(ix, {i, j}, i, <<m, n>>, signers),
         NEW w \in Owner, NEW x \in Asset
  PROVE  /\ Balance'[w][x] = Balance[w][x] - Credit(leaves[i], w, x) - Credit(leaves[j], w, x)
                               + Credit(m, w, x) + Credit(n, w, x)
         /\ Credit(leaves[i], w, x) + Credit(leaves[j], w, x) <= Balance[w][x]
  <1> DEFINE outs == <<m, n>>
             one  == Len(leaves) + 1
             two  == Len(leaves) + 2
  <1>1. outs \in Seq(Note) /\ DOMAIN outs = {1, 2} /\ outs[1] = m /\ outs[2] = n
    OBVIOUS
  <1>2. PICK worth, new : Weighs(worth, new, {i, j}, outs, w, x)
    <2>1. Landed(ix, {i, j}, i, outs, signers)
      OBVIOUS
    <2> HIDE DEF outs
    <2> QED
      BY <1>1, <2>1, LandedSum, Zenon
  <1>3. leaves[i] \in Note /\ leaves[j] \in Note
    BY DEF Landed, PoolTypeOK, Unspent
  <1>4. /\ Credit(leaves[i], w, x) \in Nat /\ Credit(leaves[j], w, x) \in Nat
        /\ Credit(m, w, x) \in Nat /\ Credit(n, w, x) \in Nat
    BY <1>3, CreditType
  <1>d. one # two
    BY DEF PoolTypeOK
  <1> HIDE DEF outs
  <1>5. new = {one, two}
    BY <1>1, <1>2 DEF Weighs
  <1>6. /\ worth[i] = Credit(leaves[i], w, x) /\ worth[j] = Credit(leaves[j], w, x)
        /\ worth[one] = Credit(m, w, x) /\ worth[two] = Credit(n, w, x)
    BY <1>1, <1>2 DEF Weighs
  <1> HIDE DEF one, two
  <1>7. worth[i] \in Int /\ worth[j] \in Int /\ worth[one] \in Int /\ worth[two] \in Int
    BY <1>4, <1>6
  <1>8. SumFunctionOnSet(worth, {i, j}) = worth[i] + worth[j]
    BY <1>7, SumTwo, Zenon
  <1>9. SumFunctionOnSet(worth, {one, two}) = worth[one] + worth[two]
    BY <1>d, <1>7, SumTwo, Zenon
  <1>10. Balance[w][x] \in Nat
    BY BalanceIsSum
  <1>11. /\ Balance'[w][x] = Balance[w][x] - SumFunctionOnSet(worth, {i, j})
                               + SumFunctionOnSet(worth, {one, two})
         /\ SumFunctionOnSet(worth, {i, j}) <= Balance[w][x]
    BY <1>2, <1>5, Zenon DEF Weighs
  <1> QED
    BY <1>4, <1>6, <1>8, <1>9, <1>10, <1>11

\* The balances after a step are those a ledger g says.
LEMMA BalanceBecomes ==
  ASSUME NEW STATE g, g \in Funds,
         \A w \in Owner, x \in Asset : Balance'[w][x] = g[w][x]
  PROVE  Balance' = g
  <1>1. \A w \in Owner, x \in Asset : g[w][x] \in Int
    BY DEF Funds
  <1>2. Balance' = [w \in Owner |-> [x \in Asset |-> Balance'[w][x]]]
    BY DEF Balance
  <1>3. Balance' \in Funds
    BY <1>1, <1>2 DEF Funds
  <1> QED
    BY <1>3, SameFunds

-----------------------------------------------------------------------------
(***************************************************************************)
(* The book.                                                               *)
(***************************************************************************)

\* The orders a transact finds in the tree and what it does to their states.
LEMMA LandedOrders ==
  ASSUME PoolTypeOK,
         NEW ix, NEW spends, NEW first, NEW outs \in Seq(Note), NEW signers,
         Landed(ix, spends, first, outs, signers)
  PROVE  /\ Orders \subseteq Orders'
         /\ NoOrderIn(outs) => Orders' = Orders
         /\ \A o \in Orders : leaves'[o] = leaves[o]
         /\ \A o \in Orders \ spends : OrderState(o)' = OrderState(o)
         /\ \A o \in spends : OrderState(o) = "open"
         /\ \A o \in spends : ix \in TakeRails => OrderState(o)' = "filled"
         /\ \A o \in spends : ix = "cancel" => OrderState(o)' = "refunded"
  <1>1. Kept(outs)
    BY LandedKeeps, Zenon
  <1>2. /\ Orders \subseteq Orders'
        /\ NoOrderIn(outs) => Orders' = Orders
        /\ \A o \in Orders : leaves'[o] = leaves[o]
    BY <1>1 DEF Orders, NoOrderIn, Kept
  <1>3. \A o \in Orders \ spends : OrderState(o)' = OrderState(o)
    BY DEF Landed, OrderState
  <1>4. \A o \in spends : OrderState(o) = "open"
    BY DEF Landed, Unspent, OrderState
  <1>5. ASSUME NEW o \in spends
        PROVE  /\ ix \in TakeRails => OrderState(o)' = "filled"
               /\ ix = "cancel" => OrderState(o)' = "refunded"
    <2>1. o \in DOMAIN nullifiers' /\ nullifiers'[o].ix = ix
      BY DEF Landed, TheReceipt
    <2> QED
      BY <2>1 DEF OrderState, TakeRails
  <1> QED
    BY <1>2, <1>3, <1>4, <1>5

\* What the book says of an order.
Entry(o) ==
  [asset |-> leaves[o].asset, amount |-> leaves[o].amount,
   terms |-> leaves[o].data, state |-> OrderState(o)]

LEMMA BookEntries ==
  /\ Book = [o \in Orders |-> Entry(o)]
  /\ Book' = [o \in Orders' |-> Entry(o)']
  BY DEF Book, Entry

\* A transact that spends no order and creates none leaves the book alone.
LEMMA BookKept ==
  ASSUME PoolTypeOK,
         NEW ix, NEW spends, NEW first, NEW outs \in Seq(Note), NEW signers,
         Landed(ix, spends, first, outs, signers),
         NoOrderIn(outs), spends \cap Orders = {}
  PROVE  Book' = Book
  <1>1. /\ Orders' = Orders
        /\ \A o \in Orders : leaves'[o] = leaves[o] /\ OrderState(o)' = OrderState(o)
    BY LandedOrders
  <1>2. \A o \in Orders : Entry(o)' = Entry(o)
    BY <1>1 DEF Entry
  <1> HIDE DEF Entry
  <1> QED
    BY <1>1, <1>2, BookEntries

\* A transact that spends one order and creates none closes that order.
LEMMA BookClosed ==
  ASSUME PoolTypeOK,
         NEW ix, NEW spends, NEW first, NEW outs \in Seq(Note), NEW signers,
         Landed(ix, spends, first, outs, signers),
         NoOrderIn(outs), NEW o, spends \cap Orders = {o},
         NEW state, OrderState(o)' = state
  PROVE  /\ o \in DOMAIN Book
         /\ Book[o].state = "open"
         /\ Book[o] = Entry(o)
         /\ Book' = [Book EXCEPT ![o].state = state]
  <1>1. /\ Orders' = Orders
        /\ \A k \in Orders : leaves'[k] = leaves[k]
        /\ \A k \in Orders \ spends : OrderState(k)' = OrderState(k)
        /\ OrderState(o) = "open"
    BY LandedOrders
  <1>2. \A k \in Orders \ {o} : Entry(k)' = Entry(k)
    BY <1>1 DEF Entry
  <1>3. Entry(o)' = [Entry(o) EXCEPT !.state = state]
    BY <1>1 DEF Entry
  <1>4. Entry(o).state = "open"
    BY <1>1 DEF Entry
  <1> HIDE DEF Entry
  <1>5. o \in Orders /\ Book = [k \in Orders |-> Entry(k)] /\ Book' = [k \in Orders |-> Entry(k)']
    BY <1>1, BookEntries
  <1> QED
    BY <1>2, <1>3, <1>4, <1>5, Zenon

\* The order is entered into the book under a new name.
Entered(new, order) ==
  /\ new \notin DOMAIN Book
  /\ DOMAIN Book' = DOMAIN Book \cup {new}
  /\ Book' = [k \in DOMAIN Book \cup {new} |->
                IF k = new THEN [asset |-> order.asset, amount |-> order.amount,
                                 terms |-> order.data, state |-> "open"]
                ELSE Book[k]]

\* A make that spends no order enters its order into the book.
LEMMA BookPlaced ==
  ASSUME PoolTypeOK,
         NEW i, NEW change \in Note, NEW order \in Note, NEW signers,
         Landed("make", {i}, i, <<change, order>>, signers),
         i \notin Orders, PlainNote(change),
         order.owner = Authority, order.data # NoData
  PROVE  \E new : Entered(new, order)
  <1> DEFINE outs == <<change, order>>
  <1>1. outs \in Seq(Note) /\ DOMAIN outs = {1, 2} /\ outs[1] = change /\ outs[2] = order
    OBVIOUS
  <1>2. Len(leaves) \in Nat /\ DOMAIN leaves = 1 .. Len(leaves)
    BY DEF PoolTypeOK
  <1>n. PICK new : new = Len(leaves) + 2
    OBVIOUS
  <1>3. Kept(outs) /\ Landed("make", {i}, i, outs, signers)
    <2>1. Landed("make", {i}, i, outs, signers)
      OBVIOUS
    <2> HIDE DEF outs
    <2> QED
      BY <1>1, <2>1, LandedKeeps, Zenon
  <1> HIDE DEF outs
  <1>4. /\ Orders \subseteq Orders'
        /\ \A o \in Orders : leaves'[o] = leaves[o]
        /\ \A o \in Orders : OrderState(o)' = OrderState(o)
    <2>1. /\ Orders \subseteq Orders'
          /\ \A o \in Orders : leaves'[o] = leaves[o]
          /\ \A o \in Orders \ {i} : OrderState(o)' = OrderState(o)
      BY <1>1, <1>3, LandedOrders
    <2> QED
      BY <2>1
  <1>5. /\ new \in DOMAIN leaves' /\ leaves'[new] = order
        /\ new \notin DOMAIN leaves /\ new \notin DOMAIN nullifiers'
        /\ \A k \in DOMAIN leaves' : k \in DOMAIN leaves \/ k = new \/ leaves'[k] = change
        /\ \A k \in DOMAIN leaves : leaves'[k] = leaves[k]
    BY <1>1, <1>2, <1>3, <1>n DEF Kept
  <1>6. Orders' = Orders \cup {new}
    BY <1>4, <1>5 DEF Orders, PlainNote
  <1>7. new \notin Orders
    BY <1>5 DEF Orders
  <1>8. \A k \in Orders : Entry(k)' = Entry(k)
    BY <1>4 DEF Entry
  <1>9. Entry(new)' = [asset |-> order.asset, amount |-> order.amount,
                       terms |-> order.data, state |-> "open"]
    BY <1>5 DEF Entry, OrderState
  <1> HIDE DEF Entry
  <1>10. Book = [k \in Orders |-> Entry(k)] /\ Book' = [k \in Orders \cup {new} |-> Entry(k)']
    BY <1>6, BookEntries
  <1>11. Entered(new, order)
    BY <1>7, <1>8, <1>9, <1>10 DEF Entered
  <1> QED
    BY <1>11

-----------------------------------------------------------------------------
(***************************************************************************)
(* Every step of the program is a step of AtomicSwap.                      *)
(***************************************************************************)

\* A note is worth its amount to its owner, an order nothing to anybody.
LEMMA CreditIs ==
  ASSUME NEW n, NEW w, NEW x
  PROVE  /\ n.data = NoData \/ n.owner # Authority =>
              Credit(n, w, x) = At(w, x, n.owner, n.asset, n.amount)
         /\ n.data # NoData /\ n.owner = Authority => Credit(n, w, x) = 0
  BY DEF Credit, At

LEMMA AtType ==
  ASSUME NEW w, NEW x, NEW v, NEW a, NEW n \in Int
  PROVE  At(w, x, v, a, n) \in Int
  BY DEF At

LEMMA NoteFields ==
  ASSUME NEW n \in Note
  PROVE  /\ n.owner \in Owner /\ n.asset \in Asset /\ n.amount \in Amount
         /\ n.amount \in Nat /\ n.amount \in Int
         /\ n.data # NoData => /\ n.data \in Payload
                               /\ n.data.maker \in Party
                               /\ n.data.destinationAsset \in Asset
                               /\ n.data.destinationAmount \in Amount
  BY BoundsAssumption, SwapAssumption DEF Note, Amount, OrderTerms

\* What one wallet pays another shows in the balances.
LEMMA PayStep ==
  ASSUME PoolTypeOK, Book' = Book, now' = now,
         NEW from \in Party, NEW to \in Owner, NEW a \in Asset, NEW n \in Amount,
         n <= Balance[from][a],
         \A w \in Owner, x \in Asset :
           Balance'[w][x] = Balance[w][x] - At(w, x, from, a, n) + At(w, x, to, a, n)
  PROVE  Atomic!AtomicNext
  <1>1. Balance \in Funds /\ Balance \in [Owner -> [Asset -> Nat]]
    BY BalanceType
  <1>2. from \in Owner /\ n \in Int /\ Balance[from][a] \in Int
    BY <1>1, BoundsAssumption DEF Owner, Amount
  <1>3. /\ Atomic!Move(Balance, from, to, a, n) \in Funds
        /\ \A w \in Owner, x \in Asset :
             Atomic!Move(Balance, from, to, a, n)[w][x] =
               Balance[w][x] - At(w, x, from, a, n) + At(w, x, to, a, n)
    BY <1>1, <1>2, MoveAt
  <1>4. Balance' = Atomic!Move(Balance, from, to, a, n)
    BY <1>3, BalanceBecomes
  <1>5. Atomic!Pay(from, to, a, n)
    BY <1>2, <1>4 DEF Atomic!Pay
  <1> QED
    BY <1>5 DEF Atomic!AtomicNext, Atomic!Owner, Owner

LEMMA TransferStep ==
  ASSUME TypeOK, SppTransfer
  PROVE  Atomic!AtomicNext
  <1>0. PoolTypeOK
    BY DEF TypeOK
  <1>1. PICK signers \in SUBSET Owner, i \in Unspent, n \in Note :
          /\ Landed("transfer", {i}, i, <<n>>, signers)
          /\ leaves[i].owner # Authority
          /\ n.data # NoData => n.owner # Authority
          /\ Sends(i, n)
    BY StepOfTransfer, Zenon
  <1> DEFINE outs == <<n>>
  <1>2. outs \in Seq(Note) /\ NoOrderIn(outs) /\ Landed("transfer", {i}, i, outs, signers)
    BY <1>1 DEF NoOrderIn
  <1>3. {i} \cap Orders = {}
    BY <1>1 DEF Orders
  <1>4. leaves[i] \in Note
    BY <1>0 DEF PoolTypeOK, Unspent
  <1>5. Book' = Book /\ now' = now
    <2> HIDE DEF outs
    <2>1. Book' = Book
      BY <1>0, <1>2, <1>3, BookKept
    <2>2. now' = now
      BY <1>2 DEF Landed
    <2> QED
      BY <2>1, <2>2
  <1> DEFINE from == leaves[i].owner
             a == n.asset
             m == n.amount
  <1>6. /\ from \in Party /\ a \in Asset /\ m \in Amount /\ n.owner \in Owner /\ m \in Int
        /\ leaves[i].asset = a /\ leaves[i].amount = m
    BY <1>1, NoteFields DEF Sends
  <1>7. ASSUME NEW w \in Owner, NEW x \in Asset
        PROVE  /\ Balance'[w][x] = Balance[w][x] - At(w, x, from, a, m) + At(w, x, n.owner, a, m)
               /\ At(w, x, from, a, m) <= Balance[w][x]
    <2>1. "transfer" \in Instruction
      BY DEF Instruction
    <2>2. /\ Balance'[w][x] = Balance[w][x] - Credit(leaves[i], w, x) + Credit(n, w, x)
          /\ Credit(leaves[i], w, x) <= Balance[w][x]
      BY <1>0, <1>1, <2>1, OneForOne, Zenon
    <2>3. Credit(leaves[i], w, x) = At(w, x, from, a, m)
      BY <1>1, <1>6, CreditIs
    <2>4. Credit(n, w, x) = At(w, x, n.owner, a, m)
      BY <1>1, CreditIs
    <2> QED
      BY <2>2, <2>3, <2>4
  <1>8. m <= Balance[from][a]
    BY <1>6, <1>7 DEF At, Owner
  <1> HIDE DEF from, a, m
  <1> QED
    BY <1>0, <1>5, <1>6, <1>7, <1>8, PayStep

LEMMA CancelStep ==
  ASSUME TypeOK, process_cancel_ix
  PROVE  Atomic!AtomicNext
  <1>0. PoolTypeOK
    BY DEF TypeOK
  <1>1. PICK signers \in SUBSET Owner, o \in Unspent, source \in Note :
          /\ Landed("cancel", {o}, o, <<source>>, signers)
          /\ PlainNote(source)
          /\ Returns(o, source)
    BY StepOfCancel, Zenon
  <1> DEFINE outs == <<source>>
  <1>2. outs \in Seq(Note) /\ NoOrderIn(outs) /\ Landed("cancel", {o}, o, outs, signers)
    BY <1>1 DEF NoOrderIn, PlainNote
  <1>3. leaves[o] \in Note /\ o \in DOMAIN leaves
    BY <1>0 DEF PoolTypeOK, Unspent
  <1>4. now' = now
    BY <1>1 DEF Landed
  <1> DEFINE terms == leaves[o].data
             maker == terms.maker
             a     == leaves[o].asset
             m     == leaves[o].amount
  <1>5. /\ terms # NoData /\ now > terms.expiry
        /\ source.owner = maker /\ source.asset = a /\ source.amount = m /\ source.data = NoData
    BY <1>1 DEF Returns, checkRefundOutputUtxo, PlainNote
  <1>6. maker \in Party /\ a \in Asset /\ m \in Amount /\ m \in Nat /\ leaves[o].owner \in Owner
    BY <1>3, <1>5, NoteFields
  <1>7. ASSUME NEW w \in Owner, NEW x \in Asset
        PROVE  /\ Balance'[w][x] = Balance[w][x] - Credit(leaves[o], w, x) + At(w, x, maker, a, m)
               /\ Credit(leaves[o], w, x) <= Balance[w][x]
    <2>1. "cancel" \in Instruction
      BY DEF Instruction
    <2>2. /\ Balance'[w][x] = Balance[w][x] - Credit(leaves[o], w, x) + Credit(source, w, x)
          /\ Credit(leaves[o], w, x) <= Balance[w][x]
      BY <1>0, <1>1, <2>1, OneForOne, Zenon
    <2>3. Credit(source, w, x) = At(w, x, maker, a, m)
      BY <1>5, CreditIs
    <2> QED
      BY <2>2, <2>3
  <1>8. CASE leaves[o].owner = Authority
    <2>1. {o} \cap Orders = {o}
      BY <1>3, <1>5, <1>8 DEF Orders
    <2>2. OrderState(o)' = "refunded"
      <3> HIDE DEF outs
      <3> QED
        BY <1>0, <1>2, LandedOrders
    <2>3. /\ o \in DOMAIN Book /\ Book[o].state = "open" /\ Book[o] = Entry(o)
          /\ Book' = [Book EXCEPT ![o].state = "refunded"]
      <3> HIDE DEF outs
      <3> QED
        BY <1>0, <1>2, <2>1, <2>2, BookClosed
    <2>4. /\ Balance \in Funds /\ Balance \in [Owner -> [Asset -> Nat]]
          /\ maker \in Owner /\ m \in Int
      BY <1>0, <1>6, BalanceType DEF Owner
    <2>5. /\ Atomic!Give(Balance, maker, a, m) \in Funds
          /\ \A w \in Owner, x \in Asset :
               Atomic!Give(Balance, maker, a, m)[w][x] = Balance[w][x] + At(w, x, maker, a, m)
      <3> HIDE DEF maker, a, m
      <3> QED
        BY <1>6, <2>4, GiveAt
    <2>6. \A w \in Owner, x \in Asset :
            Balance'[w][x] = Atomic!Give(Balance, maker, a, m)[w][x]
      <3> TAKE w \in Owner, x \in Asset
      <3>1. Credit(leaves[o], w, x) = 0
        BY <1>5, <1>8, CreditIs
      <3>2. Balance[w][x] \in Int
        BY <2>4
      <3>3. Balance'[w][x] = Balance[w][x] - Credit(leaves[o], w, x) + At(w, x, maker, a, m)
        BY <1>7
      <3>4. Atomic!Give(Balance, maker, a, m)[w][x] = Balance[w][x] + At(w, x, maker, a, m)
        BY <2>5
      <3> HIDE DEF maker, a, m
      <3> QED
        BY <3>1, <3>2, <3>3, <3>4
    <2>7. Balance' = Atomic!Give(Balance, maker, a, m)
      <3> HIDE DEF maker, a, m
      <3> QED
        BY <2>5, <2>6, BalanceBecomes
    <2>8. Book[o].terms = terms /\ Book[o].asset = a /\ Book[o].amount = m
      BY <2>3 DEF Entry
    <2> HIDE DEF terms, a, m
    <2>9. Atomic!Refund(o)
      BY <1>4, <1>5, <2>3, <2>7, <2>8 DEF Atomic!Refund, Atomic!Close
    <2> QED
      BY <2>3, <2>9 DEF Atomic!AtomicNext
  <1>9. CASE leaves[o].owner # Authority
    <2> DEFINE from == leaves[o].owner
    <2>1. from \in Party
      BY <1>6, <1>9 DEF Owner
    <2>2. {o} \cap Orders = {}
      BY <1>9 DEF Orders
    <2>3. Book' = Book
      <3> HIDE DEF outs
      <3> QED
        BY <1>0, <1>2, <2>2, BookKept
    <2>4. ASSUME NEW w \in Owner, NEW x \in Asset
          PROVE  /\ Balance'[w][x] = Balance[w][x] - At(w, x, from, a, m) + At(w, x, maker, a, m)
                 /\ At(w, x, from, a, m) <= Balance[w][x]
      <3>1. Credit(leaves[o], w, x) = At(w, x, from, a, m)
        BY <1>9, CreditIs
      <3> HIDE DEF maker, a, m, from
      <3> QED
        BY <1>7, <3>1
    <2> HIDE DEF maker, a, m, from
    <2>5. m <= Balance[from][a]
      BY <1>6, <2>1, <2>4 DEF At, Owner
    <2>6. maker \in Owner
      BY <1>6 DEF Owner
    <2> QED
      BY <1>0, <1>4, <1>6, <2>1, <2>3, <2>4, <2>5, <2>6, PayStep
  <1> QED
    BY <1>8, <1>9

\* A take fills an order, or trades a wallet's own note that commits terms.
LEMMA TradeStep ==
  ASSUME PoolTypeOK, NEW ix \in TakeRails, NEW o \in Unspent, NEW j \in Unspent,
         NEW source \in Note, NEW destination \in Note, NEW signers \in SUBSET Owner,
         Landed(ix, {o, j}, o, <<source, destination>>, signers),
         Trades(o, j, source, destination)
  PROVE  Atomic!AtomicNext
  <1> DEFINE outs == <<source, destination>>
             terms == leaves[o].data
             maker == terms.maker
             buyer == leaves[j].owner
             a     == leaves[o].asset
             m     == leaves[o].amount
             price == terms.destinationAsset
             paid  == terms.destinationAmount
  <1>1. /\ o # j /\ terms # NoData /\ 0 <= now /\ now <= terms.expiry
        /\ terms.takeMode = TakeModeVerifiable => buyer = terms.taker
        /\ leaves[j].data = NoData /\ leaves[j].asset = price /\ leaves[j].amount = paid
        /\ source.data = NoData /\ source.owner = buyer /\ source.asset = a /\ source.amount = m
        /\ destination.data = NoData /\ destination.owner = maker
        /\ destination.asset = price /\ destination.amount = paid
    BY DEF Trades, checkTakerInputUtxo, checkSourceOutputUtxo, checkDestinationOutputUtxo,
           PlainNote
  <1>2. outs \in Seq(Note) /\ NoOrderIn(outs) /\ Landed(ix, {o, j}, o, outs, signers)
    BY <1>1 DEF NoOrderIn
  <1>3. leaves[o] \in Note /\ leaves[j] \in Note /\ o \in DOMAIN leaves
    BY DEF PoolTypeOK, Unspent
  <1>4. now' = now
    BY DEF Landed
  <1>5. /\ maker \in Party /\ a \in Asset /\ m \in Amount /\ m \in Nat /\ leaves[o].owner \in Owner
        /\ buyer \in Owner /\ price \in Asset /\ paid \in Amount /\ paid \in Nat
        /\ maker \in Owner /\ m \in Int /\ paid \in Int
    <2>1. /\ leaves[o].owner \in Owner /\ a \in Asset /\ m \in Amount /\ m \in Nat
          /\ maker \in Party /\ price \in Asset
      BY <1>1, <1>3, NoteFields
    <2>2. buyer \in Owner /\ leaves[j].amount \in Amount /\ leaves[j].amount \in Nat
      BY <1>3, NoteFields
    <2> QED
      BY <1>1, <2>1, <2>2 DEF Owner
  <1>6. Balance \in Funds /\ Balance \in [Owner -> [Asset -> Nat]]
    BY BalanceType
  <1>7. ASSUME NEW w \in Owner, NEW x \in Asset
        PROVE  /\ Balance'[w][x] = Balance[w][x] - Credit(leaves[o], w, x)
                                     - At(w, x, buyer, price, paid)
                                     + At(w, x, buyer, a, m) + At(w, x, maker, price, paid)
               /\ Credit(leaves[o], w, x) + At(w, x, buyer, price, paid) <= Balance[w][x]
    <2>1. ix \in Instruction
      BY DEF Instruction, TakeRails
    <2>2. /\ Balance'[w][x] = Balance[w][x] - Credit(leaves[o], w, x) - Credit(leaves[j], w, x)
                                + Credit(source, w, x) + Credit(destination, w, x)
          /\ Credit(leaves[o], w, x) + Credit(leaves[j], w, x) <= Balance[w][x]
      BY <1>1, <2>1, TwoForTwo, Zenon
    <2>3. /\ Credit(leaves[j], w, x) = At(w, x, buyer, price, paid)
          /\ Credit(source, w, x) = At(w, x, buyer, a, m)
          /\ Credit(destination, w, x) = At(w, x, maker, price, paid)
      BY <1>1, CreditIs
    <2> QED
      BY <2>2, <2>3
  <1>8. CASE leaves[o].owner = Authority
    <2>1. {o, j} \cap Orders = {o}
      BY <1>1, <1>3, <1>8 DEF Orders
    <2> HIDE DEF outs
    <2>2. OrderState(o)' = "filled"
      <3>1. \A k \in {o, j} : ix \in TakeRails => OrderState(k)' = "filled"
        BY <1>2, LandedOrders, Zenon
      <3> QED
        BY <3>1
    <2>3. /\ o \in DOMAIN Book /\ Book[o].state = "open" /\ Book[o] = Entry(o)
          /\ Book' = [Book EXCEPT ![o].state = "filled"]
      BY <1>2, <2>1, <2>2, BookClosed
    <2>4. Book[o].terms = terms /\ Book[o].asset = a /\ Book[o].amount = m
      BY <2>3 DEF Entry
    <2>5. \A w \in Owner, x \in Asset : Credit(leaves[o], w, x) = 0
      BY <1>1, <1>8, CreditIs
    <2> DEFINE f == Atomic!Move(Balance, buyer, maker, price, paid)
               g == Atomic!Give(f, buyer, a, m)
    <2> HIDE DEF terms, maker, buyer, a, m, price, paid
    <2>6. /\ f \in Funds
          /\ \A w \in Owner, x \in Asset :
               f[w][x] = Balance[w][x] - At(w, x, buyer, price, paid) + At(w, x, maker, price, paid)
      BY <1>5, <1>6, MoveAt
    <2>7. /\ g \in Funds
          /\ \A w \in Owner, x \in Asset : g[w][x] = f[w][x] + At(w, x, buyer, a, m)
      <3> HIDE DEF f
      <3> QED
        BY <1>5, <2>6, GiveAt
    <2> HIDE DEF f, g
    <2>8. \A w \in Owner, x \in Asset : Balance'[w][x] = g[w][x]
      <3> TAKE w \in Owner, x \in Asset
      <3>1. Balance[w][x] \in Int
        BY <1>6
      <3>2. /\ At(w, x, buyer, price, paid) \in Int /\ At(w, x, maker, price, paid) \in Int
            /\ At(w, x, buyer, a, m) \in Int
        BY <1>5, AtType
      <3> QED
        BY <1>7, <2>5, <2>6, <2>7, <3>1, <3>2
    <2>9. Balance' = g
      BY <2>7, <2>8, BalanceBecomes
    <2>10. Balance[buyer][price] >= paid
      BY <1>5, <1>6, <1>7, <2>5 DEF At
    <2>11. Atomic!Fill(o, buyer)
      BY <1>1, <1>4, <2>3, <2>4, <2>9, <2>10
      DEF Atomic!Fill, Atomic!Close, f, g, maker, price, paid
    <2> QED
      BY <1>5, <2>3, <2>11 DEF Atomic!AtomicNext, Atomic!Owner, Owner
  <1>9. CASE leaves[o].owner # Authority
    <2> DEFINE from == leaves[o].owner
    <2>1. from \in Party /\ from \in Owner
      BY <1>5, <1>9 DEF Owner
    <2>2. {o, j} \cap Orders = {}
      BY <1>1, <1>9 DEF Orders
    <2> HIDE DEF outs
    <2>3. Book' = Book
      BY <1>2, <2>2, BookKept
    <2>4. \A w \in Owner, x \in Asset : Credit(leaves[o], w, x) = At(w, x, from, a, m)
      BY <1>9, CreditIs
    <2> DEFINE f == Atomic!Move(Balance, from, buyer, a, m)
               g == Atomic!Move(f, buyer, maker, price, paid)
    <2> HIDE DEF terms, maker, buyer, a, m, price, paid, from
    <2>6. /\ f \in Funds
          /\ \A w \in Owner, x \in Asset :
               f[w][x] = Balance[w][x] - At(w, x, from, a, m) + At(w, x, buyer, a, m)
      BY <1>5, <1>6, <2>1, MoveAt
    <2>7. /\ g \in Funds
          /\ \A w \in Owner, x \in Asset :
               g[w][x] = f[w][x] - At(w, x, buyer, price, paid) + At(w, x, maker, price, paid)
      <3> HIDE DEF f
      <3> QED
        BY <1>5, <2>6, MoveAt
    <2> HIDE DEF f, g
    <2>5. \A w \in Owner, x \in Asset :
            /\ At(w, x, buyer, price, paid) \in Int /\ At(w, x, maker, price, paid) \in Int
            /\ At(w, x, buyer, a, m) \in Int /\ At(w, x, from, a, m) \in Int
      BY <1>5, AtType
    <2>8. \A w \in Owner, x \in Asset : Balance'[w][x] = g[w][x]
      <3> TAKE w \in Owner, x \in Asset
      <3>1. Balance[w][x] \in Int
        BY <1>6
      <3> QED
        BY <1>7, <2>4, <2>5, <2>6, <2>7, <3>1
    <2>9. Balance' = g
      BY <2>7, <2>8, BalanceBecomes
    <2>10. Balance[buyer][price] >= paid /\ Balance[from][a] >= m
      BY <1>5, <1>6, <1>7, <2>1, <2>4 DEF At
    <2>11. Atomic!Trade(from, buyer, maker, a, m, price, paid)
      BY <1>4, <2>3, <2>9, <2>10 DEF Atomic!Trade, f, g
    <2> QED
      BY <1>5, <2>1, <2>11 DEF Atomic!AtomicNext, Atomic!Owner, Owner
  <1> QED
    BY <1>8, <1>9

\* A make places an order, or pays a wallet's change to the maker.
LEMMA MakeStep ==
  ASSUME TypeOK, OrdersMoveOnlyBySettlement', process_make_ix
  PROVE  Atomic!AtomicNext
  <1>0. PoolTypeOK
    BY DEF TypeOK
  <1>1. PICK signers \in SUBSET Owner, payer \in Party, i \in Unspent,
             change \in Note, order \in Note :
          /\ Landed("make", {i}, i, <<change, order>>, signers)
          /\ checkOrderOutputUtxo(order, order.data)
          /\ order.data \in Payload
          /\ Splits(i, change, order)
    BY StepOfMake, Zenon
  <1> DEFINE outs  == <<change, order>>
             from  == order.owner
             terms == order.data
             maker == terms.maker
             a     == order.asset
             m     == order.amount
             c     == change.amount
  <1>2. /\ terms # NoData /\ m # 0 /\ PlainNote(change)
        /\ change.data = NoData /\ change.owner = maker /\ change.asset = a
        /\ leaves[i].owner = from /\ leaves[i].asset = a /\ leaves[i].amount = c + m
    BY <1>1, DataAssumption DEF Splits, checkOrderOutputUtxo, checkChangeOutputUtxo, PlainNote
  <1>3. leaves[i] \in Note /\ i \in DOMAIN leaves
    BY <1>0 DEF PoolTypeOK, Unspent
  <1>4. now' = now
    BY <1>1 DEF Landed
  <1>5. /\ from \in Owner /\ a \in Asset /\ m \in Amount /\ m \in Nat /\ m \in Int
        /\ maker \in Party /\ maker \in Owner /\ terms \in Payload
    BY <1>2, NoteFields DEF Owner
  <1>6. c \in Amount /\ c \in Nat /\ c \in Int /\ c + m \in Int
    BY <1>5, NoteFields
  <1>7. Balance \in Funds /\ Balance \in [Owner -> [Asset -> Nat]]
    BY <1>0, BalanceType
  <1>8. i \notin Orders
    <2>1. i \in DOMAIN nullifiers' /\ nullifiers'[i].ix = "make"
      BY <1>1 DEF Landed, TheReceipt
    <2>2. leaves'[i] = leaves[i] /\ i \in DOMAIN leaves'
      <3>1. outs \in Seq(Note) /\ Landed("make", {i}, i, outs, signers)
        BY <1>1
      <3> HIDE DEF outs
      <3>2. Kept(outs)
        BY <1>0, <3>1, LandedKeeps, Zenon
      <3> QED
        BY <1>3, <3>2 DEF Kept
    <2>3. i \in Orders => SettledAsCommitted(i)' \/ RefundedAsCommitted(i)'
      BY <2>1, <2>2 DEF OrdersMoveOnlyBySettlement, Orders
    <2>4. ~ SettledAsCommitted(i)'
      BY <2>1 DEF SettledAsCommitted, Rail
    <2>5. ~ RefundedAsCommitted(i)'
      BY <2>1 DEF RefundedAsCommitted
    <2> QED
      BY <2>3, <2>4, <2>5
  <1>9. leaves[i].data = NoData \/ leaves[i].owner # Authority
    BY <1>3, <1>8 DEF Orders
  <1>10. ASSUME NEW w \in Owner, NEW x \in Asset
         PROVE  /\ Balance'[w][x] = Balance[w][x] - At(w, x, from, a, c + m)
                                      + At(w, x, maker, a, c) + Credit(order, w, x)
                /\ At(w, x, from, a, c + m) <= Balance[w][x]
    <2>1. "make" \in Instruction
      BY DEF Instruction
    <2>2. /\ Balance'[w][x] = Balance[w][x] - Credit(leaves[i], w, x)
                                + Credit(change, w, x) + Credit(order, w, x)
          /\ Credit(leaves[i], w, x) <= Balance[w][x]
      BY <1>0, <1>1, <2>1, OneForTwo, Zenon
    <2>3. Credit(leaves[i], w, x) = At(w, x, from, a, c + m)
      BY <1>2, <1>9, CreditIs
    <2>4. Credit(change, w, x) = At(w, x, maker, a, c)
      BY <1>2, CreditIs
    <2> QED
      BY <2>2, <2>3, <2>4
  <1>11. CASE from = Authority
    <2>1. PICK new : Entered(new, order)
      BY <1>0, <1>1, <1>2, <1>8, <1>11, BookPlaced
    <2>2. \A w \in Owner, x \in Asset : Credit(order, w, x) = 0
      BY <1>2, <1>11, CreditIs
    <2> HIDE DEF outs, from, terms, maker, a, m, c
    <2> DEFINE f == Atomic!Move(Balance, from, maker, a, c)
               g == Atomic!Charge(f, from, a, m)
    <2>3. /\ f \in Funds
          /\ \A w \in Owner, x \in Asset :
               f[w][x] = Balance[w][x] - At(w, x, from, a, c) + At(w, x, maker, a, c)
      BY <1>5, <1>6, <1>7, MoveAt
    <2>4. /\ g \in Funds
          /\ \A w \in Owner, x \in Asset : g[w][x] = f[w][x] - At(w, x, from, a, m)
      <3> HIDE DEF f
      <3> QED
        BY <1>5, <2>3, ChargeAt
    <2> HIDE DEF f, g
    <2>5. \A w \in Owner, x \in Asset : Balance'[w][x] = g[w][x]
      <3> TAKE w \in Owner, x \in Asset
      <3>1. Balance[w][x] \in Int
        BY <1>7
      <3>2. /\ At(w, x, maker, a, c) \in Int /\ At(w, x, from, a, c) \in Int
            /\ At(w, x, from, a, m) \in Int
            /\ At(w, x, from, a, c + m) = At(w, x, from, a, c) + At(w, x, from, a, m)
        BY <1>5, <1>6 DEF At
      <3> QED
        BY <1>10, <2>2, <2>3, <2>4, <3>1, <3>2
    <2>6. Balance' = g
      BY <2>4, <2>5, BalanceBecomes
    <2>7. Balance[from][a] >= m + c
      BY <1>5, <1>6, <1>7, <1>10 DEF At
    <2>8. Atomic!Place(from, new, a, m, c, terms)
      BY <1>2, <1>4, <2>1, <2>6, <2>7
      DEF Atomic!Place, Entered, f, g, maker, terms, a, m
    <2>9. new \in DOMAIN Book'
      BY <2>1 DEF Entered
    <2> QED
      BY <1>5, <1>6, <2>8, <2>9 DEF Atomic!AtomicNext, Atomic!Owner, Owner
  <1>12. CASE from # Authority
    <2>1. outs \in Seq(Note) /\ NoOrderIn(outs) /\ Landed("make", {i}, i, outs, signers)
      BY <1>1, <1>2, <1>12 DEF NoOrderIn
    <2>2. \A w \in Owner, x \in Asset : Credit(order, w, x) = At(w, x, from, a, m)
      BY <1>12, CreditIs
    <2>3. {i} \cap Orders = {}
      BY <1>8
    <2>4. from \in Party
      BY <1>5, <1>12 DEF Owner
    <2> HIDE DEF outs, from, terms, maker, a, m, c
    <2>5. Book' = Book
      BY <1>0, <2>1, <2>3, BookKept
    <2>6. ASSUME NEW w \in Owner, NEW x \in Asset
          PROVE  Balance'[w][x] = Balance[w][x] - At(w, x, from, a, c) + At(w, x, maker, a, c)
      <3>1. Balance[w][x] \in Int
        BY <1>7
      <3>2. /\ At(w, x, maker, a, c) \in Int /\ At(w, x, from, a, c) \in Int
            /\ At(w, x, from, a, m) \in Int
            /\ At(w, x, from, a, c + m) = At(w, x, from, a, c) + At(w, x, from, a, m)
        BY <1>5, <1>6 DEF At
      <3> QED
        BY <1>10, <2>2, <3>1, <3>2
    <2>7. c <= Balance[from][a]
      BY <1>5, <1>6, <1>7, <1>10 DEF At
    <2> QED
      BY <1>0, <1>4, <1>5, <1>6, <2>4, <2>5, <2>6, <2>7, PayStep
  <1> QED
    BY <1>11, <1>12

\* Neither the clock nor a stutter moves a note.
LEMMA NothingMoves ==
  ASSUME UNCHANGED <<leaves, nullifiers>>
  PROVE  Balance' = Balance /\ Book' = Book
  <1>1. Balance' = Balance
    BY DEF Balance, Unspent, Credit
  <1>2. Book' = Book
    BY DEF Book, Orders, OrderState
  <1> QED
    BY <1>1, <1>2

LEMMA AtomicStep ==
  TypeOK /\ [Next]_vars /\ OrdersMoveOnlyBySettlement' => [Atomic!AtomicNext]_(Atomic!swapVars)
  <1> SUFFICES ASSUME TypeOK, [Next]_vars, OrdersMoveOnlyBySettlement'
               PROVE  Atomic!AtomicNext \/ UNCHANGED Atomic!swapVars
    OBVIOUS
  <1>1. CASE process_make_ix
    BY <1>1, MakeStep
  <1>2. CASE process_take_ix
    <2>1. PICK signers \in SUBSET Owner, o \in Unspent, j \in Unspent,
               source \in Note, destination \in Note :
            /\ Landed("take", {o, j}, o, <<source, destination>>, signers)
            /\ Trades(o, j, source, destination)
      BY <1>2, StepOfTake, Zenon
    <2>2. PoolTypeOK /\ "take" \in TakeRails
      BY DEF TypeOK, TakeRails
    <2> QED
      BY <2>1, <2>2, TradeStep, Zenon
  <1>3. CASE process_take_verifiable_encryption_ix
    <2>1. PICK signers \in SUBSET Owner, o \in Unspent, j \in Unspent,
               source \in Note, destination \in Note :
            /\ Landed("take_verifiable_encryption", {o, j}, o,
                      <<source, destination>>, signers)
            /\ Trades(o, j, source, destination)
      BY <1>3, StepOfTakeVerifiable, Zenon
    <2>2. PoolTypeOK /\ "take_verifiable_encryption" \in TakeRails
      BY DEF TypeOK, TakeRails
    <2> QED
      BY <2>1, <2>2, TradeStep, Zenon
  <1>4. CASE process_cancel_ix
    BY <1>4, CancelStep
  <1>5. CASE SppTransfer
    BY <1>5, TransferStep
  <1>6. CASE Clock
    <2>1. UNCHANGED <<leaves, nullifiers>> /\ now' = now + 1 /\ now \in Int
      BY <1>6 DEF Clock, Tick, TypeOK, PoolTypeOK
    <2>2. Balance' = Balance /\ Book' = Book /\ now' > now
      BY <2>1, NothingMoves
    <2>3. Atomic!Advance
      BY <2>2 DEF Atomic!Advance
    <2> QED
      BY <2>3 DEF Atomic!AtomicNext
  <1>7. CASE UNCHANGED vars
    <2>1. UNCHANGED <<leaves, nullifiers, now>>
      BY <1>7 DEF vars
    <2>2. Balance' = Balance /\ Book' = Book
      BY <2>1, NothingMoves
    <2> QED
      BY <2>1, <2>2 DEF Atomic!swapVars
  <1> QED
    BY <1>1, <1>2, <1>3, <1>4, <1>5, <1>6, <1>7 DEF Next, process_instruction

LEMMA AtomicStart == Init => Atomic!AtomicInit
  <1> SUFFICES ASSUME Init
               PROVE  Atomic!AtomicInit
    OBVIOUS
  <1>1. PoolTypeOK
    BY PoolInitType DEF Init
  <1>2. Balance \in [Owner -> [Asset -> Nat]] /\ now \in Int
    BY <1>1, BalanceType DEF PoolTypeOK
  <1>3. Orders = {}
    BY PoolAssumption DEF Init, PoolInit, Orders
  <1>4. Book = [i \in {} |-> {}]
    BY <1>3 DEF Book
  <1> QED
    BY <1>2, <1>4 DEF Atomic!AtomicInit, Atomic!Owner, Owner

(***************************************************************************)
(* The program implements AtomicSwap as long as makes spend plain notes:   *)
(* no sequence of instructions and transfers moves a balance or an order   *)
(* except by placing an order, filling it at its price inside its window,  *)
(* refunding it after, or by a payment its sender signed.                  *)
(***************************************************************************)
THEOREM SwapsAreAtomic ==
  ASSUME OrdersFundMakes = FALSE
  PROVE  Spec => ImplementsAtomicSwap
  <1>1. Spec => []OrdersMoveOnlyBySettlement
    BY OrdersMoveBySettlement
  <1> QED
    BY <1>1, TypeCorrect, AtomicStart, AtomicStep, PTL
    DEF Spec, ImplementsAtomicSwap, Atomic!AtomicSpec
=============================================================================
