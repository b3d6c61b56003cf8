-------------------------- MODULE SwapClientProofs --------------------------
(***************************************************************************)
(* Proofs about SwapClient: clients that build with the SDK, a prover and  *)
(* a program that only verifies proofs implement SwapProgram, they keep    *)
(* the orders' promise without the assumption the program needs, a maker's *)
(* SDK rebuilds every payout, and what a client submits is accepted for as *)
(* long as it is live.                                                     *)
(*                                                                         *)
(* The inductive invariant describes what may be in flight.  A transaction *)
(* was built from leaves, which never change; what it was not built to     *)
(* know, that the selected note holds the price exactly, it learns when it *)
(* lands, from the hash its proof is verified against.                     *)
(***************************************************************************)
EXTENDS SwapClient, SwapProofs

\* The proof that is returned for this circuit and public input.
ProofOf(circuit, public) ==
  [circuit |-> circuit, commitment |-> circuit \in Committed, public |-> public]

\* tx locks amount of the PDA's plain leaf i into an order with these terms.
MakesOrder(tx, i, terms, amount) ==
  /\ PlainNote(leaves[i])
  /\ leaves[i].owner = Authority
  /\ amount <= leaves[i].amount
  /\ CheckTerms(terms)
  /\ tx.ix = "make"
  /\ tx.ins = <<i>>
  /\ tx.outs = <<OutputUtxo(terms.maker, leaves[i].asset, leaves[i].amount - amount,
                            NoData, Chosen(terms.maker)),
                 OutputUtxo(Authority, leaves[i].asset, amount, terms, Chosen(terms.maker))>>
  /\ tx.payer = terms.maker
  /\ tx.maker = terms.maker
  /\ tx.expiry = MaxExpiry
  /\ tx.messages = <<EmptyData>>
  /\ tx.external = OrderMarker(tx.outs[2], tx.payer)
  /\ tx.proof = ProofOf("make", <<PrivateTxHash(<<leaves[i]>>, tx.outs)>>)

\* The note at leaf o is an order and opens to terms.
OrderAt(o) ==
  /\ leaves[o].owner = Authority
  /\ leaves[o].data \in Payload
  /\ leaves[o].ring = DefaultRing
  /\ leaves[o].amount # 0

\* What the proof of a take is about: the order and a note of the price with the
\* blinding of leaf j.
ProvedHash(tx, o, j) ==
  PrivateTxHash(<<output_utxo(Opened(o)), taker_in(j, Opened(o))>>, tx.outs)

\* tx spends the order at leaf o and pays with leaf j.
TakesOrder(tx, o, j) ==
  LET terms == leaves[o].data
  IN  /\ OrderAt(o)
      /\ CheckTerms(terms)
      /\ tx.payer \in Party
      /\ leaves[j].owner = tx.payer
      /\ leaves[j].asset = terms.destinationAsset
      /\ tx.ins = <<o, j>>
      /\ tx.maker = tx.payer
      /\ tx.expiry = terms.expiry
      /\ tx.proof.public[1] = ProvedHash(tx, o, j)

TakesDerived(tx, o, j) ==
  LET terms == leaves[o].data
  IN  /\ TakesOrder(tx, o, j)
      /\ terms.takeMode = TakeModeDerived
      /\ tx.ix = "take"
      /\ tx.outs = <<OutputUtxo(tx.payer, leaves[o].asset, leaves[o].amount, NoData,
                                Derived(o, o, 0)),
                     OutputUtxo(terms.maker, terms.destinationAsset, terms.destinationAmount,
                                NoData, Derived(o, o, 1))>>
      /\ tx.proof = ProofOf("take", <<ProvedHash(tx, o, j), terms.expiry, o>>)

Sealed(n, o) == [n EXCEPT !.ciphertext = [key |-> o, opens |-> n.blinding]]

TakesVerifiable(tx, o, j) ==
  LET terms == leaves[o].data
  IN  /\ TakesOrder(tx, o, j)
      /\ terms.takeMode = TakeModeVerifiable
      /\ tx.payer = terms.taker
      /\ tx.ix = "take_verifiable_encryption"
      /\ tx.outs = <<OutputUtxo(tx.payer, leaves[o].asset, leaves[o].amount, NoData,
                                Chosen(tx.payer)),
                     Sealed(OutputUtxo(terms.maker, terms.destinationAsset,
                                       terms.destinationAmount, NoData, Chosen(tx.payer)), o)>>
      /\ tx.proof = ProofOf("take_verifiable_encryption",
                            <<ProvedHash(tx, o, j), terms.expiry, tx.outs[2].ciphertext>>)

\* tx refunds the order at leaf o.
CancelsOrder(tx, o) ==
  LET terms == leaves[o].data
  IN  /\ OrderAt(o)
      /\ tx.ix = "cancel"
      /\ tx.ins = <<o>>
      /\ tx.outs = <<OutputUtxo(terms.maker, leaves[o].asset, leaves[o].amount, NoData,
                                Chosen(terms.maker))>>
      /\ tx.payer \in Party
      /\ tx.maker = terms.maker
      /\ tx.expiry \in Expiry
      /\ tx.order_expiry = terms.expiry
      /\ tx.proof = ProofOf("cancel", <<PrivateTxHash(<<output_utxo(Opened(o))>>, tx.outs),
                                        terms.expiry, terms.maker>>)

BuiltFromLeaves(tx) ==
  \/ \E i \in DOMAIN leaves, terms \in Payload, amount \in Amount \ {0} :
       MakesOrder(tx, i, terms, amount)
  \/ \E o \in DOMAIN leaves, j \in DOMAIN leaves : TakesDerived(tx, o, j)
  \/ \E o \in DOMAIN leaves, j \in DOMAIN leaves : TakesVerifiable(tx, o, j)
  \/ \E o \in DOMAIN leaves : CancelsOrder(tx, o)

AllBuiltFromLeaves == \A tx \in flight : BuiltFromLeaves(tx)

\* No landed make spent a note that carries data.
MakesSpendPlainNotes ==
  \A i \in DOMAIN nullifiers : nullifiers[i].ix = "make" => leaves[i].data = NoData

\* The inductive invariant.
ClientInv ==
  /\ SwapInv
  /\ AllBuiltFromLeaves
  /\ MakesSpendPlainNotes

-----------------------------------------------------------------------------
\* A proof exists only for a witness that satisfies the circuit, and names its
\* public input.
LEMMA ProofsAreSound ==
  ASSUME NEW circuit, NEW satisfied, NEW public, NEW proof \in Prove(circuit, satisfied, public)
  PROVE  satisfied /\ proof = ProofOf(circuit, public)
  BY DEF Prove, ProofOf

\* Leaves that stay as they are keep what is in flight built from them.
LEMMA BuiltKept ==
  ASSUME DOMAIN leaves \subseteq DOMAIN leaves',
         \A k \in DOMAIN leaves : leaves'[k] = leaves[k],
         NEW tx, BuiltFromLeaves(tx)
  PROVE  BuiltFromLeaves(tx)'
  <1>1. CASE \E i \in DOMAIN leaves, terms \in Payload, amount \in Amount \ {0} :
               MakesOrder(tx, i, terms, amount)
    <2>1. PICK i \in DOMAIN leaves, terms \in Payload, amount \in Amount \ {0} :
            MakesOrder(tx, i, terms, amount)
      BY <1>1
    <2>2. leaves'[i] = leaves[i] /\ i \in DOMAIN leaves'
      OBVIOUS
    <2>3. MakesOrder(tx, i, terms, amount)'
      BY <2>1, <2>2 DEF MakesOrder, PlainNote
    <2> QED
      BY <2>2, <2>3 DEF BuiltFromLeaves
  <1>2. ASSUME NEW o \in DOMAIN leaves, NEW j \in DOMAIN leaves, TakesOrder(tx, o, j)
        PROVE  TakesOrder(tx, o, j)' /\ ProvedHash(tx, o, j)' = ProvedHash(tx, o, j)
    <2>1. leaves'[o] = leaves[o] /\ leaves'[j] = leaves[j]
      OBVIOUS
    <2>2. Opened(o)' = Opened(o)
      BY <2>1 DEF Opened
    <2>3. taker_in(j, Opened(o))' = taker_in(j, Opened(o))
      BY <2>1, <2>2 DEF taker_in, destination_output, OutputUtxo
    <2>4. ProvedHash(tx, o, j)' = ProvedHash(tx, o, j)
      BY <2>2, <2>3 DEF ProvedHash
    <2> QED
      BY <1>2, <2>1, <2>4 DEF TakesOrder, OrderAt
  <1>3. CASE \E o \in DOMAIN leaves, j \in DOMAIN leaves : TakesDerived(tx, o, j)
    <2>1. PICK o \in DOMAIN leaves, j \in DOMAIN leaves : TakesDerived(tx, o, j)
      BY <1>3
    <2>2. leaves'[o] = leaves[o] /\ {o, j} \subseteq DOMAIN leaves'
      OBVIOUS
    <2>3. TakesOrder(tx, o, j)' /\ ProvedHash(tx, o, j)' = ProvedHash(tx, o, j)
      BY <1>2, <2>1 DEF TakesDerived
    <2>4. TakesDerived(tx, o, j)'
      BY <2>1, <2>2, <2>3 DEF TakesDerived
    <2> QED
      BY <2>2, <2>4 DEF BuiltFromLeaves
  <1>4. CASE \E o \in DOMAIN leaves, j \in DOMAIN leaves : TakesVerifiable(tx, o, j)
    <2>1. PICK o \in DOMAIN leaves, j \in DOMAIN leaves : TakesVerifiable(tx, o, j)
      BY <1>4
    <2>2. leaves'[o] = leaves[o] /\ {o, j} \subseteq DOMAIN leaves'
      OBVIOUS
    <2>3. TakesOrder(tx, o, j)' /\ ProvedHash(tx, o, j)' = ProvedHash(tx, o, j)
      BY <1>2, <2>1 DEF TakesVerifiable
    <2>4. TakesVerifiable(tx, o, j)'
      BY <2>1, <2>2, <2>3 DEF TakesVerifiable
    <2> QED
      BY <2>2, <2>4 DEF BuiltFromLeaves
  <1>5. CASE \E o \in DOMAIN leaves : CancelsOrder(tx, o)
    <2>1. PICK o \in DOMAIN leaves : CancelsOrder(tx, o)
      BY <1>5
    <2>2. leaves'[o] = leaves[o] /\ o \in DOMAIN leaves'
      OBVIOUS
    <2>3. CancelsOrder(tx, o)'
      BY <2>1, <2>2 DEF CancelsOrder, OrderAt, Opened
    <2> QED
      BY <2>2, <2>3 DEF BuiltFromLeaves
  <1> QED
    BY <1>1, <1>3, <1>4, <1>5 DEF BuiltFromLeaves

-----------------------------------------------------------------------------
(***************************************************************************)
(* What the clients put into flight.                                       *)
(***************************************************************************)
\* A make is built from the leaf it spends.
LEMMA SubmitMakeBuilds ==
  ASSUME PoolTypeOK, NEW i \in Unspent, NEW terms \in Payload, NEW amount \in Amount,
         SubmitMake(i, terms, amount)
  PROVE  /\ UNCHANGED vars
         /\ \A tx \in flight' \ flight : BuiltFromLeaves(tx)
  <1> DEFINE maker  == terms.maker
             order  == OrderUtxo(0, terms, leaves[i].asset, amount, Chosen(maker))
             change == OutputUtxo(maker, leaves[i].asset, leaves[i].amount - amount,
                                  NoData, Chosen(maker))
  <1>1. PICK proof \in prove_make(order, change, leaves[i]) :
          Submit(Make(i, change, output_utxo(order), maker, MaxExpiry, proof))
    BY DEF SubmitMake
  <1>2. /\ CheckTerms(order.terms) /\ checkOrderOutputUtxo(output_utxo(order), order.terms)
        /\ proof = ProofOf("make", <<PrivateTxHash(<<leaves[i]>>, <<change, output_utxo(order)>>)>>)
    BY ProofsAreSound DEF prove_make
  <1>3. CheckTerms(terms) /\ amount # 0
    BY <1>2 DEF checkOrderOutputUtxo, output_utxo, OutputUtxo, OrderUtxo
  <1>4. output_utxo(order)
          = OutputUtxo(Authority, leaves[i].asset, amount, terms, Chosen(maker))
    BY DEF output_utxo, OrderUtxo
  <1>5. /\ i \in DOMAIN leaves /\ PlainNote(leaves[i]) /\ amount <= leaves[i].amount
        /\ leaves[i].owner = Authority
    BY DEF SubmitMake, Unspent
  <1> DEFINE tx == Make(i, change, output_utxo(order), maker, MaxExpiry, proof)
  <1>6. MakesOrder(tx, i, terms, amount)
    BY <1>2, <1>3, <1>4, <1>5 DEF MakesOrder, Make, Transaction
  <1>7. UNCHANGED vars /\ flight' = flight \cup {tx}
    BY <1>1 DEF Submit
  <1> HIDE DEF tx
  <1> QED
    BY <1>3, <1>5, <1>6, <1>7 DEF BuiltFromLeaves

\* A discovered order is a note of the PDA in the default ring whose data is
\* terms.
LEMMA DiscoveredOpens ==
  ASSUME PoolTypeOK, NEW o \in Discovered
  PROVE  /\ o \in DOMAIN leaves
         /\ leaves[o].data \in Payload
         /\ leaves[o].ring = DefaultRing
         /\ leaves[o].owner = Authority
         /\ Opened(o).terms = leaves[o].data /\ Opened(o).leaf = o
         /\ Opened(o).source_mint = leaves[o].asset
         /\ Opened(o).source_amount = leaves[o].amount
  <1>1. /\ o \in DOMAIN leaves /\ leaves[o].data # NoData
        /\ output_utxo(Opened(o)) = UtxoHash(leaves[o])
    BY DEF Discovered
  <1>2. leaves[o] \in Note
    BY <1>1 DEF PoolTypeOK
  <1>3. leaves[o].data \in Payload
    BY <1>1, <1>2 DEF Note
  <1>4. UtxoHash(leaves[o]).ring = leaves[o].ring /\ UtxoHash(leaves[o]).owner = leaves[o].owner
    BY <1>2 DEF UtxoHash, Note
  <1>5. output_utxo(Opened(o)).ring = DefaultRing /\ output_utxo(Opened(o)).owner = Authority
    BY DEF output_utxo, OutputUtxo
  <1> QED
    BY <1>1, <1>3, <1>4, <1>5 DEF Opened, OrderUtxo

\* The amount of an order that a circuit opened is not zero.
LEMMA OpenedAmount ==
  ASSUME NEW o, NEW terms, checkOrderInputUtxo(output_utxo(Opened(o)), terms)
  PROVE  leaves[o].amount # 0
  BY DEF checkOrderInputUtxo, output_utxo, OutputUtxo, Opened, OrderUtxo

\* What a proof of the derived rail says of the notes that are spent.
LEMMA TakeProof ==
  ASSUME NEW order, NEW paid, NEW source, NEW destination,
         NEW proof \in prove_take(order, paid, source, destination)
  PROVE  /\ TakeInputs(order.terms, output_utxo(order), paid, order.terms.expiry)
         /\ proof = ProofOf("take",
              <<PrivateTxHash(<<output_utxo(order), paid>>, <<source, destination>>),
                order.terms.expiry, order.leaf>>)
  BY ProofsAreSound DEF prove_take

\* The same for the verifiable rail.
LEMMA TakeVerifiableProof ==
  ASSUME NEW order, NEW paid, NEW source, NEW destination,
         NEW proof \in prove_take_verifiable_encryption(order, paid, source, destination)
  PROVE  /\ TakeVerifiableInputs(order.terms, output_utxo(order), paid, order.terms.expiry)
         /\ proof = ProofOf("take_verifiable_encryption",
              <<PrivateTxHash(<<output_utxo(order), paid>>, <<source, destination>>),
                order.terms.expiry, destination_ciphertext(order, destination)>>)
  <1>1. [destination EXCEPT !.ciphertext = destination_ciphertext(order, destination)].ciphertext
          = destination_ciphertext(order, destination)
    BY DEF destination_ciphertext
  <1> QED
    BY <1>1, ProofsAreSound DEF prove_take_verifiable_encryption

\* The hash of a transaction leaves out what is published next to an output.
LEMMA SameHash ==
  ASSUME NEW ins, NEW m, NEW n, NEW l, UtxoHash(m) = UtxoHash(n)
  PROVE  PrivateTxHash(ins, <<l, m>>) = PrivateTxHash(ins, <<l, n>>)
  <1>1. \A x : DOMAIN <<l, x>> = {1, 2} /\ <<l, x>>[1] = l /\ <<l, x>>[2] = x
    OBVIOUS
  <1> DEFINE H(x) == [k \in DOMAIN <<l, x>> |-> UtxoHash(<<l, x>>[k])]
  <1>2. H(m) = H(n)
    BY <1>1
  <1> QED
    BY <1>2 DEF PrivateTxHash

\* A take is built from a discovered order and a note of the taker.
LEMMA SubmitTakeBuilds ==
  ASSUME PoolTypeOK, NEW p \in Party, NEW o \in Discovered, NEW j \in Unspent,
         SubmitTake(p, o, j)
  PROVE  /\ UNCHANGED vars
         /\ \A tx \in flight' \ flight : BuiltFromLeaves(tx)
  <1> DEFINE order       == Opened(o)
             terms       == leaves[o].data
             source      == source_output(order, p, Derived(o, o, 0))
             destination == destination_output(order, order.terms.maker, Derived(o, o, 1))
             paid        == taker_in(j, order)
  <1>1. PICK proof \in prove_take(order, paid, source, destination) :
          Submit(Take(o, j, source, destination, p, order.terms.expiry, proof))
    BY DEF SubmitTake
  <1>2. /\ TakeInputs(order.terms, output_utxo(order), paid, order.terms.expiry)
        /\ proof = ProofOf("take",
             <<PrivateTxHash(<<output_utxo(order), paid>>, <<source, destination>>),
               order.terms.expiry, order.leaf>>)
    <2>1. proof \in prove_take(order, paid, source, destination)
      OBVIOUS
    <2> HIDE DEF order, source, destination, paid
    <2> QED
      BY <2>1, TakeProof
  <1>3. /\ o \in DOMAIN leaves /\ terms \in Payload /\ leaves[o].ring = DefaultRing
        /\ order.terms = terms /\ order.leaf = o /\ leaves[o].owner = Authority
        /\ order.source_mint = leaves[o].asset /\ order.source_amount = leaves[o].amount
    BY DiscoveredOpens
  <1>4. j \in DOMAIN leaves /\ leaves[j].owner = p /\ leaves[j].asset = terms.destinationAsset
    BY <1>3 DEF SubmitTake, Selected, Unspent
  <1>5. CheckTerms(terms) /\ terms.takeMode = TakeModeDerived /\ leaves[o].amount # 0
    BY <1>2, <1>3, OpenedAmount DEF TakeInputs, CoreInputs
  <1> DEFINE tx == Take(o, j, source, destination, p, order.terms.expiry, proof)
  <1>6. /\ tx.ix = "take" /\ tx.ins = <<o, j>> /\ tx.outs = <<source, destination>>
        /\ tx.payer = p /\ tx.maker = p /\ tx.expiry = terms.expiry /\ tx.proof = proof
    BY <1>3 DEF Take, Transaction
  <1> HIDE DEF tx
  <1>7. /\ source = OutputUtxo(p, leaves[o].asset, leaves[o].amount, NoData, Derived(o, o, 0))
        /\ destination = OutputUtxo(terms.maker, terms.destinationAsset,
                                    terms.destinationAmount, NoData, Derived(o, o, 1))
    BY <1>3 DEF source_output, destination_output
  <1> HIDE DEF source, destination
  <1>8. tx.proof = ProofOf("take", <<ProvedHash(tx, o, j), terms.expiry, o>>)
    BY <1>2, <1>3, <1>6 DEF ProvedHash
  <1>9. TakesDerived(tx, o, j)
    <2>1. TakesOrder(tx, o, j)
      BY <1>3, <1>4, <1>5, <1>6, <1>8 DEF TakesOrder, OrderAt, ProofOf
    <2> QED
      BY <1>5, <1>6, <1>7, <1>8, <2>1 DEF TakesDerived
  <1>10. UNCHANGED vars /\ flight' = flight \cup {tx}
    BY <1>1 DEF Submit, tx, source, destination
  <1> QED
    BY <1>3, <1>4, <1>9, <1>10 DEF BuiltFromLeaves

\* On the verifiable rail the taker is the designated one.
LEMMA SubmitTakeVerifiableBuilds ==
  ASSUME PoolTypeOK, NEW p \in Party, NEW o \in Discovered, NEW j \in Unspent,
         SubmitTakeVerifiableEncryption(p, o, j)
  PROVE  /\ UNCHANGED vars
         /\ \A tx \in flight' \ flight : BuiltFromLeaves(tx)
  <1> DEFINE order       == Opened(o)
             terms       == leaves[o].data
             source      == source_output(order, p, Chosen(p))
             destination == destination_output(order, order.terms.maker, Chosen(p))
             sealed      == [destination EXCEPT !.ciphertext =
                               destination_ciphertext(order, destination)]
             paid        == taker_in(j, order)
  <1>1. PICK proof \in prove_take_verifiable_encryption(order, paid, source, destination) :
          Submit(TakeVerifiableEncryption(o, j, source, sealed, p, order.terms.expiry, proof))
    BY DEF SubmitTakeVerifiableEncryption
  <1>2. /\ TakeVerifiableInputs(order.terms, output_utxo(order), paid, order.terms.expiry)
        /\ proof = ProofOf("take_verifiable_encryption",
             <<PrivateTxHash(<<output_utxo(order), paid>>, <<source, destination>>),
               order.terms.expiry, destination_ciphertext(order, destination)>>)
    <2>1. proof \in prove_take_verifiable_encryption(order, paid, source, destination)
      OBVIOUS
    <2> HIDE DEF order, source, destination, paid
    <2> QED
      BY <2>1, TakeVerifiableProof
  <1>3. /\ o \in DOMAIN leaves /\ terms \in Payload /\ leaves[o].ring = DefaultRing
        /\ order.terms = terms /\ order.leaf = o /\ leaves[o].owner = Authority
        /\ order.source_mint = leaves[o].asset /\ order.source_amount = leaves[o].amount
    BY DiscoveredOpens
  <1>4. j \in DOMAIN leaves /\ leaves[j].owner = p /\ leaves[j].asset = terms.destinationAsset
    BY <1>3 DEF SubmitTakeVerifiableEncryption, Selected, Unspent
  <1>5. /\ CheckTerms(terms) /\ terms.takeMode = TakeModeVerifiable /\ leaves[o].amount # 0
        /\ paid.owner = terms.taker
    BY <1>2, <1>3, OpenedAmount DEF TakeVerifiableInputs, CoreInputs
  <1>6. p = terms.taker
    BY <1>4, <1>5 DEF taker_in, destination_output, OutputUtxo
  <1> DEFINE tx == TakeVerifiableEncryption(o, j, source, sealed, p, order.terms.expiry, proof)
  <1>7. /\ tx.ix = "take_verifiable_encryption" /\ tx.ins = <<o, j>>
        /\ tx.outs = <<source, sealed>> /\ tx.outs[2] = sealed
        /\ tx.payer = p /\ tx.maker = p /\ tx.expiry = terms.expiry /\ tx.proof = proof
    BY <1>3 DEF TakeVerifiableEncryption, Transaction
  <1> HIDE DEF tx
  <1>8. /\ source = OutputUtxo(p, leaves[o].asset, leaves[o].amount, NoData, Chosen(p))
        /\ destination = OutputUtxo(terms.maker, terms.destinationAsset,
                                    terms.destinationAmount, NoData, Chosen(p))
    BY <1>3 DEF source_output, destination_output
  <1>9. /\ sealed = Sealed(destination, o)
        /\ sealed.ciphertext = destination_ciphertext(order, destination)
    BY <1>3, <1>8 DEF Sealed, destination_ciphertext, OutputUtxo
  <1>10. PrivateTxHash(<<output_utxo(order), paid>>, <<source, destination>>)
           = PrivateTxHash(<<output_utxo(order), paid>>, <<source, sealed>>)
    <2>1. UtxoHash(sealed) = UtxoHash(destination)
      BY <1>8, <1>9 DEF Sealed, UtxoHash, OutputUtxo
    <2> HIDE DEF source, destination, sealed, paid
    <2> QED
      BY <2>1, SameHash
  <1> HIDE DEF source, destination, sealed
  <1>11. tx.proof = ProofOf("take_verifiable_encryption",
                            <<ProvedHash(tx, o, j), terms.expiry, tx.outs[2].ciphertext>>)
    BY <1>2, <1>3, <1>7, <1>9, <1>10 DEF ProvedHash
  <1>12. TakesVerifiable(tx, o, j)
    <2>1. TakesOrder(tx, o, j)
      BY <1>3, <1>4, <1>5, <1>7, <1>11 DEF TakesOrder, OrderAt, ProofOf
    <2> QED
      BY <1>5, <1>6, <1>7, <1>8, <1>9, <1>11, <2>1 DEF TakesVerifiable
  <1>13. UNCHANGED vars /\ flight' = flight \cup {tx}
    BY <1>1 DEF Submit, tx, sealed, source, destination
  <1> QED
    BY <1>3, <1>4, <1>12, <1>13 DEF BuiltFromLeaves

\* A cancel is built from the order it refunds.
LEMMA SubmitCancelBuilds ==
  ASSUME PoolTypeOK, NEW payer \in Party, NEW o \in Discovered, NEW deadline \in Expiry,
         SubmitCancel(payer, o, deadline)
  PROVE  /\ UNCHANGED vars
         /\ \A tx \in flight' \ flight : BuiltFromLeaves(tx)
  <1> DEFINE order  == Opened(o)
             terms  == leaves[o].data
             maker  == order.terms.maker
             source == source_output(order, maker, Chosen(maker))
  <1>1. PICK proof \in prove_cancel(order, source) :
          Submit(Cancel(o, source, payer, maker, order.terms.expiry, deadline, proof))
    BY DEF SubmitCancel
  <1>2. /\ CancelInputs(order.terms, output_utxo(order), order.terms.expiry, source.owner)
        /\ proof = ProofOf("cancel", <<PrivateTxHash(<<output_utxo(order)>>, <<source>>),
                                       order.terms.expiry, source.owner>>)
    BY ProofsAreSound DEF prove_cancel
  <1>3. /\ o \in DOMAIN leaves /\ terms \in Payload /\ leaves[o].ring = DefaultRing
        /\ order.terms = terms /\ leaves[o].owner = Authority
        /\ order.source_mint = leaves[o].asset /\ order.source_amount = leaves[o].amount
    BY DiscoveredOpens
  <1>4. leaves[o].amount # 0
    BY <1>2, OpenedAmount DEF CancelInputs
  <1> DEFINE tx == Cancel(o, source, payer, maker, order.terms.expiry, deadline, proof)
  <1>5. /\ tx.ix = "cancel" /\ tx.ins = <<o>> /\ tx.outs = <<source>> /\ tx.payer = payer
        /\ tx.maker = maker /\ tx.expiry = deadline /\ tx.order_expiry = terms.expiry
        /\ tx.proof = proof
    BY <1>3 DEF Cancel, Transaction
  <1> HIDE DEF tx
  <1>6. /\ source = OutputUtxo(maker, leaves[o].asset, leaves[o].amount, NoData, Chosen(maker))
        /\ source.owner = maker /\ maker = terms.maker
    BY <1>3 DEF source_output, OutputUtxo
  <1> HIDE DEF source, maker
  <1>7. CancelsOrder(tx, o)
    BY <1>2, <1>3, <1>4, <1>5, <1>6 DEF CancelsOrder, OrderAt
  <1>8. UNCHANGED vars /\ flight' = flight \cup {tx}
    BY <1>1 DEF Submit, tx, source, maker
  <1> QED
    BY <1>3, <1>7, <1>8 DEF BuiltFromLeaves

-----------------------------------------------------------------------------
\* The hash of a transaction with two inputs fixes the second.
LEMMA HashFixesSecondInput ==
  ASSUME NEW a, NEW b, NEW outs, NEW others, NEW ins, DOMAIN ins = {1, 2},
         PrivateTxHash(<<a, b>>, outs) = PrivateTxHash(ins, others)
  PROVE  UtxoHash(ins[2]) = UtxoHash(b)
  <1>1. PrivateTxHash(<<a, b>>, outs)[1][2] = UtxoHash(b)
    BY DEF PrivateTxHash
  <1>2. PrivateTxHash(ins, others)[1][2] = UtxoHash(ins[2])
    BY DEF PrivateTxHash
  <1> QED
    BY <1>1, <1>2

(***************************************************************************)
(* A take whose proof verifies pays with a plain note of exactly the price *)
(* even though neither the client nor the SDK compared them: the proof is  *)
(* about a note of the price, and the program hashes the note that is      *)
(* spent.                                                                  *)
(***************************************************************************)
LEMMA VerifiedTakePays ==
  ASSUME PoolTypeOK, NEW tx, NEW o \in DOMAIN leaves, NEW j \in DOMAIN leaves,
         TakesOrder(tx, o, j), tx.proof.public[1] = HashOf(tx)
  PROVE  checkTakerInputUtxo(leaves[j], leaves[o].data)
  <1> DEFINE paid  == taker_in(j, Opened(o))
             spent == [k \in DOMAIN tx.ins |-> leaves[tx.ins[k]]]
  <1>1. tx.proof.public[1] = PrivateTxHash(<<output_utxo(Opened(o)), paid>>, tx.outs)
    BY DEF TakesOrder, ProvedHash
  <1>2. tx.ins = <<o, j>>
    BY DEF TakesOrder
  <1>3. DOMAIN spent = {1, 2} /\ spent[2] = leaves[j]
    BY <1>2
  <1>4. UtxoHash(leaves[j]) = UtxoHash(paid)
    <2>1. PrivateTxHash(<<output_utxo(Opened(o)), paid>>, tx.outs) = PrivateTxHash(spent, tx.outs)
      BY <1>1 DEF HashOf
    <2> HIDE DEF spent, paid
    <2> QED
      BY <1>3, <2>1, HashFixesSecondInput
  <1>5. leaves[j] \in Note
    BY DEF PoolTypeOK
  <1>6. /\ UtxoHash(leaves[j]).data = leaves[j].data /\ UtxoHash(leaves[j]).ring = leaves[j].ring
        /\ UtxoHash(leaves[j]).asset = leaves[j].asset
        /\ UtxoHash(leaves[j]).amount = leaves[j].amount
    BY <1>5 DEF UtxoHash, Note
  <1>7. /\ UtxoHash(paid).data = NoData /\ UtxoHash(paid).ring = DefaultRing
        /\ UtxoHash(paid).asset = leaves[o].data.destinationAsset
        /\ UtxoHash(paid).amount = leaves[o].data.destinationAmount
    BY DEF UtxoHash, taker_in, destination_output, OutputUtxo, Opened, OrderUtxo
  <1> QED
    BY <1>4, <1>6, <1>7 DEF checkTakerInputUtxo, PlainNote

(***************************************************************************)
(* A make that was built from a leaf lands as a step of the program, and   *)
(* the note it spends is plain.                                            *)
(***************************************************************************)
LEMMA MakeLandsAsProgram ==
  ASSUME PoolTypeOK,
         NEW tx, MakeLands(tx), BuiltFromLeaves(tx)
  PROVE  /\ process_make_ix
         /\ \E i \in Unspent, signers \in SignerSets :
              /\ Landed("make", {i}, i, tx.outs, signers \cup {Authority})
              /\ leaves[i].data = NoData
  <1>1. /\ tx.ix = "make" /\ Cardinality(markers) < MaxMakes /\ cpi(tx)
        /\ markers' = markers \cup {MarkerData(Len(leaves) + 1, tx.payer)}
    BY DEF MakeLands, MakeChecks
  <1>2. PICK i \in DOMAIN leaves, terms \in Payload, amount \in Amount \ {0} :
          MakesOrder(tx, i, terms, amount)
    BY <1>1 DEF BuiltFromLeaves, TakesDerived, TakesVerifiable, CancelsOrder
  <1> DEFINE maker   == terms.maker
             order   == OutputUtxo(Authority, leaves[i].asset, amount, terms, Chosen(maker))
             change  == OutputUtxo(maker, leaves[i].asset, leaves[i].amount - amount,
                                   NoData, Chosen(maker))
             signers == {maker}
  <1>3. /\ PlainNote(leaves[i]) /\ amount <= leaves[i].amount /\ CheckTerms(terms)
        /\ tx.ins = <<i>> /\ tx.outs = <<change, order>>
        /\ tx.payer = maker /\ tx.maker = maker /\ tx.expiry = MaxExpiry
    BY <1>2 DEF MakesOrder
  <1>4. cpi_spp_transact_signed("make", <<i>>, <<change, order>>, signers, MaxExpiry)
    <2>1. Signers(tx) = signers
      BY <1>3 DEF Signers
    <2> QED
      BY <1>1, <1>3, <2>1 DEF cpi
  <1>5. maker \in Party /\ signers \in SignerSets /\ maker \in signers
    BY SwapAssumption, ClientAssumption DEF OrderTerms
  <1>6. leaves[i] \in Note
    BY DEF PoolTypeOK
  <1>7. leaves[i].amount - amount \in Amount
    BY <1>3, <1>6, BoundsAssumption DEF Note, Amount
  <1>8. order \in MakeOutputs(signers) /\ change \in MakeOutputs(signers)
    BY <1>5, <1>6, <1>7, DataAssumption
    DEF OutputUtxo, MakeOutputs, Outputs, SignerBlindings, Note, Owner
  <1>9. checkOrderOutputUtxo(order, terms) /\ checkChangeOutputUtxo(change, order, terms)
    BY DEF OutputUtxo, checkOrderOutputUtxo, checkChangeOutputUtxo, PlainNote
  <1>10. MaxExpiry \in Expiry
    BY BoundsAssumption DEF Expiry
  <1>11. Landed("make", {i}, i, tx.outs, signers \cup {Authority})
    BY <1>3, <1>4, TransactOneInput, Zenon DEF cpi_spp_transact_signed
  <1>12. i \in Unspent
    BY <1>11 DEF Landed
  <1>13. leaves[i].data = NoData
    BY <1>3 DEF PlainNote
  <1>14. \E messages \in Messages : Len(messages) = 1 /\ messages[1] = EmptyData
    <2>1. <<EmptyData>> \in Messages /\ Len(<<EmptyData>>) = 1 /\ <<EmptyData>>[1] = EmptyData
      BY DEF Messages
    <2> QED
      BY <2>1
  <1>15. markers' = markers \cup {MarkerData(Len(leaves) + 1, maker)}
    BY <1>1, <1>3
  <1> HIDE DEF order, change, signers, maker
  <1>16. process_make_ix
    BY <1>1, <1>3, <1>4, <1>5, <1>8, <1>9, <1>10, <1>12, <1>13, <1>14, <1>15
    DEF process_make_ix
  <1> QED
    BY <1>5, <1>11, <1>12, <1>13, <1>16

\* A take of the derived rail lands as a step of the program.
LEMMA TakeLandsAsProgram ==
  ASSUME PoolTypeOK,
         NEW tx, TakeLands(tx), BuiltFromLeaves(tx)
  PROVE  /\ process_take_ix
         /\ \E o \in Unspent, j \in Unspent, signers \in SignerSets :
              Landed("take", {o, j}, o, tx.outs, signers \cup {Authority})
  <1>1. /\ tx.ix = "take" /\ check_within_window(now, tx.expiry) /\ cpi(tx)
        /\ tx.proof.public[1] = HashOf(tx) /\ UNCHANGED markers
    BY DEF TakeLands, TakeChecks, verify_groth16
  <1>2. PICK o \in DOMAIN leaves, j \in DOMAIN leaves : TakesDerived(tx, o, j)
    BY <1>1 DEF BuiltFromLeaves, MakesOrder, TakesVerifiable, CancelsOrder
  <1> DEFINE terms       == leaves[o].data
             p           == tx.payer
             source      == OutputUtxo(p, leaves[o].asset, leaves[o].amount, NoData,
                                       Derived(o, o, 0))
             destination == OutputUtxo(terms.maker, terms.destinationAsset,
                                       terms.destinationAmount, NoData, Derived(o, o, 1))
             signers     == {p}
  <1>3. /\ OrderAt(o) /\ CheckTerms(terms) /\ p \in Party /\ leaves[j].owner = p
        /\ tx.ins = <<o, j>> /\ tx.maker = p /\ tx.expiry = terms.expiry
        /\ terms.takeMode = TakeModeDerived /\ tx.outs = <<source, destination>>
    BY <1>2 DEF TakesDerived, TakesOrder
  <1>4. cpi_spp_transact_signed("take", <<o, j>>, <<source, destination>>, signers, tx.expiry)
    <2>1. Signers(tx) = signers
      BY <1>3 DEF Signers
    <2> QED
      BY <1>1, <1>3, <2>1 DEF cpi
  <1>5. /\ signers \in SignerSets /\ tx.expiry \in Expiry /\ terms.maker \in Party
        /\ terms.destinationAsset \in Asset /\ terms.destinationAmount \in Amount
    BY <1>3, SwapAssumption, ClientAssumption DEF OrderTerms, OrderAt
  <1>6. leaves[o] \in Note
    BY DEF PoolTypeOK
  <1>7. source \in TakeOutputs(o, signers) /\ destination \in TakeOutputs(o, signers)
    BY <1>3, <1>5, <1>6, DataAssumption
    DEF OutputUtxo, TakeOutputs, Outputs, OrderBlindings, Note, Owner
  <1>8. checkTakerInputUtxo(leaves[j], terms)
    BY <1>1, <1>2, VerifiedTakePays DEF TakesDerived
  <1>9. TakeInputs(terms, leaves[o], leaves[j], tx.expiry)
    BY <1>3, <1>8 DEF TakeInputs, CoreInputs, checkOrderInputUtxo, OrderAt
  <1>10. /\ TransactionBlinding(source, o, o, 0) /\ TransactionBlinding(destination, o, o, 1)
         /\ checkSourceOutputUtxo(source, leaves[o], leaves[j])
         /\ checkDestinationOutputUtxo(destination, terms)
    BY <1>3 DEF OutputUtxo, TransactionBlinding, checkSourceOutputUtxo,
                checkDestinationOutputUtxo, PlainNote
  <1>11. Landed("take", {o, j}, o, tx.outs, signers \cup {Authority})
    <2>1. tx.outs = <<source, destination>>
      BY <1>3
    <2> HIDE DEF source, destination, signers
    <2>2. Transact("take", <<o, j>>, tx.outs, signers \cup {Authority}, tx.expiry)
      BY <1>4, <2>1 DEF cpi_spp_transact_signed
    <2> QED
      BY <2>2, TransactTwoInputs, Zenon
  <1>12. o \in Unspent /\ j \in Unspent
    BY <1>11 DEF Landed
  <1>13. terms # NoData
    BY <1>3, DataAssumption DEF OrderAt
  <1> HIDE DEF source, destination, signers
  <1>14. process_take_ix
    <2>1. \E s \in TakeOutputs(o, signers) :
            /\ TransactionBlinding(s, o, o, 0)
            /\ checkSourceOutputUtxo(s, leaves[o], leaves[j])
            /\ \E d \in TakeOutputs(o, signers) :
                 /\ TransactionBlinding(d, o, o, 1)
                 /\ checkDestinationOutputUtxo(d, terms)
                 /\ cpi_spp_transact_signed("take", <<o, j>>, <<s, d>>, signers, tx.expiry)
                 /\ UNCHANGED markers
      BY <1>1, <1>4, <1>7, <1>10, Zenon
    <2> QED
      BY <1>1, <1>5, <1>9, <1>12, <1>13, <2>1, Zenon DEF process_take_ix
  <1> QED
    BY <1>5, <1>11, <1>12, <1>14

\* A take of the verifiable rail lands as a step of the program.
LEMMA TakeVerifiableLandsAsProgram ==
  ASSUME PoolTypeOK,
         NEW tx, TakeVerifiableEncryptionLands(tx), BuiltFromLeaves(tx)
  PROVE  /\ process_take_verifiable_encryption_ix
         /\ \E o \in Unspent, j \in Unspent, signers \in SignerSets :
              Landed("take_verifiable_encryption", {o, j}, o, tx.outs, signers \cup {Authority})
  <1>1. /\ tx.ix = "take_verifiable_encryption" /\ check_within_window(now, tx.expiry) /\ cpi(tx)
        /\ tx.outs[2].ciphertext # NoCiphertext
        /\ tx.proof.public[1] = HashOf(tx) /\ UNCHANGED markers
    BY DEF TakeVerifiableEncryptionLands, TakeVerifiableEncryptionChecks, verify_groth16
  <1>2. PICK o \in DOMAIN leaves, j \in DOMAIN leaves : TakesVerifiable(tx, o, j)
    BY <1>1 DEF BuiltFromLeaves, MakesOrder, TakesDerived, CancelsOrder
  <1> DEFINE terms       == leaves[o].data
             p           == tx.payer
             source      == OutputUtxo(p, leaves[o].asset, leaves[o].amount, NoData, Chosen(p))
             payout      == OutputUtxo(terms.maker, terms.destinationAsset,
                                       terms.destinationAmount, NoData, Chosen(p))
             destination == Sealed(payout, o)
             signers     == {p}
  <1>3. /\ OrderAt(o) /\ CheckTerms(terms) /\ p \in Party /\ leaves[j].owner = p
        /\ tx.ins = <<o, j>> /\ tx.maker = p /\ tx.expiry = terms.expiry
        /\ terms.takeMode = TakeModeVerifiable /\ p = terms.taker
        /\ tx.outs = <<source, destination>>
    BY <1>2 DEF TakesVerifiable, TakesOrder
  <1>4. cpi_spp_transact_signed("take_verifiable_encryption", <<o, j>>, <<source, destination>>,
                                signers, tx.expiry)
    <2>1. Signers(tx) = signers
      BY <1>3 DEF Signers
    <2> HIDE DEF source, destination, signers
    <2> QED
      BY <1>1, <1>3, <2>1 DEF cpi
  <1>5. /\ signers \in SignerSets /\ tx.expiry \in Expiry /\ terms.maker \in Party
        /\ terms.destinationAsset \in Asset /\ terms.destinationAmount \in Amount
    BY <1>3, SwapAssumption, ClientAssumption DEF OrderTerms, OrderAt
  <1>6. leaves[o] \in Note
    BY DEF PoolTypeOK
  <1>7. source \in RefundOutputs(signers)
    BY <1>3, <1>6, DataAssumption
    DEF OutputUtxo, RefundOutputs, Outputs, SignerBlindings, Note, Owner
  <1>8. destination = [owner |-> terms.maker, asset |-> terms.destinationAsset,
                       amount |-> terms.destinationAmount, data |-> NoData,
                       ring |-> DefaultRing, blinding |-> Chosen(p),
                       ciphertext |-> [key |-> o, opens |-> Chosen(p)]]
    BY DEF Sealed, OutputUtxo
  <1>9. destination \in VerifiableOutputs(o, signers)
    <2>1. Chosen(p) \in SignerBlindings(signers) /\ Chosen(p) \in OrderBlindings(o, signers)
      BY DEF SignerBlindings, OrderBlindings
    <2>2. [key |-> o, opens |-> Chosen(p)] \in [key : {o}, opens : OrderBlindings(o, signers)]
      BY <2>1
    <2> QED
      BY <1>5, <1>8, <2>1, <2>2, DataAssumption DEF VerifiableOutputs, Outputs, Owner
  <1>10. checkTakerInputUtxo(leaves[j], terms)
    BY <1>1, <1>2, VerifiedTakePays DEF TakesVerifiable
  <1>11. TakeVerifiableInputs(terms, leaves[o], leaves[j], tx.expiry)
    BY <1>3, <1>10 DEF TakeVerifiableInputs, CoreInputs, checkOrderInputUtxo, OrderAt
  <1>12. checkSourceOutputUtxo(source, leaves[o], leaves[j])
    BY <1>3 DEF OutputUtxo, checkSourceOutputUtxo, PlainNote
  <1>13. /\ checkDestinationOutputUtxo(destination, terms)
         /\ checkVerifiableEncryption(destination, o)
    BY <1>8 DEF checkDestinationOutputUtxo, checkVerifiableEncryption, PlainNote
  <1>14. destination.ciphertext # NoCiphertext
    <2>1. tx.outs[2] = destination
      BY <1>3
    <2> QED
      BY <1>1, <2>1
  <1> HIDE DEF source, destination, signers
  <1>15. Landed("take_verifiable_encryption", {o, j}, o, tx.outs, signers \cup {Authority})
    <2>1. Transact("take_verifiable_encryption", <<o, j>>, tx.outs, signers \cup {Authority},
                   tx.expiry)
      BY <1>3, <1>4 DEF cpi_spp_transact_signed
    <2> QED
      BY <2>1, TransactTwoInputs, Zenon
  <1>16. o \in Unspent /\ j \in Unspent
    BY <1>15 DEF Landed
  <1>17. terms # NoData
    BY <1>3, DataAssumption DEF OrderAt
  <1>18. process_take_verifiable_encryption_ix
    <2>1. \E s \in RefundOutputs(signers) :
            /\ checkSourceOutputUtxo(s, leaves[o], leaves[j])
            /\ \E d \in VerifiableOutputs(o, signers) :
                 /\ d.ciphertext # NoCiphertext
                 /\ checkDestinationOutputUtxo(d, terms)
                 /\ checkVerifiableEncryption(d, o)
                 /\ cpi_spp_transact_signed("take_verifiable_encryption", <<o, j>>, <<s, d>>,
                                            signers, tx.expiry)
                 /\ UNCHANGED markers
      BY <1>1, <1>4, <1>7, <1>9, <1>12, <1>13, <1>14, Zenon
    <2> QED
      BY <1>1, <1>5, <1>11, <1>16, <1>17, <2>1, Zenon DEF process_take_verifiable_encryption_ix
  <1> QED
    BY <1>5, <1>15, <1>16, <1>18

\* A cancel that was built from a leaf lands as a step of the program.
LEMMA CancelLandsAsProgram ==
  ASSUME PoolTypeOK,
         NEW tx, CancelLands(tx), BuiltFromLeaves(tx)
  PROVE  /\ process_cancel_ix
         /\ \E o \in Unspent, signers \in SignerSets :
              Landed("cancel", {o}, o, tx.outs, signers \cup {Authority})
  <1>1. /\ tx.ix = "cancel" /\ check_after_window(now, tx.order_expiry) /\ cpi(tx)
        /\ UNCHANGED markers
    BY DEF CancelLands, CancelChecks
  <1>2. PICK o \in DOMAIN leaves : CancelsOrder(tx, o)
    BY <1>1 DEF BuiltFromLeaves, MakesOrder, TakesDerived, TakesVerifiable
  <1> DEFINE terms   == leaves[o].data
             maker   == terms.maker
             source  == OutputUtxo(maker, leaves[o].asset, leaves[o].amount, NoData, Chosen(maker))
             signers == {tx.payer, maker}
  <1>3. /\ OrderAt(o) /\ tx.ins = <<o>> /\ tx.outs = <<source>>
        /\ tx.payer \in Party /\ tx.maker = maker /\ tx.expiry \in Expiry
        /\ tx.order_expiry = terms.expiry
    BY <1>2 DEF CancelsOrder
  <1>4. cpi_spp_transact_signed("cancel", <<o>>, <<source>>, signers, tx.expiry)
    BY <1>1, <1>3 DEF cpi, Signers
  <1>5. maker \in Party /\ terms.expiry \in Expiry
    BY <1>3, SwapAssumption DEF OrderTerms, OrderAt
  <1>6. signers \in SignerSets /\ maker \in signers
    BY <1>3, <1>5, ClientAssumption
  <1>7. leaves[o] \in Note
    BY DEF PoolTypeOK
  <1>8. source \in RefundOutputs(signers)
    BY <1>5, <1>7, DataAssumption
    DEF OutputUtxo, RefundOutputs, Outputs, SignerBlindings, Note, Owner
  <1>9. /\ CancelInputs(terms, leaves[o], terms.expiry, maker)
        /\ checkRefundOutputUtxo(source, leaves[o], terms)
    BY <1>3 DEF OutputUtxo, CancelInputs, checkOrderInputUtxo, checkRefundOutputUtxo,
                PlainNote, OrderAt
  <1>10. check_after_window(now, terms.expiry)
    BY <1>1, <1>3
  <1>11. terms # NoData
    BY <1>3, DataAssumption DEF OrderAt
  <1> HIDE DEF source, signers, maker
  <1>12. Landed("cancel", {o}, o, tx.outs, signers \cup {Authority})
    <2>1. Transact("cancel", <<o>>, tx.outs, signers \cup {Authority}, tx.expiry)
      BY <1>3, <1>4 DEF cpi_spp_transact_signed
    <2> QED
      BY <2>1, TransactOneInput, Zenon
  <1>13. o \in Unspent
    BY <1>12 DEF Landed
  <1>14. CancelOrder(o)
    BY <1>1, <1>3, <1>4, <1>5, <1>6, <1>8, <1>9, <1>10, <1>11, Zenon
    DEF CancelOrder, Cancels
  <1> QED
    BY <1>6, <1>12, <1>13, <1>14 DEF process_cancel_ix

-----------------------------------------------------------------------------
\* Every step of the clients is a step of the program or leaves the pool alone.
LEMMA ClientStepSimulates == ClientInv /\ [ClientNext]_clientVars => [Next]_vars
  <1> SUFFICES ASSUME ClientInv, [ClientNext]_clientVars
               PROVE  [Next]_vars
    OBVIOUS
  <1>0. PoolTypeOK
    BY DEF ClientInv, SwapInv, TypeOK
  <1>1. ASSUME NEW i \in Unspent, NEW terms \in Payload, NEW amount \in Amount,
               SubmitMake(i, terms, amount)
        PROVE  [Next]_vars
    BY <1>0, <1>1, SubmitMakeBuilds
  <1>2. ASSUME NEW p \in Party, NEW o \in Discovered, NEW j \in Unspent,
               SubmitTake(p, o, j) \/ SubmitTakeVerifiableEncryption(p, o, j)
        PROVE  [Next]_vars
    BY <1>0, <1>2, SubmitTakeBuilds, SubmitTakeVerifiableBuilds
  <1>3. CASE SubmitCancels
    BY <1>0, <1>3, SubmitCancelBuilds DEF SubmitCancels
  <1>4. ASSUME NEW tx \in flight, Land(tx)
        PROVE  [Next]_vars
    <2>0. BuiltFromLeaves(tx)
      BY DEF ClientInv, AllBuiltFromLeaves
    <2>1. CASE MakeLands(tx)
      BY <1>0, <2>0, <2>1, MakeLandsAsProgram DEF Next, process_instruction
    <2>2. CASE TakeLands(tx)
      BY <1>0, <2>0, <2>2, TakeLandsAsProgram DEF Next, process_instruction
    <2>3. CASE TakeVerifiableEncryptionLands(tx)
      BY <1>0, <2>0, <2>3, TakeVerifiableLandsAsProgram DEF Next, process_instruction
    <2>4. CASE CancelLands(tx)
      BY <1>0, <2>0, <2>4, CancelLandsAsProgram DEF Next, process_instruction
    <2> QED
      BY <1>4, <2>1, <2>2, <2>3, <2>4 DEF Land
  <1>5. CASE SppTransfer \/ Clock
    BY <1>5 DEF Next
  <1>6. CASE UNCHANGED clientVars
    BY <1>6 DEF clientVars, vars
  <1> QED
    BY <1>1, <1>2, <1>3, <1>4, <1>5, <1>6 DEF ClientNext

\* The program never changes a leaf that exists.
LEMMA NextKeepsLeaves ==
  ASSUME TypeOK, [Next]_vars
  PROVE  /\ DOMAIN leaves \subseteq DOMAIN leaves'
         /\ \A k \in DOMAIN leaves : leaves'[k] = leaves[k]
  <1>0. PoolTypeOK
    BY DEF TypeOK
  <1>1. ASSUME NEW ix, NEW spends, NEW first, NEW outs \in Seq(Note), NEW signers,
               Landed(ix, spends, first, outs, signers)
        PROVE  /\ DOMAIN leaves \subseteq DOMAIN leaves'
               /\ \A k \in DOMAIN leaves : leaves'[k] = leaves[k]
    <2>1. Kept(outs)
      BY <1>0, <1>1, LandedKeeps, Zenon
    <2> QED
      BY <2>1 DEF Kept
  <1>2. \A x, y \in Note : <<x>> \in Seq(Note) /\ <<x, y>> \in Seq(Note)
    OBVIOUS
  <1>3. CASE process_make_ix
    <2>1. PICK signers \in SUBSET Owner, i \in Unspent, change \in Note, order \in Note :
            Landed("make", {i}, i, <<change, order>>, signers)
      BY <1>3, StepOfMake, Zenon
    <2> QED
      BY <1>1, <1>2, <2>1, Zenon
  <1>4. CASE process_take_ix
    <2>1. PICK signers \in SUBSET Owner, o \in Unspent, j \in Unspent,
               source \in Note, destination \in Note :
            Landed("take", {o, j}, o, <<source, destination>>, signers)
      BY <1>4, StepOfTake, Zenon
    <2> QED
      BY <1>1, <1>2, <2>1, Zenon
  <1>5. CASE process_take_verifiable_encryption_ix
    <2>1. PICK signers \in SUBSET Owner, o \in Unspent, j \in Unspent,
               source \in Note, destination \in Note :
            Landed("take_verifiable_encryption", {o, j}, o, <<source, destination>>, signers)
      BY <1>5, StepOfTakeVerifiable, Zenon
    <2> QED
      BY <1>1, <1>2, <2>1, Zenon
  <1>6. CASE process_cancel_ix
    <2>1. PICK signers \in SUBSET Owner, o \in Unspent, source \in Note :
            Landed("cancel", {o}, o, <<source>>, signers)
      BY <1>6, StepOfCancel, Zenon
    <2> QED
      BY <1>1, <1>2, <2>1, Zenon
  <1>7. CASE SppTransfer
    <2>1. PICK signers \in SUBSET Owner, i \in Unspent, n \in Note :
            Landed("transfer", {i}, i, <<n>>, signers)
      BY <1>7, StepOfTransfer, Zenon
    <2> QED
      BY <1>1, <1>2, <2>1, Zenon
  <1>8. CASE Clock \/ UNCHANGED vars
    BY <1>8 DEF Clock, Tick, vars
  <1> QED
    BY <1>3, <1>4, <1>5, <1>6, <1>7, <1>8 DEF Next, process_instruction

(***************************************************************************)
(* A transact keeps MakesSpendPlainNotes unless it is a make that spends a *)
(* note with data.                                                         *)
(***************************************************************************)
LEMMA LandedSpendsPlain ==
  ASSUME PoolTypeOK, MakesSpendPlainNotes,
         \A k \in DOMAIN leaves : leaves'[k] = leaves[k],
         NEW ix, NEW spends, NEW first, NEW outs, NEW signers,
         Landed(ix, spends, first, outs, signers),
         ix = "make" => \A i \in spends : leaves[i].data = NoData
  PROVE  MakesSpendPlainNotes'
  <1> SUFFICES ASSUME NEW k \in DOMAIN nullifiers', nullifiers'[k].ix = "make"
               PROVE  leaves'[k].data = NoData
    BY DEF MakesSpendPlainNotes
  <1>1. CASE k \in DOMAIN nullifiers
    <2>1. nullifiers'[k] = nullifiers[k] /\ k \in DOMAIN leaves
      BY <1>1 DEF Landed, PoolTypeOK
    <2> QED
      BY <1>1, <2>1 DEF MakesSpendPlainNotes
  <1>2. CASE k \in spends
    <2>1. k \in DOMAIN leaves /\ nullifiers'[k].ix = ix
      BY <1>2 DEF Landed, Unspent, TheReceipt
    <2> QED
      BY <1>2, <2>1
  <1> QED
    BY <1>1, <1>2 DEF Landed

\* Every step of the clients keeps the invariant.
LEMMA ClientInvStep == ClientInv /\ [ClientNext]_clientVars => ClientInv'
  <1> SUFFICES ASSUME ClientInv, [ClientNext]_clientVars
               PROVE  ClientInv'
    OBVIOUS
  <1>0. SwapInv /\ TypeOK /\ PoolTypeOK /\ AllBuiltFromLeaves /\ MakesSpendPlainNotes
    BY DEF ClientInv, SwapInv, TypeOK
  <1>1. [Next]_vars
    BY ClientStepSimulates
  <1>2. SwapInv'
    BY <1>0, <1>1, SwapInvStep
  <1>3. /\ DOMAIN leaves \subseteq DOMAIN leaves'
        /\ \A k \in DOMAIN leaves : leaves'[k] = leaves[k]
    BY <1>0, <1>1, NextKeepsLeaves
  <1>4. ASSUME \A tx \in flight' \ flight : BuiltFromLeaves(tx)
        PROVE  AllBuiltFromLeaves'
    <2> SUFFICES ASSUME NEW tx \in flight' PROVE BuiltFromLeaves(tx)'
      BY DEF AllBuiltFromLeaves
    <2>1. BuiltFromLeaves(tx)
      BY <1>0, <1>4 DEF AllBuiltFromLeaves
    <2> QED
      BY <1>3, <2>1, BuiltKept
  <1>5. ASSUME UNCHANGED vars, \A tx \in flight' \ flight : BuiltFromLeaves(tx)
        PROVE  ClientInv'
    <2>1. MakesSpendPlainNotes'
      BY <1>0, <1>5 DEF MakesSpendPlainNotes, vars
    <2> QED
      BY <1>2, <1>4, <1>5, <2>1 DEF ClientInv
  <1>6. ASSUME NEW i \in Unspent, NEW terms \in Payload, NEW amount \in Amount,
               SubmitMake(i, terms, amount)
        PROVE  ClientInv'
    BY <1>0, <1>5, <1>6, SubmitMakeBuilds
  <1>7. ASSUME NEW p \in Party, NEW o \in Discovered, NEW j \in Unspent,
               SubmitTake(p, o, j) \/ SubmitTakeVerifiableEncryption(p, o, j)
        PROVE  ClientInv'
    BY <1>0, <1>5, <1>7, SubmitTakeBuilds, SubmitTakeVerifiableBuilds
  <1>8. CASE SubmitCancels
    BY <1>0, <1>5, <1>8, SubmitCancelBuilds DEF SubmitCancels
  <1>9. ASSUME UNCHANGED flight, MakesSpendPlainNotes'
        PROVE  ClientInv'
    BY <1>2, <1>4, <1>9 DEF ClientInv
  <1>10. ASSUME NEW tx \in flight, Land(tx)
         PROVE  ClientInv'
    <2>0. BuiltFromLeaves(tx) /\ UNCHANGED flight
      BY <1>0, <1>10 DEF AllBuiltFromLeaves, Land
    <2>1. MakesSpendPlainNotes'
      <3>0. "take" # "make" /\ "take_verifiable_encryption" # "make" /\ "cancel" # "make"
        OBVIOUS
      <3>1. CASE MakeLands(tx)
        <4>1. PICK i \in Unspent, signers \in SignerSets :
                /\ Landed("make", {i}, i, tx.outs, signers \cup {Authority})
                /\ leaves[i].data = NoData
          BY <1>0, <2>0, <3>1, MakeLandsAsProgram, Zenon
        <4>2. \A k \in {i} : leaves[k].data = NoData
          BY <4>1
        <4> QED
          BY <1>0, <1>3, <4>1, <4>2, LandedSpendsPlain, SMTT(30)
      <3>2. CASE TakeLands(tx)
        <4>1. PICK o \in Unspent, j \in Unspent, signers \in SignerSets :
                Landed("take", {o, j}, o, tx.outs, signers \cup {Authority})
          BY <1>0, <2>0, <3>2, TakeLandsAsProgram, Zenon
        <4> QED
          BY <1>0, <1>3, <3>0, <4>1, LandedSpendsPlain, Zenon
      <3>3. CASE TakeVerifiableEncryptionLands(tx)
        <4>1. PICK o \in Unspent, j \in Unspent, signers \in SignerSets :
                Landed("take_verifiable_encryption", {o, j}, o, tx.outs, signers \cup {Authority})
          BY <1>0, <2>0, <3>3, TakeVerifiableLandsAsProgram, Zenon
        <4> QED
          BY <1>0, <1>3, <3>0, <4>1, LandedSpendsPlain, Zenon
      <3>4. CASE CancelLands(tx)
        <4>1. PICK o \in Unspent, signers \in SignerSets :
                Landed("cancel", {o}, o, tx.outs, signers \cup {Authority})
          BY <1>0, <2>0, <3>4, CancelLandsAsProgram, Zenon
        <4> QED
          BY <1>0, <1>3, <3>0, <4>1, LandedSpendsPlain, Zenon
      <3> QED
        BY <1>10, <3>1, <3>2, <3>3, <3>4 DEF Land
    <2> QED
      BY <1>9, <2>0, <2>1
  <1>11. CASE SppTransfer /\ UNCHANGED flight
    <2>1. PICK signers \in SUBSET Owner, i \in Unspent, n \in Note :
            Landed("transfer", {i}, i, <<n>>, signers)
      BY <1>0, <1>11, StepOfTransfer, Zenon
    <2>2. "transfer" # "make"
      OBVIOUS
    <2>3. MakesSpendPlainNotes'
      BY <1>0, <1>3, <2>1, <2>2, LandedSpendsPlain, Zenon
    <2> QED
      BY <1>9, <1>11, <2>3
  <1>12. CASE Clock /\ UNCHANGED flight
    <2>1. MakesSpendPlainNotes'
      BY <1>0, <1>12 DEF MakesSpendPlainNotes, Clock, Tick
    <2> QED
      BY <1>9, <1>12, <2>1
  <1>13. CASE UNCHANGED clientVars
    BY <1>5, <1>13 DEF clientVars, vars
  <1> QED
    BY <1>6, <1>7, <1>8, <1>10, <1>11, <1>12, <1>13 DEF ClientNext

(***************************************************************************)
(* Whatever is in flight was built from leaves that are still there, and   *)
(* makes spend plain notes only: SubmitMake asks for a plain source, as    *)
(* the SDK's flows do.                                                     *)
(***************************************************************************)
THEOREM ClientInvariant == ClientSpec => []ClientInv
  <1>1. ClientInit => ClientInv
    <2> SUFFICES ASSUME ClientInit PROVE ClientInv
      OBVIOUS
    <2>1. SwapInv /\ DOMAIN nullifiers = {}
      BY SwapInvInit DEF ClientInit, Init, PoolInit
    <2> QED
      BY <2>1 DEF ClientInit, ClientInv, AllBuiltFromLeaves, MakesSpendPlainNotes
  <1> QED
    BY <1>1, ClientInvStep, PTL DEF ClientSpec

(***************************************************************************)
(* The clients, the SDK's proof builders, the prover and the handlers that *)
(* only call verify_groth16 implement the program that applies the         *)
(* circuits to the notes: a transaction that lands late, twice or against  *)
(* an order already consumed does nothing the program does not allow at    *)
(* that moment.                                                            *)
(***************************************************************************)
THEOREM ClientImplementsProgram == ClientSpec => ImplementsProgram
  <1>1. ClientInit => Init
    BY DEF ClientInit
  <1> QED
    BY <1>1, ClientInvariant, ClientStepSimulates, PTL DEF ClientSpec, ImplementsProgram, Spec

(***************************************************************************)
(* Behind the SDK an order moves only by settlement or by its maker's      *)
(* refund, whatever OrdersFundMakes allows: process_make_ix would sign for *)
(* an order as its source, but no client submits one.                      *)
(***************************************************************************)
THEOREM SdkMovesOrdersBySettlement == ClientSpec => []OrdersMoveOnlyBySettlement
  <1>1. ClientInv => OrdersMoveOnlyBySettlement
    <2> SUFFICES ASSUME ClientInv, NEW o \in Orders \cap DOMAIN nullifiers
                 PROVE  SettledAsCommitted(o) \/ RefundedAsCommitted(o)
      BY DEF OrdersMoveOnlyBySettlement
    <2>1. Outcome(o)
      BY DEF ClientInv, SwapInv, AllAccounted
    <2>2. ~SpentByMake(o)
      BY DEF ClientInv, MakesSpendPlainNotes, SpentByMake, Orders
    <2> QED
      BY <2>1, <2>2 DEF Outcome, Settlement, Refund
  <1> QED
    BY <1>1, ClientInvariant, PTL

(***************************************************************************)
(* Clients, SDK, prover and program together implement AtomicSwap, without *)
(* the assumption the program alone needs: ImplementsAtomicSwap holds of   *)
(* everything MakeLands, TakeLands, TakeVerifiableEncryptionLands,         *)
(* CancelLands and the wallets' transfers do.                              *)
(***************************************************************************)
THEOREM SdkSwapsAreAtomic == ClientSpec => ImplementsAtomicSwap
  <1>1. ClientSpec => Init /\ [][Next]_vars
    BY ClientImplementsProgram DEF ImplementsProgram, Spec
  <1>2. ClientInv => TypeOK
    BY DEF ClientInv, SwapInv
  <1> QED
    BY <1>1, <1>2, ClientInvariant, SdkMovesOrdersBySettlement, AtomicStart, AtomicStep, PTL
    DEF ImplementsAtomicSwap, Atomic!AtomicSpec

\* A note that holds an amount of an asset for an owner is, up to the published
\* ciphertext, the note the SDK builds from these and its blinding.
LEMMA HeldNoteIsBuilt ==
  ASSUME NEW n \in Note, NEW owner, NEW asset, NEW amount, Holds(n, owner, asset, amount)
  PROVE  UtxoHash(n) = OutputUtxo(owner, asset, amount, NoData, n.blinding)
  BY DEF Holds, PlainNote, UtxoHash, OutputUtxo, Note

(***************************************************************************)
(* The maker's SDK rebuilds the whole payout note of every take from the   *)
(* order's opening and what the chain published:                           *)
(* derived_destination_output on the derived rail, decrypt_destination on  *)
(* the verifiable one.                                                     *)
(***************************************************************************)
THEOREM PayoutsAreRebuilt == ClientSpec => []PayoutsRebuilt
  <1>1. ClientInv => PayoutsRebuilt
    <2> SUFFICES ASSUME ClientInv, NEW o \in Orders \cap DOMAIN nullifiers,
                        nullifiers[o].ix \in TakeRails
                 PROVE  LET payout  == leaves[nullifiers[o].out + 1]
                            rebuilt == IF leaves[o].data.takeMode = TakeModeDerived
                                       THEN {derived_destination_output(Opened(o),
                                                                        nullifiers[o].first)}
                                       ELSE decrypt_destination(Opened(o), payout.ciphertext)
                        IN  rebuilt = {UtxoHash(payout)}
      BY DEF PayoutsRebuilt
    <2> DEFINE terms  == leaves[o].data
               payout == leaves[nullifiers[o].out + 1]
               first  == nullifiers[o].first
    <2>1. Outcome(o)
      BY DEF ClientInv, SwapInv, AllAccounted
    <2>2. Settlement(o)
      BY <2>1 DEF Outcome, Refund, SpentByMake, TakeRails
    <2>3. /\ nullifiers[o].out + 1 \in DOMAIN leaves
          /\ Holds(payout, terms.maker, terms.destinationAsset, terms.destinationAmount)
      BY <2>2 DEF Settlement, SettledAsCommitted
    <2>4. payout \in Note
      BY <2>3 DEF ClientInv, SwapInv, TypeOK, PoolTypeOK
    <2>5. UtxoHash(payout) = OutputUtxo(terms.maker, terms.destinationAsset,
                                        terms.destinationAmount, NoData, payout.blinding)
      BY <2>3, <2>4, HeldNoteIsBuilt, Zenon
    <2>6. Opened(o).terms = terms /\ Opened(o).leaf = o
      BY DEF Opened, OrderUtxo
    <2>7. CASE terms.takeMode = TakeModeDerived
      <3>1. payout.blinding = Derived(o, first, 1)
        BY <2>2, <2>7 DEF Settlement, Recoverable, derived_destination_blinding
      <3>2. derived_destination_output(Opened(o), first) = UtxoHash(payout)
        BY <2>5, <2>6, <3>1 DEF derived_destination_output, destination_output
      <3> QED
        BY <2>7, <3>2
    <2>8. CASE terms.takeMode # TakeModeDerived
      <3>1. payout.ciphertext = [key |-> o, opens |-> payout.blinding]
        BY <2>2, <2>8 DEF Settlement, Recoverable
      <3>2. payout.ciphertext.key = o /\ payout.ciphertext.opens = payout.blinding
        BY <3>1
      <3>3. decrypt_destination(Opened(o), payout.ciphertext)
              = {destination_output(Opened(o), Opened(o).terms.maker, payout.blinding)}
        BY <2>6, <3>2 DEF decrypt_destination
      <3>4. destination_output(Opened(o), Opened(o).terms.maker, payout.blinding)
              = UtxoHash(payout)
        BY <2>5, <2>6 DEF destination_output
      <3> QED
        BY <2>8, <3>3, <3>4
    <2> QED
      BY <2>7, <2>8
  <1> QED
    BY <1>1, ClientInvariant, PTL

-----------------------------------------------------------------------------
(***************************************************************************)
(* What is in flight is accepted exactly while it is live.                 *)
(***************************************************************************)
\* What a transaction that is accepted depends on holds at that moment.
LEMMA AcceptedIsLive ==
  ASSUME ClientInv, NEW tx \in flight, Accepted(tx)
  PROVE  Live(tx)
  <1>0. PoolTypeOK /\ BuiltFromLeaves(tx)
    BY DEF ClientInv, SwapInv, TypeOK, AllBuiltFromLeaves
  <1>1. accepts(tx)
    BY DEF Accepted
  <1>2. ToSet(tx.ins) \subseteq Unspent /\ now <= tx.expiry
    BY <1>1 DEF accepts, cpi_accepts, Accepts
  <1>3. CASE MakeChecks(tx)
    BY <1>2, <1>3 DEF MakeChecks, Live, TakeRails
  <1>4. ASSUME NEW o \in DOMAIN leaves, NEW j \in DOMAIN leaves, TakesOrder(tx, o, j),
               tx.ix \in TakeRails, tx.proof.public[1] = HashOf(tx),
               check_within_window(now, tx.expiry)
        PROVE  Live(tx)
    <2>1. checkTakerInputUtxo(leaves[j], leaves[o].data)
      BY <1>0, <1>4, VerifiedTakePays
    <2>2. tx.ins[1] = o /\ tx.ins[2] = j
      BY <1>4 DEF TakesOrder
    <2>3. tx.ix # "make" /\ tx.ix # "cancel" /\ now >= 0
      BY <1>4 DEF TakeRails, check_within_window
    <2> QED
      BY <1>2, <2>1, <2>2, <2>3 DEF Live, checkTakerInputUtxo
  <1>5. CASE TakeChecks(tx)
    <2>1. PICK o \in DOMAIN leaves, j \in DOMAIN leaves : TakesDerived(tx, o, j)
      BY <1>0, <1>5 DEF TakeChecks, BuiltFromLeaves, MakesOrder, TakesVerifiable, CancelsOrder
    <2> QED
      BY <1>4, <1>5, <2>1 DEF TakeChecks, TakesDerived, TakeRails, verify_groth16
  <1>6. CASE TakeVerifiableEncryptionChecks(tx)
    <2>1. PICK o \in DOMAIN leaves, j \in DOMAIN leaves : TakesVerifiable(tx, o, j)
      BY <1>0, <1>6
      DEF TakeVerifiableEncryptionChecks, BuiltFromLeaves, MakesOrder, TakesDerived, CancelsOrder
    <2> QED
      BY <1>4, <1>6, <2>1
      DEF TakeVerifiableEncryptionChecks, TakesVerifiable, TakeRails, verify_groth16
  <1>7. CASE CancelChecks(tx)
    <2>1. PICK o \in DOMAIN leaves : CancelsOrder(tx, o)
      BY <1>0, <1>7 DEF CancelChecks, BuiltFromLeaves, MakesOrder, TakesDerived, TakesVerifiable
    <2>2. tx.ins[1] = o /\ now > leaves[o].data.expiry
      BY <1>7, <2>1 DEF CancelChecks, CancelsOrder, check_after_window
    <2>3. tx.ix = "cancel"
      BY <1>7 DEF CancelChecks
    <2> QED
      BY <1>2, <2>2, <2>3 DEF Live, TakeRails
  <1> QED
    BY <1>3, <1>5, <1>6, <1>7 DEF Accepted

\* The hash the program computes, for one input and for two, from notes with the
\* same UTXO hashes.
LEMMA HashOfOne ==
  ASSUME NEW tx, NEW i, NEW n, tx.ins = <<i>>, UtxoHash(leaves[i]) = UtxoHash(n)
  PROVE  HashOf(tx) = PrivateTxHash(<<n>>, tx.outs)
  <1> DEFINE spent == [k \in DOMAIN tx.ins |-> leaves[tx.ins[k]]]
  <1>1. DOMAIN <<n>> = {1} /\ <<n>>[1] = n /\ DOMAIN <<i>> = {1} /\ <<i>>[1] = i
    OBVIOUS
  <1>2. DOMAIN spent = {1} /\ spent[1] = leaves[i]
    BY <1>1
  <1> HIDE DEF spent
  <1>3. [k \in DOMAIN spent |-> UtxoHash(spent[k])] = [k \in DOMAIN <<n>> |-> UtxoHash(<<n>>[k])]
    BY <1>1, <1>2
  <1> QED
    BY <1>3 DEF HashOf, PrivateTxHash, spent

LEMMA HashOfTwo ==
  ASSUME NEW tx, NEW i, NEW j, NEW m, NEW n, tx.ins = <<i, j>>,
         UtxoHash(leaves[i]) = UtxoHash(m), UtxoHash(leaves[j]) = UtxoHash(n)
  PROVE  HashOf(tx) = PrivateTxHash(<<m, n>>, tx.outs)
  <1> DEFINE spent == [k \in DOMAIN tx.ins |-> leaves[tx.ins[k]]]
  <1>1. /\ DOMAIN <<m, n>> = {1, 2} /\ <<m, n>>[1] = m /\ <<m, n>>[2] = n
        /\ DOMAIN <<i, j>> = {1, 2} /\ <<i, j>>[1] = i /\ <<i, j>>[2] = j
    OBVIOUS
  <1>2. DOMAIN spent = {1, 2} /\ spent[1] = leaves[i] /\ spent[2] = leaves[j]
    BY <1>1
  <1> HIDE DEF spent
  <1>3. [k \in DOMAIN spent |-> UtxoHash(spent[k])]
          = [k \in DOMAIN <<m, n>> |-> UtxoHash(<<m, n>>[k])]
    BY <1>1, <1>2
  <1> QED
    BY <1>3 DEF HashOf, PrivateTxHash, spent

\* The opening of an order hashes to the order's leaf.
LEMMA OpeningHashes ==
  ASSUME PoolTypeOK, NEW o \in DOMAIN leaves, OrderAt(o)
  PROVE  UtxoHash(leaves[o]) = UtxoHash(output_utxo(Opened(o)))
  <1>1. leaves[o] \in Note
    BY DEF PoolTypeOK
  <1> QED
    BY <1>1 DEF OrderAt, UtxoHash, output_utxo, OutputUtxo, Opened, OrderUtxo, Note

\* A verified proof is the one the client was given.
LEMMA ProofVerifies ==
  ASSUME NEW circuit, NEW public
  PROVE  verify_groth16(ProofOf(circuit, public), circuit, public)
  BY DEF verify_groth16, ProofOf

\* A live make is accepted.
LEMMA LiveMakeIsAccepted ==
  ASSUME PoolTypeOK, NEW tx, Live(tx),
         NEW i \in DOMAIN leaves, NEW terms \in Payload, NEW amount \in Amount \ {0},
         MakesOrder(tx, i, terms, amount)
  PROVE  Accepted(tx)
  <1> DEFINE maker  == terms.maker
             order  == OutputUtxo(Authority, leaves[i].asset, amount, terms, Chosen(maker))
             change == OutputUtxo(maker, leaves[i].asset, leaves[i].amount - amount,
                                  NoData, Chosen(maker))
  <1>1. /\ leaves[i].owner = Authority /\ amount <= leaves[i].amount
        /\ tx.ix = "make" /\ tx.ins = <<i>> /\ tx.outs = <<change, order>>
        /\ tx.payer = maker /\ tx.maker = maker /\ tx.expiry = MaxExpiry
        /\ tx.messages = <<EmptyData>> /\ tx.external = OrderMarker(tx.outs[2], tx.payer)
        /\ tx.proof = ProofOf("make", <<PrivateTxHash(<<leaves[i]>>, tx.outs)>>)
    BY DEF MakesOrder
  <1>2. HashOf(tx) = PrivateTxHash(<<leaves[i]>>, tx.outs)
    BY <1>1, HashOfOne
  <1>3. MakeChecks(tx)
    <2>1. verify_groth16(tx.proof, "make", <<HashOf(tx)>>)
      BY <1>1, <1>2, ProofVerifies
    <2>2. ORDER_OUTPUT_INDEX + 1 = 2
      BY DEF ORDER_OUTPUT_INDEX
    <2>3. Len(<<EmptyData>>) = 1 /\ <<EmptyData>>[1] = EmptyData
      OBVIOUS
    <2> QED
      BY <1>1, <2>1, <2>2, <2>3 DEF Live, MakeChecks
  <1>4. leaves[i] \in Note /\ maker \in Party
    BY SwapAssumption DEF PoolTypeOK, OrderTerms
  <1>5. leaves[i].amount - amount \in Amount
    BY <1>1, <1>4, BoundsAssumption DEF Note, Amount
  <1>6. order \in Note /\ change \in Note
    <2>1. Chosen(maker) \in Blinding /\ NoCiphertext \in Ciphertext
      BY <1>4 DEF Chosen, Blinding, Ciphertext
    <2> QED
      BY <1>4, <1>5, <2>1, DataAssumption DEF OutputUtxo, Note, Owner
  <1>7. accepts(tx)
    <2>1. i \in Unspent /\ now <= MaxExpiry
      BY <1>1, OneElement DEF Live
    <2>2. leaves[i].amount = (leaves[i].amount - amount) + amount
      BY <1>4, BoundsAssumption DEF Note, Amount
    <2>3. /\ change.data = NoData /\ change.asset = leaves[i].asset
          /\ change.amount = leaves[i].amount - amount
          /\ order.owner = leaves[i].owner /\ order.asset = leaves[i].asset
          /\ order.amount = amount
      BY <1>1 DEF OutputUtxo
    <2>4. leaves[i].owner \in Signers(tx) \cup {Authority}
      BY <1>1
    <2>5. leaves[i].amount = change.amount + order.amount
      BY <2>2, <2>3
    <2> HIDE DEF order, change
    <2>6. Accepts(<<i>>, <<change, order>>, Signers(tx) \cup {Authority}, MaxExpiry)
      BY <1>6, <2>1, <2>3, <2>4, <2>5, AcceptsOneForTwo
    <2> QED
      BY <1>1, <2>6 DEF accepts, cpi_accepts
  <1> QED
    BY <1>3, <1>7 DEF Accepted

(***************************************************************************)
(* A live take of either rail has a proof of the transaction it is, and    *)
(* SPP accepts the exchange: the note it pays with holds the price.        *)
(***************************************************************************)
LEMMA LiveTakeIsAccepted ==
  ASSUME PoolTypeOK, NEW tx, Live(tx), tx.ix \in TakeRails,
         NEW o \in DOMAIN leaves, NEW j \in DOMAIN leaves, TakesOrder(tx, o, j),
         NEW source \in Note, NEW destination \in Note, tx.outs = <<source, destination>>,
         source.data = NoData, source.asset = leaves[o].asset,
         source.amount = leaves[o].amount,
         destination.data = NoData, destination.asset = leaves[o].data.destinationAsset,
         destination.amount = leaves[o].data.destinationAmount
  PROVE  /\ HashOf(tx) = ProvedHash(tx, o, j)
         /\ check_within_window(now, tx.expiry)
         /\ accepts(tx)
  <1>1. /\ OrderAt(o) /\ tx.ins = <<o, j>> /\ leaves[j].owner = tx.payer /\ tx.payer \in Party
        /\ leaves[j].asset = leaves[o].data.destinationAsset
    BY DEF TakesOrder
  <1>2. tx.ins[1] = o /\ tx.ins[2] = j
    BY <1>1
  <1>3. ToSet(tx.ins) \subseteq Unspent /\ now <= tx.expiry
    BY DEF Live
  <1>4. /\ now >= 0 /\ PlainNote(leaves[j])
        /\ leaves[j].amount = leaves[o].data.destinationAmount
    BY <1>2 DEF Live
  <1>5. leaves[j] \in Note
    BY DEF PoolTypeOK
  <1>6. UtxoHash(leaves[j]) = UtxoHash(taker_in(j, Opened(o)))
    BY <1>1, <1>4, <1>5
    DEF PlainNote, UtxoHash, taker_in, destination_output, OutputUtxo, Opened, OrderUtxo, Note
  <1>7. HashOf(tx) = ProvedHash(tx, o, j)
    <2>1. UtxoHash(leaves[o]) = UtxoHash(output_utxo(Opened(o)))
      BY <1>1, OpeningHashes
    <2> QED
      BY <1>1, <1>6, <2>1, HashOfTwo, Zenon DEF ProvedHash
  <1>8. o \in Unspent /\ j \in Unspent
    BY <1>1, <1>3, TwoElements
  <1>9. o # j
    BY <1>1, OwnerAssumption DEF OrderAt
  <1>10. /\ leaves[o].owner \in Signers(tx) \cup {Authority}
         /\ leaves[j].owner \in Signers(tx) \cup {Authority}
    BY <1>1 DEF OrderAt, Signers
  <1>11. Accepts(<<o, j>>, <<source, destination>>, Signers(tx) \cup {Authority}, tx.expiry)
    BY <1>1, <1>3, <1>4, <1>8, <1>9, <1>10, AcceptsTwoForTwo
  <1> QED
    BY <1>1, <1>3, <1>4, <1>7, <1>11 DEF accepts, cpi_accepts, check_within_window

LEMMA LiveDerivedIsAccepted ==
  ASSUME PoolTypeOK, NEW tx, Live(tx),
         NEW o \in DOMAIN leaves, NEW j \in DOMAIN leaves, TakesDerived(tx, o, j)
  PROVE  Accepted(tx)
  <1> DEFINE terms       == leaves[o].data
             source      == OutputUtxo(tx.payer, leaves[o].asset, leaves[o].amount, NoData,
                                       Derived(o, o, 0))
             destination == OutputUtxo(terms.maker, terms.destinationAsset,
                                       terms.destinationAmount, NoData, Derived(o, o, 1))
  <1>1. /\ TakesOrder(tx, o, j) /\ tx.ix = "take" /\ tx.outs = <<source, destination>>
        /\ tx.proof = ProofOf("take", <<ProvedHash(tx, o, j), terms.expiry, o>>)
    BY DEF TakesDerived
  <1>2. /\ terms \in Payload /\ tx.payer \in Party /\ tx.ins[1] = o /\ tx.expiry = terms.expiry
    BY <1>1 DEF TakesOrder, OrderAt
  <1>3. source \in Note /\ destination \in Note
    <2>1. /\ terms.maker \in Party /\ terms.destinationAsset \in Asset
          /\ terms.destinationAmount \in Amount
      BY <1>2, SwapAssumption DEF OrderTerms
    <2>2. leaves[o] \in Note /\ o \in Nat
      BY DEF PoolTypeOK
    <2>3. /\ Derived(o, o, 0) \in Blinding /\ Derived(o, o, 1) \in Blinding
          /\ NoCiphertext \in Ciphertext
      BY <2>2 DEF Derived, Blinding, Ciphertext
    <2> QED
      BY <1>2, <2>1, <2>2, <2>3, DataAssumption DEF OutputUtxo, Note, Owner
  <1>4. /\ source.data = NoData /\ source.asset = leaves[o].asset
        /\ source.amount = leaves[o].amount
        /\ destination.data = NoData /\ destination.asset = terms.destinationAsset
        /\ destination.amount = terms.destinationAmount
    BY DEF OutputUtxo
  <1> HIDE DEF source, destination
  <1>5. tx.ix \in TakeRails
    BY <1>1 DEF TakeRails
  <1>6. HashOf(tx) = ProvedHash(tx, o, j) /\ check_within_window(now, tx.expiry) /\ accepts(tx)
    BY <1>1, <1>3, <1>4, <1>5, LiveTakeIsAccepted
  <1>7. TakeChecks(tx)
    BY <1>1, <1>2, <1>6, ProofVerifies DEF TakeChecks
  <1> QED
    BY <1>6, <1>7 DEF Accepted

LEMMA LiveVerifiableIsAccepted ==
  ASSUME PoolTypeOK, NEW tx, Live(tx),
         NEW o \in DOMAIN leaves, NEW j \in DOMAIN leaves, TakesVerifiable(tx, o, j)
  PROVE  Accepted(tx)
  <1> DEFINE terms       == leaves[o].data
             blinding    == Chosen(tx.payer)
             source      == OutputUtxo(tx.payer, leaves[o].asset, leaves[o].amount, NoData,
                                       blinding)
             destination == Sealed(OutputUtxo(terms.maker, terms.destinationAsset,
                                              terms.destinationAmount, NoData, blinding), o)
             ciphertext  == [key |-> o, opens |-> blinding]
  <1>1. /\ TakesOrder(tx, o, j) /\ tx.ix = "take_verifiable_encryption"
        /\ tx.outs = <<source, destination>>
        /\ tx.proof = ProofOf("take_verifiable_encryption",
                              <<ProvedHash(tx, o, j), terms.expiry, tx.outs[2].ciphertext>>)
    BY DEF TakesVerifiable
  <1>2. /\ terms \in Payload /\ tx.payer \in Party /\ tx.expiry = terms.expiry
    BY <1>1 DEF TakesOrder, OrderAt
  <1>3. destination = [owner |-> terms.maker, asset |-> terms.destinationAsset,
                       amount |-> terms.destinationAmount, data |-> NoData,
                       ring |-> DefaultRing, blinding |-> blinding, ciphertext |-> ciphertext]
    BY DEF Sealed, OutputUtxo
  <1>4. leaves[o] \in Note /\ o \in Nat
    BY DEF PoolTypeOK
  <1>5. blinding \in Blinding /\ ciphertext \in [key : Nat, opens : Blinding]
    BY <1>2, <1>4 DEF Chosen, Blinding
  <1> HIDE DEF blinding, ciphertext
  <1>6. source \in Note /\ destination \in Note
    <2>1. /\ terms.maker \in Party /\ terms.destinationAsset \in Asset
          /\ terms.destinationAmount \in Amount
      BY <1>2, SwapAssumption DEF OrderTerms
    <2>2. NoCiphertext \in Ciphertext /\ ciphertext \in Ciphertext
      BY <1>5 DEF Ciphertext
    <2> QED
      BY <1>2, <1>3, <1>4, <1>5, <2>1, <2>2, DataAssumption DEF OutputUtxo, Note, Owner
  <1>7. /\ source.data = NoData /\ source.asset = leaves[o].asset
        /\ source.amount = leaves[o].amount
        /\ destination.data = NoData /\ destination.asset = terms.destinationAsset
        /\ destination.amount = terms.destinationAmount
        /\ destination.ciphertext = ciphertext
    BY <1>3 DEF OutputUtxo
  <1> HIDE DEF source, destination
  <1>8. tx.outs[2].ciphertext # NoCiphertext
    <2>1. tx.outs[2] = destination
      BY <1>1
    <2> QED
      BY <1>5, <1>7, <2>1, CiphertextAssumption
  <1>9. tx.ix \in TakeRails
    BY <1>1 DEF TakeRails
  <1>10. HashOf(tx) = ProvedHash(tx, o, j) /\ check_within_window(now, tx.expiry) /\ accepts(tx)
    BY <1>1, <1>6, <1>7, <1>9, LiveTakeIsAccepted
  <1>11. TakeVerifiableEncryptionChecks(tx)
    BY <1>1, <1>2, <1>8, <1>10, ProofVerifies DEF TakeVerifiableEncryptionChecks
  <1> QED
    BY <1>10, <1>11 DEF Accepted

\* A live cancel is accepted, whoever relays it.
LEMMA LiveCancelIsAccepted ==
  ASSUME PoolTypeOK, NEW tx, Live(tx), NEW o \in DOMAIN leaves, CancelsOrder(tx, o)
  PROVE  Accepted(tx)
  <1> DEFINE terms  == leaves[o].data
             source == OutputUtxo(terms.maker, leaves[o].asset, leaves[o].amount, NoData,
                                  Chosen(terms.maker))
  <1>1. /\ OrderAt(o) /\ tx.ix = "cancel" /\ tx.ins = <<o>> /\ tx.outs = <<source>>
        /\ tx.maker = terms.maker /\ tx.order_expiry = terms.expiry
        /\ tx.proof = ProofOf("cancel", <<PrivateTxHash(<<output_utxo(Opened(o))>>, tx.outs),
                                          terms.expiry, terms.maker>>)
    BY DEF CancelsOrder
  <1>2. HashOf(tx) = PrivateTxHash(<<output_utxo(Opened(o))>>, tx.outs)
    BY <1>1, OpeningHashes, HashOfOne
  <1>3. tx.ins[1] = o
    BY <1>1
  <1>4. /\ leaves[o] \in Note /\ terms.maker \in Party /\ terms.expiry \in Nat /\ now \in Int
    BY <1>1, SwapAssumption, BoundsAssumption DEF PoolTypeOK, OrderTerms, OrderAt, Expiry
  <1>5. check_after_window(now, tx.order_expiry)
    BY <1>1, <1>3, <1>4 DEF Live, check_after_window
  <1>6. CancelChecks(tx)
    BY <1>1, <1>2, <1>5, ProofVerifies DEF CancelChecks
  <1>7. source \in Note
    <2>1. Chosen(terms.maker) \in Blinding /\ NoCiphertext \in Ciphertext
      BY <1>4 DEF Chosen, Blinding, Ciphertext
    <2> QED
      BY <1>4, <2>1, DataAssumption DEF OutputUtxo, Note, Owner
  <1>8. accepts(tx)
    <2>1. o \in Unspent /\ now <= tx.expiry
      BY <1>1, OneElement DEF Live
    <2>2. /\ source.data = NoData /\ source.asset = leaves[o].asset
          /\ source.amount = leaves[o].amount
      BY DEF OutputUtxo
    <2>3. leaves[o].owner \in Signers(tx) \cup {Authority}
      BY <1>1 DEF OrderAt
    <2> HIDE DEF source
    <2>4. Accepts(<<o>>, <<source>>, Signers(tx) \cup {Authority}, tx.expiry)
      BY <1>7, <2>1, <2>2, <2>3, AcceptsOneForOne
    <2> QED
      BY <1>1, <2>4 DEF accepts, cpi_accepts
  <1> QED
    BY <1>6, <1>8 DEF Accepted

\* What is in flight and live is accepted.
LEMMA LiveIsAccepted ==
  ASSUME ClientInv, NEW tx \in flight, Live(tx)
  PROVE  Accepted(tx)
  <1>1. PoolTypeOK /\ BuiltFromLeaves(tx)
    BY DEF ClientInv, SwapInv, TypeOK, AllBuiltFromLeaves
  <1> QED
    BY <1>1, LiveMakeIsAccepted, LiveDerivedIsAccepted, LiveVerifiableIsAccepted,
       LiveCancelIsAccepted
    DEF BuiltFromLeaves

(***************************************************************************)
(* The SDK's builders, the prover, the circuits, the handlers and SPP      *)
(* agree on everything a transaction is made of: however long it was in    *)
(* flight, MakeChecks, TakeChecks, TakeVerifiableEncryptionChecks or       *)
(* CancelChecks and the transact accept it exactly while its inputs are    *)
(* unspent and its windows open, and a take exactly if the selected note   *)
(* is plain and holds the price, which neither the client nor              *)
(* to_proof_inputs compares.                                               *)
(***************************************************************************)
THEOREM SdkTransactionsLand == ClientSpec => []LandsExactlyWhenLive
  <1>1. ClientInv => LandsExactlyWhenLive
    BY AcceptedIsLive, LiveIsAccepted DEF LandsExactlyWhenLive
  <1> QED
    BY <1>1, ClientInvariant, PTL

\* A transaction that lands was accepted.
LEMMA LandingIsAccepted == \A tx : Land(tx) => Accepted(tx)
  <1> SUFFICES ASSUME NEW tx, Land(tx) PROVE Accepted(tx)
    OBVIOUS
  <1>1. cpi(tx) => accepts(tx)
    BY DEF cpi, accepts, cpi_spp_transact_signed, cpi_accepts, Transact
  <1> QED
    BY <1>1 DEF Land, MakeLands, TakeLands, TakeVerifiableEncryptionLands, CancelLands, Accepted

(***************************************************************************)
(* The same of the steps: a submitted transaction lands only while its     *)
(* inputs are unspent and its windows are open.                            *)
(***************************************************************************)
THEOREM LandsOnlyWhenLive ==
  ClientSpec => [][\A tx \in flight : Land(tx) => Live(tx)]_clientVars
  <1>1. ClientInv => \A tx \in flight : Land(tx) => Live(tx)
    BY LandingIsAccepted, AcceptedIsLive
  <1>2. ClientInv => [\A tx \in flight : Land(tx) => Live(tx)]_clientVars
    BY <1>1
  <1> QED
    BY <1>2, ClientInvariant, PTL
=============================================================================
