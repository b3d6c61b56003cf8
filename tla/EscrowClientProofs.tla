------------------------- MODULE EscrowClientProofs -------------------------
(***************************************************************************)
(* Proofs about EscrowClient: clients that build with the SDK, a prover    *)
(* and a program that only verifies proofs implement EscrowProgram, and    *)
(* they keep the escrows' promise without the assumption the program needs,*)
(* and what a client submits is accepted for as long as it is live.        *)
(*                                                                         *)
(* The inductive invariant describes what may be in flight.  A transaction *)
(* was built from a leaf, and a leaf never changes, so whenever it lands   *)
(* it is still about the note it was built for.                            *)
(***************************************************************************)
EXTENDS EscrowClient, EscrowProofs

\* The proof that is returned for this circuit and public input.
ProofOf(circuit, public) ==
  [circuit |-> circuit, commitment |-> circuit \in Committed, public |-> public]

\* tx locks amount of the PDA's plain leaf i under terms.
LocksNote(tx, i, terms, amount) ==
  /\ PlainNote(leaves[i])
  /\ leaves[i].owner = Authority
  /\ amount <= leaves[i].amount
  /\ tx.ix = "escrow"
  /\ tx.ins = <<i>>
  /\ tx.outs = <<OutputUtxo(terms.owner, leaves[i].asset, leaves[i].amount - amount,
                            NoData, Chosen(terms.owner)),
                 OutputUtxo(Authority, leaves[i].asset, amount, terms, Chosen(terms.owner))>>
  /\ tx.payer = terms.owner
  /\ tx.creator = terms.owner
  /\ tx.expiry = MaxExpiry
  /\ tx.proof = ProofOf("escrow", <<PrivateTxHash(<<leaves[i]>>, tx.outs)>>)

\* tx returns the escrow note at leaf e.
ReturnsNote(tx, e) ==
  LET terms == leaves[e].data
  IN  /\ terms \in Payload
      /\ leaves[e].owner = Authority
      /\ leaves[e].ring = DefaultRing
      /\ leaves[e].amount # 0
      /\ tx.ix = "withdraw"
      /\ tx.ins = <<e>>
      /\ tx.outs = <<OutputUtxo(terms.owner, leaves[e].asset, leaves[e].amount,
                                NoData, Chosen(terms.owner))>>
      /\ tx.payer \in Party
      /\ tx.creator = terms.owner
      /\ tx.expiry \in Expiry
      /\ tx.unlock = terms.unlock
      /\ tx.proof = ProofOf("withdraw", <<PrivateTxHash(<<leaves[e]>>, tx.outs),
                                          terms.unlock, terms.owner>>)

BuiltFromLeaves(tx) ==
  \/ \E i \in DOMAIN leaves, terms \in Payload, amount \in Amount \ {0} :
       LocksNote(tx, i, terms, amount)
  \/ \E e \in DOMAIN leaves : ReturnsNote(tx, e)

AllBuiltFromLeaves == \A tx \in flight : BuiltFromLeaves(tx)

OpeningsOfTerms == \A escrow \in openings : escrow.terms \in Payload

\* No landed escrow spent a note that carries data.
EscrowsSpendPlainNotes ==
  \A i \in DOMAIN nullifiers : nullifiers[i].ix = "escrow" => leaves[i].data = NoData

\* The inductive invariant.
ClientInv ==
  /\ EscrowInv
  /\ AllBuiltFromLeaves
  /\ OpeningsOfTerms
  /\ EscrowsSpendPlainNotes

-----------------------------------------------------------------------------
\* A proof exists only for a witness that satisfies the circuit, and names its
\* public input.
LEMMA ProofsAreSound ==
  ASSUME NEW circuit, NEW satisfied, NEW public, NEW proof \in Prove(circuit, satisfied, public)
  PROVE  satisfied /\ proof = ProofOf(circuit, public)
  BY DEF Prove, ProofOf

\* Leaves that stay as they are keep what is in flight built from them.
LEMMA BuiltKept ==
  ASSUME DOMAIN leaves \subseteq DOMAIN leaves',
         \A k \in DOMAIN leaves : leaves'[k] = leaves[k],
         NEW tx, BuiltFromLeaves(tx)
  PROVE  BuiltFromLeaves(tx)'
  <1>1. CASE \E i \in DOMAIN leaves, terms \in Payload, amount \in Amount \ {0} :
               LocksNote(tx, i, terms, amount)
    <2>1. PICK i \in DOMAIN leaves, terms \in Payload, amount \in Amount \ {0} :
            LocksNote(tx, i, terms, amount)
      BY <1>1
    <2>2. leaves'[i] = leaves[i] /\ i \in DOMAIN leaves'
      OBVIOUS
    <2>3. LocksNote(tx, i, terms, amount)'
      BY <2>1, <2>2 DEF LocksNote
    <2> QED
      BY <2>2, <2>3 DEF BuiltFromLeaves
  <1>2. CASE \E e \in DOMAIN leaves : ReturnsNote(tx, e)
    <2>1. PICK e \in DOMAIN leaves : ReturnsNote(tx, e)
      BY <1>2
    <2>2. leaves'[e] = leaves[e] /\ e \in DOMAIN leaves'
      OBVIOUS
    <2>3. ReturnsNote(tx, e)'
      BY <2>1, <2>2 DEF ReturnsNote
    <2> QED
      BY <2>2, <2>3 DEF BuiltFromLeaves
  <1> QED
    BY <1>1, <1>2 DEF BuiltFromLeaves

\* What SubmitEscrow puts into flight is built from the leaf it spends.
LEMMA SubmitEscrowBuilds ==
  ASSUME PoolTypeOK, NEW i \in Unspent, NEW terms \in Payload, NEW amount \in Amount,
         SubmitEscrow(i, terms, amount)
  PROVE  /\ UNCHANGED vars
         /\ \A tx \in flight' \ flight : BuiltFromLeaves(tx)
         /\ \A escrow \in openings' \ openings : escrow.terms \in Payload
  <1> DEFINE escrow == EscrowUtxo(terms, Chosen(terms.owner), leaves[i].asset, amount)
             change == OutputUtxo(terms.owner, leaves[i].asset, leaves[i].amount - amount,
                                  NoData, Chosen(terms.owner))
  <1>1. PICK proof \in prove_escrow(escrow, change, leaves[i]) :
          Submit(Escrow(i, change, output_utxo(escrow), terms.owner, MaxExpiry, proof))
    BY DEF SubmitEscrow
  <1>2. /\ checkEscrowOutputUtxo(output_utxo(escrow), terms)
        /\ proof = ProofOf("escrow",
                           <<PrivateTxHash(<<leaves[i]>>, <<change, output_utxo(escrow)>>)>>)
    BY ProofsAreSound DEF prove_escrow, EscrowUtxo
  <1>3. amount # 0
    BY <1>2 DEF checkEscrowOutputUtxo, output_utxo, OutputUtxo, EscrowUtxo
  <1>4. output_utxo(escrow)
          = OutputUtxo(Authority, leaves[i].asset, amount, terms, Chosen(terms.owner))
    BY DEF output_utxo, EscrowUtxo
  <1>5. /\ i \in DOMAIN leaves /\ PlainNote(leaves[i]) /\ amount <= leaves[i].amount
        /\ leaves[i].owner = Authority
    <2>1. /\ i \in DOMAIN leaves /\ PlainNote(leaves[i]) /\ leaves[i].amount >= amount
          /\ leaves[i].owner = Authority
      BY DEF SubmitEscrow, FundingNote, Unspent
    <2>2. leaves[i] \in Note
      BY <2>1 DEF PoolTypeOK
    <2>3. leaves[i].amount \in Int /\ amount \in Int
      BY <2>2, BoundsAssumption DEF Note, Amount
    <2> QED
      BY <2>1, <2>3
  <1> DEFINE tx == Escrow(i, change, output_utxo(escrow), terms.owner, MaxExpiry, proof)
  <1>6. LocksNote(tx, i, terms, amount)
    BY <1>2, <1>4, <1>5 DEF LocksNote, Escrow, Transaction
  <1>7. UNCHANGED vars /\ flight' = flight \cup {tx} /\ openings' = openings \cup {escrow}
    BY <1>1 DEF Submit, SubmitEscrow
  <1>8. escrow.terms = terms
    BY DEF EscrowUtxo
  <1> HIDE DEF tx, escrow
  <1> QED
    BY <1>3, <1>5, <1>6, <1>7, <1>8 DEF BuiltFromLeaves

\* What SubmitWithdraw puts into flight returns the escrow note it names.
LEMMA SubmitWithdrawBuilds ==
  ASSUME OpeningsOfTerms,
         NEW payer \in Party, NEW e \in DOMAIN leaves, NEW escrow \in openings,
         NEW deadline \in Expiry, SubmitWithdraw(payer, e, escrow, deadline)
  PROVE  /\ UNCHANGED vars
         /\ \A tx \in flight' \ flight : BuiltFromLeaves(tx)
         /\ UNCHANGED openings
  <1> DEFINE terms  == escrow.terms
             source == source_output(escrow, terms.owner, Chosen(terms.owner))
  <1>1. PICK proof \in prove_withdraw(escrow, source) :
          Submit(Withdraw(e, source, payer, terms.owner, terms.unlock, deadline, proof))
    BY DEF SubmitWithdraw
  <1>2. /\ checkEscrowInputUtxo(output_utxo(escrow), terms)
        /\ proof = ProofOf("withdraw", <<PrivateTxHash(<<output_utxo(escrow)>>, <<source>>),
                                         terms.unlock, source.owner>>)
    BY ProofsAreSound DEF prove_withdraw
  <1>3. terms \in Payload
    BY DEF OpeningsOfTerms
  <1>4. leaves[e] = output_utxo(escrow)
    BY DEF SubmitWithdraw
  <1>5. /\ leaves[e].data = terms /\ leaves[e].ring = DefaultRing
        /\ leaves[e].asset = escrow.asset /\ leaves[e].amount = escrow.amount
        /\ leaves[e].amount # 0 /\ leaves[e].owner = Authority
    BY <1>2, <1>4 DEF output_utxo, OutputUtxo, checkEscrowInputUtxo
  <1>6. /\ source = OutputUtxo(terms.owner, leaves[e].asset, leaves[e].amount, NoData,
                               Chosen(terms.owner))
        /\ source.owner = terms.owner
    BY <1>5 DEF source_output, OutputUtxo
  <1> DEFINE tx == Withdraw(e, source, payer, terms.owner, terms.unlock, deadline, proof)
  <1>7. /\ tx.ix = "withdraw" /\ tx.ins = <<e>> /\ tx.outs = <<source>> /\ tx.payer = payer
        /\ tx.creator = terms.owner /\ tx.expiry = deadline /\ tx.unlock = terms.unlock
        /\ tx.proof = proof
    BY DEF Withdraw, Transaction
  <1> HIDE DEF tx, source
  <1>8. ReturnsNote(tx, e)
    BY <1>2, <1>3, <1>4, <1>5, <1>6, <1>7 DEF ReturnsNote
  <1>9. UNCHANGED vars /\ flight' = flight \cup {tx} /\ UNCHANGED openings
    BY <1>1 DEF Submit, SubmitWithdraw, tx, source
  <1> QED
    BY <1>8, <1>9 DEF BuiltFromLeaves

-----------------------------------------------------------------------------
(***************************************************************************)
(* An escrow that was built from a leaf lands as a step of the program     *)
(* that applies the circuit, and the note it spends is plain.              *)
(***************************************************************************)
LEMMA EscrowLandsAsProgram ==
  ASSUME PoolTypeOK,
         NEW tx, EscrowLands(tx), BuiltFromLeaves(tx)
  PROVE  /\ process_escrow_ix
         /\ \E i \in Unspent, signers \in SignerSets :
              /\ Landed("escrow", {i}, i, tx.outs, signers \cup {Authority})
              /\ leaves[i].data = NoData
  <1>1. tx.ix = "escrow" /\ Cardinality(Landings) < MaxEscrows /\ cpi(tx)
    BY DEF EscrowLands, EscrowChecks
  <1>2. PICK i \in DOMAIN leaves, terms \in Payload, amount \in Amount \ {0} :
          LocksNote(tx, i, terms, amount)
    BY <1>1 DEF BuiltFromLeaves, ReturnsNote
  <1> DEFINE owner   == terms.owner
             escrow  == OutputUtxo(Authority, leaves[i].asset, amount, terms, Chosen(owner))
             change  == OutputUtxo(owner, leaves[i].asset, leaves[i].amount - amount,
                                   NoData, Chosen(owner))
             signers == {owner}
  <1>3. /\ PlainNote(leaves[i]) /\ amount <= leaves[i].amount
        /\ tx.ins = <<i>> /\ tx.outs = <<change, escrow>>
        /\ tx.payer = owner /\ tx.creator = owner /\ tx.expiry = MaxExpiry
    BY <1>2 DEF LocksNote
  <1>4. cpi_spp_transact_signed("escrow", <<i>>, <<change, escrow>>, signers, MaxExpiry)
    <2>1. {tx.payer, tx.creator} = signers
      BY <1>3
    <2> QED
      BY <1>1, <1>3, <2>1 DEF cpi, Signers
  <1>5. owner \in Party /\ signers \in SignerSets
    BY EscrowAssumption, ClientAssumption DEF EscrowTerms
  <1>6. leaves[i] \in Note
    BY DEF PoolTypeOK
  <1>7. leaves[i].amount - amount \in Amount
    BY <1>3, <1>6, BoundsAssumption DEF Note, Amount
  <1>8. /\ escrow \in Outputs(Payload \cup {NoData}, signers)
        /\ change \in Outputs(Payload \cup {NoData}, signers)
    BY <1>5, <1>6, <1>7, DataAssumption DEF OutputUtxo, Outputs, Note, Owner
  <1>9. /\ checkEscrowOutputUtxo(escrow, terms)
        /\ checkChangeOutputUtxo(change, escrow, terms)
    BY DEF OutputUtxo, checkEscrowOutputUtxo, checkChangeOutputUtxo, PlainNote
  <1>10. MaxExpiry \in Expiry
    BY BoundsAssumption DEF Expiry
  <1>11. Landed("escrow", {i}, i, tx.outs, signers \cup {Authority})
    BY <1>3, <1>4, TransactOneInput, Zenon DEF cpi_spp_transact_signed
  <1>12. i \in Unspent
    BY <1>11 DEF Landed
  <1>13. leaves[i].data = NoData
    BY <1>3 DEF PlainNote
  <1> HIDE DEF escrow, change, signers
  <1>14. process_escrow_ix
    BY <1>1, <1>4, <1>5, <1>8, <1>9, <1>10, <1>12, <1>13 DEF process_escrow_ix
  <1> QED
    BY <1>5, <1>11, <1>12, <1>13, <1>14

\* A withdraw that was built from a leaf lands as a step of the program.
LEMMA WithdrawLandsAsProgram ==
  ASSUME PoolTypeOK,
         NEW tx, WithdrawLands(tx), BuiltFromLeaves(tx)
  PROVE  /\ process_withdraw_ix
         /\ \E e \in Unspent, signers \in SignerSets :
              Landed("withdraw", {e}, e, tx.outs, signers \cup {Authority})
  <1>1. tx.ix = "withdraw" /\ check_after_window(now, tx.unlock) /\ cpi(tx)
    BY DEF WithdrawLands, WithdrawChecks
  <1>2. PICK e \in DOMAIN leaves : ReturnsNote(tx, e)
    BY <1>1 DEF BuiltFromLeaves, LocksNote
  <1> DEFINE terms   == leaves[e].data
             owner   == terms.owner
             source  == OutputUtxo(owner, leaves[e].asset, leaves[e].amount, NoData, Chosen(owner))
             signers == {tx.payer, owner}
  <1>3. /\ terms \in Payload /\ leaves[e].ring = DefaultRing /\ leaves[e].amount # 0
        /\ tx.ins = <<e>> /\ tx.outs = <<source>>
        /\ tx.payer \in Party /\ tx.creator = owner /\ tx.expiry \in Expiry
        /\ tx.unlock = terms.unlock
    BY <1>2 DEF ReturnsNote
  <1>4. cpi_spp_transact_signed("withdraw", <<e>>, <<source>>, signers, tx.expiry)
    BY <1>1, <1>3 DEF cpi, Signers
  <1>5. owner \in Party /\ terms.unlock \in Expiry
    BY <1>3, EscrowAssumption DEF EscrowTerms
  <1>6. signers \in SignerSets /\ owner \in signers
    BY <1>3, <1>5, ClientAssumption
  <1>7. leaves[e] \in Note
    BY DEF PoolTypeOK
  <1>8. source \in Outputs({NoData}, signers)
    BY <1>5, <1>7, DataAssumption DEF OutputUtxo, Outputs, Note, Owner
  <1>9. /\ checkEscrowInputUtxo(leaves[e], terms)
        /\ checkOwnerAuthorization(terms, owner)
        /\ checkSourceOutputUtxo(source, leaves[e], terms)
    BY <1>3 DEF OutputUtxo, checkEscrowInputUtxo, checkOwnerAuthorization,
                checkSourceOutputUtxo, PlainNote
  <1>10. Landed("withdraw", {e}, e, tx.outs, signers \cup {Authority})
    BY <1>3, <1>4, TransactOneInput, Zenon DEF cpi_spp_transact_signed
  <1>11. e \in Unspent
    BY <1>10 DEF Landed
  <1>12. terms # NoData
    BY <1>3, DataAssumption
  <1>13. WithdrawEscrow(e)
    <2>1. check_after_window(now, terms.unlock)
      BY <1>1, <1>3
    <2> HIDE DEF source, signers
    <2> QED
      BY <1>3, <1>4, <1>5, <1>6, <1>8, <1>9, <1>12, <2>1, Zenon
      DEF WithdrawEscrow, Withdraws
  <1> QED
    BY <1>6, <1>10, <1>11, <1>13 DEF process_withdraw_ix

-----------------------------------------------------------------------------
\* Every step of the clients is a step of the program or leaves the pool alone.
LEMMA ClientStepSimulates == ClientInv /\ [ClientNext]_clientVars => [Next]_vars
  <1> SUFFICES ASSUME ClientInv, [ClientNext]_clientVars
               PROVE  [Next]_vars
    OBVIOUS
  <1>0. PoolTypeOK /\ OpeningsOfTerms
    BY DEF ClientInv, EscrowInv, TypeOK
  <1>1. ASSUME NEW i \in Unspent, NEW terms \in Payload, NEW amount \in Amount,
               SubmitEscrow(i, terms, amount)
        PROVE  [Next]_vars
    BY <1>0, <1>1, SubmitEscrowBuilds
  <1>2. CASE SubmitWithdraws
    BY <1>0, <1>2, SubmitWithdrawBuilds DEF SubmitWithdraws
  <1>3. ASSUME NEW tx \in flight, Land(tx)
        PROVE  [Next]_vars
    <2>1. BuiltFromLeaves(tx)
      BY DEF ClientInv, AllBuiltFromLeaves
    <2>2. CASE EscrowLands(tx)
      BY <1>0, <2>1, <2>2, EscrowLandsAsProgram DEF Next, process_instruction
    <2>3. CASE WithdrawLands(tx)
      BY <1>0, <2>1, <2>3, WithdrawLandsAsProgram DEF Next, process_instruction
    <2> QED
      BY <1>3, <2>2, <2>3 DEF Land
  <1>4. CASE SppTransfer \/ Tick
    BY <1>4 DEF Next
  <1>5. CASE UNCHANGED clientVars
    BY <1>5 DEF clientVars, vars, poolVars
  <1> QED
    BY <1>1, <1>2, <1>3, <1>4, <1>5 DEF ClientNext

\* The program never changes a leaf that exists.
LEMMA NextKeepsLeaves ==
  ASSUME TypeOK, [Next]_vars
  PROVE  /\ DOMAIN leaves \subseteq DOMAIN leaves'
         /\ \A k \in DOMAIN leaves : leaves'[k] = leaves[k]
  <1>0. PoolTypeOK
    BY DEF TypeOK
  <1>1. ASSUME NEW ix, NEW spends, NEW first, NEW outs \in Seq(Note), NEW signers,
               Landed(ix, spends, first, outs, signers)
        PROVE  /\ DOMAIN leaves \subseteq DOMAIN leaves'
               /\ \A k \in DOMAIN leaves : leaves'[k] = leaves[k]
    <2>1. Kept(outs)
      BY <1>0, <1>1, LandedKeeps, Zenon
    <2> QED
      BY <2>1 DEF Kept
  <1>2. CASE process_escrow_ix
    <2>1. PICK signers \in SUBSET Owner, i \in Unspent, change \in Note, escrow \in Note :
            Landed("escrow", {i}, i, <<change, escrow>>, signers)
      BY <1>2, StepOfEscrow, Zenon
    <2>2. <<change, escrow>> \in Seq(Note)
      OBVIOUS
    <2> QED
      BY <1>1, <2>1, <2>2, Zenon
  <1>3. CASE process_withdraw_ix
    <2>1. PICK signers \in SUBSET Owner, e \in Unspent, source \in Note :
            Landed("withdraw", {e}, e, <<source>>, signers)
      BY <1>3, StepOfWithdraw, Zenon
    <2>2. <<source>> \in Seq(Note)
      OBVIOUS
    <2> QED
      BY <1>1, <2>1, <2>2, Zenon
  <1>4. CASE SppTransfer
    <2>1. PICK signers \in SUBSET Owner, i \in Unspent, n \in Note :
            Landed("transfer", {i}, i, <<n>>, signers)
      BY <1>4, StepOfTransfer, Zenon
    <2>2. <<n>> \in Seq(Note)
      OBVIOUS
    <2> QED
      BY <1>1, <2>1, <2>2, Zenon
  <1>5. CASE Tick \/ UNCHANGED vars
    BY <1>5 DEF Tick, vars, poolVars
  <1> QED
    BY <1>2, <1>3, <1>4, <1>5 DEF Next, process_instruction

(***************************************************************************)
(* A transact keeps EscrowsSpendPlainNotes unless it is an escrow that     *)
(* spends a note with data.                                                *)
(***************************************************************************)
LEMMA LandedSpendsPlain ==
  ASSUME PoolTypeOK, EscrowsSpendPlainNotes,
         \A k \in DOMAIN leaves : leaves'[k] = leaves[k],
         NEW ix, NEW i, NEW outs, NEW signers,
         Landed(ix, {i}, i, outs, signers),
         ix = "escrow" => leaves[i].data = NoData
  PROVE  EscrowsSpendPlainNotes'
  <1> SUFFICES ASSUME NEW k \in DOMAIN nullifiers', nullifiers'[k].ix = "escrow"
               PROVE  leaves'[k].data = NoData
    BY DEF EscrowsSpendPlainNotes
  <1>1. CASE k \in DOMAIN nullifiers
    <2>1. nullifiers'[k] = nullifiers[k] /\ k \in DOMAIN leaves
      BY <1>1 DEF Landed, PoolTypeOK
    <2> QED
      BY <1>1, <2>1 DEF EscrowsSpendPlainNotes
  <1>2. CASE k = i
    <2>1. i \in DOMAIN leaves /\ nullifiers'[i].ix = ix
      BY DEF Landed, Unspent, TheReceipt
    <2> QED
      BY <1>2, <2>1
  <1> QED
    BY <1>1, <1>2 DEF Landed

\* Every step of the clients keeps the invariant.
LEMMA ClientInvStep == ClientInv /\ [ClientNext]_clientVars => ClientInv'
  <1> SUFFICES ASSUME ClientInv, [ClientNext]_clientVars
               PROVE  ClientInv'
    OBVIOUS
  <1>0. /\ EscrowInv /\ TypeOK /\ PoolTypeOK /\ AllBuiltFromLeaves /\ OpeningsOfTerms
        /\ EscrowsSpendPlainNotes
    BY DEF ClientInv, EscrowInv, TypeOK
  <1>1. [Next]_vars
    BY ClientStepSimulates
  <1>2. EscrowInv'
    BY <1>0, <1>1, EscrowInvStep
  <1>3. /\ DOMAIN leaves \subseteq DOMAIN leaves'
        /\ \A k \in DOMAIN leaves : leaves'[k] = leaves[k]
    BY <1>0, <1>1, NextKeepsLeaves
  <1>4. ASSUME \A tx \in flight' \ flight : BuiltFromLeaves(tx)
        PROVE  AllBuiltFromLeaves'
    <2> SUFFICES ASSUME NEW tx \in flight' PROVE BuiltFromLeaves(tx)'
      BY DEF AllBuiltFromLeaves
    <2>1. BuiltFromLeaves(tx)
      BY <1>0, <1>4 DEF AllBuiltFromLeaves
    <2> QED
      BY <1>3, <2>1, BuiltKept
  <1>5. ASSUME UNCHANGED vars
        PROVE  EscrowsSpendPlainNotes'
    BY <1>0, <1>5 DEF EscrowsSpendPlainNotes, vars, poolVars
  <1>6. ASSUME NEW i \in Unspent, NEW terms \in Payload, NEW amount \in Amount,
               SubmitEscrow(i, terms, amount)
        PROVE  ClientInv'
    <2>1. /\ UNCHANGED vars
          /\ \A tx \in flight' \ flight : BuiltFromLeaves(tx)
          /\ \A escrow \in openings' \ openings : escrow.terms \in Payload
      BY <1>0, <1>6, SubmitEscrowBuilds
    <2>2. OpeningsOfTerms'
      BY <1>0, <2>1 DEF OpeningsOfTerms
    <2> QED
      BY <1>2, <1>4, <1>5, <2>1, <2>2 DEF ClientInv
  <1>7. CASE SubmitWithdraws
    <2>1. PICK payer \in Party, e \in DOMAIN leaves, escrow \in openings, deadline \in Expiry :
            SubmitWithdraw(payer, e, escrow, deadline)
      BY <1>7 DEF SubmitWithdraws
    <2>2. /\ UNCHANGED vars
          /\ \A tx \in flight' \ flight : BuiltFromLeaves(tx)
          /\ UNCHANGED openings
      BY <1>0, <2>1, SubmitWithdrawBuilds
    <2>3. OpeningsOfTerms'
      BY <1>0, <2>2 DEF OpeningsOfTerms
    <2> QED
      BY <1>2, <1>4, <1>5, <2>2, <2>3 DEF ClientInv
  <1>8. ASSUME UNCHANGED <<flight, openings>>
        PROVE  AllBuiltFromLeaves' /\ OpeningsOfTerms'
    <2>1. AllBuiltFromLeaves'
      BY <1>4, <1>8
    <2>2. OpeningsOfTerms'
      BY <1>0, <1>8 DEF OpeningsOfTerms
    <2> QED
      BY <2>1, <2>2
  <1>9. ASSUME NEW tx \in flight, Land(tx)
        PROVE  ClientInv'
    <2>1. BuiltFromLeaves(tx)
      BY <1>0 DEF AllBuiltFromLeaves
    <2>2. EscrowsSpendPlainNotes'
      <3>1. CASE EscrowLands(tx)
        <4>1. PICK i \in Unspent, signers \in SignerSets :
                /\ Landed("escrow", {i}, i, tx.outs, signers \cup {Authority})
                /\ leaves[i].data = NoData
          BY <1>0, <2>1, <3>1, EscrowLandsAsProgram, Zenon
        <4> QED
          BY <1>0, <1>3, <4>1, LandedSpendsPlain, Zenon
      <3>2. CASE WithdrawLands(tx)
        <4>1. PICK e \in Unspent, signers \in SignerSets :
                Landed("withdraw", {e}, e, tx.outs, signers \cup {Authority})
          BY <1>0, <2>1, <3>2, WithdrawLandsAsProgram, Zenon
        <4>2. "withdraw" # "escrow"
          OBVIOUS
        <4> QED
          BY <1>0, <1>3, <4>1, <4>2, LandedSpendsPlain, Zenon
      <3> QED
        BY <1>9, <3>1, <3>2 DEF Land
    <2>3. UNCHANGED <<flight, openings>>
      BY <1>9 DEF Land
    <2> QED
      BY <1>2, <1>8, <2>2, <2>3 DEF ClientInv
  <1>10. CASE SppTransfer /\ UNCHANGED <<flight, openings>>
    <2>1. PICK signers \in SUBSET Owner, i \in Unspent, n \in Note :
            Landed("transfer", {i}, i, <<n>>, signers)
      BY <1>0, <1>10, StepOfTransfer, Zenon
    <2>2. "transfer" # "escrow"
      OBVIOUS
    <2>3. EscrowsSpendPlainNotes'
      BY <1>0, <1>3, <2>1, <2>2, LandedSpendsPlain, Zenon
    <2> QED
      BY <1>2, <1>8, <1>10, <2>3 DEF ClientInv
  <1>11. CASE Tick /\ UNCHANGED <<flight, openings>>
    <2>1. EscrowsSpendPlainNotes'
      BY <1>0, <1>11 DEF EscrowsSpendPlainNotes, Tick
    <2> QED
      BY <1>2, <1>8, <1>11, <2>1 DEF ClientInv
  <1>12. CASE UNCHANGED clientVars
    <2>1. UNCHANGED vars /\ UNCHANGED <<flight, openings>>
      BY <1>12 DEF clientVars, vars, poolVars
    <2> QED
      BY <1>2, <1>5, <1>8, <2>1 DEF ClientInv
  <1> QED
    BY <1>6, <1>7, <1>9, <1>10, <1>11, <1>12 DEF ClientNext

(***************************************************************************)
(* Whatever is in flight was built from a leaf that is still there, the    *)
(* openings hold terms, and escrows spend plain notes only: SubmitEscrow   *)
(* asks for a plain source, as the repository's tests do.                  *)
(***************************************************************************)
THEOREM ClientInvariant == ClientSpec => []ClientInv
  <1>1. ClientInit => ClientInv
    <2> SUFFICES ASSUME ClientInit PROVE ClientInv
      OBVIOUS
    <2>1. PoolTypeOK /\ DOMAIN nullifiers = {}
      BY PoolInitType DEF ClientInit, Init, PoolInit
    <2> QED
      BY <2>1 DEF ClientInit, ClientInv, EscrowInv, TypeOK, AllAccounted, AllBuiltFromLeaves,
                  OpeningsOfTerms, EscrowsSpendPlainNotes
  <1> QED
    BY <1>1, ClientInvStep, PTL DEF ClientSpec

(***************************************************************************)
(* The clients, the SDK's proof builders, the prover and the handlers that *)
(* only call verify_groth16 implement the program that applies the         *)
(* circuits to the notes: a transaction that lands late or twice does      *)
(* nothing the program does not allow at that moment.                      *)
(***************************************************************************)
THEOREM ClientImplementsProgram == ClientSpec => ImplementsProgram
  <1>1. ClientInit => Init
    BY DEF ClientInit
  <1> QED
    BY <1>1, ClientInvariant, ClientStepSimulates, PTL DEF ClientSpec, ImplementsProgram, Spec

(***************************************************************************)
(* Behind the SDK locked funds move only by their owner's withdraw after   *)
(* unlock, whatever EscrowsFundEscrows allows: process_escrow_ix would     *)
(* sign for an escrow note as its source, but no client submits one.       *)
(***************************************************************************)
THEOREM SdkMovesEscrowsByWithdraw == ClientSpec => []EscrowsMoveOnlyByWithdraw
  <1>1. ClientInv => EscrowsMoveOnlyByWithdraw
    <2> SUFFICES ASSUME ClientInv, NEW e \in Escrows \cap DOMAIN nullifiers
                 PROVE  WithdrawnAsCommitted(e)
      BY DEF EscrowsMoveOnlyByWithdraw
    <2>1. Outcome(e)
      BY DEF ClientInv, EscrowInv, AllAccounted
    <2>2. ~SpentByEscrow(e)
      BY DEF ClientInv, EscrowsSpendPlainNotes, SpentByEscrow, Escrows
    <2> QED
      BY <2>1, <2>2 DEF Outcome
  <1> QED
    BY <1>1, ClientInvariant, PTL

-----------------------------------------------------------------------------
(***************************************************************************)
(* What is in flight is accepted exactly while it is live.                 *)
(***************************************************************************)
\* What a transaction that is accepted depends on holds at that moment.
LEMMA AcceptedIsLive ==
  ASSUME ClientInv, NEW tx \in flight, Accepted(tx)
  PROVE  Live(tx)
  <1>0. BuiltFromLeaves(tx)
    BY DEF ClientInv, AllBuiltFromLeaves
  <1>1. accepts(tx)
    BY DEF Accepted
  <1>2. ToSet(tx.ins) \subseteq Unspent /\ now <= tx.expiry
    BY <1>1 DEF accepts, cpi_accepts, Accepts
  <1>3. CASE EscrowChecks(tx)
    BY <1>2, <1>3 DEF EscrowChecks, Live
  <1>4. CASE WithdrawChecks(tx)
    <2>1. PICK e \in DOMAIN leaves : ReturnsNote(tx, e)
      BY <1>0, <1>4 DEF WithdrawChecks, BuiltFromLeaves, LocksNote
    <2>2. tx.ins[1] = e /\ now > leaves[e].data.unlock
      BY <1>4, <2>1 DEF WithdrawChecks, ReturnsNote, check_after_window
    <2> QED
      BY <1>2, <1>4, <2>2 DEF WithdrawChecks, Live
  <1> QED
    BY <1>3, <1>4 DEF Accepted

\* The hash the program computes of a transaction that spends one leaf.
LEMMA HashOfOne ==
  ASSUME NEW tx, NEW i, tx.ins = <<i>>
  PROVE  HashOf(tx) = PrivateTxHash(<<leaves[i]>>, tx.outs)
  <1> DEFINE spent == [k \in DOMAIN tx.ins |-> leaves[tx.ins[k]]]
             note  == <<leaves[i]>>
  <1>1. /\ DOMAIN note = {1} /\ note[1] = leaves[i]
        /\ DOMAIN spent = {1} /\ spent[1] = leaves[i]
    OBVIOUS
  <1> HIDE DEF spent, note
  <1>2. [k \in DOMAIN spent |-> UtxoHash(spent[k])] = [k \in DOMAIN note |-> UtxoHash(note[k])]
    BY <1>1
  <1> QED
    BY <1>2 DEF HashOf, PrivateTxHash, spent, note

\* A verified proof is the one the client was given.
LEMMA ProofVerifies ==
  ASSUME NEW circuit, NEW public
  PROVE  verify_groth16(ProofOf(circuit, public), circuit, public)
  BY DEF verify_groth16, ProofOf

\* A live escrow is accepted.
LEMMA LiveEscrowIsAccepted ==
  ASSUME PoolTypeOK, NEW tx, Live(tx),
         NEW i \in DOMAIN leaves, NEW terms \in Payload, NEW amount \in Amount \ {0},
         LocksNote(tx, i, terms, amount)
  PROVE  Accepted(tx)
  <1> DEFINE owner  == terms.owner
             escrow == OutputUtxo(Authority, leaves[i].asset, amount, terms, Chosen(owner))
             change == OutputUtxo(owner, leaves[i].asset, leaves[i].amount - amount,
                                  NoData, Chosen(owner))
  <1>1. /\ leaves[i].owner = Authority /\ amount <= leaves[i].amount
        /\ tx.ix = "escrow" /\ tx.ins = <<i>> /\ tx.outs = <<change, escrow>>
        /\ tx.expiry = MaxExpiry
        /\ tx.proof = ProofOf("escrow", <<PrivateTxHash(<<leaves[i]>>, tx.outs)>>)
    BY DEF LocksNote
  <1>2. EscrowChecks(tx)
    BY <1>1, HashOfOne, ProofVerifies DEF Live, EscrowChecks
  <1>3. leaves[i] \in Note /\ owner \in Party
    BY EscrowAssumption DEF PoolTypeOK, EscrowTerms
  <1>4. leaves[i].amount - amount \in Amount
    BY <1>1, <1>3, BoundsAssumption DEF Note, Amount
  <1>5. escrow \in Note /\ change \in Note
    <2>1. Chosen(owner) \in Blinding /\ NoCiphertext \in Ciphertext
      BY <1>3 DEF Chosen, Blinding, Ciphertext
    <2> QED
      BY <1>3, <1>4, <2>1, DataAssumption DEF OutputUtxo, Note, Owner
  <1>6. accepts(tx)
    <2>1. i \in Unspent /\ now <= MaxExpiry
      BY <1>1, OneElement DEF Live
    <2>2. leaves[i].amount = (leaves[i].amount - amount) + amount
      BY <1>3, BoundsAssumption DEF Note, Amount
    <2>3. /\ change.data = NoData /\ change.asset = leaves[i].asset
          /\ change.amount = leaves[i].amount - amount
          /\ escrow.owner = leaves[i].owner /\ escrow.asset = leaves[i].asset
          /\ escrow.amount = amount
      BY <1>1 DEF OutputUtxo
    <2>4. leaves[i].owner \in Signers(tx) \cup {Authority}
      BY <1>1
    <2>5. leaves[i].amount = change.amount + escrow.amount
      BY <2>2, <2>3
    <2> HIDE DEF escrow, change
    <2>6. Accepts(<<i>>, <<change, escrow>>, Signers(tx) \cup {Authority}, MaxExpiry)
      BY <1>5, <2>1, <2>3, <2>4, <2>5, AcceptsOneForTwo
    <2> QED
      BY <1>1, <2>6 DEF accepts, cpi_accepts
  <1> QED
    BY <1>2, <1>6 DEF Accepted

\* A live withdraw is accepted, whoever relays it.
LEMMA LiveWithdrawIsAccepted ==
  ASSUME PoolTypeOK, NEW tx, Live(tx), NEW e \in DOMAIN leaves, ReturnsNote(tx, e)
  PROVE  Accepted(tx)
  <1> DEFINE terms  == leaves[e].data
             source == OutputUtxo(terms.owner, leaves[e].asset, leaves[e].amount, NoData,
                                  Chosen(terms.owner))
  <1>1. /\ terms \in Payload /\ leaves[e].owner = Authority
        /\ tx.ix = "withdraw" /\ tx.ins = <<e>> /\ tx.outs = <<source>>
        /\ tx.creator = terms.owner /\ tx.unlock = terms.unlock
        /\ tx.proof = ProofOf("withdraw", <<PrivateTxHash(<<leaves[e]>>, tx.outs),
                                            terms.unlock, terms.owner>>)
    BY DEF ReturnsNote
  <1>2. tx.ins[1] = e
    BY <1>1
  <1>3. leaves[e] \in Note /\ terms.owner \in Party /\ terms.unlock \in Nat /\ now \in Int
    BY <1>1, EscrowAssumption, BoundsAssumption DEF PoolTypeOK, EscrowTerms, Expiry
  <1>4. check_after_window(now, tx.unlock)
    BY <1>1, <1>2, <1>3 DEF Live, check_after_window
  <1>5. WithdrawChecks(tx)
    BY <1>1, <1>4, HashOfOne, ProofVerifies DEF WithdrawChecks
  <1>6. source \in Note
    <2>1. Chosen(terms.owner) \in Blinding /\ NoCiphertext \in Ciphertext
      BY <1>3 DEF Chosen, Blinding, Ciphertext
    <2> QED
      BY <1>3, <2>1, DataAssumption DEF OutputUtxo, Note, Owner
  <1>7. accepts(tx)
    <2>1. e \in Unspent /\ now <= tx.expiry
      BY <1>1, OneElement DEF Live
    <2>2. /\ source.data = NoData /\ source.asset = leaves[e].asset
          /\ source.amount = leaves[e].amount
      BY DEF OutputUtxo
    <2>3. leaves[e].owner \in Signers(tx) \cup {Authority}
      BY <1>1
    <2> HIDE DEF source
    <2>4. Accepts(<<e>>, <<source>>, Signers(tx) \cup {Authority}, tx.expiry)
      BY <1>6, <2>1, <2>2, <2>3, AcceptsOneForOne
    <2> QED
      BY <1>1, <2>4 DEF accepts, cpi_accepts
  <1> QED
    BY <1>5, <1>7 DEF Accepted

\* What is in flight and live is accepted.
LEMMA LiveIsAccepted ==
  ASSUME ClientInv, NEW tx \in flight, Live(tx)
  PROVE  Accepted(tx)
  <1>1. PoolTypeOK /\ BuiltFromLeaves(tx)
    BY DEF ClientInv, EscrowInv, TypeOK, AllBuiltFromLeaves
  <1> QED
    BY <1>1, LiveEscrowIsAccepted, LiveWithdrawIsAccepted DEF BuiltFromLeaves

(***************************************************************************)
(* The SDK's builders, the prover, the circuits, the handlers and SPP      *)
(* agree on everything a transaction is made of: however long it was in    *)
(* flight, EscrowChecks or WithdrawChecks and the transact accept it       *)
(* exactly while its input is unspent and its relayer deadline has not     *)
(* passed, and a withdraw only after the unlock time of its note.          *)
(***************************************************************************)
THEOREM SdkTransactionsLand == ClientSpec => []LandsExactlyWhenLive
  <1>1. ClientInv => LandsExactlyWhenLive
    BY AcceptedIsLive, LiveIsAccepted DEF LandsExactlyWhenLive
  <1> QED
    BY <1>1, ClientInvariant, PTL

\* A transaction that lands was accepted.
LEMMA LandingIsAccepted == \A tx : Land(tx) => Accepted(tx)
  <1> SUFFICES ASSUME NEW tx, Land(tx) PROVE Accepted(tx)
    OBVIOUS
  <1>1. cpi(tx) => accepts(tx)
    BY DEF cpi, accepts, cpi_spp_transact_signed, cpi_accepts, Transact
  <1> QED
    BY <1>1 DEF Land, EscrowLands, WithdrawLands, Accepted

(***************************************************************************)
(* The same of the steps: a submitted transaction lands only while its     *)
(* input is unspent and its relayer deadline has not passed, and a         *)
(* withdraw only after the unlock time of the note it spends.              *)
(***************************************************************************)
THEOREM LandsOnlyWhenLive ==
  ClientSpec => [][\A tx \in flight : Land(tx) => Live(tx)]_clientVars
  <1>1. ClientInv => \A tx \in flight : Land(tx) => Live(tx)
    BY LandingIsAccepted, AcceptedIsLive
  <1>2. ClientInv => [\A tx \in flight : Land(tx) => Live(tx)]_clientVars
    BY <1>1
  <1> QED
    BY <1>2, ClientInvariant, PTL
=============================================================================
