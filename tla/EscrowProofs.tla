---------------------------- MODULE EscrowProofs ----------------------------
(***************************************************************************)
(* Proofs about EscrowProgram, for every set of wallets, assets and terms. *)
(* The inductive invariant says of every spent escrow note that its owner  *)
(* withdrew it as committed, or that an escrow which was allowed to spend  *)
(* it did.                                                                 *)
(***************************************************************************)
EXTENDS EscrowProgram, PoolProofs

SpentByEscrow(e) == nullifiers[e].ix = "escrow" /\ EscrowsFundEscrows

Outcome(e) == WithdrawnAsCommitted(e) \/ SpentByEscrow(e)

AllAccounted == \A e \in Escrows \cap DOMAIN nullifiers : Outcome(e)

\* The inductive invariant.
EscrowInv == TypeOK /\ AllAccounted

\* The note can be locked as an escrow, and then returned.
Lockable(n) == checkEscrowInputUtxo(n, n.data)

\* Every escrow note is one that withdraw accepts as its input.
EscrowsWellFormed == \A e \in Escrows : Lockable(leaves[e])

\* The step accounts for every escrow note among the leaves it spends.
Accounts(spends) == \A e \in spends : e \in Escrows => Outcome(e)'

-----------------------------------------------------------------------------
\* The notes a client may submit are notes.
LEMMA OutputsAreNotes ==
  ASSUME NEW signers \in SUBSET Party, NEW data \in SUBSET (Payload \cup {NoData})
  PROVE  Outputs(data, signers) \subseteq Note
  <1>1. {Chosen(p) : p \in signers} \subseteq Blinding
    BY DEF Chosen, Blinding
  <1>2. NoCiphertext \in Ciphertext
    BY DEF Ciphertext
  <1> QED
    BY <1>1, <1>2 DEF Outputs, Note

(***************************************************************************)
(* escrow: one note is spent, an escrow note only if that is allowed.      *)
(***************************************************************************)
LEMMA StepOfEscrow ==
  ASSUME TypeOK, process_escrow_ix
  PROVE  \E signers \in SUBSET Owner, i \in Unspent, change \in Note, escrow \in Note :
           /\ Landed("escrow", {i}, i, <<change, escrow>>, signers)
           /\ leaves[i].data # NoData => EscrowsFundEscrows
           /\ PlainNote(change) /\ Lockable(escrow)
  <1>1. PICK signers \in SignerSets, i \in Unspent, terms \in Payload :
          /\ leaves[i].data # NoData => EscrowsFundEscrows
          /\ \E escrow \in Outputs(Payload \cup {NoData}, signers),
                change \in Outputs(Payload \cup {NoData}, signers), expiry \in Expiry :
               /\ checkEscrowOutputUtxo(escrow, terms)
               /\ checkChangeOutputUtxo(change, escrow, terms)
               /\ Transact("escrow", <<i>>, <<change, escrow>>, signers \cup {Authority}, expiry)
    BY DEF process_escrow_ix, cpi_spp_transact_signed
  <1>2. PICK escrow \in Outputs(Payload \cup {NoData}, signers),
             change \in Outputs(Payload \cup {NoData}, signers), expiry \in Expiry :
          /\ checkEscrowOutputUtxo(escrow, terms)
          /\ checkChangeOutputUtxo(change, escrow, terms)
          /\ Transact("escrow", <<i>>, <<change, escrow>>, signers \cup {Authority}, expiry)
    BY <1>1
  <1>3. signers \in SUBSET Party /\ signers \cup {Authority} \in SUBSET Owner
    BY EscrowAssumption DEF Owner
  <1>4. change \in Note /\ escrow \in Note
    BY <1>3, OutputsAreNotes
  <1>5. Landed("escrow", {i}, i, <<change, escrow>>, signers \cup {Authority})
    BY <1>2, TransactOneInput, Zenon
  <1>6. PlainNote(change) /\ Lockable(escrow)
    BY <1>2 DEF checkEscrowOutputUtxo, checkChangeOutputUtxo, Lockable, checkEscrowInputUtxo
  <1> QED
    BY <1>1, <1>3, <1>4, <1>5, <1>6

(***************************************************************************)
(* withdraw: one escrow note is spent, and it is returned as committed.    *)
(***************************************************************************)
LEMMA StepOfWithdraw ==
  ASSUME TypeOK, process_withdraw_ix
  PROVE  \E signers \in SUBSET Owner, e \in Unspent, source \in Note :
           /\ Landed("withdraw", {e}, e, <<source>>, signers)
           /\ WithdrawnAsCommitted(e)'
           /\ PlainNote(source)
  <1>1. PICK e \in Unspent, signers \in SignerSets :
          \E owner \in signers, unlock \in Expiry :
            /\ check_after_window(now, unlock)
            /\ checkOwnerAuthorization(leaves[e].data, owner)
            /\ leaves[e].data.unlock = unlock
            /\ \E source \in Outputs({NoData}, signers) :
                 /\ checkSourceOutputUtxo(source, leaves[e], leaves[e].data)
                 /\ \E expiry \in Expiry :
                      Transact("withdraw", <<e>>, <<source>>, signers \cup {Authority}, expiry)
    BY DEF process_withdraw_ix, WithdrawEscrow, Withdraws, cpi_spp_transact_signed
  <1>2. PICK owner \in signers, unlock \in Expiry, source \in Outputs({NoData}, signers),
             expiry \in Expiry :
          /\ check_after_window(now, unlock)
          /\ checkOwnerAuthorization(leaves[e].data, owner)
          /\ leaves[e].data.unlock = unlock
          /\ checkSourceOutputUtxo(source, leaves[e], leaves[e].data)
          /\ Transact("withdraw", <<e>>, <<source>>, signers \cup {Authority}, expiry)
    BY <1>1
  <1> DEFINE outs == <<source>>
             all  == signers \cup {Authority}
             out  == Len(leaves) + 1
  <1>3. signers \in SUBSET Party /\ all \in SUBSET Owner
    BY EscrowAssumption DEF Owner
  <1>4. source \in Note
    BY <1>3, OutputsAreNotes
  <1>5. Landed("withdraw", {e}, e, outs, all)
    BY <1>2, TransactOneInput, Zenon
  <1>6. /\ \A k \in DOMAIN leaves : leaves'[k] = leaves[k]
        /\ out \in DOMAIN leaves' /\ leaves'[out] = source
    <2>1. outs \in Seq(Note) /\ 1 \in DOMAIN outs /\ outs[1] = source
      BY <1>4
    <2> HIDE DEF outs, all
    <2>2. Kept(outs)
      BY <1>5, <2>1, LandedKeeps, Zenon DEF TypeOK
    <2> QED
      BY <2>1, <2>2 DEF Kept
  <1>7. nullifiers'[e] = TheReceipt("withdraw", e, all)
    BY <1>5 DEF Landed
  <1>8. e \in DOMAIN leaves
    BY DEF Unspent
  <1>9. WithdrawnAsCommitted(e)'
    BY <1>2, <1>6, <1>7, <1>8
    DEF WithdrawnAsCommitted, TheReceipt, checkSourceOutputUtxo, checkOwnerAuthorization,
        check_after_window, PlainNote
  <1>10. PlainNote(source)
    BY <1>2 DEF checkSourceOutputUtxo
  <1> QED
    BY <1>3, <1>4, <1>5, <1>9, <1>10

(***************************************************************************)
(* A transfer outside the program cannot spend a note of the PDA, nor can  *)
(* it give the PDA a note that carries data.                               *)
(***************************************************************************)
LEMMA StepOfTransfer ==
  ASSUME TypeOK, SppTransfer
  PROVE  \E signers \in SUBSET Owner, i \in Unspent, n \in Note :
           /\ Landed("transfer", {i}, i, <<n>>, signers)
           /\ leaves[i].owner # Authority
           /\ n.data # NoData => n.owner # Authority
  <1>1. PICK p \in Party, i \in Unspent : \E n \in TransferOutputs(p, i) :
          Transact("transfer", <<i>>, <<n>>, {p}, MaxExpiry)
    BY DEF SppTransfer, Transfer
  <1>2. PICK n \in TransferOutputs(p, i) : Transact("transfer", <<i>>, <<n>>, {p}, MaxExpiry)
    BY <1>1
  <1>3. n \in Note
    BY TransferOutputsAreNotes DEF TypeOK
  <1>4. /\ Landed("transfer", {i}, i, <<n>>, {p})
        /\ leaves[i].owner \in {p}
        /\ \A x \in ToSet(<<n>>) : x.data # NoData => leaves[i].owner = x.owner
    BY <1>2, TransactOneInput, Zenon
  <1>5. {p} \in SUBSET Owner
    BY DEF Owner
  <1>6. n \in ToSet(<<n>>)
    BY OneElement
  <1>7. leaves[i].owner # Authority
    BY <1>4, OwnerAssumption
  <1>8. n.data # NoData => n.owner # Authority
    BY <1>4, <1>6, <1>7
  <1> QED
    BY <1>3, <1>4, <1>5, <1>7, <1>8

-----------------------------------------------------------------------------
\* The end of an escrow note is recorded for good.
LEMMA OutcomeKept ==
  ASSUME PoolTypeOK,
         DOMAIN leaves \subseteq DOMAIN leaves',
         \A k \in DOMAIN leaves : leaves'[k] = leaves[k],
         \A k \in DOMAIN nullifiers : nullifiers'[k] = nullifiers[k],
         NEW e \in DOMAIN nullifiers, Outcome(e)
  PROVE  Outcome(e)'
  <1>1. leaves'[e] = leaves[e] /\ nullifiers'[e] = nullifiers[e]
    BY DEF PoolTypeOK
  <1>2. CASE WithdrawnAsCommitted(e)
    <2>1. nullifiers[e].out \in DOMAIN leaves
      BY <1>2 DEF WithdrawnAsCommitted
    <2> QED
      BY <1>1, <1>2, <2>1 DEF WithdrawnAsCommitted, PlainNote, Outcome
  <1>3. CASE SpentByEscrow(e)
    BY <1>1, <1>3 DEF SpentByEscrow, Outcome
  <1> QED
    BY <1>2, <1>3 DEF Outcome

\* A transact keeps the invariant if it ends well every escrow note it spends.
LEMMA LandedInv ==
  ASSUME EscrowInv,
         NEW ix \in Instruction, NEW spends, NEW first, NEW outs \in Seq(Note),
         NEW signers \in SUBSET Owner,
         Landed(ix, spends, first, outs, signers),
         Accounts(spends)
  PROVE  EscrowInv'
  <1>0. PoolTypeOK
    BY DEF EscrowInv, TypeOK
  <1>1. PoolTypeOK'
    BY <1>0, LandedType, Zenon
  <1>2. Kept(outs)
    BY <1>0, LandedKeeps, Zenon
  <1>3. ASSUME NEW e \in (Escrows \cap DOMAIN nullifiers)'
        PROVE  Outcome(e)'
    <2>1. e \in DOMAIN leaves /\ leaves'[e] = leaves[e]
      BY <1>2 DEF Kept
    <2>2. e \in Escrows
      BY <2>1 DEF Escrows
    <2>3. e \in DOMAIN nullifiers \/ e \in spends
      BY DEF Landed
    <2>4. CASE e \in DOMAIN nullifiers
      <3>1. Outcome(e)
        BY <2>2, <2>4 DEF EscrowInv, AllAccounted
      <3> QED
        BY <1>0, <1>2, <2>4, <3>1, OutcomeKept DEF Kept
    <2> QED
      BY <2>2, <2>3, <2>4 DEF Accounts
  <1> QED
    BY <1>1, <1>3 DEF AllAccounted, EscrowInv, TypeOK

\* Every step keeps the invariant.
LEMMA EscrowInvStep == EscrowInv /\ [Next]_vars => EscrowInv'
  <1> SUFFICES ASSUME EscrowInv, [Next]_vars
               PROVE  EscrowInv'
    OBVIOUS
  <1>0. TypeOK /\ PoolTypeOK
    BY DEF EscrowInv, TypeOK
  <1>1. CASE process_escrow_ix
    <2>1. PICK signers \in SUBSET Owner, i \in Unspent, change \in Note, escrow \in Note :
            /\ Landed("escrow", {i}, i, <<change, escrow>>, signers)
            /\ leaves[i].data # NoData => EscrowsFundEscrows
      BY <1>0, <1>1, StepOfEscrow, Zenon
    <2>2. Accounts({i})
      BY <2>1 DEF Landed, TheReceipt, Escrows, Outcome, SpentByEscrow, Accounts
    <2>3. <<change, escrow>> \in Seq(Note) /\ "escrow" \in Instruction
      BY DEF Instruction
    <2> QED
      BY <2>1, <2>2, <2>3, LandedInv, Zenon
  <1>2. CASE process_withdraw_ix
    <2>1. PICK signers \in SUBSET Owner, e \in Unspent, source \in Note :
            /\ Landed("withdraw", {e}, e, <<source>>, signers)
            /\ WithdrawnAsCommitted(e)'
      BY <1>0, <1>2, StepOfWithdraw, Zenon
    <2>2. Accounts({e})
      BY <2>1 DEF Outcome, Accounts
    <2>3. <<source>> \in Seq(Note) /\ "withdraw" \in Instruction
      BY DEF Instruction
    <2> QED
      BY <2>1, <2>2, <2>3, LandedInv, Zenon
  <1>3. CASE SppTransfer
    <2>1. PICK signers \in SUBSET Owner, i \in Unspent, n \in Note :
            /\ Landed("transfer", {i}, i, <<n>>, signers)
            /\ leaves[i].owner # Authority
      BY <1>0, <1>3, StepOfTransfer, Zenon
    <2>2. Accounts({i})
      BY <2>1 DEF Escrows, Accounts
    <2>3. <<n>> \in Seq(Note) /\ "transfer" \in Instruction
      BY DEF Instruction
    <2> QED
      BY <2>1, <2>2, <2>3, LandedInv, Zenon
  <1>4. CASE Tick \/ UNCHANGED vars
    <2>1. UNCHANGED <<leaves, nullifiers>>
      BY <1>4 DEF Tick, vars, poolVars
    <2>2. PoolTypeOK'
      BY <1>0, <1>4, TickType DEF vars, poolVars, PoolTypeOK
    <2>3. AllAccounted'
      <3> SUFFICES ASSUME NEW e \in (Escrows \cap DOMAIN nullifiers)'
                   PROVE  Outcome(e)'
        BY DEF AllAccounted
      <3>1. e \in Escrows \cap DOMAIN nullifiers
        BY <2>1 DEF Escrows
      <3>2. Outcome(e)
        BY <3>1 DEF EscrowInv, AllAccounted
      <3> QED
        BY <1>0, <2>1, <3>1, <3>2, OutcomeKept
    <2> QED
      BY <2>2, <2>3 DEF EscrowInv, TypeOK
  <1> QED
    BY <1>1, <1>2, <1>3, <1>4 DEF Next, process_instruction

\* The inductive invariant holds throughout.
THEOREM EscrowInvariant == Spec => []EscrowInv
  <1>1. Init => EscrowInv
    BY PoolInitType DEF Init, PoolInit, EscrowInv, AllAccounted, TypeOK
  <1> QED
    BY <1>1, EscrowInvStep, PTL DEF Spec

(***************************************************************************)
(* The tree and the receipts keep their types: whatever process_escrow_ix, *)
(* process_withdraw_ix and wallets land, a receipt names an instruction, a *)
(* time, leaves of the tree and signers.                                   *)
(***************************************************************************)
THEOREM EscrowTypeCorrect == Spec => []TypeOK
  <1>1. EscrowInv => TypeOK
    BY DEF EscrowInv
  <1> QED
    BY <1>1, EscrowInvariant, PTL

(***************************************************************************)
(* process_withdraw_ix consumes an escrow note only after its unlock time, *)
(* with its owner's signature, and pays that owner in full, whatever notes *)
(* escrows may spend.                                                      *)
(***************************************************************************)
THEOREM WithdrawsReturn == Spec => []WithdrawsAsCommitted
  <1>1. EscrowInv => WithdrawsAsCommitted
    BY DEF EscrowInv, AllAccounted, WithdrawsAsCommitted, Outcome, SpentByEscrow
  <1> QED
    BY <1>1, EscrowInvariant, PTL

(***************************************************************************)
(* As long as escrows spend plain notes, locked funds move only by such a  *)
(* withdraw: process_escrow_ix signs for the PDA too.                      *)
(***************************************************************************)
THEOREM EscrowsMoveByWithdraw ==
  ASSUME EscrowsFundEscrows = FALSE
  PROVE  Spec => []EscrowsMoveOnlyByWithdraw
  <1>1. EscrowInv => EscrowsMoveOnlyByWithdraw
    BY DEF EscrowInv, AllAccounted, EscrowsMoveOnlyByWithdraw, Outcome, SpentByEscrow
  <1> QED
    BY <1>1, EscrowInvariant, PTL

-----------------------------------------------------------------------------
(***************************************************************************)
(* No escrow is stranded.                                                  *)
(***************************************************************************)
\* A transact keeps the escrow notes well formed if those it creates are.
LEMMA LandedWellFormed ==
  ASSUME PoolTypeOK, EscrowsWellFormed,
         NEW ix, NEW spends, NEW first, NEW outs \in Seq(Note), NEW signers,
         Landed(ix, spends, first, outs, signers),
         \A k \in DOMAIN outs :
           outs[k].owner = Authority /\ outs[k].data # NoData => Lockable(outs[k])
  PROVE  EscrowsWellFormed'
  <1>1. Kept(outs)
    BY LandedKeeps, Zenon
  <1> SUFFICES ASSUME NEW e \in DOMAIN leaves',
                      leaves'[e].owner = Authority, leaves'[e].data # NoData
               PROVE  Lockable(leaves'[e])
    BY DEF EscrowsWellFormed, Escrows, Lockable
  <1>2. CASE e \in DOMAIN leaves
    BY <1>1, <1>2 DEF Kept, EscrowsWellFormed, Escrows
  <1>3. CASE e \notin DOMAIN leaves
    <2>1. PICK k \in DOMAIN outs : leaves'[e] = outs[k]
      BY <1>1, <1>3 DEF Kept
    <2> QED
      BY <2>1
  <1> QED
    BY <1>2, <1>3

LEMMA WellFormedStep == TypeOK /\ EscrowsWellFormed /\ [Next]_vars => EscrowsWellFormed'
  <1> SUFFICES ASSUME TypeOK, EscrowsWellFormed, [Next]_vars
               PROVE  EscrowsWellFormed'
    OBVIOUS
  <1>0. PoolTypeOK
    BY DEF TypeOK
  <1>1. CASE process_escrow_ix
    <2>1. PICK signers \in SUBSET Owner, i \in Unspent, change \in Note, escrow \in Note :
            /\ Landed("escrow", {i}, i, <<change, escrow>>, signers)
            /\ PlainNote(change) /\ Lockable(escrow)
      BY <1>1, StepOfEscrow, Zenon
    <2> DEFINE outs == <<change, escrow>>
    <2>2. outs \in Seq(Note) /\ DOMAIN outs = {1, 2} /\ outs[1] = change /\ outs[2] = escrow
      OBVIOUS
    <2> HIDE DEF outs
    <2>3. \A k \in DOMAIN outs :
            outs[k].owner = Authority /\ outs[k].data # NoData => Lockable(outs[k])
      BY <2>1, <2>2 DEF PlainNote
    <2>4. Landed("escrow", {i}, i, outs, signers)
      BY <2>1 DEF outs
    <2> QED
      BY <1>0, <2>2, <2>3, <2>4, LandedWellFormed, Zenon
  <1>2. CASE process_withdraw_ix \/ SppTransfer
    <2>1. \E ix \in Instruction, i \in Unspent, signers \in SUBSET Owner, n \in Note :
            /\ Landed(ix, {i}, i, <<n>>, signers)
            /\ n.data # NoData => n.owner # Authority
      <3>1. "withdraw" \in Instruction /\ "transfer" \in Instruction
        BY DEF Instruction
      <3>2. CASE process_withdraw_ix
        BY <3>1, <3>2, StepOfWithdraw DEF PlainNote
      <3>3. CASE SppTransfer
        BY <3>1, <3>3, StepOfTransfer
      <3> QED
        BY <1>2, <3>2, <3>3
    <2>2. PICK ix \in Instruction, i \in Unspent, signers \in SUBSET Owner, n \in Note :
            /\ Landed(ix, {i}, i, <<n>>, signers)
            /\ n.data # NoData => n.owner # Authority
      BY <2>1
    <2> DEFINE outs == <<n>>
    <2>3. outs \in Seq(Note) /\ DOMAIN outs = {1} /\ outs[1] = n
      OBVIOUS
    <2> HIDE DEF outs
    <2>4. \A k \in DOMAIN outs :
            outs[k].owner = Authority /\ outs[k].data # NoData => Lockable(outs[k])
      BY <2>2, <2>3
    <2>5. Landed(ix, {i}, i, outs, signers)
      BY <2>2 DEF outs
    <2> QED
      BY <1>0, <2>3, <2>4, <2>5, LandedWellFormed, Zenon
  <1>3. CASE Tick \/ UNCHANGED vars
    BY <1>3 DEF Tick, vars, poolVars, EscrowsWellFormed, Escrows, Lockable
  <1> QED
    BY <1>1, <1>2, <1>3 DEF Next, process_instruction

\* A withdraw by the owner, alone or in company, to a plain note of the owner,
\* is what the handler and SPP accept.
LEMMA WithdrawAccepted ==
  ASSUME TypeOK, EscrowsWellFormed,
         NEW e \in Escrows \cap Unspent, now > leaves[e].data.unlock
  PROVE  Withdraws(e, cpi_accepts)
  <1> DEFINE terms  == leaves[e].data
             owner  == terms.owner
             source == [owner |-> owner, asset |-> leaves[e].asset, amount |-> leaves[e].amount,
                        data |-> NoData, ring |-> DefaultRing, blinding |-> Chosen(owner),
                        ciphertext |-> NoCiphertext]
  <1>1. e \in Unspent /\ leaves[e] \in Note /\ leaves[e].owner = Authority /\ terms # NoData
    BY DEF Escrows, TypeOK, PoolTypeOK
  <1>2. checkEscrowInputUtxo(leaves[e], terms)
    BY DEF EscrowsWellFormed, Lockable
  <1>3. terms \in EscrowTerms
    BY <1>1, EscrowAssumption DEF Note
  <1>4. owner \in Party /\ terms.unlock \in Expiry
    BY <1>3 DEF EscrowTerms
  <1>5. PICK signers \in SignerSets : owner \in signers
    BY <1>4, EscrowAssumption
  <1>6. now \in Int /\ now <= MaxTime /\ terms.unlock \in Int /\ 0 <= terms.unlock
    BY <1>4, BoundsAssumption DEF TypeOK, PoolTypeOK, Expiry
  <1>7. check_after_window(now, terms.unlock) /\ now <= MaxExpiry /\ MaxExpiry \in Expiry
    BY <1>6, BoundsAssumption DEF check_after_window, Expiry
  <1>8. source \in Outputs({NoData}, signers)
    BY <1>1, <1>4, <1>5, DataAssumption DEF Outputs, Note, Owner
  <1>9. checkOwnerAuthorization(terms, owner) /\ checkSourceOutputUtxo(source, leaves[e], terms)
    BY DEF checkOwnerAuthorization, checkSourceOutputUtxo, PlainNote
  <1>10. Accepts(<<e>>, <<source>>, signers \cup {Authority}, MaxExpiry)
    <2>1. signers \in SUBSET Party
      BY EscrowAssumption
    <2>2. source \in Note
      BY <1>8, <2>1, OutputsAreNotes
    <2>3. source.data = NoData /\ source.asset = leaves[e].asset /\ source.amount = leaves[e].amount
      OBVIOUS
    <2>4. leaves[e].owner \in signers \cup {Authority}
      BY <1>1
    <2> HIDE DEF source
    <2> QED
      BY <1>1, <1>7, <2>2, <2>3, <2>4, AcceptsOneForOne DEF TypeOK
  <1> HIDE DEF source
  <1>11. cpi_accepts("withdraw", <<e>>, <<source>>, signers, MaxExpiry)
    BY <1>10 DEF cpi_accepts
  <1> QED
    BY <1>1, <1>2, <1>4, <1>5, <1>7, <1>8, <1>9, <1>11 DEF Withdraws

(***************************************************************************)
(* Whatever has landed, an escrow that has unlocked passes every check of  *)
(* process_withdraw_ix and of SPP, with its owner as a signer, at every    *)
(* reading of the clock from then on.                                      *)
(***************************************************************************)
THEOREM NoEscrowIsStranded == Spec => []UnlockedEscrowsWithdrawable
  <1>1. Init => EscrowsWellFormed
    <2> SUFFICES ASSUME Init
                 PROVE  EscrowsWellFormed
      OBVIOUS
    <2>1. Escrows = {}
      BY PoolAssumption DEF Init, PoolInit, Escrows
    <2> QED
      BY <2>1 DEF EscrowsWellFormed
  <1>2. TypeOK /\ EscrowsWellFormed => UnlockedEscrowsWithdrawable
    BY WithdrawAccepted DEF UnlockedEscrowsWithdrawable
  <1> QED
    BY <1>1, <1>2, WellFormedStep, EscrowTypeCorrect, PTL DEF Spec
=============================================================================
