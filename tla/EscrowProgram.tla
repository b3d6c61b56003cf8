--------------------------- MODULE EscrowProgram ----------------------------
(***************************************************************************)
(* The timelock escrow program: escrow locks a note until a timestamp,     *)
(* withdraw returns it to its owner afterwards.  Like the swap program it  *)
(* keeps no state; an action is one landed instruction.                    *)
(***************************************************************************)
EXTENDS ShieldedPool

CONSTANTS
  SignerSets,         \* the sets of wallets that may sign one transaction
  EscrowsFundEscrows, \* may an escrow spend an escrow note as its source?
  MaxEscrows          \* bound: landed escrows

\* The terms the data hash of an escrow note commits to.
EscrowTerms == [owner : Party, unlock : Expiry]

ASSUME EscrowAssumption ==
  /\ Payload \subseteq EscrowTerms
  /\ SignerSets \subseteq SUBSET Party
  /\ \A p \in Party : \E signers \in SignerSets : p \in signers
  /\ EscrowsFundEscrows \in BOOLEAN
  /\ MaxEscrows \in Nat

vars == poolVars

Init == PoolInit

(***************************************************************************)
(* The circuits' checks.                                                   *)
(***************************************************************************)
PlainNote(n) == n.ring = DefaultRing /\ n.data = NoData

checkEscrowOutputUtxo(escrow, terms) ==
  /\ escrow.ring = DefaultRing
  /\ escrow.data = terms
  /\ escrow.amount # 0

checkChangeOutputUtxo(change, escrow, terms) ==
  /\ PlainNote(change)
  /\ change.asset = escrow.asset
  /\ change.owner = terms.owner

checkEscrowInputUtxo(escrow, terms) ==
  /\ escrow.ring = DefaultRing
  /\ escrow.data = terms
  /\ escrow.amount # 0

checkSourceOutputUtxo(source, escrow, terms) ==
  /\ PlainNote(source)
  /\ source.asset = escrow.asset
  /\ source.amount = escrow.amount
  /\ source.owner = terms.owner

\* Fault: the signer is not compared with the owner.
AnySigner(terms, signer) == signer \in Party

\* The signer the program supplies is the owner the terms commit to.
checkOwnerAuthorization(terms, signer) == terms.owner = signer

\* Faults: unlocking a second early; a second late.
UnlockInclusive(time, unlock) == time >= 0 /\ time >= unlock
UnlockLate(time, unlock)      == time >= 0 /\ time > unlock + 1

\* The clock is an i64, the unlock time a u64.
check_after_window(time, unlock) == time >= 0 /\ time > unlock

(***************************************************************************)
(* The program's steps.                                                    *)
(***************************************************************************)
\* Fault: an account other than the PDA is flipped to a signer.
SignsForRing(ix, ins, outs, signers, expiry) ==
  Transact(ix, ins, outs, signers \cup {DefaultRing}, expiry)

\* The PDA is flipped to a signer of the CPI, whichever instruction calls it.
cpi_spp_transact_signed(ix, ins, outs, signers, expiry) ==
  Transact(ix, ins, outs, signers \cup {Authority}, expiry)

\* The CPI would succeed, whatever the instruction.
cpi_accepts(ix, ins, outs, signers, expiry) ==
  Accepts(ins, outs, signers \cup {Authority}, expiry)

\* The output notes a client may put into a transaction.
Outputs(data, signers) ==
  [owner : Owner, asset : Asset, amount : Amount, data : data, ring : Ring,
   blinding : {Chosen(p) : p \in signers}, ciphertext : {NoCiphertext}]

Landings == {i \in DOMAIN nullifiers : nullifiers[i].ix = "escrow"}

(***************************************************************************)
(* escrow: lock funds of the source note.  The clock is not read, and      *)
(* neither the program nor the circuit looks at the source note: with      *)
(* EscrowsFundEscrows = FALSE clients spend plain notes only, as the       *)
(* repository's tests do.                                                  *)
(***************************************************************************)
process_escrow_ix ==
  /\ Cardinality(Landings) < MaxEscrows
  /\ \E signers \in SignerSets, i \in Unspent, terms \in Payload :
       /\ leaves[i].data # NoData => EscrowsFundEscrows
       /\ \E escrow \in Outputs(Payload \cup {NoData}, signers) :
          /\ checkEscrowOutputUtxo(escrow, terms)
          /\ \E change \in Outputs(Payload \cup {NoData}, signers) :
             /\ checkChangeOutputUtxo(change, escrow, terms)
             /\ \E expiry \in Expiry : cpi_spp_transact_signed(
                  "escrow", <<i>>, <<change, escrow>>, signers, expiry)

(***************************************************************************)
(* withdraw: return an escrow note to its owner after it unlocked.  unlock *)
(* is a field of the instruction data of its own; expiry is the relayer    *)
(* deadline of the transact.  What the handler checks is stated apart from *)
(* the transact it ends in, so that it also says when an escrow can be     *)
(* withdrawn.                                                              *)
(***************************************************************************)
Withdraws(e, spp(_, _, _, _, _)) ==
  \E signers \in SignerSets : \E owner \in signers, unlock \in Expiry :
    LET terms == leaves[e].data
    IN  /\ terms # NoData
        /\ check_after_window(now, unlock)
        /\ checkEscrowInputUtxo(leaves[e], terms)
        /\ checkOwnerAuthorization(terms, owner)
        /\ terms.unlock = unlock
        /\ \E source \in Outputs({NoData}, signers) :
           /\ checkSourceOutputUtxo(source, leaves[e], terms)
           /\ \E expiry \in Expiry : spp("withdraw", <<e>>, <<source>>, signers, expiry)

WithdrawEscrow(e) == Withdraws(e, cpi_spp_transact_signed)

process_withdraw_ix == \E e \in Unspent : WithdrawEscrow(e)

\* process_instruction: the tag selects the handler.
process_instruction == process_escrow_ix \/ process_withdraw_ix

\* A wallet uses SPP directly.
SppTransfer ==
  \E p \in Party, i \in Unspent : \E n \in TransferOutputs(p, i) : Transfer(p, i, n)

Next == process_instruction \/ SppTransfer \/ Tick

Spec == Init /\ [][Next]_vars

\* The clock advances, and an owner that can withdraw keeps trying.
Fairness == WF_vars(Tick) /\ WF_vars(process_withdraw_ix)

LiveSpec == Spec /\ Fairness

-----------------------------------------------------------------------------
(***************************************************************************)
(* The tree holds well-typed notes, every nullifier belongs to a leaf, and *)
(* the signers of a transaction are wallets or the PDA.                    *)
(***************************************************************************)
TypeOK == PoolTypeOK

\* The escrow notes of the program.
Escrows == {e \in DOMAIN leaves : leaves[e].owner = Authority /\ leaves[e].data # NoData}

\* Escrow e was consumed by its owner's withdraw, after it unlocked, and the
\* owner received all of it.
WithdrawnAsCommitted(e) ==
  LET terms   == leaves[e].data
      receipt == nullifiers[e]
      refund  == leaves[receipt.out]
  IN  /\ receipt.ix = "withdraw"
      /\ receipt.at > terms.unlock
      /\ terms.owner \in receipt.signers
      /\ receipt.out \in DOMAIN leaves
      /\ PlainNote(refund)
      /\ refund.owner = terms.owner
      /\ refund.asset = leaves[e].asset
      /\ refund.amount = leaves[e].amount

(***************************************************************************)
(* Locked funds leave the program only through withdraw, after unlock,     *)
(* signed by their owner and back to that owner (timelock_escrow.md:111).  *)
(***************************************************************************)
EscrowsMoveOnlyByWithdraw ==
  \A e \in Escrows \cap DOMAIN nullifiers : WithdrawnAsCommitted(e)

(***************************************************************************)
(* Whatever else has happened, a withdraw that landed was not early, not   *)
(* by another party and not short.                                         *)
(***************************************************************************)
WithdrawsAsCommitted ==
  \A e \in Escrows \cap DOMAIN nullifiers :
    nullifiers[e].ix = "withdraw" => WithdrawnAsCommitted(e)

(***************************************************************************)
(* No escrow is stranded: once unlocked it stays withdrawable by its owner *)
(* until it is withdrawn.                                                  *)
(***************************************************************************)
UnlockedEscrowsWithdrawable ==
  \A e \in Escrows \cap Unspent : now > leaves[e].data.unlock => Withdraws(e, cpi_accepts)

\* The leaves the bounds leave room for.
LeafIndex == 1 .. (Len(Genesis) + 3 * MaxEscrows + 2 * MaxTransfers)

(***************************************************************************)
(* Every escrow whose unlock time the clock can pass is returned in the    *)
(* end.                                                                    *)
(***************************************************************************)
EscrowsEventuallyReturned ==
  \A e \in LeafIndex :
    (e \in Escrows \cap Unspent /\ leaves[e].data.unlock < MaxTime) ~> e \in DOMAIN nullifiers
=============================================================================
