---------------------------- MODULE WalletFlows -----------------------------
(***************************************************************************)
(* The client examples, run as processes of one wallet: each sends its     *)
(* transactions, waits for confirmation and reads its own effects back     *)
(* through an RPC node and an indexer that lag the chain.                  *)
(*                                                                         *)
(* The chain, the RPC nodes and the indexer are not part of the            *)
(* repository; they are modelled as the examples use them.  A slot is the  *)
(* position of a transaction on the chain.                                 *)
(***************************************************************************)
EXTENDS Integers, SequencesExt

CONSTANTS
  Run,             \* the processes
  Scenario,        \* which example each process runs, and in which client
  Sol,             \* the native asset; an SPL mint is named by the run that makes it
  DepositAmount, TransferAmount, WithdrawAmount,
  RpcLag,          \* bound: transactions an RPC node may be behind
  MaxOthers        \* bound: interfaces that somebody else creates

Example ==
  {"deposit_transfer_withdraw", "deposit_with_interface_setup",
   "register_private_wallet", "sync_balance", "idle"}

ASSUME WalletAssumption ==
  /\ Sol \notin Run
  /\ Scenario \subseteq [Run -> [example : Example, client : {"rust", "typescript"}]]
  /\ \A s \in Scenario, r \in Run :
       s[r].example = "sync_balance" => s[r].client = "rust"
  /\ {DepositAmount, TransferAmount, WithdrawAmount} \subseteq Nat \ {0}
  /\ DepositAmount > TransferAmount + WithdrawAmount
  /\ RpcLag \in Nat /\ MaxOthers \in Nat

VARIABLES
  chain,    \* the transactions that landed and succeeded
  rejected, \* the signatures of those that landed and failed
  indexed,  \* the last slot the indexer has processed
  flight,   \* the transactions sent and not yet landed
  run       \* the state of every process

vars == <<chain, rejected, indexed, flight, run>>

\* What each example sends or reads, in order; an idle process runs none.
Steps ==
  [deposit_transfer_withdraw    |-> <<"deposit", "transfer", "withdraw">>,
   deposit_with_interface_setup |-> <<"setup_test_token", "deposit_spl">>,
   register_private_wallet      |-> <<"fund", "register">>,
   sync_balance                 |-> <<"sync">>,
   idle                         |-> <<>>]

StepOf(state) == Steps[state.example][state.step]

\* A step that looks something up before it builds its transaction starts there.
FirstPhase(step) ==
  CASE step = "deposit_spl" -> "check"
    [] step = "sync"        -> "registry"
    [] OTHER                -> "build"

\* The steps that read back the notes of their transaction.
ReadsBack == {"deposit", "transfer", "withdraw", "deposit_spl"}

Start(setting) ==
  [example |-> setting.example, client |-> setting.client, step |-> 1,
   phase |-> IF setting.example = "idle" THEN "done" ELSE FirstPhase(Steps[setting.example][1]),
   slot |-> 0, utxos |-> {},
   assets |-> {Sol}, found |-> FALSE, error |-> "none"]

Init ==
  /\ chain = <<>> /\ rejected = {} /\ indexed = 0 /\ flight = {}
  /\ \E s \in Scenario : run = [r \in Run |-> Start(s[r])]

-----------------------------------------------------------------------------
(***************************************************************************)
(* The chain and what can be read of it.                                   *)
(***************************************************************************)
Upto(slot) == {chain[k] : k \in 1 .. slot}

InterfacesAt(slot) == UNION {tx.creates : tx \in Upto(slot)}

NotesAt(slot)   == UNION {tx.outs : tx \in Upto(slot)}
SpentAt(slot)   == UNION {tx.spends : tx \in Upto(slot)}

SlotOf(sig) == {k \in DOMAIN chain : chain[k].sig = sig}

\* The slots an RPC node may have seen when it answers.
RpcView == {s \in 0 .. Len(chain) : s >= Len(chain) - RpcLag}

\* Fault: notes that were spent since are shown too.
DecryptEverything(transactions) ==
  {n \in UNION {tx.outs : tx \in transactions} : n.owner = "sender"}

\* decrypt_spendable: the sender's notes in these transactions that none of
\* them spends.
decrypt_spendable(transactions) ==
  {n \in UNION {tx.outs : tx \in transactions} : n.owner = "sender"}
    \ UNION {tx.spends : tx \in transactions}

Amounts(notes, mint) == SumFunction([n \in notes |-> IF n.mint = mint THEN n.amount ELSE 0])

(***************************************************************************)
(* The transactions.  A signature names the run and its step; a note is    *)
(* named by the transaction that made it.                                  *)
(***************************************************************************)
Signature(r) == <<r, run[r].step>>

Note(r, owner, mint, amount) ==
  [sig |-> Signature(r), owner |-> owner, mint |-> mint, amount |-> amount]

Tx(r, creates, spends, outs, amount) ==
  [sig |-> Signature(r), op |-> StepOf(run[r]), creates |-> creates, spends |-> spends,
   outs |-> outs, amount |-> amount]

Deposit(r) ==
  Tx(r, {}, {}, {Note(r, "sender", Sol, DepositAmount)}, DepositAmount)

\* Fault: the change is left out.
TransferWithoutChange(r) ==
  LET utxo == CHOOSE n \in run[r].utxos : TRUE
  IN  Tx(r, {}, {utxo}, {Note(r, "recipient", Sol, TransferAmount)}, TransferAmount)

\* Spend the note that the last step read back; the change is the sender's.
Transfer(r) ==
  LET utxo == CHOOSE n \in run[r].utxos : TRUE
  IN  Tx(r, {}, {utxo},
         {Note(r, "recipient", Sol, TransferAmount),
          Note(r, "sender", Sol, utxo.amount - TransferAmount)}, TransferAmount)

Withdraw(r) ==
  LET utxo == CHOOSE n \in run[r].utxos : TRUE
  IN  Tx(r, {}, {utxo}, {Note(r, "sender", Sol, utxo.amount - WithdrawAmount)}, WithdrawAmount)

\* Mint and token account, made and funded in one transaction.
setup_test_token(r) == Tx(r, {}, {}, {}, DepositAmount)

\* Fault: the interface is always created.
DepositAlwaysCreating(r) ==
  Tx(r, {r}, {}, {Note(r, "sender", r, DepositAmount)}, DepositAmount)

\* Create the interface if the lookup found none, and deposit, in one transaction.
DepositSpl(r) ==
  Tx(r, IF run[r].found THEN {} ELSE {r}, {}, {Note(r, "sender", r, DepositAmount)},
     DepositAmount)

\* Fund a fresh key, then register it and set its encryption scheme at once.
RegisterWallet(r) == Tx(r, {}, {}, {}, 0)

Built(r) ==
  LET step == StepOf(run[r])
  IN  CASE step = "deposit"          -> Deposit(r)
        [] step = "transfer"         -> Transfer(r)
        [] step = "withdraw"         -> Withdraw(r)
        [] step = "setup_test_token" -> setup_test_token(r)
        [] step = "deposit_spl"      -> DepositSpl(r)
        [] OTHER                     -> RegisterWallet(r)

-----------------------------------------------------------------------------
(***************************************************************************)
(* The steps of a process.                                                 *)
(***************************************************************************)
Becomes(r, state) == run' = [run EXCEPT ![r] = state]

Failed(r, why) == [run[r] EXCEPT !.phase = "failed", !.error = why]

Advanced(state) ==
  IF state.step = Len(Steps[state.example])
  THEN [state EXCEPT !.phase = "done"]
  ELSE [state EXCEPT !.step = @ + 1,
                     !.phase = FirstPhase(Steps[state.example][state.step + 1])]

\* get_account(interface_address)
CheckInterface(r) ==
  /\ run[r].phase = "check"
  /\ \E s \in RpcView :
       Becomes(r, [run[r] EXCEPT !.found = r \in InterfacesAt(s), !.phase = "build"])
  /\ UNCHANGED <<chain, rejected, indexed, flight>>

\* Prove, where the step needs a proof, and send; the requests that fail are
\* RequestFails.
Send(r) ==
  /\ run[r].phase = "build"
  /\ flight' = flight \cup {Built(r)}
  /\ Becomes(r, [run[r] EXCEPT !.phase = "sent"])
  /\ UNCHANGED <<chain, rejected, indexed>>

(***************************************************************************)
(* A request to the prover, an RPC node or the indexer fails, and with it  *)
(* the process: a proof, the blockhash, the send, the confirmation, the    *)
(* status, a fetch or the public balance that the last step ends with.     *)
(* What the process sent before is still in flight, or has landed.         *)
(***************************************************************************)
RequestFails(r) ==
  /\ run[r].phase \notin {"done", "failed"}
  /\ Becomes(r, Failed(r, "request"))
  /\ UNCHANGED <<chain, rejected, indexed, flight>>

(***************************************************************************)
(* create_and_send_transaction returns once the transaction is confirmed.  *)
(* In the TypeScript client (sendAndConfirm) the status that confirms also *)
(* carries the slot; the Rust client asks for it in another request.  A    *)
(* registration ends with a lookup of the wallet's record.                 *)
(***************************************************************************)
Confirm(r) ==
  LET step == StepOf(run[r])
  IN  /\ run[r].phase = "sent"
      /\ \E slot \in SlotOf(Signature(r)) :
           Becomes(r, IF step \in ReadsBack
                      THEN IF run[r].client = "rust"
                           THEN [run[r] EXCEPT !.phase = "confirmed"]
                           ELSE [run[r] EXCEPT !.phase = "located", !.slot = slot]
                      ELSE IF step = "register"
                      THEN [run[r] EXCEPT !.phase = "registered", !.slot = slot]
                      ELSE Advanced(run[r]))
      /\ UNCHANGED <<chain, rejected, indexed, flight>>

\* The transaction failed on chain, or the client stops waiting for it: it may
\* still land, or have landed.
ConfirmFails(r) ==
  /\ run[r].phase = "sent"
  /\ \/ Signature(r) \in rejected /\ Becomes(r, Failed(r, "rejected"))
     \/ Becomes(r, Failed(r, "timeout"))
  /\ UNCHANGED <<chain, rejected, indexed, flight>>

\* get_signature_statuses may be answered by a node that has not seen it.
landed_slot(r) ==
  /\ run[r].phase = "confirmed"
  /\ \E s \in RpcView, slot \in SlotOf(Signature(r)) :
       Becomes(r, IF slot <= s THEN [run[r] EXCEPT !.phase = "located", !.slot = slot]
                  ELSE Failed(r, "status missing"))
  /\ UNCHANGED <<chain, rejected, indexed, flight>>

\* is_wallet_registered
CheckRegistered(r) ==
  /\ run[r].phase = "registered"
  /\ \E s \in RpcView :
       Becomes(r, IF run[r].slot <= s THEN Advanced(run[r]) ELSE Failed(r, "not registered"))
  /\ UNCHANGED <<chain, rejected, indexed, flight>>

\* After the deposit of an SPL mint its registry account is looked up.
LookupRegistry(r) ==
  /\ run[r].phase = "located" /\ StepOf(run[r]) = "deposit_spl" /\ r \notin run[r].assets
  /\ \E s \in RpcView :
       Becomes(r, IF r \in InterfacesAt(s) THEN [run[r] EXCEPT !.assets = @ \cup {r}]
                  ELSE Failed(r, "registry missing"))
  /\ UNCHANGED <<chain, rejected, indexed, flight>>

\* What the step asserts of the notes it reads back: mint and amount of one note.
Expected(r) ==
  LET step == StepOf(run[r])
  IN  CASE step = "deposit"     -> <<Sol, DepositAmount>>
        [] step = "transfer"    -> <<Sol, DepositAmount - TransferAmount>>
        [] step = "withdraw"    -> <<Sol, DepositAmount - TransferAmount - WithdrawAmount>>
        [] step = "deposit_spl" -> <<r, DepositAmount>>

\* Faults: the fetch is not gated; it waits for one slot more.
AnySlot(slot)  == indexed >= 0
NextSlot(slot) == indexed > slot

\* IndexerRpcConfig::at_slot: the indexer answers when it has reached the slot.
at_slot(slot) == indexed >= slot

\* get_shielded_transactions_by_signature
BySignature(sig) == {tx \in Upto(indexed) : tx.sig = sig}

\* Fetch the step's own transaction and check the note it left; the fetch
\* that fails is RequestFails.
ReadBack(r) ==
  LET got  == decrypt_spendable(BySignature(Signature(r)))
      mint == Expected(r)[1]
  IN  /\ run[r].phase = "located"
      /\ StepOf(run[r]) = "deposit_spl" => r \in run[r].assets
      /\ at_slot(run[r].slot)
      /\ Becomes(r, IF /\ Amounts(got, mint) = Expected(r)[2]
                       /\ Cardinality(got) = 1
                    THEN Advanced([run[r] EXCEPT !.utxos = got])
                    ELSE Failed(r, "assertion"))
      /\ UNCHANGED <<chain, rejected, indexed, flight>>

\* Fault: only the native asset is known.
DefaultRegistry(slot) == {Sol}

\* The registered mints as of a slot.
asset_registry(slot) == {Sol} \cup InterfacesAt(slot)

LoadRegistry(r) ==
  /\ run[r].phase = "registry"
  /\ \E s \in RpcView :
       Becomes(r, [run[r] EXCEPT !.assets = asset_registry(s), !.slot = s, !.phase = "scan"])
  /\ UNCHANGED <<chain, rejected, indexed, flight>>

\* UtxoScan: all the transactions tagged for the wallet that the indexer has.
\* The Rust client shows no balance if the mint of some note is unknown.
Scan(r) ==
  LET spendable == decrypt_spendable(Upto(indexed))
  IN  /\ run[r].phase = "scan"
      /\ Becomes(r, IF {n.mint : n \in spendable} \subseteq run[r].assets
                    THEN Advanced([run[r] EXCEPT !.utxos = spendable, !.slot = indexed])
                    ELSE [Failed(r, "unknown mint") EXCEPT !.utxos = spendable, !.slot = indexed])
      /\ UNCHANGED <<chain, rejected, indexed, flight>>

RunStep(r) ==
  \/ CheckInterface(r) \/ Send(r) \/ Confirm(r) \/ ConfirmFails(r) \/ landed_slot(r)
  \/ CheckRegistered(r) \/ LookupRegistry(r) \/ ReadBack(r) \/ LoadRegistry(r) \/ Scan(r)

-----------------------------------------------------------------------------
(***************************************************************************)
(* The chain and the indexer.                                              *)
(***************************************************************************)
\* Inputs are unspent, an interface is created once, and an SPL deposit needs it.
Accepted(tx) ==
  LET now == Len(chain)
  IN  /\ tx.spends \subseteq NotesAt(now) \ SpentAt(now)
      /\ tx.creates \cap InterfacesAt(now) = {}
      /\ \A n \in tx.outs : n.mint \in {Sol} \cup tx.creates \cup InterfacesAt(now)

Land(tx) ==
  /\ flight' = flight \ {tx}
  /\ \/ Accepted(tx) /\ chain' = Append(chain, tx) /\ UNCHANGED rejected
     \/ ~Accepted(tx) /\ rejected' = rejected \cup {tx.sig} /\ UNCHANGED chain
  /\ UNCHANGED <<indexed, run>>

\* A transaction's blockhash expires.
Expire(tx) ==
  /\ flight' = flight \ {tx}
  /\ UNCHANGED <<chain, rejected, indexed, run>>

Others == {tx \in Upto(Len(chain)) : tx.op = "create_interface"}

\* Somebody else creates the interface of a mint that exists.
OtherCreates(r) ==
  /\ Cardinality(Others) < MaxOthers
  /\ \E tx \in Upto(Len(chain)) : tx.op = "setup_test_token" /\ tx.sig[1] = r
  /\ r \notin InterfacesAt(Len(chain))
  /\ chain' = Append(chain, [sig |-> <<r, 0>>, op |-> "create_interface", creates |-> {r},
                             spends |-> {}, outs |-> {}, amount |-> 0])
  /\ UNCHANGED <<rejected, indexed, flight, run>>

Index ==
  /\ indexed < Len(chain)
  /\ indexed' = indexed + 1
  /\ UNCHANGED <<chain, rejected, flight, run>>

Next ==
  \/ \E r \in Run : RunStep(r) \/ RequestFails(r) \/ OtherCreates(r)
  \/ \E tx \in flight : Land(tx) \/ Expire(tx)
  \/ Index

(***************************************************************************)
(* A process goes on as long as it can (it stops waiting for a transaction *)
(* at some point), and the indexer catches up.  A request may fail, but no *)
(* process is sure to end that way.                                        *)
(***************************************************************************)
Spec ==
  /\ Init /\ [][Next]_vars
  /\ \A r \in Run : WF_vars(RunStep(r))
  /\ WF_vars(Index)

-----------------------------------------------------------------------------
Ended(r) == run[r].phase \in {"done", "failed"}

(***************************************************************************)
(* What a process reads back is exactly its own transaction's effect: the  *)
(* assertions of the examples hold however far the indexer is behind and   *)
(* whatever other processes of the same wallet do meanwhile.               *)
(***************************************************************************)
ReadBacksExact == \A r \in Run : run[r].error # "assertion"

(***************************************************************************)
(* The processes of a wallet do not spend each other's notes: the chain    *)
(* rejects a transaction only if somebody created the mint's interface     *)
(* unseen by the process, which had found none.                            *)
(***************************************************************************)
RejectedOnlyByRace ==
  \A sig \in rejected :
    LET r == sig[1]
    IN  /\ Steps[run[r].example][sig[2]] = "deposit_spl"
        /\ ~run[r].found
        /\ \E tx \in Others : tx.creates = {r}

\* What operations of these kinds moved, of the processes by.
Moved(transactions, ops, by) ==
  SumFunction([tx \in transactions |->
                 IF tx.op \in ops /\ tx.sig[1] \in by THEN tx.amount ELSE 0])

\* What the transactions say the wallet holds of a mint.
Ledger(transactions, mint) ==
  IF mint = Sol
  THEN Moved(transactions, {"deposit"}, Run) - Moved(transactions, {"transfer", "withdraw"}, Run)
  ELSE Moved(transactions, {"deposit_spl"}, {mint})

(***************************************************************************)
(* A balance that sync_balance shows is the sum of what landed: deposits,  *)
(* less transfers and withdrawals, of every process up to the slot the     *)
(* indexer had reached, those included whose process gave up waiting.      *)
(***************************************************************************)
SyncShowsTheLedger ==
  \A r \in Run : (run[r].example = "sync_balance" /\ run[r].phase = "done") =>
    \A mint \in Run \cup {Sol} :
      Amounts(run[r].utxos, mint) = Ledger(Upto(run[r].slot), mint)

(***************************************************************************)
(* When sync_balance gives up on an unknown mint, the notes it read are    *)
(* fine and a new attempt gets past them: a process that reads the         *)
(* registry as of the slot that the failed one had scanned, or a later     *)
(* one, knows the mints of all those notes.                                *)
(***************************************************************************)
NewAttemptKnowsTheMints ==
  \A r, q \in Run :
    /\ run[r].error = "unknown mint"
    /\ run[q].phase = "scan" /\ run[q].slot >= run[r].slot
    => {n.mint : n \in run[r].utxos} \subseteq run[q].assets

\* What the wallet holds by a SOL flow after k of its steps: nothing, or one note.
HeldAfter(r, k) ==
  IF k = 0 THEN {}
  ELSE {[sig |-> <<r, k>>, owner |-> "sender", mint |-> Sol,
         amount |-> DepositAmount - (IF k >= 2 THEN TransferAmount ELSE 0)
                                  - (IF k = 3 THEN WithdrawAmount ELSE 0)]}

(***************************************************************************)
(* Wherever a SOL flow ends (a request failed, a status was missing, it    *)
(* gave up a wait and the transaction landed after all), what landed of it *)
(* are its steps up to some step, the current or the one before, and all   *)
(* that they leave the sender is in one note that the wallet can spend.    *)
(***************************************************************************)
FlowsKeepTheirFunds ==
  \A r \in Run : run[r].example = "deposit_transfer_withdraw" =>
    \E k \in {run[r].step - 1, run[r].step} :
      /\ \A j \in 1 .. 3 : SlotOf(<<r, j>>) # {} <=> j <= k
      /\ {n \in decrypt_spendable(Upto(Len(chain))) : n.sig[1] = r} = HeldAfter(r, k)

\* Every process ends.
RunsEnd == \A r \in Run : <>Ended(r)
=============================================================================
