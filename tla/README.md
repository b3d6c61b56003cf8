# Verification of the Zolana example programs

This directory is a TLA+ development for the programs in this repository: the
private atomic swap (`swap-program`), the timelock escrow (`escrow-program`),
their SDKs and provers, the discovery of orders, and the example clients
(`rust-client`, `typescript-client`). It contains the specifications, the TLC
configurations that check them on small instances, and proofs that TLAPS checks
for every value of the constants. `PROJECT.json` maps each definition to the
source lines it models.

    tlc -workers 2 -config SwapSettlement.cfg MCSwap     # one run
    tlapm SwapProofs.tla                                 # one proof module

## 1. The system

**Solana Privacy Program (SPP)**, external. A tree of UTXOs ("notes") and the
set of nullifiers of those that were spent. A note's hash commits to owner,
asset, amount, data hash, ring fields and blinding. `transact` spends some notes
and appends others, atomically; each input's owner must sign. Both example
programs own notes through a PDA, for which only the program can sign a CPI.

**Swap program.** Stateless; four instructions, each of which verifies a Groth16
proof over the transaction's `private_tx_hash` and CPIs into SPP with the
`order_authority` PDA as a signer.

| instruction | clock | circuit | effect |
|---|---|---|---|
| `make` | not read | terms valid, order output commits them, change to the maker | one source note becomes change and an order; a marker message with the order's hash and the payer is published |
| `take` | `now <= expiry` | derived rail: both output blindings under the order's seed | the order and a note of exactly the price become source (to the payer) and destination (to the maker) |
| `take_verifiable_encryption` | `now <= expiry` | designated taker; the payout ciphertext is checked | the same |
| `cancel` | `now > order_expiry` | the maker signs | the order is refunded to the maker |

**Timelock escrow program.** The same construction with one party: `escrow`
locks a note until a timestamp, `withdraw` returns it, after unlock, signed by
the committed owner and to that owner.

**Swap SDK.** Order state and openings (`state/order.rs`), instruction and proof
builders, and order discovery (`index/`): `index_taker` and `index_maker` poll
the indexer page by page under the wallet's tag until something is found or a
timeout elapses. The taker's side reads the maker's address from the user
registry and recomputes the order's hash.

**Provers** build witnesses and call the Go circuits. **Clients**
(`rust-client`, `typescript-client`) are examples of deposit, transfer, withdraw
and synchronisation. **Tooling** downloads releases and runs the tests.

Interaction: SDK and clients build transactions, a relayer submits them any time
later, the programs check the clock when they land, the indexer publishes what
landed, discovery reads it. What is hard to test here: transactions that race
for one note or around one deadline, a client that acts on what it read earlier,
a counterparty that withholds data, deadlines at the edges of their integer
types, and pagination over a list that grows. `PROJECT.json` lists these under
"hazards", each at its line and with the properties aimed at it.

What makes each component correct:

- swap: an order leaves the tree at most once, and then by a settlement at the
  committed price in its window or by a refund after it; the maker can always
  rebuild its payout; no order is stranded; an order that can expire is
  eventually resolved;
- escrow: funds leave only by the owner's withdraw after unlock, and can;
- discovery: only committed orders are returned, each once, none is missed, and
  the call returns;
- SDKs and provers: what a client builds with them lands, whenever its inputs are
  still there and its window is open, and does what the program's own rules say;
- example clients: a process reads back exactly what it did, leaves the notes of
  other processes of its wallet alone, and ends.

## 2. Modules

| module | models | correspondence |
|---|---|---|
| `Notes` | the UTXO, its blinding and ciphertext, shared constants | a note is a record of what its hash commits to; hashes are injective, so the note stands for its hash and terms stand for their data hash |
| `ShieldedPool` | SPP and the clock (external) | `leaves` is the tree, `nullifiers` maps a spent leaf to the receipt of the transaction that spent it (instruction, time, first nullifier, first output, signers), `now` is `Clock::unix_timestamp` |
| `SwapCircuits` | the four circuits, the clock windows | one predicate per Go method, same names |
| `SwapProgram` | the four instructions, direct SPP transfers, time | one action per handler; adds `markers`, the messages makes published |
| `AtomicSwap` | what a swap promises: balances, an order book | no code; the abstract specification |
| `SwapRefinement` | the mapping of notes to balances and orders to the book | an owner's balance is the sum of `Credit` over its unspent notes; the book is read off the orders and the receipts |
| `EscrowProgram` | the escrow circuits and instructions | as for the swap |
| `Groth16` | proofs and `verify_groth16` | a proof names its circuit and its public input; it exists exactly for a satisfying witness |
| `SwapSdk` | the notes the SDK builds, `to_proof_inputs`, the prover | one operator per method; a builder's checks and the circuit's are kept apart |
| `SwapClient` | clients of the swap SDK, transactions in flight, the handlers on instruction data | `flight` holds what was submitted; extends `SwapProgram` and is shown to implement it |
| `EscrowClient` | the same for the escrow; the opening is kept by its creator (`openings`) | |
| `WalletFlows` | the example clients as processes of one wallet | `run[r]` is the program counter and the locals of a process; `chain`, `indexed` and the RPC view are what it can read |
| `OrderIndex` | `index_until`, `collect_tagged`, both scans | a page is a set of positions in the indexer's list; a pass is a sequence of page requests and scans of one transaction; between any two of them transactions land, wallets re-register and the deadline passes |
| `Sums` | what a sum over a finite set becomes when elements enter or leave it | lemmas only, section 5 |
| `PoolProofs`, `SwapProofs`, `EscrowProofs` | proofs about the pool, the two programs and the refinement of `AtomicSwap` | section 5 |
| `SwapClientProofs`, `EscrowClientProofs` | proofs that the composed systems implement the programs | section 5 |
| `IndexProofs`, `WalletProofs` | proofs about discovery and the example processes | section 5 |
| `MCSwap`, `MCSwapClient`, `MCEscrow`, `MCEscrowClient`, `MCIndex`, `MCWallet` | instances for TLC | |

**Instructions are atomic.** Solana rolls a failing instruction back, and the
programs have no accounts of their own, so an action is one landed instruction
and a failing one is a disabled action. In `SwapProgram` and `EscrowProgram`
clients have no program counters: in every state, every wallet may land every
transaction whose checks hold. That includes all that a stale read, a slow
relayer, a retry or a duplicate submission can lead to, but it cannot say
whether a client's transaction lands at all. `SwapClient` and `EscrowClient` can:
there a client reads, builds, proves and submits in one step, and the transaction
lands at some later time, never, or twice. The program then sees only instruction
data and a proof, and computes the public input itself. A landed transaction
stays in `flight`, so duplicates need no action of their own.

**Checks and effect.** Where a property says that something can land, the checks
of a handler are stated apart from its effect: `Accepts` is what `Transact` asks
for, `cpi_accepts` what the signed CPI asks for, `Cancels` and `Withdraws` are the
handlers with the CPI as a parameter, and `MakeChecks` ... `CancelChecks`,
`Accepted` those of the composed system. The rest of each action assigns the
primed variables, so it is enabled exactly when its checks hold; the actions are
built from these definitions, so the two cannot drift apart.

**The taker's payment.** As in the integration tests, a taker selects a note that
holds at least the price (`swap.rs:201-215`) and rebuilds it from the terms of
the order for the proof (`swap.rs:216`).

**The example processes.** A slot is a position on the chain. Any RPC answer may
be up to `RpcLag` transactions old, each on its own; the indexer's `at_slot` gate
answers once it has reached the slot. A process may stop waiting for a
confirmation at any time while its transaction is still on the way, and any
request to the prover, an RPC node or the indexer may fail, which ends the
process at that point (`RequestFails`); what it has sent stays in flight or on
the chain. The public balance that a flow prints last is one of these requests.
The paging inside `UtxoScan` (library code) is one atomic read. Fees and the key
setup are left out, as are the `// SPL:` variants in comments and `read_history`,
whose control is that of `sync_balance`.

**Proofs are sound and complete.** A proof verifies exactly when the circuit's
predicate holds of the notes of the transaction it is bound to. What a circuit
leaves a free witness stays free in the model: the owner of a new order, the
source note of a make, the blindings of a verifiable take.

**SPP** is modelled from its use. Inputs are unspent and their owners sign;
amounts balance per asset; the transaction's own deadline has not passed; an
output that carries data needs an input of the same owner, as the test fixtures
say (`swap-program/test/tests/shared.rs:102-104`: the fixture funds the PDA for
that reason, and so does `Genesis` in the instances).

**The clock** is an i64 and deadlines are u64; the instances start it at -1 and
contain deadlines it never passes.

Fault operators (`\* Fault: ...`) sit beside the definitions they distort. They
are not part of any specification; each shows that a property notices the bug.

## 3. Runs

| run | checks | shows |
|---|---|---|
| `SwapSettlement` | `TypeOK`, `OrdersMoveOnlyBySettlement`, `ExpiredOrdersCancellable` | makes funded by plain notes; two wallets, orders on both rails, terms make must reject, an order that never expires |
| `SwapAnySource` | `TakesSettleAsCommitted`, `CancelsRefundTheMaker`, `PayoutsRecoverable`, `OrdersWellFormed` | the same without the assumption on the source of makes |
| `SwapAtomic` | `ImplementsAtomicSwap`, `OrdersEventuallyResolved` | two orders that compete for the same paying notes: refinement of `AtomicSwap`, and refunds happen |
| `SwapInFlight` | `LandsExactlyWhenLive`, `PayoutsRebuilt`, `OrdersMoveOnlyBySettlement`, `ImplementsProgram`, `OrdersEventuallyResolved` | clients, SDK, prover and proof-verifying program together, both rails, a taker with a note of the price and one above it |
| `SwapDocMoves` | `OrdersMoveOnlyBySettlement` | violated, section 4 |
| `EscrowTimelock` | `TypeOK`, `EscrowsMoveOnlyByWithdraw`, `UnlockedEscrowsWithdrawable`, `EscrowsEventuallyReturned` | escrows funded by plain notes |
| `EscrowAnySource` | `WithdrawsAsCommitted` | without that assumption |
| `EscrowInFlight` | `LandsExactlyWhenLive`, `EscrowsMoveOnlyByWithdraw`, `ImplementsProgram`, `EscrowsEventuallyReturned` | clients of the escrow SDK, two escrows built on one funding note; the program itself would accept an escrow as the source of another |
| `EscrowDocMoves` | `EscrowsMoveOnlyByWithdraw` | violated, section 4 |
| `IndexDiscovery` | `TypeOK`, `DiscoveredOrdersCommitted`, `NothingMissed`, `DiscoveryReturns` | a taker or a maker, orders in two trees, pages of one, a registration and an indexer failure |
| `IndexMistagged` | `WrongTagsAreHarmless` | violated, section 4 |
| `WalletFlows` | `ReadBacksExact`, `RejectedOnlyByRace`, `SyncShowsTheLedger`, `NewAttemptKnowsTheMints`, `FlowsKeepTheirFunds`, `RunsEnd` | four mixes of example processes of one wallet, any request of which may fail |

`LandsExactlyWhenLive` is the strongest statement about the SDKs: in every state,
for every transaction in flight, all checks of its handler and of SPP pass if and
only if its inputs are unspent, its window is open and, for a take, the paying note is plain and
holds exactly the price. A disagreement anywhere between builder, prover,
circuit, handler and pool about the order of outputs, the marker, a deadline or a
signer makes it false. (The bound on landed makes and escrows is part of the
handler's checks and of `Live`.) `ImplementsProgram` then carries everything checked and
proved of `SwapProgram` (`EscrowProgram`) over to the composed system; its mutant
shows a difference in effect that these checks alone do not notice.

**Bounds.** Two wallets play maker, taker and stranger, since every wallet may
sign every transaction. Amounts up to 2 allow a zero and a nonzero change. The
clock runs from -1 over the expiry (1) to 2 and expiries to 3, so that each
window has a reading before, at and after its edge and one deadline is out of
reach. `MaxMakes` (`MaxEscrows`) of 1 or 2 and `MaxTransfers` of 0 or 1 are
enough for every pair of transactions that can compete for a note; the proofs
have no bounds. The in-flight runs hold up to two built makes and takes
(`MaxBuilt`): two makes (two escrows) on one funding note, or a make and the take
of its order. Two takes of one order in flight together would need three in
`SwapInFlight`; `ClientImplementsProgram` and `SdkTransactionsLand` cover them,
and `SwapAtomic` checks competing takes of the program. `SwapInFlight` has
one expiry (0) between clock readings -1 and 1, `EscrowInFlight` an unlock time
of 0, which the clock (0 to 1) passes, and room for two escrows to land; cancels and withdraws are bounded by their
deadlines, since a client submits one only when it has none pending. The wallet
scenarios put two or three processes side by side, `RpcLag` 1 gives a fresh and a
stale answer to each request, and `MaxOthers` 1 lets somebody else create an
interface at any point. Pages of one transaction put a page boundary between any two.
`CHECK_DEADLOCK FALSE`: with bounded makes and a bounded clock the system may
come to rest.

**Fairness.** `SwapAtomic`, `EscrowTimelock`: the clock advances, and a refund
that stays possible is eventually landed. The second is an assumption about
makers (owners), who have every interest in it, and about the cluster, which
lands a retried transaction in the end. Nothing is assumed of takers.
`SwapInFlight`, `EscrowInFlight`: this is split into its parts: a maker (owner)
with no pending cancel submits one, and a cancel that can land is not held back
for ever. The clock stops at `MaxTime`, which stands for a relayer deadline that
leaves the cluster enough time; a cancel with a deadline that is too short does
occur, and is replaced. `IndexDiscovery`: the calling thread runs (`index_until`
is a plain loop) and its clock passes the deadline; the number of transactions
under one tag is finite. `WalletFlows`: a process takes its next step (and so
stops waiting for a confirmation at some point), and the indexer catches up with
the chain. Nothing is assumed of landing, nor of failures: no process is sure to
end by a failed request.

## 4. Where the documents say otherwise

1. `swap_program.md:11-13` and `152-155`: orders move only by settlement or
   refund, because the PDA signs only for the takes and for `cancel`.
   `process_make_ix` ends in the same signed CPI (`make.rs:80`) and the make
   circuit does not constrain the source input, so in `SwapDocMoves` a make
   spends an order. With `OrdersFundMakes = FALSE` the guarantee is checked and
   proved. The result depends on the model of SPP, which is not in this
   repository.
2. `timelock_escrow.md:111-114` says the same of `withdraw`; `escrow.rs:54` is the
   counterpart, `EscrowDocMoves` the run, `EscrowsFundEscrows` the assumption.
3. `swap_program.md:76`: a wrong view tag "only means the taker does not index the
   trade". `scan_taker` returns an error for a marker under the wallet's own tag
   that it cannot follow (`index/taker.rs:65`), and `collect_tagged` passes it on
   (`index/poll.rs:46`), so the wallet whose tag was used gets no orders at all
   (`IndexMistagged`).

Without a run: `swap_program.md:207-208` has the client submit a zeroed 64-byte
placeholder as marker data, the program requires empty data (`make.rs:67`); the
same document lets a zero change contribute nothing to the transaction hash, the
circuit hashes the change note in every case (`make.go:47-53`); the integration
tests look for a note of at least the price ("no spendable utxo of {} >= {}",
`swap.rs:211`), but a take with a note above the price cannot land, and nothing
in the SDK says so (`Live` in `SwapClient`); and the document derives the payout
blinding of a take from the order's blinding alone, the code also from
the first nullifier.

## 5. Proofs

TLAPS proves the following, for every value of the constants that satisfies the
named assumptions. `Notes` and `ShieldedPool`: `BoundsAssumption`,
`OwnerAssumption`, `DataAssumption`, `CiphertextAssumption` (no data is not a
ciphertext), `PoolAssumption`. Programs: `SwapAssumption`, `EscrowAssumption`
(payloads are terms, every wallet may sign some transaction). Clients: `ClientAssumption` (what a wallet
builds can be signed by any two wallets, which covers a payer that is not the
signer). Discovery: `IndexAssumption`, `TransactionAssumption`. Examples:
`WalletAssumption` (the deposit exceeds what the flow then spends, as the
constants of the examples do). TLC evaluates each of them on the instances.

| module | theorem | statement |
|---|---|---|
| `SwapProofs` | `TypeCorrect` | `Spec => []TypeOK` |
| | `TakesSettle` | `Spec => []TakesSettleAsCommitted` |
| | `CancelsRefund` | `Spec => []CancelsRefundTheMaker` |
| | `PayoutsAreRecoverable` | `Spec => []PayoutsRecoverable` |
| | `OrdersMoveBySettlement` | `Spec => []OrdersMoveOnlyBySettlement` if `OrdersFundMakes = FALSE` |
| | `OrdersAreWellFormed` | `Spec => []OrdersWellFormed` |
| | `NoOrderIsStranded` | `Spec => []ExpiredOrdersCancellable` |
| | `SwapsAreAtomic` | `Spec => ImplementsAtomicSwap` if `OrdersFundMakes = FALSE` |
| `EscrowProofs` | `EscrowTypeCorrect` | `Spec => []TypeOK` |
| | `WithdrawsReturn` | `Spec => []WithdrawsAsCommitted` |
| | `EscrowsMoveByWithdraw` | `Spec => []EscrowsMoveOnlyByWithdraw` if `EscrowsFundEscrows = FALSE` |
| | `NoEscrowIsStranded` | `Spec => []UnlockedEscrowsWithdrawable` |
| `SwapClientProofs` | `ClientImplementsProgram` | `ClientSpec => ImplementsProgram` |
| | `SdkMovesOrdersBySettlement` | `ClientSpec => []OrdersMoveOnlyBySettlement`, for both values of `OrdersFundMakes` |
| | `SdkSwapsAreAtomic` | `ClientSpec => ImplementsAtomicSwap`, for both values of `OrdersFundMakes` |
| | `PayoutsAreRebuilt` | `ClientSpec => []PayoutsRebuilt` |
| | `SdkTransactionsLand` | `ClientSpec => []LandsExactlyWhenLive` |
| | `LandsOnlyWhenLive` | one direction of it, of the steps: `[][\A tx \in flight : Land(tx) => Live(tx)]_clientVars` |
| `EscrowClientProofs` | `ClientImplementsProgram` | `ClientSpec => ImplementsProgram` |
| | `SdkMovesEscrowsByWithdraw` | `ClientSpec => []EscrowsMoveOnlyByWithdraw`, for both values of `EscrowsFundEscrows` |
| | `SdkTransactionsLand` | `ClientSpec => []LandsExactlyWhenLive` |
| | `LandsOnlyWhenLive` | as for the swap |
| `IndexProofs` | `IndexTypeCorrect` | `Spec => []TypeOK` |
| | `DiscoveryIsSound` | `Spec => []DiscoveredOrdersCommitted` |
| | `DiscoveryIsComplete` | `Spec => []NothingMissed` |
| `WalletProofs` | `AssertionsHold` | `Spec => []ReadBacksExact` |
| | `OnlyRacesAreRejected` | `Spec => []RejectedOnlyByRace` |
| | `BalancesAreTheLedger` | `Spec => []SyncShowsTheLedger` |
| | `NewAttemptResolves` | `Spec => []NewAttemptKnowsTheMints` |
| | `SolFlowsKeepTheirFunds` | `Spec => []FlowsKeepTheirFunds` |

Each rests on an inductive invariant, stated as a theorem of its module
(`SwapInvariant`, `EscrowInvariant`, `ClientInvariant`, `IndexInvariant`,
`SeenInvariant`, `WalletInvariant`).

*Programs.* `PoolProofs` reduces a transact to what later proofs need: the tree
only grows, the spent leaves get one receipt, older receipts stay. The
properties are not inductive one by one: each speaks of orders consumed in
a particular way and says nothing of the rest. The inductive invariant `SwapInv`
is the type invariant and, for every consumed order, a complete account of how it
was consumed: `Settlement`, `Refund` or `SpentByMake`. It is stated over leaves
and receipts that never change once written (`OutcomeKept`), so a step has to be
examined only for the leaves it spends: one lemma per action (`StepOfMake`,
`StepOfTake`, ...) derives the account from the circuit's predicate.
That each order has one marker, and that the marker names a wallet that signed the
order's make (`OrdersWellFormed`), is inductive given the types: a marker and the
receipt of its make are written in one step and stay (`MakersStay`).
`EscrowProofs` follows the same plan.

*Nothing is stranded.* `AcceptsOneForOne`, `AcceptsOneForTwo` and
`AcceptsTwoForTwo` (`PoolProofs`) say what is enough for SPP to accept a
transact: unspent inputs whose owners sign, a deadline that has not passed, no
data on an output but that of an input's owner, and equal totals. `CancelAccepted`
then names the signers, the refund and the deadline that cancel an expired order;
that the order commits terms of a known rail, is in the default ring and is not
empty is `OrdersWellFormed`. `NoEscrowIsStranded` needs the same fact about
escrow notes, which `EscrowsWellFormed` proves along the way. These theorems hold
for either value of `OrdersFundMakes` (`EscrowsFundEscrows`).

*Refinement of `AtomicSwap`.* A balance is a sum over the unspent notes, and a
transact takes some notes out of that set and puts others in. `Sums` has what
follows for `SumFunctionOnSet`: the sum of a set with one element more or less,
of a union, of a difference, a bound, and the effect of a change. The induction
rules of the library take an operator as a parameter, which the provers cannot
instantiate, so existence and uniqueness of sums are shown by a
least counterexample in the cardinality of the set. `AtomicStep` goes through the
actions: a make is `Place`, a take `Fill`, a cancel `Refund`, a transfer `Pay` or
`Trade`, and each must change every balance of every owner by exactly the terms.
That an order is never `lost` is `OrdersMoveOnlyBySettlement`; therefore
`SwapsAreAtomic` has the hypothesis on makes that this property has, and
`SdkSwapsAreAtomic`, over `ClientImplementsProgram`, does without.

*Clients.* A handler of the composed system sees instruction data and a proof,
the handler of `SwapProgram` sees notes and a circuit's predicate. What joins
them is `ClientInv`: every transaction in flight was built from notes that are in
the tree, by the SDK's rules, and its proof names a public input that fixes them.
Since the tree only grows, this stays true however long the transaction waits.
A landing is then a step of the program: the proof that verifies fixes the notes,
and the circuit's predicate holds of them. The one case that needs more is a
take whose payer selected a note above the price: the SDK proves over a note it
rebuilt from the terms, and `VerifiedTakePays` shows that the proof verifies only
if that note is the one in the tree. `ClientSpec` has makes funded from plain
notes (a guard of `SubmitMake`, kept by `ClientInv`), so the guarantee that the documents
give holds of such clients without the assumption that the program needs (section
4). It is an assumption about clients: the repository's tests select plain notes,
while the make builder (`make/proof.rs`) does not check its source. The same goes
for the source of an escrow (`FundingNote` in `EscrowClient`).

`SdkTransactionsLand` is the converse of that argument as well. `ClientInv` keeps
all of the instruction data of what is in flight, the public input of its proof
included. While the transaction is live, the hash the handler computes from
the tree (`HashOfOne`, `HashOfTwo`) is the one the prover was given: the opening
that discovery returned hashes to the order's leaf (`OpeningHashes`), and the note
rebuilt from the terms has the hash of the selected one exactly if that one is
plain and holds the price. The proof then verifies, and the sufficient conditions
of `PoolProofs` do the rest.

*Discovery.* `IndexInv` holds for any transactions at all: everything a pass has
collected comes from a position it has read, and its cursor is one the indexer
handed out. That nothing is missed needs `SeenInv`, which says which
positions a pass is done with: those up to its cursor and, while it scans, those
up to the next cursor that are no longer on the page. It is a fact about
positions and not about the list, so transactions that land meanwhile do not
disturb it. `SeenInv` uses `TransactionAssumption`: a marker carries
the tag its transaction is published under, there is one order per transaction,
encrypted for the confidential slot it is in, and no order is in two
transactions. `IndexMistagged` (section 4) is what happens otherwise. Least and
greatest positions exist by well-foundedness of the naturals (`LeastNatural`,
`GreatestNatural`).

*Example processes.* `WalletInv` says which transaction each step of a process
sends (`IsSent`, `Effect`), that every signature is on the chain or in flight
once (`LedgerOK`), and that a rejection is a lost race for an interface
(`RejectionsOK`). It follows that a note is spent only by the step after the one
that made it (`SpenderIsNext`), so that what a process reads back under its own
signature cannot have been touched by another process, however old the answer is.
There is one lemma per action; `RequestFails` is one of them, and changes nothing
but the process's own state. `SolFlowsKeepTheirFunds` is the same fact at every
point where a flow can end: only the next step of the flow spends its note
(`NextSpends`), and that step leaves one note (`NoteIsThere`). `LedgerOK` also
says that a note's mint has its interface by the slot the note lands; so a
registry as new as the notes names all their mints, which is
`NewAttemptResolves`.

`SyncShowsTheLedger` adds up what a process did not do itself: `BooksOK` says, of
every prefix of the chain, that the notes a wallet can spend after it hold what
its transactions deposited less what they sent away. It is inductive together
with `WalletInv`, which says that signatures are fresh, that only notes that were
made are spent, and that an amount is what its step fixes; the sums are those of
`Sums`.

*Model-checked only.* Liveness: `OrdersEventuallyResolved`,
`EscrowsEventuallyReturned`, `DiscoveryReturns` and `RunsEnd`. The prover has no
rule for weak fairness, which is defined by `ENABLED`. The theorems give the part
of each that is safety: an order that may be cancelled can be, what a maker
submits lands while it is live. The runs that expect a violation have no theorem.
Every invariant and every other action property that a passing run checks is
proved.

## 6. Not modelled

Not modelled, because it is computation without protocol state: the pairing check
and the hashes (assumed ideal), serialization, account lists, the text form of
witnesses, verifying keys (generated), fees and compute budgets. Not modelled,
because it is not in this repository: the indexer's own consistency, tree
roll-over in SPP, the wallet synchronisation inside the TypeScript library. Build
tooling, release downloads and CI have no behaviour of the system. Benchmarks and
test fixtures repeat the flows of the integration tests.
