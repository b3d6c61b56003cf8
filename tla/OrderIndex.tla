----------------------------- MODULE OrderIndex -----------------------------
(***************************************************************************)
(* Order discovery: index_taker and index_maker poll the indexer, page by  *)
(* page, while transactions land, wallets register new addresses and time  *)
(* runs out.  A pass (collect_tagged) reads every page of transactions     *)
(* under the wallet's tag and scans them one at a time; the indexer and    *)
(* the user registry are read at different moments.                        *)
(***************************************************************************)
EXTENDS Integers, SequencesExt

CONSTANTS
  Wallet,        \* Solana keys
  Address,       \* shielded addresses a wallet may have registered
  Home,          \* [Wallet -> Address]: the address of a wallet's keypair
  Unregistered,  \* a wallet without a registry entry
  Transaction,   \* the transactions that may land, see TransactionRecord
  NoMarker, NoOrder, NoCursor,
  KnownAsset,    \* the tokens in the caller's AssetRegistry
  Client,        \* the discoveries that may run: [wallet, role]
  Started,       \* the sets of clients that run together
  PageSize,      \* transactions per page
  MaxRegistrations, MaxFailures \* bounds

\* What the order slot decrypts to (PlainTextData and the note's asset).
OrderData == [id : Nat, assets : SUBSET STRING]

\* The opening a leaf commits to, and the tree it was appended to.
Leaf == [address : Address, data : OrderData \cup {NoOrder}, tree : Nat]

\* An output slot: index is the slot index its ciphertext was made under.
Slot == [encoding : {"empty", "plain", "encrypted", "confidential"},
         index : Nat, to : Wallet, leaf : Leaf]

\* A marker message, with the hash the program wrote into it; NoOrder stands
\* for a payload that is not a MarkerData.
MarkerMessage == [tag : Wallet, order : Leaf \cup {NoOrder}, maker : Wallet]

\* A transaction as the indexer returns it; author made it, and tags are the
\* view tags of its messages and outputs.
TransactionRecord ==
  [author : Wallet, tags : SUBSET Wallet, marker : MarkerMessage \cup {NoMarker},
   slots : Seq(Slot)]

ASSUME IndexAssumption ==
  /\ Home \in [Wallet -> Address]
  /\ Client \subseteq [wallet : Wallet, role : {"taker", "maker"}]
  /\ Started \subseteq SUBSET Client
  /\ Transaction \subseteq TransactionRecord
  /\ PageSize \in Nat \ {0}
  /\ MaxRegistrations \in Nat /\ MaxFailures \in Nat

(***************************************************************************)
(* The position of slot k among the data-bearing slots, and the slots of   *)
(* tx that hold an order.                                                  *)
(***************************************************************************)
SlotIndex(tx, k) == Cardinality({j \in 1 .. k - 1 : tx.slots[j].encoding # "empty"})

OrderSlots(tx) == {k \in DOMAIN tx.slots : tx.slots[k].leaf.data # NoOrder}

(***************************************************************************)
(* What the SDK's make builds: the marker's tag is one of the              *)
(* transaction's, there is one order, its slot is confidential and is      *)
(* encrypted under the index that discovery computes, and no two           *)
(* transactions create the same leaf, since every order has a blinding of  *)
(* its own.                                                                *)
(***************************************************************************)
ASSUME TransactionAssumption ==
  /\ NoCursor \notin Nat
  /\ \A tx \in Transaction :
       /\ tx.marker # NoMarker => tx.marker.tag \in tx.tags
       /\ \A k \in OrderSlots(tx) : /\ tx.slots[k].encoding = "confidential"
                                    /\ tx.slots[k].index = SlotIndex(tx, k)
       /\ \A j, k \in OrderSlots(tx) : j = k
  /\ \A tx, other \in Transaction : \A j \in OrderSlots(tx), k \in OrderSlots(other) :
       tx.slots[j].leaf = other.slots[k].leaf => tx = other

VARIABLES
  indexed,       \* the transactions the indexer has, in order
  registry,      \* [Wallet -> registered address]
  registrations, \* how often the registry changed
  expired,       \* the clients whose deadline has passed
  failures,      \* how many indexer calls failed
  run            \* the state of each client's discovery

vars == <<indexed, registry, registrations, expired, failures, run>>

\* INDEXED_TREE_ID
INDEXED_TREE_ID == 0

-----------------------------------------------------------------------------
(***************************************************************************)
(* Scanning one transaction.                                               *)
(***************************************************************************)
None  == [status |-> "none"]
Error == [status |-> "error"]
Found(leaf, maker) == [status |-> "found", leaf |-> leaf, maker |-> maker]

\* Both assets of the order resolve: SOL always does, a token if it is in the
\* caller's registry.
resolve_mint(data) == data.assets \subseteq {"SOL"} \cup KnownAsset

\* The confidential slots, with an index that counts data-bearing slots only.
unified_slots(tx) ==
  {[index |-> SlotIndex(tx, k), slot |-> tx.slots[k]] :
     k \in {i \in DOMAIN tx.slots : tx.slots[i].encoding = "confidential"}}

FirstSlot(unified) == CHOOSE u \in unified : \A v \in unified : u.index <= v.index

\* The hash of an opening, as the SDK recomputes it.
Opening(address, data) == [address |-> address, data |-> data, tree |-> INDEXED_TREE_ID]

\* Fault: the reconstruction is not compared with the committed leaf.
AcceptOpening(leaf, address, maker) == Found(Opening(address, leaf.data), maker)

\* TakerOrderCandidate::into_order: the maker's address comes from the user
\* registry, so the reconstruction must match the leaf the marker names.
into_order(leaf, address, maker) ==
  IF Opening(address, leaf.data) = leaf THEN Found(leaf, maker) ELSE Error

(***************************************************************************)
(* scan_taker, then the registry lookup and into_order of index_taker.  A  *)
(* marker under the wallet's tag that does not lead to an order this       *)
(* wallet can open is an error.                                            *)
(***************************************************************************)
scan_taker(tx, w, addressOf) ==
  IF tx.marker = NoMarker THEN None
  ELSE IF tx.marker.tag # w THEN None
  ELSE LET hits == {u \in unified_slots(tx) : u.slot.leaf = tx.marker.order}
           hit     == FirstSlot(hits)
           address == addressOf[tx.marker.maker]
       IN  IF /\ hits # {}
              /\ hit.slot.to = w /\ hit.slot.index = hit.index
              /\ hit.slot.leaf.data # NoOrder
              /\ resolve_mint(hit.slot.leaf.data)
              /\ address # Unregistered
           THEN into_order(tx.marker.order, address, tx.marker.maker)
           ELSE Error

(***************************************************************************)
(* scan_maker: only the author's key opens the slots; slots that do not    *)
(* open to an order of this wallet are skipped.                            *)
(***************************************************************************)
scan_maker(tx, w) ==
  LET opens(u) == /\ u.slot.index = u.index
                  /\ u.slot.leaf.data # NoOrder
                  /\ resolve_mint(u.slot.leaf.data)
                  /\ Opening(Home[w], u.slot.leaf.data) = u.slot.leaf
      mine == {u \in unified_slots(tx) : opens(u)}
  IN  IF tx.author = w /\ mine # {} THEN Found(FirstSlot(mine).slot.leaf, w) ELSE None

scan(c, tx) ==
  IF c.role = "taker" THEN scan_taker(tx, c.wallet, registry)
  ELSE scan_maker(tx, c.wallet)

-----------------------------------------------------------------------------
(***************************************************************************)
(* The indexer: transactions after a cursor, oldest first, PageSize at a   *)
(* time, and the cursor of the next page if there is one.                  *)
(***************************************************************************)
Tagged(w, after) == {k \in DOMAIN indexed : k > after /\ w \in indexed[k].tags}

PageOf(w, cursor) ==
  LET hits == Tagged(w, cursor)
      page == {k \in hits : Cardinality({j \in hits : j <= k}) <= PageSize}
  IN  [transactions |-> page, next |-> IF page # hits THEN Max(page) ELSE NoCursor]

\* A pass that begins now; start is how much the indexer had by then.
NewPass ==
  [phase |-> "fetch", cursor |-> 0, page |-> {}, next |-> NoCursor,
   found |-> <<>>, start |-> Len(indexed), fault |-> 0]

Init ==
  /\ indexed = <<>>
  /\ registry = Home
  /\ registrations = 0
  /\ failures = 0
  /\ \E started \in Started :
       /\ expired = Client \ started
       /\ run = [c \in Client |-> IF c \in started THEN NewPass
                                  ELSE [NewPass EXCEPT !.phase = "idle"]]

Finish(c, phase) == run' = [run EXCEPT ![c].phase = phase]

\* collect_tagged asks the indexer for the next page.
FetchPage(c) ==
  /\ run[c].phase = "fetch"
  /\ LET page == PageOf(c.wallet, run[c].cursor)
     IN  run' = [run EXCEPT ![c].phase = "scan", ![c].page = page.transactions,
                            ![c].next = page.next]
  /\ UNCHANGED <<indexed, registry, registrations, expired, failures>>

\* The call fails: the error ends the discovery.
FetchFails(c) ==
  /\ run[c].phase = "fetch"
  /\ failures < MaxFailures
  /\ failures' = failures + 1
  /\ Finish(c, "rpc_error")
  /\ UNCHANGED <<indexed, registry, registrations, expired>>

\* collect_tagged scans the next transaction of the page.
ScanTransaction(c) ==
  /\ run[c].phase = "scan" /\ run[c].page # {}
  /\ LET position == Min(run[c].page)
         item     == scan(c, indexed[position])
     IN  run' = [run EXCEPT
                   ![c].page = @ \ {position},
                   ![c].phase = IF item.status = "error" THEN "scan_error" ELSE @,
                   ![c].fault = IF item.status = "error" THEN position ELSE @,
                   ![c].found = IF item.status = "found" THEN Append(@, item) ELSE @]
  /\ UNCHANGED <<indexed, registry, registrations, expired, failures>>

\* Fault: what the earlier pages had is dropped.
FreshVectorPerPage(c) ==
  /\ run[c].phase = "scan" /\ run[c].page = {}
  /\ run[c].next # NoCursor
  /\ run' = [run EXCEPT ![c].phase = "fetch", ![c].cursor = run[c].next, ![c].found = <<>>]
  /\ UNCHANGED <<indexed, registry, registrations, expired, failures>>

\* Fault: the last page is taken for one with a next page.
CursorUnchecked(c) ==
  /\ run[c].phase = "scan" /\ run[c].page = {}
  /\ run' = [run EXCEPT ![c].phase = "fetch", ![c].cursor = run[c].next]
  /\ UNCHANGED <<indexed, registry, registrations, expired, failures>>

\* The page is done and there is another one.
collect_tagged(c) ==
  /\ run[c].phase = "scan" /\ run[c].page = {}
  /\ run[c].next # NoCursor
  /\ run' = [run EXCEPT ![c].phase = "fetch", ![c].cursor = run[c].next]
  /\ UNCHANGED <<indexed, registry, registrations, expired, failures>>

\* Fault: a pass that found nothing is always repeated.
IndexForever(c) ==
  /\ run[c].phase = "scan" /\ run[c].page = {}
  /\ run[c].next = NoCursor
  /\ \/ run[c].found # <<>> /\ Finish(c, "ok")
     \/ run[c].found = <<>> /\ run' = [run EXCEPT ![c] = NewPass]
  /\ UNCHANGED <<indexed, registry, registrations, expired, failures>>

(***************************************************************************)
(* index_until, at the end of a pass: return what was found; give up after *)
(* the deadline; otherwise sleep and start over.                           *)
(***************************************************************************)
index_until(c) ==
  /\ run[c].phase = "scan" /\ run[c].page = {}
  /\ run[c].next = NoCursor
  /\ \/ run[c].found # <<>> /\ Finish(c, "ok")
     \/ run[c].found = <<>> /\ c \in expired /\ Finish(c, "timed_out")
     \/ run[c].found = <<>> /\ c \notin expired
          /\ run' = [run EXCEPT ![c] = NewPass]
  /\ UNCHANGED <<indexed, registry, registrations, expired, failures>>

\* A transaction is confirmed and indexed.
Land(tx) ==
  /\ tx \notin ToSet(indexed)
  /\ indexed' = Append(indexed, tx)
  /\ UNCHANGED <<registry, registrations, expired, failures, run>>

\* A wallet changes or drops its entry in the user registry.
Register(w, address) ==
  /\ registrations < MaxRegistrations
  /\ address # registry[w]
  /\ registry' = [registry EXCEPT ![w] = address]
  /\ registrations' = registrations + 1
  /\ UNCHANGED <<indexed, expired, failures, run>>

\* The client's timeout elapses.
Expire(c) ==
  /\ c \notin expired
  /\ expired' = expired \cup {c}
  /\ UNCHANGED <<indexed, registry, registrations, failures, run>>

Discover(c) == FetchPage(c) \/ ScanTransaction(c) \/ collect_tagged(c) \/ index_until(c)

Next ==
  \/ \E c \in Client : Discover(c) \/ FetchFails(c) \/ Expire(c)
  \/ \E tx \in Transaction : Land(tx)
  \/ \E w \in Wallet, address \in Address \cup {Unregistered} : Register(w, address)

Spec == Init /\ [][Next]_vars

\* The client runs and its clock does too.
Fairness == \A c \in Client : WF_vars(Discover(c)) /\ WF_vars(Expire(c))

LiveSpec == Spec /\ Fairness

-----------------------------------------------------------------------------
Done == {"ok", "timed_out", "scan_error", "rpc_error", "idle"}

(***************************************************************************)
(* A pass reads indexed transactions only, and its cursor is one that the  *)
(* indexer handed out.                                                     *)
(***************************************************************************)
TypeOK ==
  /\ ToSet(indexed) \subseteq Transaction
  /\ registry \in [Wallet -> Address \cup {Unregistered}]
  /\ \A c \in Client :
       /\ run[c].phase \in Done \cup {"fetch", "scan"}
       /\ run[c].page \subseteq DOMAIN indexed
       /\ run[c].cursor \in {0} \cup DOMAIN indexed
       /\ run[c].start \in 0 .. Len(indexed)

\* The order of transaction tx is for taker w, and w can open it.
MadeFor(tx, w) ==
  /\ tx.marker # NoMarker
  /\ tx.marker.tag = w
  /\ \E k \in DOMAIN tx.slots : tx.slots[k].leaf = tx.marker.order /\ tx.slots[k].to = w

\* The orders of tx that client c's discovery is for.
OrdersFor(c, tx) ==
  IF c.role = "taker"
  THEN IF MadeFor(tx, c.wallet) THEN {tx.marker.order} ELSE {}
  ELSE {tx.slots[k].leaf : k \in {i \in DOMAIN tx.slots :
          LET leaf == tx.slots[i].leaf
          IN  /\ tx.author = c.wallet /\ c.wallet \in tx.tags
              /\ leaf.data # NoOrder /\ leaf.address = Home[c.wallet]
              /\ leaf.tree = INDEXED_TREE_ID /\ resolve_mint(leaf.data)}}

(***************************************************************************)
(* Whatever a maker registers in the meantime, an order that discovery     *)
(* returns is one that was committed on chain for this client, with these  *)
(* terms and this maker address.                                           *)
(***************************************************************************)
DiscoveredOrdersCommitted ==
  \A c \in Client : \A k \in DOMAIN run[c].found :
    \E tx \in ToSet(indexed) : run[c].found[k].leaf \in OrdersFor(c, tx)

(***************************************************************************)
(* A discovery that succeeds or times out has seen every order of this     *)
(* client that was indexed when its last pass began, and returns each one  *)
(* once, however transactions land between two pages.                      *)
(***************************************************************************)
NothingMissed ==
  \A c \in Client : run[c].phase \in {"ok", "timed_out"} =>
    /\ \A p \in 1 .. run[c].start : \A leaf \in OrdersFor(c, indexed[p]) :
         \E k \in DOMAIN run[c].found : run[c].found[k].leaf = leaf
    /\ \A j, k \in DOMAIN run[c].found :
         run[c].found[j].leaf = run[c].found[k].leaf => j = k

(***************************************************************************)
(* "A wrong tag only means the taker does not index the trade"             *)
(* (swap_program.md:76): no discovery fails on an order made for somebody  *)
(* else.                                                                   *)
(***************************************************************************)
WrongTagsAreHarmless ==
  \A c \in Client : run[c].phase = "scan_error" =>
    MadeFor(indexed[run[c].fault], c.wallet)

(***************************************************************************)
(* Every discovery returns: it finds orders, fails or times out.           *)
(***************************************************************************)
DiscoveryReturns == \A c \in Client : <>(run[c].phase \in Done)
=============================================================================
