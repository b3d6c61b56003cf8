---------------------------- MODULE IndexProofs -----------------------------
(***************************************************************************)
(* Proofs about OrderIndex: what discovery returns was committed for the   *)
(* client, and a discovery that succeeds or times out has missed nothing,  *)
(* however transactions land between its pages.                            *)
(*                                                                         *)
(* The first inductive invariant, IndexInv, says where the items that a    *)
(* pass has found come from; it holds for any transactions at all.  The    *)
(* second, SeenInv, says which positions a pass has dealt with: those up   *)
(* to its cursor and, while it scans, those up to the next cursor that are *)
(* not on the page any more.  It needs TransactionAssumption.              *)
(***************************************************************************)
EXTENDS OrderIndex, FiniteSetTheorems, TLAPS

-----------------------------------------------------------------------------
(***************************************************************************)
(* Extremal elements.                                                      *)
(***************************************************************************)

(***************************************************************************)
(* A nonempty set of naturals has a least element, which is what Min       *)
(* denotes: the scan takes the oldest transaction of the page.             *)
(***************************************************************************)
LEMMA LeastNatural ==
  ASSUME NEW S, S \subseteq Nat, S # {}
  PROVE  /\ Min(S) \in S
         /\ \A y \in S : Min(S) <= y
<1>1. \E x \in S : \A y \in S : ~ (<<y, x>> \in OpToRel(<, Nat))
  BY NatLessThanWellFounded, WFMin, Zenon
<1>2. \A x \in S, y \in S : <<y, x>> \in OpToRel(<, Nat) <=> y < x
  BY SMT DEF OpToRel
<1>3. \E x \in S : \A y \in S : x =< y
  <2>1. PICK x \in S : \A y \in S : ~ (<<y, x>> \in OpToRel(<, Nat))
    BY <1>1
  <2>2. \A y \in S : ~(y < x)
    BY <2>1, <1>2, Zenon
  <2> QED BY <2>2, SMT
<1> QED BY <1>3, Zenon DEF Min

(***************************************************************************)
(* A nonempty bounded set of naturals has a greatest element, which is     *)
(* what Max denotes: the cursor of a page is its last transaction.         *)
(***************************************************************************)
LEMMA GreatestNatural ==
  ASSUME NEW S, S \subseteq Nat, S # {}, NEW bound \in Nat, \A x \in S : x <= bound
  PROVE  /\ Max(S) \in S
         /\ \A y \in S : Max(S) >= y
<1> DEFINE Upper == {n \in Nat : \A x \in S : x <= n}
<1>1. Upper \subseteq Nat /\ Upper # {}
  BY SMT
<1> DEFINE top == Min(Upper)
<1>2. top \in Upper /\ \A n \in Upper : top <= n
  <2> HIDE DEF Upper
  <2> QED BY <1>1, LeastNatural, Zenon
<1>3. top \in Nat /\ \A x \in S : x <= top
  BY <1>2
<1> HIDE DEF top
<1>4. top \in S
  <2>1. SUFFICES ASSUME top \notin S PROVE FALSE
    OBVIOUS
  <2>2. PICK x \in S : TRUE
    OBVIOUS
  <2>3. \A y \in S : y <= top - 1
    BY <1>3, <2>1, SMT
  <2>4. top - 1 \in Nat
    BY <1>3, <2>2, <2>3, SMT
  <2>5. top - 1 \in Upper
    BY <2>3, <2>4
  <2> QED BY <1>2, <2>5, <1>3, SMT
<1>5. \E x \in S : \A y \in S : x >= y
  BY <1>3, <1>4, SMT
<1> QED BY <1>5, Zenon DEF Max

(***************************************************************************)
(* FirstSlot picks one of the slots it is given: their indices count       *)
(* earlier slots, so they are naturals and there is a least one.           *)
(***************************************************************************)
LEMMA FirstSlotExists ==
  ASSUME NEW unified, unified # {}, \A u \in unified : u.index \in Nat
  PROVE  FirstSlot(unified) \in unified
<1> DEFINE Indices == {u.index : u \in unified}
<1>1. Indices \subseteq Nat /\ Indices # {}
  OBVIOUS
<1> DEFINE least == Min(Indices)
<1>2. least \in Indices /\ \A n \in Indices : least <= n
  <2> HIDE DEF Indices
  <2> QED BY <1>1, LeastNatural, Zenon
<1> HIDE DEF least
<1>3. \E u \in unified : \A v \in unified : u.index <= v.index
  BY <1>2
<1> QED BY <1>3, Zenon DEF FirstSlot

(***************************************************************************)
(* The index that discovery computes for a slot is a natural number.       *)
(***************************************************************************)
LEMMA SlotIndexType ==
  ASSUME NEW tx, NEW k \in Nat
  PROVE  SlotIndex(tx, k) \in Nat
<1> DEFINE Before == {j \in 1 .. k - 1 : tx.slots[j].encoding # "empty"}
<1>1. IsFiniteSet(1 .. k - 1)
  BY FS_Interval, SMT
<1>2. Before \in SUBSET (1 .. k - 1)
  OBVIOUS
<1>3. IsFiniteSet(Before)
  <2> HIDE DEF Before
  <2> QED BY <1>1, <1>2, FS_Subset, Zenon
<1>4. Cardinality(Before) \in Nat
  <2> HIDE DEF Before
  <2> QED BY <1>3, FS_CardinalityType, Zenon
<1> QED BY <1>4, Zenon DEF SlotIndex

-----------------------------------------------------------------------------
(***************************************************************************)
(* Scanning.                                                               *)
(***************************************************************************)

\* What collect_tagged appends to its vector.
FoundItem == [status : {"found"}, leaf : Leaf, maker : Wallet]

\* The leaves of the order slots of tx.
OrderLeaves(tx) == {tx.slots[k].leaf : k \in OrderSlots(tx)}

(***************************************************************************)
(* The fields of a transaction that the indexer returns.                   *)
(***************************************************************************)
LEMMA TransactionType ==
  ASSUME NEW tx \in Transaction
  PROVE  /\ tx.marker # NoMarker => tx.marker \in MarkerMessage
         /\ tx.slots \in Seq(Slot)
         /\ \A k \in DOMAIN tx.slots : k \in Nat /\ tx.slots[k] \in Slot
<1>1. tx \in TransactionRecord
  BY IndexAssumption, Zenon
<1>2. tx.marker \in MarkerMessage \cup {NoMarker} /\ tx.slots \in Seq(Slot)
  BY <1>1, SMT DEF TransactionRecord
<1> HIDE DEF Slot
<1>3. \A k \in DOMAIN tx.slots : k \in Nat /\ tx.slots[k] \in Slot
  BY <1>2, SMT
<1> QED BY <1>2, <1>3, Zenon

(***************************************************************************)
(* A slot that is scanned is a slot of the transaction, with an index that *)
(* is a number.                                                            *)
(***************************************************************************)
LEMMA UnifiedSlots ==
  ASSUME NEW tx \in Transaction, NEW u \in unified_slots(tx)
  PROVE  /\ u.index \in Nat
         /\ \E k \in DOMAIN tx.slots :
              /\ u.slot = tx.slots[k]
              /\ u.index = SlotIndex(tx, k)
              /\ tx.slots[k].encoding = "confidential"
<1>1. PICK k \in DOMAIN tx.slots :
        /\ tx.slots[k].encoding = "confidential"
        /\ u = [index |-> SlotIndex(tx, k), slot |-> tx.slots[k]]
  BY Zenon DEF unified_slots
<1>2. u.index = SlotIndex(tx, k) /\ u.slot = tx.slots[k]
  BY <1>1
<1>3. SlotIndex(tx, k) \in Nat
  BY TransactionType, SlotIndexType, Zenon
<1> QED BY <1>1, <1>2, <1>3, Zenon

(***************************************************************************)
(* An item that a taker's scan returns is the order of a transaction that  *)
(* was made for this taker, under the hash its marker names.               *)
(***************************************************************************)
LEMMA TakerFound ==
  ASSUME NEW tx \in Transaction, NEW w \in Wallet, NEW addressOf,
         scan_taker(tx, w, addressOf).status = "found"
  PROVE  /\ scan_taker(tx, w, addressOf) \in FoundItem
         /\ scan_taker(tx, w, addressOf).leaf = tx.marker.order
         /\ MadeFor(tx, w)
         /\ tx.marker.order \in OrderLeaves(tx)
<1> DEFINE hits == {u \in unified_slots(tx) : u.slot.leaf = tx.marker.order}
           hit  == FirstSlot(hits)
           address == addressOf[tx.marker.maker]
           accepted == /\ hits # {}
                       /\ hit.slot.to = w /\ hit.slot.index = hit.index
                       /\ hit.slot.leaf.data # NoOrder
                       /\ resolve_mint(hit.slot.leaf.data)
                       /\ address # Unregistered
           item == into_order(tx.marker.order, address, tx.marker.maker)
<1>1. scan_taker(tx, w, addressOf) =
        IF tx.marker = NoMarker THEN None
        ELSE IF tx.marker.tag # w THEN None
        ELSE IF accepted THEN item ELSE Error
  BY Zenon DEF scan_taker
<1>2. None.status # "found" /\ Error.status # "found"
  BY DEF None, Error
<1>3. /\ tx.marker # NoMarker /\ tx.marker.tag = w
      /\ accepted
      /\ scan_taker(tx, w, addressOf) = item
  <2> HIDE DEF accepted, item
  <2> QED BY <1>1, <1>2, Zenon
<1>4. item = Found(tx.marker.order, tx.marker.maker)
  <2> HIDE DEF address
  <2> QED BY <1>3, <1>2, Zenon DEF into_order
<1>5. hit \in hits
  <2>1. hits # {} /\ \A u \in hits : u.index \in Nat
    BY <1>3, UnifiedSlots, Zenon
  <2> HIDE DEF hits
  <2> QED BY <2>1, FirstSlotExists, Zenon
<1>6. hit \in unified_slots(tx) /\ hit.slot.leaf = tx.marker.order
  BY <1>5, Zenon
<1>7. hit.slot.to = w /\ hit.slot.leaf.data # NoOrder
  BY <1>3, Zenon
<1> HIDE DEF hit
<1>8. PICK k \in DOMAIN tx.slots : hit.slot = tx.slots[k]
  BY <1>6, UnifiedSlots, Zenon
<1>9. tx.slots[k].leaf = tx.marker.order /\ tx.slots[k].to = w
  BY <1>6, <1>7, <1>8, Zenon
<1>10. tx.marker.order \in OrderLeaves(tx)
  BY <1>7, <1>8, <1>9, Zenon DEF OrderLeaves, OrderSlots
<1>11. tx.marker.order \in Leaf
  BY <1>9, TransactionType, SMT DEF Slot
<1>12. tx.marker.maker \in Wallet
  BY <1>3, TransactionType, SMT DEF MarkerMessage
<1>13. item \in FoundItem /\ item.leaf = tx.marker.order
  <2> HIDE DEF item
  <2> QED BY <1>4, <1>11, <1>12, SMT DEF Found, FoundItem
<1>14. MadeFor(tx, w)
  BY <1>3, <1>9, Zenon DEF MadeFor
<1> QED BY <1>3, <1>10, <1>13, <1>14, Zenon

(***************************************************************************)
(* A taker's scan never passes over an order made for this taker: it       *)
(* returns the order or stops with an error.                               *)
(***************************************************************************)
LEMMA TakerCovers ==
  ASSUME NEW tx \in Transaction, NEW w \in Wallet, NEW addressOf,
         MadeFor(tx, w), scan_taker(tx, w, addressOf).status # "error"
  PROVE  scan_taker(tx, w, addressOf).status = "found"
<1> DEFINE hits == {u \in unified_slots(tx) : u.slot.leaf = tx.marker.order}
           hit  == FirstSlot(hits)
           address == addressOf[tx.marker.maker]
           accepted == /\ hits # {}
                       /\ hit.slot.to = w /\ hit.slot.index = hit.index
                       /\ hit.slot.leaf.data # NoOrder
                       /\ resolve_mint(hit.slot.leaf.data)
                       /\ address # Unregistered
           item == into_order(tx.marker.order, address, tx.marker.maker)
<1>1. scan_taker(tx, w, addressOf) =
        IF tx.marker = NoMarker THEN None
        ELSE IF tx.marker.tag # w THEN None
        ELSE IF accepted THEN item ELSE Error
  BY Zenon DEF scan_taker
<1>2. Error.status = "error"
  BY DEF Error
<1>3. tx.marker # NoMarker /\ tx.marker.tag = w
  BY Zenon DEF MadeFor
<1>4. scan_taker(tx, w, addressOf) = item
  <2> HIDE DEF accepted, item
  <2> QED BY <1>1, <1>2, <1>3, Zenon
<1>5. item = Found(tx.marker.order, tx.marker.maker)
  <2> HIDE DEF address
  <2> QED BY <1>4, <1>2, Zenon DEF into_order
<1> QED BY <1>4, <1>5 DEF Found

(***************************************************************************)
(* An item that a maker's scan returns is an order of this maker, under    *)
(* the address of its keypair.                                             *)
(***************************************************************************)
LEMMA MakerFound ==
  ASSUME NEW tx \in Transaction, NEW c \in Client, c.role # "taker",
         c.wallet \in tx.tags,
         scan_maker(tx, c.wallet).status = "found"
  PROVE  /\ scan_maker(tx, c.wallet) \in FoundItem
         /\ scan_maker(tx, c.wallet).leaf \in OrdersFor(c, tx)
         /\ scan_maker(tx, c.wallet).leaf \in OrderLeaves(tx)
<1> DEFINE w == c.wallet
           opens(u) == /\ u.slot.index = u.index
                       /\ u.slot.leaf.data # NoOrder
                       /\ resolve_mint(u.slot.leaf.data)
                       /\ Opening(Home[w], u.slot.leaf.data) = u.slot.leaf
           mine == {u \in unified_slots(tx) : opens(u)}
           first == FirstSlot(mine)
           leaf == first.slot.leaf
<1>1. scan_maker(tx, w) =
        IF tx.author = w /\ mine # {} THEN Found(leaf, w) ELSE None
  BY Zenon DEF scan_maker
<1>2. None.status # "found"
  BY DEF None
<1>3. tx.author = w /\ mine # {} /\ scan_maker(tx, w) = Found(leaf, w)
  <2> HIDE DEF mine, leaf
  <2> QED BY <1>1, <1>2, Zenon
<1>4. first \in mine
  <2>1. mine # {} /\ \A u \in mine : u.index \in Nat
    BY <1>3, UnifiedSlots, Zenon
  <2> HIDE DEF mine
  <2> QED BY <2>1, FirstSlotExists, Zenon
<1>5. first \in unified_slots(tx) /\ opens(first)
  BY <1>4, Zenon
<1> HIDE DEF first
<1>6. PICK k \in DOMAIN tx.slots : first.slot = tx.slots[k]
  BY <1>5, UnifiedSlots, Zenon
<1>7. leaf = tx.slots[k].leaf /\ leaf.data # NoOrder /\ resolve_mint(leaf.data)
  BY <1>5, <1>6, Zenon
<1>8. Opening(Home[w], leaf.data) = leaf
  BY <1>5, Zenon
<1> HIDE DEF leaf
<1>9. leaf.address = Home[w] /\ leaf.tree = INDEXED_TREE_ID
  BY <1>8 DEF Opening
<1>10. leaf \in OrdersFor(c, tx)
  BY <1>3, <1>6, <1>7, <1>9, Zenon DEF OrdersFor
<1>11. leaf \in OrderLeaves(tx)
  BY <1>6, <1>7, Zenon DEF OrderLeaves, OrderSlots
<1>12. leaf \in Leaf /\ w \in Wallet
  <2>1. leaf \in Leaf
    BY <1>7, TransactionType, SMT DEF Slot
  <2>2. w \in Wallet
    BY IndexAssumption, SMT
  <2> QED BY <2>1, <2>2
<1>13. Found(leaf, w) \in FoundItem /\ Found(leaf, w).leaf = leaf
  <2> HIDE DEF w
  <2> QED BY <1>12, SMT DEF Found, FoundItem
<1> QED BY <1>3, <1>10, <1>11, <1>13, Zenon

(***************************************************************************)
(* A maker's scan returns the order of its own transaction: an order slot  *)
(* is confidential, its ciphertext was made under the index discovery      *)
(* computes, and there is one order in a transaction.                      *)
(***************************************************************************)
LEMMA MakerCovers ==
  ASSUME NEW tx \in Transaction, NEW c \in Client, c.role # "taker",
         NEW leaf \in OrdersFor(c, tx)
  PROVE  /\ scan_maker(tx, c.wallet).status = "found"
         /\ scan_maker(tx, c.wallet).leaf = leaf
<1> DEFINE w == c.wallet
           opens(u) == /\ u.slot.index = u.index
                       /\ u.slot.leaf.data # NoOrder
                       /\ resolve_mint(u.slot.leaf.data)
                       /\ Opening(Home[w], u.slot.leaf.data) = u.slot.leaf
           mine == {u \in unified_slots(tx) : opens(u)}
           first == FirstSlot(mine)
<1>1. scan_maker(tx, w) =
        IF tx.author = w /\ mine # {} THEN Found(first.slot.leaf, w) ELSE None
  BY Zenon DEF scan_maker
<1>2. PICK k \in DOMAIN tx.slots :
        /\ leaf = tx.slots[k].leaf
        /\ tx.author = w /\ w \in tx.tags
        /\ leaf.data # NoOrder /\ leaf.address = Home[w]
        /\ leaf.tree = INDEXED_TREE_ID /\ resolve_mint(leaf.data)
  BY Zenon DEF OrdersFor
<1>3. k \in OrderSlots(tx)
  BY <1>2, Zenon DEF OrderSlots
<1>4. tx.slots[k].encoding = "confidential" /\ tx.slots[k].index = SlotIndex(tx, k)
  BY <1>3, TransactionAssumption, Zenon
<1>5. Opening(Home[w], leaf.data) = leaf
  <2>1. leaf \in Leaf
    BY <1>2, TransactionType, SMT DEF Slot
  <2> HIDE DEF w
  <2> QED BY <1>2, <2>1, SMT DEF Opening, Leaf
<1> DEFINE own == [index |-> SlotIndex(tx, k), slot |-> tx.slots[k]]
<1>6. own \in mine
  <2>1. own \in unified_slots(tx)
    BY <1>4, Zenon DEF unified_slots
  <2>2. own.slot = tx.slots[k] /\ own.index = SlotIndex(tx, k)
    OBVIOUS
  <2> HIDE DEF own
  <2>3. opens(own)
    BY <1>2, <1>4, <1>5, <2>2, Zenon
  <2> QED BY <2>1, <2>3, Zenon
<1>7. first \in mine
  <2>1. mine # {} /\ \A u \in mine : u.index \in Nat
    BY <1>6, UnifiedSlots, Zenon
  <2> HIDE DEF mine
  <2> QED BY <2>1, FirstSlotExists, Zenon
<1>8. first.slot.leaf = leaf
  <2>1. first \in unified_slots(tx) /\ first.slot.leaf.data # NoOrder
    BY <1>7, Zenon
  <2> HIDE DEF first
  <2>2. PICK j \in DOMAIN tx.slots : first.slot = tx.slots[j]
    BY <2>1, UnifiedSlots, Zenon
  <2>3. j \in OrderSlots(tx)
    BY <2>1, <2>2, Zenon DEF OrderSlots
  <2>4. j = k
    BY <1>3, <2>3, TransactionAssumption, Zenon
  <2> QED BY <1>2, <2>2, <2>4, Zenon
<1>9. scan_maker(tx, w) = Found(leaf, w)
  <2> HIDE DEF mine, first
  <2> QED BY <1>1, <1>2, <1>6, <1>8, Zenon
<1> QED BY <1>9, SMT DEF Found

(***************************************************************************)
(* A scan of a transaction under the client's tag has one of three         *)
(* outcomes, and an item it returns is an order for this client, read from *)
(* an order slot.                                                          *)
(***************************************************************************)
LEMMA ScanFound ==
  ASSUME NEW tx \in Transaction, NEW c \in Client, c.wallet \in tx.tags,
         scan(c, tx).status = "found"
  PROVE  /\ scan(c, tx) \in FoundItem
         /\ scan(c, tx).leaf \in OrdersFor(c, tx)
         /\ scan(c, tx).leaf \in OrderLeaves(tx)
<1>1. c.wallet \in Wallet
  BY IndexAssumption, SMT
<1>2. CASE c.role = "taker"
  <2>1. scan(c, tx) = scan_taker(tx, c.wallet, registry)
    BY <1>2, Zenon DEF scan
  <2>2. OrdersFor(c, tx) = IF MadeFor(tx, c.wallet) THEN {tx.marker.order} ELSE {}
    BY <1>2, Zenon DEF OrdersFor
  <2>3. scan_taker(tx, c.wallet, registry).status = "found"
    BY <2>1
  <2>4. /\ scan_taker(tx, c.wallet, registry) \in FoundItem
        /\ scan_taker(tx, c.wallet, registry).leaf = tx.marker.order
        /\ MadeFor(tx, c.wallet)
        /\ tx.marker.order \in OrderLeaves(tx)
    BY <1>1, <2>3, TakerFound, Zenon
  <2> QED BY <2>1, <2>2, <2>4, Zenon
<1>3. CASE c.role # "taker"
  <2>1. scan(c, tx) = scan_maker(tx, c.wallet)
    BY <1>3, Zenon DEF scan
  <2>2. scan_maker(tx, c.wallet).status = "found"
    BY <2>1
  <2>3. /\ scan_maker(tx, c.wallet) \in FoundItem
        /\ scan_maker(tx, c.wallet).leaf \in OrdersFor(c, tx)
        /\ scan_maker(tx, c.wallet).leaf \in OrderLeaves(tx)
    BY <1>3, <2>2, MakerFound, Zenon
  <2> QED BY <2>1, <2>3, Zenon
<1> QED BY <1>2, <1>3

(***************************************************************************)
(* A scan that does not stop with an error returns every order of the      *)
(* transaction that this client's discovery is for.                        *)
(***************************************************************************)
LEMMA ScanCovers ==
  ASSUME NEW tx \in Transaction, NEW c \in Client,
         scan(c, tx).status # "error", NEW leaf \in OrdersFor(c, tx)
  PROVE  scan(c, tx).status = "found" /\ scan(c, tx).leaf = leaf
<1>1. c.wallet \in Wallet
  BY IndexAssumption, SMT
<1>2. CASE c.role = "taker"
  <2>1. scan(c, tx) = scan_taker(tx, c.wallet, registry)
    BY <1>2, Zenon DEF scan
  <2>2. MadeFor(tx, c.wallet) /\ leaf = tx.marker.order
    BY <1>2, Zenon DEF OrdersFor
  <2>3. scan_taker(tx, c.wallet, registry).status # "error"
    BY <2>1
  <2>4. scan_taker(tx, c.wallet, registry).status = "found"
    BY <1>1, <2>2, <2>3, TakerCovers, Zenon
  <2>5. scan_taker(tx, c.wallet, registry).leaf = tx.marker.order
    BY <1>1, <2>4, TakerFound, Zenon
  <2> QED BY <2>1, <2>2, <2>4, <2>5, Zenon
<1>3. CASE c.role # "taker"
  <2>1. scan(c, tx) = scan_maker(tx, c.wallet)
    BY <1>3, Zenon DEF scan
  <2> QED BY <1>3, <2>1, MakerCovers, Zenon
<1> QED BY <1>2, <1>3

(***************************************************************************)
(* A transaction that is not under the client's tag has no orders for it:  *)
(* the tag of a marker is one of the transaction's.                        *)
(***************************************************************************)
LEMMA UntaggedHasNone ==
  ASSUME NEW tx \in Transaction, NEW c \in Client, c.wallet \notin tx.tags
  PROVE  OrdersFor(c, tx) = {}
BY TransactionAssumption, Zenon DEF OrdersFor, MadeFor

(***************************************************************************)
(* Transactions never share an order leaf: every make draws a blinding.    *)
(***************************************************************************)
LEMMA OrderLeavesDiffer ==
  ASSUME NEW tx \in Transaction, NEW other \in Transaction,
         NEW leaf \in OrderLeaves(tx), leaf \in OrderLeaves(other)
  PROVE  tx = other
<1>1. PICK j \in OrderSlots(tx) : leaf = tx.slots[j].leaf
  BY Zenon DEF OrderLeaves
<1>2. PICK k \in OrderSlots(other) : leaf = other.slots[k].leaf
  BY Zenon DEF OrderLeaves
<1>3. tx.slots[j].leaf = other.slots[k].leaf
  BY <1>1, <1>2, Zenon
<1> QED BY <1>3, TransactionAssumption, Zenon

-----------------------------------------------------------------------------
(***************************************************************************)
(* Pages.                                                                  *)
(***************************************************************************)

(***************************************************************************)
(* A page holds tagged positions after the cursor.  Without a next cursor  *)
(* it holds all of them; otherwise the next cursor is its last position    *)
(* and no tagged position before that is left out.                         *)
(***************************************************************************)
LEMMA PageIsPrefix ==
  ASSUME NEW w, NEW cursor \in Nat, indexed \in Seq(Transaction),
         NEW page, page = PageOf(w, cursor)
  PROVE  /\ page.transactions \subseteq Tagged(w, cursor)
         /\ \/ page.next = NoCursor /\ page.transactions = Tagged(w, cursor)
            \/ /\ page.next \in page.transactions
               /\ \A p \in page.transactions : p <= page.next
               /\ \A p \in Tagged(w, cursor) : p <= page.next => p \in page.transactions
<1> DEFINE hits == Tagged(w, cursor)
           upto(k) == {j \in hits : j <= k}
           shown == {k \in hits : Cardinality(upto(k)) <= PageSize}
           n == Len(indexed)
<1>1. n \in Nat /\ DOMAIN indexed = 1 .. n
  OBVIOUS
<1>2. /\ page.transactions = shown
      /\ page.next = IF shown # hits THEN Max(shown) ELSE NoCursor
  <2>1. page = [transactions |-> shown, next |-> IF shown # hits THEN Max(shown) ELSE NoCursor]
    BY Zenon DEF PageOf
  <2> HIDE DEF shown, hits
  <2> QED BY <2>1
<1>3. hits \subseteq 1 .. n
  BY <1>1 DEF Tagged
<1>4. \A k \in hits : upto(k) \in SUBSET hits
  OBVIOUS
<1> HIDE DEF n
<1>5. IsFiniteSet(hits)
  <2>1. IsFiniteSet(1 .. n)
    BY <1>1, FS_Interval, SMT
  <2> HIDE DEF hits
  <2> QED BY <1>3, <2>1, FS_Subset, Zenon
<1> HIDE DEF hits
<1>6. \A k \in hits : IsFiniteSet(upto(k)) /\ Cardinality(upto(k)) \in Nat
  <2> TAKE k \in hits
  <2>1. IsFiniteSet(upto(k))
    <3> HIDE DEF upto
    <3> QED BY <1>4, <1>5, FS_Subset, Zenon
  <2>2. Cardinality(upto(k)) \in Nat
    <3> HIDE DEF upto
    <3> QED BY <2>1, FS_CardinalityType, Zenon
  <2> QED BY <2>1, <2>2
<1>7. \A j, k \in hits : j <= k => Cardinality(upto(j)) <= Cardinality(upto(k))
  <2> SUFFICES ASSUME NEW j \in hits, NEW k \in hits, j <= k
               PROVE  Cardinality(upto(j)) <= Cardinality(upto(k))
    OBVIOUS
  <2>1. \A x \in hits : x <= j => x <= k
    <3>1. \A x \in hits : x \in Nat
      BY <1>1, <1>3, SMT
    <3> QED BY <3>1, SMT
  <2>2. upto(j) \in SUBSET upto(k)
    BY <2>1, Zenon
  <2> HIDE DEF upto
  <2> QED BY <1>6, <2>2, FS_Subset, Zenon
<1>8. shown \subseteq hits
  OBVIOUS
<1>9. CASE shown = hits
  <2> HIDE DEF shown
  <2> QED BY <1>2, <1>8, <1>9, Zenon DEF hits
<1>10. CASE shown # hits
  <2> DEFINE first == Min(hits)
  <2>1. hits # {} /\ hits \subseteq Nat
    BY <1>1, <1>3, <1>8, <1>10, SMT
  <2>2. first \in hits /\ \A y \in hits : first <= y
    BY <2>1, LeastNatural, Zenon
  <2> HIDE DEF first
  <2>3. upto(first) = {first}
    <3>1. \A x \in hits : x <= first <=> x = first
      BY <2>1, <2>2, SMT
    <3> QED BY <2>2, <3>1, Zenon
  <2>4. Cardinality(upto(first)) = 1
    <3> HIDE DEF upto
    <3> QED BY <2>3, FS_Singleton, Zenon
  <2>5. first \in shown
    <3> HIDE DEF upto
    <3> QED BY <2>2, <2>4, IndexAssumption, SMT
  <2>6. /\ shown \subseteq Nat /\ shown # {}
        /\ \A x \in shown : x <= n
    <3> HIDE DEF shown
    <3> QED BY <1>1, <1>3, <1>8, <2>1, <2>5, SMT
  <2> DEFINE last == Max(shown)
  <2>7. last \in shown /\ \A y \in shown : last >= y
    <3> HIDE DEF shown
    <3> QED BY <1>1, <2>6, GreatestNatural, Zenon
  <2>8. page.next = last
    BY <1>2, <1>10, Zenon
  <2> HIDE DEF last
  <2>9. \A y \in shown : y <= last
    <3> HIDE DEF shown
    <3> QED BY <2>6, <2>7, SMT
  <2>10. \A p \in hits : p <= last => p \in shown
    <3> SUFFICES ASSUME NEW p \in hits, p <= last PROVE p \in shown
      OBVIOUS
    <3>1. last \in hits /\ Cardinality(upto(last)) <= PageSize
      BY <2>7, Zenon
    <3>2. Cardinality(upto(p)) <= Cardinality(upto(last))
      BY <1>7, <3>1, Zenon
    <3>3. Cardinality(upto(p)) \in Nat /\ Cardinality(upto(last)) \in Nat
      BY <1>6, <3>1, Zenon
    <3> HIDE DEF upto
    <3> QED BY <3>1, <3>2, <3>3, IndexAssumption, SMT
  <2> HIDE DEF shown
  <2> QED BY <1>2, <1>8, <2>7, <2>8, <2>9, <2>10, Zenon DEF hits
<1> QED BY <1>9, <1>10

-----------------------------------------------------------------------------
(***************************************************************************)
(* The inductive invariants.  r is the state of client c's discovery, txs  *)
(* what the indexer has.                                                   *)
(***************************************************************************)
PassRecord ==
  [phase : Done \cup {"fetch", "scan"}, cursor : Nat, page : SUBSET Nat,
   next : Nat \cup {NoCursor}, found : Seq(FoundItem), start : Nat, fault : Nat]

\* The page holds transactions under the client's tag, the cursors were handed
\* out by the indexer, and every item is an order that was committed for c.
PassOK(c, r, txs) ==
  /\ \A p \in r.page : p \in DOMAIN txs /\ c.wallet \in txs[p].tags
  /\ r.cursor \in {0} \cup DOMAIN txs
  /\ r.next \in {NoCursor} \cup DOMAIN txs
  /\ r.start \in 0 .. Len(txs)
  /\ \A k \in DOMAIN r.found : \E p \in DOMAIN txs : r.found[k].leaf \in OrdersFor(c, txs[p])

IndexInv ==
  /\ indexed \in Seq(Transaction)
  /\ registry \in [Wallet -> Address \cup {Unregistered}]
  /\ run \in [Client -> PassRecord]
  /\ \A c \in Client : PassOK(c, run[c], indexed)

\* The orders of tx that are for c are among the items.
Covered(c, found, tx) ==
  \A leaf \in OrdersFor(c, tx) : \E k \in DOMAIN found : found[k].leaf = leaf

\* The last position that the pass has dealt with or has on its page.
Reach(r) == CASE r.phase = "fetch" -> r.cursor
              [] r.phase = "scan" /\ r.next # NoCursor -> r.next
              [] OTHER -> r.start

\* Item k comes from position p, which is not going to be scanned again.
ReadFrom(r, txs, k, p) ==
  /\ r.found[k].leaf \in OrderLeaves(txs[p])
  /\ p \notin r.page
  /\ r.phase = "fetch" => p <= r.cursor
  /\ (r.phase = "scan" /\ r.next # NoCursor) => p <= r.next

\* Every position within reach is on the page or done, no position is read
\* twice, and no item is there twice.
PassSeen(c, r, txs) ==
  /\ r.phase \in {"fetch", "ok", "timed_out"} => r.page = {}
  /\ (r.phase = "scan" /\ r.next # NoCursor) => \A p \in r.page : p <= r.next
  /\ r.phase \in {"fetch", "scan", "ok", "timed_out"} =>
       \A p \in DOMAIN txs : p <= Reach(r) => p \in r.page \/ Covered(c, r.found, txs[p])
  /\ \A k \in DOMAIN r.found : \E p \in DOMAIN txs : ReadFrom(r, txs, k, p)
  /\ \A j, k \in DOMAIN r.found : r.found[j].leaf = r.found[k].leaf => j = k

SeenInv ==
  /\ \A i, j \in DOMAIN indexed : indexed[i] = indexed[j] => i = j
  /\ \A c \in Client : PassSeen(c, run[c], indexed)

(***************************************************************************)
(* A step of one discovery that leaves the indexer and the registry alone  *)
(* keeps IndexInv if the new state of that discovery is as it should be.   *)
(***************************************************************************)
LEMMA OnePassMoves ==
  ASSUME IndexInv, NEW c \in Client, NEW r \in PassRecord,
         PassOK(c, r, indexed), run' = [run EXCEPT ![c] = r],
         UNCHANGED <<indexed, registry>>
  PROVE  IndexInv'
<1> USE DEF IndexInv
<1>1. run' \in [Client -> PassRecord]
  <2> HIDE DEF PassRecord
  <2> QED OBVIOUS
<1>2. \A d \in Client : PassOK(d, run'[d], indexed)
  <2> TAKE d \in Client
  <2>1. CASE d = c
    BY <2>1, Zenon
  <2>2. CASE d # c
    BY <2>2, Zenon
  <2> QED BY <2>1, <2>2
<1> QED BY <1>1, <1>2, Zenon

(***************************************************************************)
(* The same for SeenInv.                                                   *)
(***************************************************************************)
LEMMA OnePassSees ==
  ASSUME SeenInv, NEW c \in Client, run \in [Client -> PassRecord], NEW r,
         PassSeen(c, r, indexed), run' = [run EXCEPT ![c] = r], indexed' = indexed
  PROVE  SeenInv'
<1> USE DEF SeenInv
<1>1. \A d \in Client : PassSeen(d, run'[d], indexed)
  <2> TAKE d \in Client
  <2>1. CASE d = c
    BY <2>1, Zenon
  <2>2. CASE d # c
    BY <2>2, Zenon
  <2> QED BY <2>1, <2>2
<1> QED BY <1>1, Zenon

(***************************************************************************)
(* A pass that begins now is as it should be, whatever has been indexed.   *)
(***************************************************************************)
LEMMA NewPassOK ==
  ASSUME indexed \in Seq(Transaction), NEW c \in Client
  PROVE  /\ NewPass \in PassRecord
         /\ PassOK(c, NewPass, indexed)
         /\ PassSeen(c, NewPass, indexed)
<1>1. Len(indexed) \in Nat /\ DOMAIN indexed = 1 .. Len(indexed)
  OBVIOUS
<1>2. <<>> \in Seq(FoundItem) /\ DOMAIN <<>> = {}
  <2> HIDE DEF FoundItem
  <2> QED OBVIOUS
<1>3. NewPass \in PassRecord
  BY <1>1, <1>2, SMT DEF NewPass, PassRecord
<1> DEFINE r == NewPass
<1>4. /\ r.phase = "fetch" /\ r.page = {} /\ r.cursor = 0 /\ r.next = NoCursor
      /\ r.found = <<>> /\ r.start = Len(indexed)
  BY DEF NewPass
<1> HIDE DEF r
<1>5. DOMAIN r.found = {}
  BY <1>2, <1>4
<1>6. PassOK(c, r, indexed)
  BY <1>1, <1>4, <1>5 DEF PassOK
<1>7. Reach(r) = 0
  BY <1>4 DEF Reach
<1>8. PassSeen(c, r, indexed)
  BY <1>1, <1>4, <1>5, <1>7, SMT DEF PassSeen
<1> QED BY <1>3, <1>6, <1>8 DEF r

-----------------------------------------------------------------------------
(***************************************************************************)
(* The steps of a discovery.                                               *)
(***************************************************************************)

(***************************************************************************)
(* FetchPage: the page that the indexer returns continues where the cursor *)
(* left off, so that nothing between two pages is lost, and what landed    *)
(* since the last page was fetched comes after it.                         *)
(***************************************************************************)
LEMMA FetchPageKeeps ==
  ASSUME IndexInv, NEW c \in Client, FetchPage(c)
  PROVE  IndexInv' /\ (SeenInv => SeenInv')
<1> DEFINE old == run[c]
           page == PageOf(c.wallet, old.cursor)
           r == [old EXCEPT !.phase = "scan", !.page = page.transactions, !.next = page.next]
           n == Len(indexed)
<1>1. /\ indexed \in Seq(Transaction) /\ run \in [Client -> PassRecord]
      /\ old \in PassRecord /\ PassOK(c, old, indexed)
      /\ n \in Nat /\ DOMAIN indexed = 1 .. n
  <2> HIDE DEF PassRecord
  <2> QED BY DEF IndexInv
<1>2. /\ old.phase = "fetch"
      /\ run' = [run EXCEPT ![c] = r]
      /\ UNCHANGED <<indexed, registry>>
  BY <1>1, Zenon DEF FetchPage
<1>3. old.cursor \in Nat
  BY <1>1, SMT DEF PassRecord
<1> DEFINE hits == Tagged(c.wallet, old.cursor)
<1>4. /\ page.transactions \subseteq hits
      /\ \/ page.next = NoCursor /\ page.transactions = hits
         \/ /\ page.next \in page.transactions
            /\ \A p \in page.transactions : p <= page.next
            /\ \A p \in hits : p <= page.next => p \in page.transactions
  BY <1>1, <1>3, PageIsPrefix, Zenon
<1>5. \A p : p \in hits <=> (p \in 1 .. n /\ p > old.cursor /\ c.wallet \in indexed[p].tags)
  BY <1>1 DEF Tagged
<1> HIDE DEF page, hits, n
<1>6. /\ r.phase = "scan" /\ r.page = page.transactions /\ r.next = page.next
      /\ r.cursor = old.cursor /\ r.found = old.found /\ r.start = old.start
  <2> HIDE DEF old
  <2> QED BY <1>1, SMT DEF PassRecord
<1>7. r \in PassRecord
  <2>1. page.transactions \in SUBSET Nat /\ page.next \in Nat \cup {NoCursor}
    BY <1>1, <1>4, <1>5, SMT
  <2> HIDE DEF old
  <2> QED BY <1>1, <2>1, Zenon DEF PassRecord
<1> HIDE DEF r
<1>8. PassOK(c, r, indexed)
  <2>1. /\ old.cursor \in {0} \cup DOMAIN indexed /\ old.start \in 0 .. Len(indexed)
        /\ \A k \in DOMAIN old.found : \E p \in DOMAIN indexed :
             old.found[k].leaf \in OrdersFor(c, indexed[p])
    BY <1>1, Zenon DEF PassOK
  <2>2. \A p \in r.page : p \in DOMAIN indexed /\ c.wallet \in indexed[p].tags
    BY <1>1, <1>4, <1>5, <1>6, Zenon
  <2>3. r.next \in {NoCursor} \cup DOMAIN indexed
    BY <2>2, <1>4, <1>6, Zenon
  <2> HIDE DEF old
  <2> QED BY <1>6, <2>1, <2>2, <2>3, Zenon DEF PassOK
<1>9. IndexInv'
  BY <1>2, <1>7, <1>8, OnePassMoves, Zenon
<1>10. ASSUME SeenInv PROVE SeenInv'
  <2>1. PassSeen(c, old, indexed)
    BY <1>10, Zenon DEF SeenInv
  <2>2. Reach(old) = old.cursor
    BY <1>2, Zenon DEF Reach
  <2>3. old.page = {}
    BY <1>2, <2>1, Zenon DEF PassSeen
  <2>4. \A p \in DOMAIN indexed : p <= old.cursor => Covered(c, old.found, indexed[p])
    BY <1>2, <2>1, <2>2, <2>3, Zenon DEF PassSeen
  <2>5. \A p \in DOMAIN indexed : c.wallet \notin indexed[p].tags =>
          Covered(c, old.found, indexed[p])
    <3>1. \A p \in DOMAIN indexed : indexed[p] \in Transaction
      BY <1>1
    <3> QED BY <3>1, UntaggedHasNone, Zenon DEF Covered
  <2>6. \A p \in DOMAIN indexed : p <= Reach(r) => p \in r.page \/ Covered(c, r.found, indexed[p])
    <3> SUFFICES ASSUME NEW p \in DOMAIN indexed, p <= Reach(r),
                        p > old.cursor, c.wallet \in indexed[p].tags
                 PROVE  p \in r.page
      <4>1. \A p \in DOMAIN indexed : p \in Nat
        BY <1>1
      <4>2. \A p \in DOMAIN indexed : p > old.cursor \/ p <= old.cursor
        BY <4>1, <1>3, SMT
      <4> QED BY <1>6, <2>4, <2>5, <4>2, Zenon
    <3>1. p \in hits
      BY <1>1, <1>5, Zenon
    <3>2. CASE page.next = NoCursor /\ page.transactions = hits
      BY <1>6, <3>1, <3>2, Zenon
    <3>3. CASE page.next \in page.transactions
      <4>1. page.next \in Nat
        BY <1>1, <1>4, <1>5, <3>3, SMT
      <4>2. page.next # NoCursor
        BY <4>1, TransactionAssumption, Zenon
      <4>3. Reach(r) = page.next
        BY <1>6, <4>2 DEF Reach
      <4> QED BY <1>4, <1>6, <3>1, <4>2, <4>3, Zenon
    <3> QED BY <1>4, <3>2, <3>3, Zenon
  <2>7. r.next # NoCursor => \A p \in r.page : p <= r.next
    BY <1>4, <1>6, Zenon
  <2>8. \A k \in DOMAIN r.found : \E p \in DOMAIN indexed : ReadFrom(r, indexed, k, p)
    <3> SUFFICES ASSUME NEW k \in DOMAIN old.found
                 PROVE  \E p \in DOMAIN indexed : ReadFrom(r, indexed, k, p)
      BY <1>6, Zenon
    <3>1. PICK p \in DOMAIN indexed : ReadFrom(old, indexed, k, p)
      BY <2>1, Zenon DEF PassSeen
    <3>2. p <= old.cursor /\ old.found[k].leaf \in OrderLeaves(indexed[p])
      BY <1>2, <3>1, Zenon DEF ReadFrom
    <3>3. p \notin hits /\ p \in Nat
      BY <1>1, <1>3, <1>5, <3>2, SMT
    <3>4. page.next # NoCursor => p <= page.next
      <4> SUFFICES ASSUME page.next # NoCursor PROVE p <= page.next
        OBVIOUS
      <4>1. page.next \in hits
        BY <1>4, Zenon
      <4> QED BY <1>1, <1>3, <1>5, <3>2, <3>3, <4>1, SMT
    <3> HIDE DEF old
    <3>5. ReadFrom(r, indexed, k, p)
      BY <1>4, <1>6, <3>2, <3>3, <3>4, Zenon DEF ReadFrom
    <3> QED BY <3>5, Zenon
  <2>9. \A j, k \in DOMAIN r.found : r.found[j].leaf = r.found[k].leaf => j = k
    <3> HIDE DEF old
    <3> QED BY <1>6, <2>1, Zenon DEF PassSeen
  <2>10. r.phase \notin {"fetch", "ok", "timed_out"}
    BY <1>6
  <2>11. PassSeen(c, r, indexed)
    BY <2>6, <2>7, <2>8, <2>9, <2>10, Zenon DEF PassSeen
  <2> QED BY <1>1, <1>2, <1>10, <2>11, OnePassSees, Zenon
<1> QED BY <1>9, <1>10

(***************************************************************************)
(* ScanTransaction: the transaction leaves the page; its orders are among  *)
(* the items afterwards or the discovery ends with an error, and an item   *)
(* that is added is new, since its transaction had not been scanned.       *)
(***************************************************************************)
LEMMA ScanTransactionKeeps ==
  ASSUME IndexInv, NEW c \in Client, ScanTransaction(c)
  PROVE  IndexInv' /\ (SeenInv => SeenInv')
<1> DEFINE old == run[c]
           q == Min(old.page)
           item == scan(c, indexed[q])
           r == [old EXCEPT
                   !.page = old.page \ {q},
                   !.phase = IF item.status = "error" THEN "scan_error" ELSE old.phase,
                   !.fault = IF item.status = "error" THEN q ELSE old.fault,
                   !.found = IF item.status = "found" THEN Append(old.found, item)
                             ELSE old.found]
           n == Len(indexed)
<1>1. /\ indexed \in Seq(Transaction) /\ run \in [Client -> PassRecord]
      /\ old \in PassRecord /\ PassOK(c, old, indexed)
      /\ n \in Nat /\ DOMAIN indexed = 1 .. n
  <2> HIDE DEF PassRecord
  <2> QED BY DEF IndexInv
<1>2. /\ old.phase = "scan" /\ old.page # {}
      /\ run' = [run EXCEPT ![c] = r]
      /\ UNCHANGED <<indexed, registry>>
  BY <1>1, Zenon DEF ScanTransaction
<1>3. /\ old.page \in SUBSET Nat /\ old.found \in Seq(FoundItem)
      /\ old.fault \in Nat /\ old.start \in Nat
  BY <1>1, SMT DEF PassRecord
<1>4. q \in old.page /\ q \in Nat
  BY <1>2, <1>3, LeastNatural, Zenon
<1>5. q \in DOMAIN indexed /\ c.wallet \in indexed[q].tags
  BY <1>1, <1>4, Zenon DEF PassOK
<1>6. indexed[q] \in Transaction
  BY <1>1, <1>5
<1>7. item.status = "found" =>
        /\ item \in FoundItem
        /\ item.leaf \in OrdersFor(c, indexed[q])
        /\ item.leaf \in OrderLeaves(indexed[q])
  BY <1>5, <1>6, ScanFound, Zenon
<1>8. item.status # "error" =>
        \A leaf \in OrdersFor(c, indexed[q]) : item.status = "found" /\ item.leaf = leaf
  BY <1>6, ScanCovers, Zenon
<1> HIDE DEF q, item, n
<1> DEFINE found == IF item.status = "found" THEN Append(old.found, item) ELSE old.found
           last == Len(old.found) + 1
<1>9. /\ found \in Seq(FoundItem)
      /\ DOMAIN old.found \subseteq DOMAIN found
      /\ \A k \in DOMAIN old.found : found[k] = old.found[k]
      /\ item.status = "found" => last \in DOMAIN found /\ found[last] = item
      /\ \A k \in DOMAIN found : k \in DOMAIN old.found \/ (item.status = "found" /\ k = last)
  <2> HIDE DEF FoundItem, old
  <2>1. CASE item.status = "found"
    BY <1>3, <1>7, <2>1, SMT
  <2>2. CASE item.status # "found"
    BY <1>3, <2>2, SMT
  <2> QED BY <2>1, <2>2
<1> HIDE DEF found, last
<1>10. /\ r.page = old.page \ {q} /\ r.found = found
       /\ r.cursor = old.cursor /\ r.next = old.next /\ r.start = old.start
       /\ r.phase = IF item.status = "error" THEN "scan_error" ELSE "scan"
  <2> HIDE DEF old
  <2> QED BY <1>1, <1>2, SMT DEF PassRecord, found
<1>11. r \in PassRecord
  <2>1. /\ old.page \ {q} \in SUBSET Nat
        /\ (IF item.status = "error" THEN "scan_error" ELSE old.phase) \in Done \cup {"fetch", "scan"}
        /\ (IF item.status = "error" THEN q ELSE old.fault) \in Nat
    BY <1>2, <1>3, <1>4, SMT DEF Done
  <2>2. (IF item.status = "found" THEN Append(old.found, item) ELSE old.found) \in Seq(FoundItem)
    BY <1>9 DEF found
  <2> HIDE DEF old
  <2> QED BY <1>1, <2>1, <2>2, Zenon DEF PassRecord
<1> HIDE DEF r
<1>12. PassOK(c, r, indexed)
  <2>1. \A k \in DOMAIN found : \E p \in DOMAIN indexed : found[k].leaf \in OrdersFor(c, indexed[p])
    <3> TAKE k \in DOMAIN found
    <3>1. CASE k \in DOMAIN old.found
      BY <1>1, <1>9, <3>1, Zenon DEF PassOK
    <3>2. CASE item.status = "found" /\ k = last
      BY <1>5, <1>7, <1>9, <3>2, Zenon
    <3> QED BY <1>9, <3>1, <3>2, Zenon
  <2> HIDE DEF old
  <2> QED BY <1>1, <1>10, <2>1, Zenon DEF PassOK
<1>13. IndexInv'
  BY <1>2, <1>11, <1>12, OnePassMoves, Zenon
<1>14. ASSUME SeenInv PROVE SeenInv'
  <2>1. PassSeen(c, old, indexed)
    BY <1>14, Zenon DEF SeenInv
  <2>2. \A i, j \in DOMAIN indexed : indexed[i] = indexed[j] => i = j
    BY <1>14, Zenon DEF SeenInv
  <2> HIDE DEF old
  <2>3. r.phase \notin {"fetch", "ok", "timed_out"} /\ (r.phase = "scan" <=> item.status # "error")
    BY <1>10
  <2>4. (r.phase = "scan" /\ r.next # NoCursor) => \A p \in r.page : p <= r.next
    BY <1>2, <1>10, <2>1, Zenon DEF PassSeen
  <2>5. r.phase = "scan" =>
          \A p \in DOMAIN indexed : p <= Reach(r) => p \in r.page \/ Covered(c, r.found, indexed[p])
    <3> SUFFICES ASSUME r.phase = "scan", NEW p \in DOMAIN indexed, p <= Reach(r), p \notin r.page
                 PROVE  Covered(c, found, indexed[p])
      BY <1>10, Zenon
    <3>1. Reach(r) = Reach(old)
      BY <1>2, <1>10 DEF Reach
    <3>2. CASE p = q
      <4> SUFFICES ASSUME NEW leaf \in OrdersFor(c, indexed[q])
                   PROVE  \E k \in DOMAIN found : found[k].leaf = leaf
        BY <3>2, Zenon DEF Covered
      <4>1. item.status = "found" /\ item.leaf = leaf
        BY <1>8, <2>3, Zenon
      <4> QED BY <1>9, <4>1, Zenon
    <3>3. CASE p # q
      <4>1. p \notin old.page
        BY <1>10, <3>3, Zenon
      <4>2. Covered(c, old.found, indexed[p])
        BY <1>2, <2>1, <3>1, <4>1, Zenon DEF PassSeen
      <4> SUFFICES ASSUME NEW leaf \in OrdersFor(c, indexed[p])
                   PROVE  \E k \in DOMAIN found : found[k].leaf = leaf
        BY Zenon DEF Covered
      <4>3. PICK k \in DOMAIN old.found : old.found[k].leaf = leaf
        BY <4>2, Zenon DEF Covered
      <4> QED BY <1>9, <4>3, Zenon
    <3> QED BY <3>2, <3>3
  <2>6. ASSUME NEW k \in DOMAIN old.found, NEW p \in DOMAIN indexed, ReadFrom(old, indexed, k, p)
        PROVE  ReadFrom(r, indexed, k, p)
    BY <1>2, <1>9, <1>10, <2>3, <2>6, Zenon DEF ReadFrom
  <2>7. \A k \in DOMAIN r.found : \E p \in DOMAIN indexed : ReadFrom(r, indexed, k, p)
    <3> SUFFICES ASSUME NEW k \in DOMAIN found
                 PROVE  \E p \in DOMAIN indexed : ReadFrom(r, indexed, k, p)
      BY <1>10, Zenon
    <3>1. CASE k \in DOMAIN old.found
      <4>1. PICK p \in DOMAIN indexed : ReadFrom(old, indexed, k, p)
        BY <2>1, <3>1, Zenon DEF PassSeen
      <4> QED BY <2>6, <3>1, <4>1, Zenon
    <3>2. CASE item.status = "found" /\ k = last
      <4>1. r.found[k].leaf \in OrderLeaves(indexed[q])
        BY <1>7, <1>9, <1>10, <3>2, Zenon
      <4>2. q \notin r.page
        BY <1>10, Zenon
      <4>3. (r.phase = "scan" /\ r.next # NoCursor) => q <= r.next
        BY <1>2, <1>4, <1>10, <2>1, Zenon DEF PassSeen
      <4>4. ReadFrom(r, indexed, k, q)
        BY <2>3, <4>1, <4>2, <4>3 DEF ReadFrom
      <4> QED BY <1>5, <4>4, Zenon
    <3> QED BY <1>9, <3>1, <3>2, Zenon
  <2>8. ASSUME NEW j \in DOMAIN old.found, item.status = "found"
        PROVE  old.found[j].leaf # item.leaf
    <3>1. PICK p \in DOMAIN indexed : ReadFrom(old, indexed, j, p)
      BY <2>1, Zenon DEF PassSeen
    <3>2. p # q /\ old.found[j].leaf \in OrderLeaves(indexed[p])
      BY <1>4, <3>1, Zenon DEF ReadFrom
    <3>3. indexed[p] # indexed[q]
      BY <1>5, <2>2, <3>2, Zenon
    <3>4. indexed[p] \in Transaction
      BY <1>1
    <3>5. item.leaf \in OrderLeaves(indexed[q])
      BY <1>7, <2>8, Zenon
    <3> QED BY <1>6, <3>2, <3>3, <3>4, <3>5, OrderLeavesDiffer, Zenon
  <2>9. \A j, k \in DOMAIN r.found : r.found[j].leaf = r.found[k].leaf => j = k
    <3> SUFFICES ASSUME NEW j \in DOMAIN found, NEW k \in DOMAIN found,
                        found[j].leaf = found[k].leaf
                 PROVE  j = k
      BY <1>10, Zenon
    <3>1. CASE j \in DOMAIN old.found /\ k \in DOMAIN old.found
      BY <1>9, <2>1, <3>1, Zenon DEF PassSeen
    <3>2. CASE j \in DOMAIN old.found /\ item.status = "found" /\ k = last
      BY <1>9, <2>8, <3>2, Zenon
    <3>3. CASE k \in DOMAIN old.found /\ item.status = "found" /\ j = last
      BY <1>9, <2>8, <3>3, Zenon
    <3> QED BY <1>9, <3>1, <3>2, <3>3, Zenon
  <2>10. PassSeen(c, r, indexed)
    BY <2>3, <2>4, <2>5, <2>7, <2>9, Zenon DEF PassSeen
  <2> QED BY <1>1, <1>2, <1>14, <2>10, OnePassSees, Zenon
<1> QED BY <1>13, <1>14

(***************************************************************************)
(* collect_tagged: the next page is asked for only when this one is done,  *)
(* so that all up to the new cursor has been dealt with.                   *)
(***************************************************************************)
LEMMA NextPageKeeps ==
  ASSUME IndexInv, NEW c \in Client, collect_tagged(c)
  PROVE  IndexInv' /\ (SeenInv => SeenInv')
<1> DEFINE old == run[c]
           r == [old EXCEPT !.phase = "fetch", !.cursor = old.next]
<1>1. /\ indexed \in Seq(Transaction) /\ run \in [Client -> PassRecord]
      /\ old \in PassRecord /\ PassOK(c, old, indexed)
      /\ \A p \in DOMAIN indexed : p \in Nat
  <2> HIDE DEF PassRecord
  <2> QED BY DEF IndexInv
<1>2. /\ old.phase = "scan" /\ old.page = {} /\ old.next # NoCursor
      /\ run' = [run EXCEPT ![c] = r]
      /\ UNCHANGED <<indexed, registry>>
  BY <1>1, Zenon DEF collect_tagged
<1>3. old.next \in DOMAIN indexed /\ old.next \in Nat
  BY <1>1, <1>2, Zenon DEF PassOK
<1> HIDE DEF old
<1>4. /\ r.phase = "fetch" /\ r.cursor = old.next /\ r.page = old.page
      /\ r.next = old.next /\ r.found = old.found /\ r.start = old.start
  BY <1>1, SMT DEF PassRecord
<1>5. r \in PassRecord
  <2>1. "fetch" \in Done \cup {"fetch", "scan"}
    OBVIOUS
  <2> QED BY <1>1, <1>3, <2>1, Zenon DEF PassRecord
<1> HIDE DEF r
<1>6. PassOK(c, r, indexed)
  BY <1>1, <1>3, <1>4, Zenon DEF PassOK
<1>7. IndexInv'
  BY <1>2, <1>5, <1>6, OnePassMoves, Zenon
<1>8. ASSUME SeenInv PROVE SeenInv'
  <2>1. PassSeen(c, old, indexed)
    BY <1>8, Zenon DEF SeenInv, old
  <2>2. Reach(old) = old.next /\ Reach(r) = old.next
    BY <1>2, <1>4 DEF Reach
  <2>3. r.phase \in {"fetch", "ok", "timed_out"} /\ r.phase # "scan"
    BY <1>4
  <2>4. \A p \in DOMAIN indexed : p <= Reach(r) => p \in r.page \/ Covered(c, r.found, indexed[p])
    BY <1>2, <1>4, <2>1, <2>2, Zenon DEF PassSeen
  <2>5. \A k \in DOMAIN r.found : \E p \in DOMAIN indexed : ReadFrom(r, indexed, k, p)
    <3>1. \A k \in DOMAIN old.found, p \in DOMAIN indexed :
            ReadFrom(old, indexed, k, p) => ReadFrom(r, indexed, k, p)
      BY <1>2, <1>4, <2>3, Zenon DEF ReadFrom
    <3> QED BY <1>4, <2>1, <3>1, Zenon DEF PassSeen
  <2>6. \A j, k \in DOMAIN r.found : r.found[j].leaf = r.found[k].leaf => j = k
    BY <1>4, <2>1, Zenon DEF PassSeen
  <2>7. PassSeen(c, r, indexed)
    BY <1>2, <1>4, <2>3, <2>4, <2>5, <2>6, Zenon DEF PassSeen
  <2> QED BY <1>1, <1>2, <1>8, <2>7, OnePassSees, Zenon
<1> QED BY <1>7, <1>8

(***************************************************************************)
(* A discovery that ends keeps what it has: after the last page of a pass  *)
(* (index_until), or with an error.                                        *)
(***************************************************************************)
LEMMA FinishKeeps ==
  ASSUME IndexInv, NEW c \in Client, NEW phase \in Done, Finish(c, phase),
         phase \in {"ok", "timed_out"} =>
           run[c].phase = "scan" /\ run[c].page = {} /\ run[c].next = NoCursor,
         UNCHANGED <<indexed, registry>>
  PROVE  IndexInv' /\ (SeenInv => SeenInv')
<1> DEFINE old == run[c]
           r == [old EXCEPT !.phase = phase]
<1>1. /\ indexed \in Seq(Transaction) /\ run \in [Client -> PassRecord]
      /\ old \in PassRecord /\ PassOK(c, old, indexed)
  <2> HIDE DEF PassRecord
  <2> QED BY DEF IndexInv
<1>2. run' = [run EXCEPT ![c] = r]
  BY <1>1, Zenon DEF Finish
<1>3. phase \in {"ok", "timed_out"} => old.phase = "scan" /\ old.page = {} /\ old.next = NoCursor
  BY Zenon
<1>4. SeenInv => PassSeen(c, old, indexed)
  BY Zenon DEF SeenInv
<1> HIDE DEF old
<1>5. /\ r.phase = phase /\ r.cursor = old.cursor /\ r.page = old.page
      /\ r.next = old.next /\ r.found = old.found /\ r.start = old.start
  BY <1>1, SMT DEF PassRecord
<1>6. r \in PassRecord
  <2>1. phase \in Done \cup {"fetch", "scan"}
    BY Zenon
  <2> QED BY <1>1, <2>1, Zenon DEF PassRecord
<1> HIDE DEF r
<1>7. PassOK(c, r, indexed)
  BY <1>1, <1>5, Zenon DEF PassOK
<1>8. IndexInv'
  BY <1>2, <1>6, <1>7, OnePassMoves, Zenon
<1>9. ASSUME SeenInv PROVE SeenInv'
  <2>1. PassSeen(c, old, indexed)
    BY <1>4, <1>9, Zenon
  <2>2. r.phase # "fetch" /\ r.phase # "scan"
    BY <1>5 DEF Done
  <2>3. r.phase \in {"fetch", "ok", "timed_out"} => r.page = {}
    BY <1>3, <1>5, <2>2, Zenon
  <2>4. r.phase \in {"fetch", "scan", "ok", "timed_out"} =>
          \A p \in DOMAIN indexed : p <= Reach(r) => p \in r.page \/ Covered(c, r.found, indexed[p])
    <3> SUFFICES ASSUME r.phase \in {"ok", "timed_out"}, NEW p \in DOMAIN indexed, p <= Reach(r)
                 PROVE  p \in r.page \/ Covered(c, r.found, indexed[p])
      BY <2>2, Zenon
    <3>1. old.phase = "scan" /\ old.next = NoCursor
      BY <1>3, <1>5, Zenon
    <3>2. Reach(r) = old.start /\ Reach(old) = old.start
      BY <1>5, <2>2, <3>1 DEF Reach
    <3> QED BY <1>5, <2>1, <3>1, <3>2, Zenon DEF PassSeen
  <2>5. \A k \in DOMAIN r.found : \E p \in DOMAIN indexed : ReadFrom(r, indexed, k, p)
    <3>1. \A k \in DOMAIN old.found, p \in DOMAIN indexed :
            ReadFrom(old, indexed, k, p) => ReadFrom(r, indexed, k, p)
      BY <1>5, <2>2, Zenon DEF ReadFrom
    <3> QED BY <1>5, <2>1, <3>1, Zenon DEF PassSeen
  <2>6. \A j, k \in DOMAIN r.found : r.found[j].leaf = r.found[k].leaf => j = k
    BY <1>5, <2>1, Zenon DEF PassSeen
  <2>7. PassSeen(c, r, indexed)
    BY <2>2, <2>3, <2>4, <2>5, <2>6, Zenon DEF PassSeen
  <2> QED BY <1>1, <1>2, <1>9, <2>7, OnePassSees, Zenon
<1> QED BY <1>8, <1>9

(***************************************************************************)
(* index_until: a pass that is over is returned, given up or repeated from *)
(* the beginning.                                                          *)
(***************************************************************************)
LEMMA IndexUntilKeeps ==
  ASSUME IndexInv, NEW c \in Client, index_until(c)
  PROVE  IndexInv' /\ (SeenInv => SeenInv')
<1>1. /\ run[c].phase = "scan" /\ run[c].page = {} /\ run[c].next = NoCursor
      /\ UNCHANGED <<indexed, registry>>
      /\ Finish(c, "ok") \/ Finish(c, "timed_out") \/ run' = [run EXCEPT ![c] = NewPass]
  BY Zenon DEF index_until
<1>2. "ok" \in Done /\ "timed_out" \in Done
  BY DEF Done
<1>3. CASE Finish(c, "ok")
  BY <1>1, <1>2, <1>3, FinishKeeps, Zenon
<1>4. CASE Finish(c, "timed_out")
  BY <1>1, <1>2, <1>4, FinishKeeps, Zenon
<1>5. CASE run' = [run EXCEPT ![c] = NewPass]
  <2>1. indexed \in Seq(Transaction) /\ run \in [Client -> PassRecord]
    BY Zenon DEF IndexInv
  <2>2. /\ NewPass \in PassRecord
        /\ PassOK(c, NewPass, indexed)
        /\ PassSeen(c, NewPass, indexed)
    BY <2>1, NewPassOK, Zenon
  <2>3. indexed' = indexed /\ UNCHANGED <<indexed, registry>>
    BY <1>1, Zenon
  <2>4. IndexInv'
    BY <1>5, <2>2, <2>3, OnePassMoves, Zenon
  <2>5. ASSUME SeenInv PROVE SeenInv'
    BY <1>5, <2>1, <2>2, <2>3, <2>5, OnePassSees, Zenon
  <2> QED BY <2>4, <2>5
<1> QED BY <1>1, <1>3, <1>4, <1>5

(***************************************************************************)
(* FetchFails: the discovery ends with what it has.                        *)
(***************************************************************************)
LEMMA FetchFailsKeeps ==
  ASSUME IndexInv, NEW c \in Client, FetchFails(c)
  PROVE  IndexInv' /\ (SeenInv => SeenInv')
<1>1. Finish(c, "rpc_error") /\ UNCHANGED <<indexed, registry>>
  BY Zenon DEF FetchFails
<1>2. "rpc_error" \in Done /\ "rpc_error" \notin {"ok", "timed_out"}
  BY DEF Done
<1> QED BY <1>1, <1>2, FinishKeeps, Zenon

(***************************************************************************)
(* Land: a new transaction is appended, behind every position that a pass  *)
(* has on its page, in its cursor or in its start.                         *)
(***************************************************************************)
LEMMA LandKeeps ==
  ASSUME IndexInv, NEW tx \in Transaction, Land(tx)
  PROVE  IndexInv' /\ (SeenInv => SeenInv')
<1> DEFINE n == Len(indexed)
           txs == indexed'
<1>1. /\ indexed \in Seq(Transaction) /\ run \in [Client -> PassRecord]
      /\ n \in Nat /\ DOMAIN indexed = 1 .. n
  <2> HIDE DEF PassRecord
  <2> QED BY DEF IndexInv
<1>2. tx \notin ToSet(indexed) /\ indexed' = Append(indexed, tx) /\ UNCHANGED <<registry, run>>
  BY Zenon DEF Land
<1>3. /\ txs \in Seq(Transaction) /\ Len(txs) = n + 1 /\ DOMAIN txs = 1 .. n + 1
      /\ \A p \in DOMAIN indexed : txs[p] = indexed[p]
      /\ txs[n + 1] = tx
  BY <1>1, <1>2, SMT
<1>4. \A p \in DOMAIN indexed : p \in DOMAIN txs
  BY <1>1, <1>3, SMT
<1>5. \A m \in 0 .. n : m \in 0 .. Len(txs)
  BY <1>1, <1>3, SMT
<1>6. \A p \in DOMAIN txs : p \in DOMAIN indexed \/ p = n + 1
  BY <1>1, <1>3, SMT
<1>7. \A p \in DOMAIN indexed : indexed[p] # tx
  BY <1>2, Zenon DEF ToSet
<1>8. \A m \in {0} \cup DOMAIN indexed \cup 0 .. n : ~(n + 1 <= m)
  BY <1>1, SMT
<1>9. \A c \in Client : run[c] \in PassRecord /\ PassOK(c, run[c], indexed)
  <2> HIDE DEF PassRecord
  <2> QED BY <1>1 DEF IndexInv
<1> HIDE DEF n, txs
<1>10. \A c \in Client : PassOK(c, run[c], txs)
  <2> TAKE c \in Client
  <2> DEFINE r == run[c]
  <2>1. PassOK(c, r, indexed)
    BY <1>9, Zenon
  <2> HIDE DEF r
  <2>2. /\ \A p \in r.page : p \in DOMAIN txs /\ c.wallet \in txs[p].tags
        /\ r.cursor \in {0} \cup DOMAIN txs
        /\ r.next \in {NoCursor} \cup DOMAIN txs
    BY <1>3, <1>4, <2>1, Zenon DEF PassOK
  <2>3. r.start \in 0 .. Len(txs)
    BY <1>5, <2>1, Zenon DEF PassOK, n
  <2>4. \A k \in DOMAIN r.found : \E p \in DOMAIN txs : r.found[k].leaf \in OrdersFor(c, txs[p])
    BY <1>3, <1>4, <2>1, Zenon DEF PassOK
  <2>5. PassOK(c, r, txs)
    BY <2>2, <2>3, <2>4, Zenon DEF PassOK
  <2> QED BY <2>5, Zenon DEF r
<1>11. IndexInv'
  BY <1>1, <1>2, <1>3, <1>10, Zenon DEF IndexInv, txs
<1>12. ASSUME SeenInv PROVE SeenInv'
  <2>1. \A i, j \in DOMAIN txs : txs[i] = txs[j] => i = j
    <3>1. \A i, j \in DOMAIN indexed : indexed[i] = indexed[j] => i = j
      BY <1>12, Zenon DEF SeenInv
    <3> QED BY <1>3, <1>6, <1>7, <3>1, Zenon
  <2>2. \A c \in Client : PassSeen(c, run[c], txs)
    <3> TAKE c \in Client
    <3> DEFINE r == run[c]
    <3>1. r \in PassRecord /\ PassOK(c, r, indexed) /\ PassSeen(c, r, indexed)
      BY <1>9, <1>12, Zenon DEF SeenInv
    <3> HIDE DEF r
    <3>2. Reach(r) \in {0} \cup DOMAIN indexed \cup 0 .. n
      BY <3>1, Zenon DEF Reach, PassOK, n
    <3>3. ~(n + 1 <= Reach(r))
      BY <1>8, <3>2, Zenon
    <3>4. r.phase \in {"fetch", "scan", "ok", "timed_out"} =>
            \A p \in DOMAIN txs : p <= Reach(r) => p \in r.page \/ Covered(c, r.found, txs[p])
      BY <1>3, <1>6, <3>1, <3>3, Zenon DEF PassSeen
    <3>5. \A k \in DOMAIN r.found : \E p \in DOMAIN txs : ReadFrom(r, txs, k, p)
      <4>1. \A k \in DOMAIN r.found, p \in DOMAIN indexed :
              ReadFrom(r, indexed, k, p) => ReadFrom(r, txs, k, p)
        BY <1>3, Zenon DEF ReadFrom
      <4> QED BY <1>4, <3>1, <4>1, Zenon DEF PassSeen
    <3>6. PassSeen(c, r, txs)
      BY <3>1, <3>4, <3>5, Zenon DEF PassSeen
    <3> QED BY <3>6, Zenon DEF r
  <2> QED BY <1>2, <2>1, <2>2, Zenon DEF SeenInv, txs
<1> QED BY <1>11, <1>12

(***************************************************************************)
(* Every step, and stuttering, keeps both invariants: the registry and the *)
(* clock are not part of what a pass has seen.                             *)
(***************************************************************************)
LEMMA StepKeeps ==
  ASSUME IndexInv, [Next]_vars
  PROVE  IndexInv' /\ (SeenInv => SeenInv')
<1>1. ASSUME NEW c \in Client, Discover(c) PROVE IndexInv' /\ (SeenInv => SeenInv')
  BY <1>1, FetchPageKeeps, ScanTransactionKeeps, NextPageKeeps, IndexUntilKeeps, Zenon DEF Discover
<1>2. ASSUME NEW c \in Client, FetchFails(c) PROVE IndexInv' /\ (SeenInv => SeenInv')
  BY <1>2, FetchFailsKeeps, Zenon
<1>3. ASSUME UNCHANGED <<indexed, registry, run>> PROVE IndexInv' /\ (SeenInv => SeenInv')
  BY <1>3, Zenon DEF IndexInv, SeenInv
<1>4. ASSUME NEW c \in Client, Expire(c) PROVE IndexInv' /\ (SeenInv => SeenInv')
  BY <1>3, <1>4, Zenon DEF Expire
<1>5. ASSUME NEW tx \in Transaction, Land(tx) PROVE IndexInv' /\ (SeenInv => SeenInv')
  BY <1>5, LandKeeps, Zenon
<1>6. ASSUME NEW w \in Wallet, NEW address \in Address \cup {Unregistered}, Register(w, address)
      PROVE IndexInv' /\ (SeenInv => SeenInv')
  <2>1. registry' \in [Wallet -> Address \cup {Unregistered}] /\ UNCHANGED <<indexed, run>>
    BY <1>6 DEF Register, IndexInv
  <2> QED BY <2>1, Zenon DEF IndexInv, SeenInv
<1>7. CASE UNCHANGED vars
  BY <1>3, <1>7, Zenon DEF vars
<1>8. CASE Next
  BY <1>1, <1>2, <1>4, <1>5, <1>6, <1>8, Zenon DEF Next
<1> QED BY <1>7, <1>8

(***************************************************************************)
(* Both invariants hold before anything has been indexed.                  *)
(***************************************************************************)
LEMMA InitKeeps ==
  ASSUME Init
  PROVE  IndexInv /\ SeenInv
<1> DEFINE idle == [NewPass EXCEPT !.phase = "idle"]
<1>1. indexed = <<>> /\ registry = Home
  BY Zenon DEF Init
<1>2. indexed \in Seq(Transaction) /\ DOMAIN indexed = {}
  BY <1>1
<1>3. registry \in [Wallet -> Address \cup {Unregistered}]
  BY <1>1, IndexAssumption, SMT
<1>4. \A c \in Client : /\ NewPass \in PassRecord
                        /\ PassOK(c, NewPass, indexed) /\ PassSeen(c, NewPass, indexed)
  BY <1>2, NewPassOK, Zenon
<1>5. \A c \in Client : idle \in PassRecord /\ PassOK(c, idle, indexed) /\ PassSeen(c, idle, indexed)
  <2> TAKE c \in Client
  <2> DEFINE new == NewPass
  <2>1. new \in PassRecord /\ PassOK(c, new, indexed) /\ PassSeen(c, new, indexed)
    BY <1>4, Zenon
  <2>2. /\ idle.phase = "idle" /\ idle.cursor = new.cursor /\ idle.page = new.page
        /\ idle.next = new.next /\ idle.found = new.found /\ idle.start = new.start
    BY DEF NewPass
  <2>3. idle \in PassRecord
    <3>1. "idle" \in Done \cup {"fetch", "scan"}
      BY DEF Done
    <3> HIDE DEF new
    <3> QED BY <2>1, <3>1, Zenon DEF PassRecord, new
  <2>4. new.found = <<>>
    BY DEF NewPass
  <2> HIDE DEF new, idle
  <2>5. PassOK(c, idle, indexed)
    BY <2>1, <2>2, Zenon DEF PassOK
  <2>6. DOMAIN idle.found = {}
    BY <2>2, <2>4
  <2>7. PassSeen(c, idle, indexed)
    BY <2>2, <2>6 DEF PassSeen
  <2> QED BY <2>3, <2>5, <2>7, Zenon
<1> HIDE DEF idle
<1>6. PICK started \in Started : run = [c \in Client |-> IF c \in started THEN NewPass ELSE idle]
  BY Zenon DEF Init, idle
<1>7. \A c \in Client : run[c] = NewPass \/ run[c] = idle
  BY <1>6, Zenon
<1>8. run \in [Client -> PassRecord]
  <2> HIDE DEF PassRecord
  <2> QED BY <1>4, <1>5, <1>6, Zenon
<1>9. IndexInv
  BY <1>2, <1>3, <1>4, <1>5, <1>7, <1>8, Zenon DEF IndexInv
<1>10. SeenInv
  BY <1>2, <1>4, <1>5, <1>7, Zenon DEF SeenInv
<1> QED BY <1>9, <1>10

-----------------------------------------------------------------------------
(***************************************************************************)
(* The invariants of the specification.                                    *)
(***************************************************************************)

(***************************************************************************)
(* In every reachable state of a discovery, every page, cursor and item is *)
(* one that the indexer's transactions account for.                        *)
(***************************************************************************)
THEOREM IndexInvariant == Spec => []IndexInv
<1>1. Init => IndexInv
  BY InitKeeps
<1>2. IndexInv /\ [Next]_vars => IndexInv'
  BY StepKeeps
<1> QED BY <1>1, <1>2, PTL DEF Spec

(***************************************************************************)
(* In every reachable state the positions within reach of a pass are on    *)
(* its page or dealt with, and none is read twice.                         *)
(***************************************************************************)
THEOREM SeenInvariant == Spec => [](IndexInv /\ SeenInv)
<1>1. Init => IndexInv /\ SeenInv
  BY InitKeeps
<1>2. IndexInv /\ SeenInv /\ [Next]_vars => IndexInv' /\ SeenInv'
  BY StepKeeps
<1> QED BY <1>1, <1>2, PTL DEF Spec

(***************************************************************************)
(* Type correctness of discovery: passes read indexed transactions only    *)
(* and go on from cursors that the indexer handed out.                     *)
(***************************************************************************)
THEOREM IndexTypeCorrect == Spec => []TypeOK
<1>1. IndexInv => TypeOK
  <2> SUFFICES ASSUME IndexInv PROVE TypeOK
    OBVIOUS
  <2>1. ToSet(indexed) \subseteq Transaction
    <3>1. indexed \in Seq(Transaction)
      BY Zenon DEF IndexInv
    <3>2. \A p \in DOMAIN indexed : indexed[p] \in Transaction
      BY <3>1
    <3> QED BY <3>2, Zenon DEF ToSet
  <2>2. ASSUME NEW c \in Client
        PROVE  /\ run[c].phase \in Done \cup {"fetch", "scan"}
               /\ run[c].page \subseteq DOMAIN indexed
               /\ run[c].cursor \in {0} \cup DOMAIN indexed
               /\ run[c].start \in 0 .. Len(indexed)
    <3>1. run[c] \in PassRecord
      <4> HIDE DEF PassRecord
      <4> QED BY DEF IndexInv
    <3>2. run[c].phase \in Done \cup {"fetch", "scan"}
      BY <3>1, SMT DEF PassRecord
    <3>3. PassOK(c, run[c], indexed)
      BY Zenon DEF IndexInv
    <3> QED BY <3>2, <3>3, Zenon DEF PassOK
  <2> QED BY <2>1, <2>2, Zenon DEF TypeOK, IndexInv
<1> QED BY <1>1, IndexInvariant, PTL

(***************************************************************************)
(* An order that discovery returns was committed on chain for this client, *)
(* whatever was indexed and whatever the maker registers in the meantime.  *)
(***************************************************************************)
THEOREM DiscoveryIsSound == Spec => []DiscoveredOrdersCommitted
<1>1. IndexInv => DiscoveredOrdersCommitted
  <2> SUFFICES ASSUME IndexInv, NEW c \in Client, NEW k \in DOMAIN run[c].found
               PROVE  \E tx \in ToSet(indexed) : run[c].found[k].leaf \in OrdersFor(c, tx)
    BY Zenon DEF DiscoveredOrdersCommitted
  <2>1. PICK p \in DOMAIN indexed : run[c].found[k].leaf \in OrdersFor(c, indexed[p])
    BY Zenon DEF IndexInv, PassOK
  <2>2. indexed[p] \in ToSet(indexed)
    BY Zenon DEF ToSet
  <2> QED BY <2>1, <2>2, Zenon
<1> QED BY <1>1, IndexInvariant, PTL

(***************************************************************************)
(* A discovery that succeeds or times out has returned every order of this *)
(* client that was indexed when its last pass began, each one once.        *)
(***************************************************************************)
THEOREM DiscoveryIsComplete == Spec => []NothingMissed
<1>1. IndexInv /\ SeenInv => NothingMissed
  <2> SUFFICES ASSUME IndexInv, SeenInv, NEW c \in Client,
                      run[c].phase \in {"ok", "timed_out"}
               PROVE  /\ \A p \in 1 .. run[c].start : \A leaf \in OrdersFor(c, indexed[p]) :
                           \E k \in DOMAIN run[c].found : run[c].found[k].leaf = leaf
                      /\ \A j, k \in DOMAIN run[c].found :
                           run[c].found[j].leaf = run[c].found[k].leaf => j = k
    BY Zenon DEF NothingMissed
  <2> DEFINE r == run[c]
  <2>1. PassOK(c, r, indexed) /\ PassSeen(c, r, indexed)
    BY Zenon DEF IndexInv, SeenInv
  <2>2. r.phase = "ok" \/ r.phase = "timed_out"
    BY Zenon
  <2>3. indexed \in Seq(Transaction)
    BY Zenon DEF IndexInv
  <2> HIDE DEF r
  <2>4. Reach(r) = r.start /\ r.page = {}
    BY <2>1, <2>2 DEF Reach, PassSeen
  <2>5. \A p \in DOMAIN indexed : p <= r.start => Covered(c, r.found, indexed[p])
    BY <2>1, <2>2, <2>4, Zenon DEF PassSeen
  <2>6. r.start \in 0 .. Len(indexed)
    BY <2>1, Zenon DEF PassOK
  <2>7. \A p \in 1 .. r.start : p \in DOMAIN indexed /\ p <= r.start
    BY <2>3, <2>6, SMT
  <2>8. \A p \in 1 .. r.start : \A leaf \in OrdersFor(c, indexed[p]) :
          \E k \in DOMAIN r.found : r.found[k].leaf = leaf
    BY <2>5, <2>7, Zenon DEF Covered
  <2>9. \A j, k \in DOMAIN r.found : r.found[j].leaf = r.found[k].leaf => j = k
    BY <2>1, Zenon DEF PassSeen
  <2> QED BY <2>8, <2>9, Zenon DEF r
<1> QED BY <1>1, SeenInvariant, PTL
=============================================================================
