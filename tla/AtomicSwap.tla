----------------------------- MODULE AtomicSwap -----------------------------
(***************************************************************************)
(* What the swap program promises, without notes, nullifiers or proofs: a  *)
(* ledger of balances and a book of orders.  Placing an order moves funds  *)
(* into the book; an open order is either filled, at its price, in one     *)
(* step and inside its window, or refunded to its maker after it; and then *)
(* it is closed for good.                                                  *)
(***************************************************************************)
EXTENDS Integers

CONSTANTS Party, Authority, Asset, Amount, Terms, Verifiable

Owner == Party \cup {Authority}

VARIABLES
  balance,   \* [Owner -> [Asset -> Nat]]: funds outside the book
  book,      \* order id |-> order, for every order ever placed
  clock

swapVars == <<balance, book, clock>>

Order == [asset : Asset, amount : Amount \ {0}, terms : Terms,
          state : {"open", "filled", "refunded"}]

Give(funds, to, asset, n)     == [funds EXCEPT ![to][asset] = @ + n]
Charge(funds, from, asset, n) == [funds EXCEPT ![from][asset] = @ - n]

Move(funds, from, to, asset, n) == Give(Charge(funds, from, asset, n), to, asset, n)

Close(id, state) == book' = [book EXCEPT ![id].state = state]

\* Funds of one owner back an order; that owner's change goes to the maker.
Place(from, id, asset, amount, change, terms) ==
  /\ id \notin DOMAIN book /\ DOMAIN book' = DOMAIN book \cup {id}
  /\ amount # 0
  /\ book' = [i \in DOMAIN book \cup {id} |->
                IF i = id THEN [asset |-> asset, amount |-> amount, terms |-> terms,
                                state |-> "open"]
                ELSE book[i]]
  /\ balance[from][asset] >= amount + change
  /\ balance' = Charge(Move(balance, from, terms.maker, asset, change), from, asset, amount)
  /\ UNCHANGED clock

\* The buyer pays the price to the maker and receives the order's funds.
Fill(id, buyer) ==
  LET order == book[id]
      terms == order.terms
  IN  /\ order.state = "open"
      /\ 0 <= clock /\ clock <= terms.expiry
      /\ terms.takeMode = Verifiable => buyer = terms.taker
      /\ balance[buyer][terms.destinationAsset] >= terms.destinationAmount
      /\ balance' = Give(Move(balance, buyer, terms.maker, terms.destinationAsset,
                              terms.destinationAmount),
                         buyer, order.asset, order.amount)
      /\ Close(id, "filled")
      /\ UNCHANGED clock

Refund(id) ==
  LET order == book[id]
  IN  /\ order.state = "open"
      /\ clock > order.terms.expiry
      /\ balance' = Give(balance, order.terms.maker, order.asset, order.amount)
      /\ Close(id, "refunded")
      /\ UNCHANGED clock

\* A wallet pays another owner.
Pay(from, to, asset, n) ==
  /\ UNCHANGED <<book, clock>>
  /\ balance[from][asset] >= n
  /\ balance' = Move(balance, from, to, asset, n)

\* A wallet and a buyer trade outside the book: the wallet's funds go to the
\* buyer and the buyer pays a third owner.
Trade(from, buyer, to, asset, n, price, m) ==
  /\ UNCHANGED <<book, clock>>
  /\ balance[from][asset] >= n
  /\ balance[buyer][price] >= m
  /\ balance' = Move(Move(balance, from, buyer, asset, n), buyer, to, price, m)

Advance ==
  /\ clock' > clock
  /\ UNCHANGED <<balance, book>>

AtomicNext ==
  \/ Advance
  \/ \E id \in DOMAIN book', from \in Owner, asset \in Asset, amount, change \in Amount, terms \in Terms :
       Place(from, id, asset, amount, change, terms)
  \/ \E id \in DOMAIN book : Refund(id) \/ \E buyer \in Owner : Fill(id, buyer)
  \/ \E from \in Party, to \in Owner, asset \in Asset, n \in Amount : Pay(from, to, asset, n)
  \/ \E from \in Party, buyer, to \in Owner, asset, price \in Asset, n, m \in Amount :
       Trade(from, buyer, to, asset, n, price, m)

AtomicInit ==
  /\ balance \in [Owner -> [Asset -> Nat]]
  /\ book = [i \in {} |-> {}]
  /\ clock \in Int

AtomicSpec == AtomicInit /\ [][AtomicNext]_swapVars
=============================================================================
