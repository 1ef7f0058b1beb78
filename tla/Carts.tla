-------------------------------- MODULE Carts --------------------------------
(* The cart of one customer of a store and the catalogue it is filled from:   *)
(* a product and a variant of it.  A request reads the cart, then the price,  *)
(* and saves the line, which leaves it as the request has it: the ORM updates *)
(* the columns that differ from the row it selects again, and inserts a row   *)
(* that is no longer there.  Checkouts take the lines away (CommerceOrders    *)
(* has what they do to the stock).                                            *)
EXTENDS Naturals, Sequences, FiniteSets

CONSTANTS
  CartCalls,  \* requests of the customer in progress at once
  Prices,     \* Prices[x]: what the product and the variant may cost; 0: the
              \* variant has no price of its own, a product costs something
  MaxEdits    \* bound: additions and changes of quantity

ASSUME CartsAssumption ==
  0 \notin Prices["product"] /\ 0 \in Prices["variant"] /\ MaxEdits \in Nat

VARIABLES
  price,     \* price of the product and of the variant, which may have none (0)
  gone,      \* what an administrator has deleted
  hasCart,   \* the row of the cart
  line,      \* the rows of its items, of which the quantity is left out
  kcall,     \* kcall[c]: a request: the row and the line to be saved, and the
             \* prices the item had since it began to add it
  listed,    \* history: listed[i]: those of the request that last added to row i
  overtaken, \* history: rows that two requests wrote at once
  edits      \* number of additions and changes of quantity
cartVars == <<price, gone, hasCart, line, kcall, listed, overtaken, edits>>

Items == {"product", "variant"}
NoLine == [item |-> "product", live |-> FALSE, unitPrice |-> 0]
NoCartCall == [at |-> "idle", row |-> 0, line |-> NoLine, since |-> {}]
\* What an item costs in a catalogue with the prices p and without the items g:
\* a variant without a price costs what its product does, and nothing is due
\* for what is gone.
ProductPrice(p, g) == IF "product" \in g THEN 0 ELSE p["product"]
ListedPrice(x, p, g) ==
  IF x \in g THEN 0 ELSE IF p[x] = 0 THEN ProductPrice(p, g) ELSE p[x]
\* What a request k has still to find: one that looks for the product of its
\* variant saw that the variant has no price.
Due(k, p, g) == IF k.at = "product" THEN ProductPrice(p, g) ELSE ListedPrice(k.line.item, p, g)
CartsInit ==
  /\ price \in {p \in [Items -> UNION {Prices[x] : x \in Items}] : \A x \in Items : p[x] \in Prices[x]}
  /\ gone = {}
  /\ hasCart = FALSE
  /\ line = << >>
  /\ kcall = [c \in CartCalls |-> NoCartCall]
  /\ listed = << >>
  /\ overtaken = {}
  /\ edits = 0

Reading == {"cart", "variant", "product"}
\* The prices its item has while a request has still to read one.
Relist(p, g) ==
  kcall' = [c \in CartCalls |-> [kcall[c] EXCEPT !.since =
              IF kcall[c].at \in Reading THEN @ \cup {Due(kcall[c], p, g)} ELSE @]]
\* updateProduct and update of a variant; deleteProduct, which is soft, and
\* delete of a variant.  One administrator edits the catalogue.
Reprice(x, n) ==
  /\ x \notin gone
  /\ price' = [price EXCEPT ![x] = n]
  /\ Relist(price', gone)
  /\ UNCHANGED <<gone, hasCart, line, listed, overtaken, edits>>
DeleteItem(x) ==
  /\ x \notin gone
  /\ gone' = gone \cup {x}
  /\ Relist(price, gone')
  /\ UNCHANGED <<price, hasCart, line, listed, overtaken, edits>>
-----------------------------------------------------------------------------
Live == {i \in DOMAIN line : line[i].live}
Proceed(c, at, fields) ==
  kcall' = [kcall EXCEPT ![c] =
    [f \in DOMAIN @ |-> IF f = "at" THEN at ELSE IF f \in DOMAIN fields THEN fields[f] ELSE @[f]]]
Drop(c) == kcall' = [kcall EXCEPT ![c] = NoCartCall]

\* addItem: the cart and in it the item's line; or a new cart, which another
\* request may have made first.
AddItem(c, x) ==
  LET there == IF hasCart THEN {i \in Live : line[i].item = x} ELSE {} IN
  /\ kcall[c].at = "idle" /\ edits < MaxEdits
  /\ \E i \in IF there = {} THEN {0} ELSE there :
       Proceed(c, IF hasCart THEN x ELSE "cart",
         [row |-> i, since |-> {ListedPrice(x, price, gone)},
          line |-> IF i = 0 THEN [NoLine EXCEPT !.item = x] ELSE line[i]])
  /\ edits' = edits + 1
  /\ UNCHANGED <<price, gone, hasCart, line, listed, overtaken>>
CreateCart(c) ==
  /\ kcall[c].at = "cart"
  /\ hasCart' = TRUE
  /\ IF hasCart THEN Drop(c) ELSE Proceed(c, kcall[c].line.item, << >>)
  /\ UNCHANGED <<price, gone, line, listed, overtaken, edits>>
Priced(l, unitPrice) == [l EXCEPT !.unitPrice = unitPrice]
\* Mutant: a variant without a price does not take its product's.
FindVariantOnly(c) ==
  /\ kcall[c].at = "variant"
  /\ Proceed(c, "save",
       [line |-> Priced(kcall[c].line, IF "variant" \in gone THEN 0 ELSE price["variant"])])
  /\ UNCHANGED <<price, gone, hasCart, line, listed, overtaken, edits>>
\* The variant: its own price, or none yet; 0 if there is no such variant.
FindVariant(c) ==
  /\ kcall[c].at = "variant"
  /\ IF "variant" \notin gone /\ price["variant"] = 0 THEN Proceed(c, "product", << >>)
     ELSE Proceed(c, "save",
            [line |-> Priced(kcall[c].line, IF "variant" \in gone THEN 0 ELSE price["variant"])])
  /\ UNCHANGED <<price, gone, hasCart, line, listed, overtaken, edits>>
FindProduct(c) ==
  /\ kcall[c].at = "product"
  /\ Proceed(c, "save",
       [line |-> Priced(kcall[c].line, IF "product" \in gone THEN 0 ELSE price["product"])])
  /\ UNCHANGED <<price, gone, hasCart, line, listed, overtaken, edits>>
\* updateItemQuantity: the line is saved as it was read, but for its quantity.
UpdateQuantity(c, i) ==
  /\ kcall[c].at = "idle" /\ edits < MaxEdits /\ line[i].live
  /\ Proceed(c, "save", [row |-> i, line |-> line[i], since |-> {}])
  /\ edits' = edits + 1
  /\ UNCHANGED <<price, gone, hasCart, line, listed, overtaken>>
\* A row is inserted, also again if it was removed, or written over.
SaveLine(c) ==
  LET i == kcall[c].row
      saved == [kcall[c].line EXCEPT !.live = TRUE]
      since == kcall[c].since
      atOnce == \E d \in CartCalls \ {c} : kcall[d].at # "idle" /\ kcall[d].line.item = saved.item
  IN
  /\ kcall[c].at = "save"
  /\ line' = IF i = 0 THEN Append(line, saved) ELSE [line EXCEPT ![i] = saved]
  /\ listed' = IF i = 0 THEN Append(listed, since)
               ELSE [listed EXCEPT ![i] = IF since = {} THEN @ ELSE since]
  /\ overtaken' = IF atOnce THEN overtaken \cup {IF i = 0 THEN Len(line') ELSE i} ELSE overtaken
  /\ Drop(c)
  /\ UNCHANGED <<price, gone, hasCart, edits>>
\* removeItem; clearCart and a checkout that commits: all the lines there are.
RemoveLines(c, rows) ==
  /\ kcall[c].at = "idle" /\ rows \subseteq Live /\ rows # {}
  /\ line' = [i \in DOMAIN line |-> IF i \in rows THEN NoLine ELSE line[i]]
  /\ UNCHANGED <<price, gone, hasCart, kcall, listed, overtaken, edits>>
CartCallFails(c) ==
  /\ kcall[c].at # "idle"
  /\ Drop(c)
  /\ UNCHANGED <<price, gone, hasCart, line, listed, overtaken, edits>>

CartsNext ==
  \/ \E x \in Items : DeleteItem(x) \/ \E n \in Prices[x] : Reprice(x, n)
  \/ \E c \in CartCalls :
       \/ \E x \in Items : AddItem(c, x)
       \/ \E i \in DOMAIN line : UpdateQuantity(c, i)
       \/ CreateCart(c) \/ FindVariant(c) \/ FindProduct(c) \/ SaveLine(c) \/ CartCallFails(c)
       \/ RemoveLines(c, Live) \/ \E i \in Live : RemoveLines(c, {i})
CartsSpec == CartsInit /\ [][CartsNext]_cartVars
-----------------------------------------------------------------------------
CartsTypeOK ==
  /\ (\A x \in Items : price[x] \in Prices[x]) /\ gone \subseteq Items /\ edits <= MaxEdits
  /\ Len(listed) = Len(line) /\ \A c \in CartCalls : kcall[c].row \in 0..Len(line)

\* A line of the cart has a price that this very item had while it was last added
\* (for a variant without a price of its own, the price of its product), also when
\* the catalogue changes between the reads and when quantities change or lines are
\* removed meanwhile.  It is free only if the item, or the product a variant took its
\* price from, was gone by then.  Excepted are rows that two requests wrote at once.
LinesArePriced == \A i \in Live \ overtaken : line[i].unitPrice \in listed[i]
=============================================================================
