--------------------------- MODULE KisBrokerProofs ---------------------------
(***************************************************************************)
(* The four properties of KisBroker for any names, any number of retries,  *)
(* pages, trades and faults.                                               *)
(***************************************************************************)
EXTENDS KisBroker, FiniteSetTheorems, WellFoundedInduction, TLAPS

-----------------------------------------------------------------------------
(* The invariant *)

Listing   == {"positions", "balance", "fallback"}
Operation == Listing \cup {"none", "fill", "place", "cancel"}
Need      == {"none", "hash", "page", "present", "fill"}
RowStatus == {"none", "unknown", "rejected", "submitted", "partially_filled", "filled",
              "cancelled"}

CallRecord ==
  [op : Operation, req : Need \cup {"token", "order", "cancel"}, next : Need,
   attempt : Nat, ex : 1 .. 3, after : Nat, pages : Nat, out : SUBSET Name,
   worth : Nat, cash : Nat, total : Nat]

Types ==
  /\ market \in {"KR", "US"} /\ mode \in {"paper", "live"}
  /\ holds \subseteq Name /\ cash \in Nat /\ price \in Prices /\ other \in Nat
  /\ order \in [count : Nat, filled : 0 .. Quantity, cancelled : BOOLEAN]
  /\ tokens \subseteq Cache
  /\ call \in CallRecord /\ call.attempt <= MaxRetries
  /\ open \subseteq Name
  /\ row \in [status : RowStatus, filled : 0 .. Quantity]
  /\ sawGone \subseteq Name
  /\ hole \in BOOLEAN /\ moved \in BOOLEAN

\* Which request belongs to which call.
Shape ==
  /\ call.op = "none" => call.req = "none"
  /\ call.op \in {"place", "cancel"} => call.next = "hash"
  /\ call.op = "fill" => call.next = "fill"
  /\ call.op \in Listing => call.next \in {"page", "present"} /\ call.ex \in Exchanges
  /\ call.next = "present" => call.op = "balance"
  /\ call.req = "order" => call.op = "place"
  /\ call.req = "cancel" => call.op = "cancel"
  /\ call.req \notin {"none", "token", "order", "cancel"} => call.req = call.next

\* The venue has an order only of a call that has left its mark in the row.
Orders ==
  /\ row.status = "none" => order.count = 0
  /\ call.op = "place" => row.status = "none"
  /\ order.count <= 1

\* A row that has ended tells the end of its order.
Fills ==
  /\ row.filled <= order.filled
  /\ call.op = "fill" => row.status \in {"submitted", "partially_filled"}
  /\ row.status \in {"filled", "cancelled"} =>
       /\ order.cancelled \/ order.filled = Quantity
       /\ row.filled = order.filled

\* The exchange a name is listed at, of those that are asked.
Where(n) == IF market = "KR" THEN 1 ELSE Listed[n]

Passed(c, n) == Where(n) < c.ex \/ (Where(n) = c.ex /\ n <= c.after)

\* What a listing has passed is in it or has been out of the account.
Accounted(c)  == \A n \in Name : Passed(c, n) /\ n \notin c.out => n \in sawGone

\* What the names of S are worth, in won.
Value(S) == Won(price) * Cardinality(S)

\* With account and price at rest: what the answers have said of the money.
Funds(c) ==
  ~moved =>
    /\ c.cash \in {0, cash}
    /\ c.total \in {0, Won(cash) + Value(holds) + other}
    /\ c.worth >= Value(c.out)

Listings ==
  /\ call.op # "none" => Name \ holds \subseteq sawGone
  /\ call.op # "none" /\ ~moved => sawGone \subseteq Name \ holds
  /\ call.op \in Listing /\ ~hole => Accounted(call)
  /\ call.op \in Listing => Funds(call)

Results == CloseWasSeen /\ CashNotOverstated

Inv == Types /\ Shape /\ Orders /\ Fills /\ Listings /\ Results

-----------------------------------------------------------------------------
(* Sets of names *)

LEMMA Constants ==
  /\ Name \subseteq Nat \ {0} /\ IsFiniteSet(Name) /\ Listed \in [Name -> 1 .. 3]
  /\ Quantity \in Nat \ {0} /\ Rate \in Nat \ {0} /\ Prices \subseteq Nat \ {0}
  /\ MaxCash \in Nat /\ MaxOther \in Nat /\ MaxRetries \in Nat
  BY KisAssumption DEF KisAssumption

LEMMA Count ==
  ASSUME NEW S \in SUBSET Name
  PROVE  IsFiniteSet(S) /\ Cardinality(S) \in Nat
  BY Constants, FS_Subset, FS_CardinalityType

LEMMA LeastName ==
  ASSUME NEW S \in SUBSET Name, S # {}
  PROVE  \E m \in S : \A k \in S : m <= k
<1>1. IsWellFoundedOn(OpToRel(<, Nat), Nat)
  BY NatLessThanWellFounded
<1>2. S \subseteq Nat
  BY Constants
<1>3. \E m \in S : \A k \in S : ~ (<<k, m>> \in OpToRel(<, Nat))
  BY <1>1, <1>2, WFMin
<1>4. ASSUME NEW m \in S, NEW k \in S, ~ (<<k, m>> \in OpToRel(<, Nat)) PROVE m <= k
  <2>1. m \in Nat /\ k \in Nat /\ <<k, m>> \in Nat \X Nat
    BY <1>2
  <2>2. ~ (k < m)
    BY <2>1, <1>4 DEF OpToRel
  <2> QED BY <2>1, <2>2
<1> QED BY <1>3, <1>4

-----------------------------------------------------------------------------
(* Money *)

LEMMA Times ==
  ASSUME NEW a \in Nat, NEW b \in Nat, NEW w \in Nat, a <= b
  PROVE  w * a \in Nat /\ w * a <= w * b
<1>1. PICK d \in Nat : b = a + d
  <2>1. b - a \in Nat /\ b = a + (b - a)
    OBVIOUS
  <2> QED BY <2>1
<1>2. w * b = w * a + w * d /\ w * a \in Nat /\ w * d \in Nat
  BY <1>1
<1> QED BY <1>2

LEMMA InWon == ASSUME NEW x \in Nat PROVE Won(x) \in Nat
  BY Constants DEF Won

LEMMA Valued ==
  ASSUME Types, NEW S \in SUBSET Name
  PROVE  Value(S) \in Nat /\ Value({}) = 0
<1>1. Won(price) \in Nat
  BY Constants, InWon DEF Types
<1>2. Cardinality(S) \in Nat /\ Cardinality({}) = 0
  BY Count, FS_EmptySet
<1> QED BY <1>1, <1>2 DEF Value

\* More names are worth more.
LEMMA ValueOfMore ==
  ASSUME Types, NEW T \in SUBSET Name, NEW S \in SUBSET T
  PROVE  Value(S) <= Value(T)
<1>1. Won(price) \in Nat
  BY Constants, InWon DEF Types
<1>2. Cardinality(S) \in Nat /\ Cardinality(T) \in Nat /\ Cardinality(S) <= Cardinality(T)
  BY Count, FS_Subset
<1> QED BY <1>1, <1>2, Times DEF Value

\* One more name is worth one price more at most.
LEMMA ValueOfOneMore ==
  ASSUME Types, NEW S \in SUBSET Name, NEW n \in Name
  PROVE  Value(S \cup {n}) <= Value(S) + Won(price)
<1>1. Won(price) \in Nat
  BY Constants, InWon DEF Types
<1>2. /\ Cardinality(S) \in Nat /\ Cardinality(S \cup {n}) \in Nat
      /\ Cardinality(S \cup {n}) <= Cardinality(S) + 1
  <2>1. IsFiniteSet(S) /\ Cardinality(S) \in Nat
    BY Count
  <2>2. Cardinality(S \cup {n}) \in {Cardinality(S), Cardinality(S) + 1}
    BY <2>1, FS_AddElement
  <2> QED BY <2>1, <2>2
<1>3. Won(price) * (Cardinality(S) + 1) = Won(price) * Cardinality(S) + Won(price)
  BY <1>1, <1>2
<1>4. Won(price) * Cardinality(S \cup {n}) <= Won(price) * (Cardinality(S) + 1)
  BY <1>1, <1>2, Times
<1> QED BY <1>3, <1>4 DEF Value

-----------------------------------------------------------------------------
(* The parts of a call *)

\* The fields of a call that asks on.
LEMMA Asked ==
  ASSUME NEW c \in CallRecord, NEW r \in Need \ {"none"}, Ask(c, r), tokens \subseteq Cache
  PROVE  /\ call' \in CallRecord /\ call'.attempt = 0
         /\ call'.op = c.op /\ call'.next = r /\ call'.req \in {"token", r}
         /\ call'.ex = c.ex /\ call'.after = c.after /\ call'.out = c.out
         /\ call'.worth = c.worth /\ call'.cash = c.cash /\ call'.total = c.total
         /\ tokens' \subseteq Cache
<1>1. tokens' \subseteq Cache
  BY DEF Ask, Nearer, Cache
<1>2. call' = [c EXCEPT !.req = IF tokens = {} THEN "token" ELSE r, !.next = r, !.attempt = 0]
  BY DEF Ask
<1> QED BY <1>1, <1>2 DEF CallRecord, Need

\* What a listing that is over leaves behind: a name missing from it has been
\* missing from the account, and the cash is there.
LEMMA Answered ==
  ASSUME Types, Results, NEW c \in CallRecord, c.op \in Listing, Funds(c),
         hole' \in BOOLEAN, UNCHANGED <<market, cash, holds, price, other, moved>>,
         ~moved => sawGone \subseteq Name \ holds,
         ~hole' => \A n \in Name : n \notin c.out => n \in sawGone,
         Answer(c)
  PROVE  /\ Results' /\ call' = NoCall /\ tokens' = tokens /\ open' \subseteq Name
<1>1. call' = NoCall /\ tokens' = tokens
  BY DEF Answer
<1>2. CASE c.op = "positions"
  <2>1. /\ open' = open \cap c.out
        /\ wrong' = IF open \ c.out \subseteq sawGone THEN wrong ELSE wrong \cup {hole'}
        /\ claimed' = claimed
    BY <1>2 DEF Answer, Reconciled
  <2>2. ~hole' => open \ c.out \subseteq sawGone
    BY DEF Types
  <2>3. wrong' \subseteq {TRUE}
    BY <2>1, <2>2 DEF Results, CloseWasSeen
  <2> QED BY <1>1, <2>1, <2>3 DEF Results, CloseWasSeen, CashNotOverstated, Types
<1>3. CASE c.op # "positions"
  <2>1. /\ open' = open /\ wrong' = wrong
        /\ claimed' = IF CashOf(c) > Won(cash) + other /\ ~moved
                      THEN claimed \cup {hole'} ELSE claimed
    BY <1>3 DEF Answer
  <2>2. ASSUME ~hole', ~moved PROVE ~ (CashOf(c) > Won(cash) + other)
    <3>1. holds \subseteq c.out /\ c.out \in SUBSET Name /\ holds \in SUBSET Name
      BY <2>2 DEF Types, CallRecord
    <3>2. Value(holds) <= Value(c.out) /\ Value(holds) \in Nat /\ Value(c.out) \in Nat
      BY <3>1, ValueOfMore, Valued
    <3>3. /\ c.cash \in {0, cash} /\ c.total \in {0, Won(cash) + Value(holds) + other}
          /\ c.worth >= Value(c.out) /\ c.worth \in Nat
      BY <2>2 DEF Funds, CallRecord
    <3>4. Won(cash) \in Nat /\ other \in Nat
      BY InWon DEF Types
    <3>5. CashOf(c) \in {0, Won(cash)} \/ (c.total > c.worth /\ CashOf(c) = c.total - c.worth)
      BY <3>3 DEF CashOf
    <3>6. CASE CashOf(c) \in {0, Won(cash)}
      BY <3>4, <3>6
    <3>7. CASE c.total > c.worth /\ CashOf(c) = c.total - c.worth
      BY <3>2, <3>3, <3>4, <3>7
    <3> QED BY <3>5, <3>6, <3>7
  <2>3. claimed' \subseteq {TRUE}
    BY <2>1, <2>2 DEF Results, CashNotOverstated
  <2> QED BY <1>1, <2>1, <2>3 DEF Results, CloseWasSeen, CashNotOverstated, Types
<1> QED BY <1>2, <1>3

LEMMA InitInv == Init => Inv
<1> SUFFICES ASSUME Init PROVE Inv
  OBVIOUS
<1>1. Types
  <2>1. NoCall \in CallRecord
    BY DEF NoCall, CallRecord, Operation, Listing, Need
  <2>2. cash \in Nat /\ 0 \in 0 .. Quantity
    BY Constants DEF Init
  <2>3. /\ order \in [count : Nat, filled : 0 .. Quantity, cancelled : BOOLEAN]
        /\ row \in [status : RowStatus, filled : 0 .. Quantity]
    BY <2>2 DEF Init, RowStatus
  <2>4. call.attempt <= MaxRetries
    BY Constants DEF Init, NoCall
  <2>5. hole = FALSE /\ moved = FALSE /\ sawGone = {} /\ call = NoCall
    BY DEF Init
  <2>6. market \in {"KR", "US"} /\ mode \in {"paper", "live"} /\ holds \subseteq Name
        /\ open \subseteq Name /\ tokens \subseteq Cache
    BY DEF Init, Cache
  <2>7. price \in Prices /\ other \in Nat
    BY Constants DEF Init
  <2> QED BY <2>1, <2>2, <2>3, <2>4, <2>5, <2>6, <2>7 DEF Types
<1>2. Shape
  BY DEF Init, Shape, NoCall, Listing
<1>3. Orders /\ Fills
  BY DEF Init, Orders, Fills, NoCall
<1>4. Listings
  BY DEF Init, Listings, NoCall, Listing
<1>5. Results
  BY DEF Init, Results, CloseWasSeen, CashNotOverstated
<1> QED BY <1>1, <1>2, <1>3, <1>4, <1>5 DEF Inv

-----------------------------------------------------------------------------
(* The steps of the venue *)

LEMMA TradeStep ==
  ASSUME Inv, NEW n \in Name, Trade(n)
  PROVE  Inv'
<1> USE DEF Inv
<1>1. UNCHANGED <<market, mode, price, other, order, tokens, call, open, row, wrong, hole,
                  claimed>>
  BY DEF Trade
<1>2. cash' \in Nat /\ holds' \subseteq Name
  <2>1. cash \in Nat /\ price \in Nat /\ holds \subseteq Name
    BY Constants DEF Types
  <2>2. CASE n \in holds /\ holds' = holds \ {n} /\ cash' = cash + price
    BY <2>1, <2>2
  <2>3. CASE n \notin holds /\ cash >= price /\ holds' = holds \cup {n} /\ cash' = cash - price
    BY <2>1, <2>3
  <2> QED BY <2>2, <2>3 DEF Trade
<1>3. sawGone' = sawGone \cup (Name \ holds') /\ moved' = TRUE
  BY DEF Trade
<1>4. Types'
  BY <1>1, <1>2, <1>3 DEF Types
<1>5. Shape' /\ Orders' /\ Fills' /\ Results'
  BY <1>1 DEF Shape, Exchanges, Orders, Fills, Results, CloseWasSeen, CashNotOverstated
<1>6. Listings'
  <2>1. call.op \in Listing /\ ~hole => Accounted(call)'
    BY <1>1, <1>3 DEF Listings, Accounted, Passed, Where
  <2> QED BY <1>1, <1>3, <2>1 DEF Listings, Funds
<1> QED BY <1>4, <1>5, <1>6

LEMMA PriceStep == ASSUME Inv, PriceMove PROVE Inv'
<1> USE DEF Inv
<1>1. /\ price' \in Prices /\ moved' = TRUE
      /\ UNCHANGED <<market, mode, holds, cash, other, order, tokens, call, open, row,
                    sawGone, wrong, hole, claimed>>
  BY DEF PriceMove
<1>2. Types'
  BY <1>1 DEF Types
<1>3. Shape' /\ Orders' /\ Fills' /\ Results'
  BY <1>1 DEF Shape, Exchanges, Orders, Fills, Results, CloseWasSeen, CashNotOverstated
<1>4. Listings'
  BY <1>1 DEF Listings, Accounted, Passed, Where, Funds
<1> QED BY <1>2, <1>3, <1>4

\* What a step leaves alone that neither the account nor a listing is about.
LEMMA Rest ==
  ASSUME Inv, UNCHANGED <<wrong, claimed>>
  PROVE  Results'
  BY DEF Inv, Results, CloseWasSeen, CashNotOverstated

\* A step after which no listing is under way, or the same one.
LEMMA SameListing ==
  ASSUME Inv, UNCHANGED <<venue, sawGone, moved, hole>>,
         \/ call'.op = "none"
         \/ call'.op = call.op /\ (call.op \notin Listing \/
              UNCHANGED <<call.ex, call.after, call.out, call.worth, call.cash, call.total>>)
  PROVE  Listings'
  BY DEF Inv, venue, Listings, Accounted, Passed, Where, Funds, Value, Won, Listing

LEMMA OrderStep == ASSUME Inv, OrderEvent PROVE Inv'
<1> USE DEF Inv
<1>1. /\ UNCHANGED <<venue, tokens, call, open, row, sawGone, wrong, hole, claimed>>
      /\ moved' = TRUE
  BY DEF OrderEvent
<1>2. /\ order' \in [count : Nat, filled : 0 .. Quantity, cancelled : BOOLEAN]
      /\ order'.count = order.count /\ order'.filled >= order.filled
  <2>1. /\ order \in [count : Nat, filled : 0 .. Quantity, cancelled : BOOLEAN]
        /\ order.filled < Quantity /\ Quantity \in Nat
    BY Constants DEF OrderEvent, Types
  <2>2. CASE order' = [order EXCEPT !.filled = @ + 1]
    BY <2>1, <2>2
  <2>3. CASE order' = [order EXCEPT !.cancelled = TRUE]
    <3>1. order' \in [count : Nat, filled : 0 .. Quantity, cancelled : BOOLEAN]
      BY <2>1, <2>3
    <3>2. order'.count = order.count /\ order'.filled = order.filled /\ order.filled \in Nat
      BY <2>1, <2>3
    <3> QED BY <3>1, <3>2
  <2> QED BY <2>2, <2>3 DEF OrderEvent
<1>3. Types' /\ Shape'
  BY <1>1, <1>2 DEF Types, Shape, Exchanges, venue
<1>4. Orders'
  BY <1>1, <1>2 DEF Orders
<1>5. Fills'
  BY <1>1, <1>2 DEF Fills, OrderEvent, Types
<1>6. Listings'
  BY <1>1 DEF Listings, Accounted, Passed, Where, Funds, venue
<1> QED BY <1>1, <1>3, <1>4, <1>5, <1>6, Rest

LEMMA TokenStep == ASSUME Inv, TokenEvent PROVE Inv'
<1> USE DEF Inv
<1>1. UNCHANGED <<venue, order, call, open, row, faults, ghosts>>
  BY DEF TokenEvent
<1>2. tokens' \subseteq Cache
  BY DEF TokenEvent, Types, Cache
<1>3. Types' /\ Shape' /\ Orders' /\ Fills'
  BY <1>1, <1>2 DEF Types, Shape, Exchanges, Orders, Fills, venue, ghosts
<1>4. Listings'
  BY <1>1, SameListing DEF ghosts
<1> QED BY <1>1, <1>3, <1>4, Rest DEF ghosts

-----------------------------------------------------------------------------
(* The steps of a call *)

LEMMA BeginStep ==
  ASSUME Inv, NEW op \in Operation \ {"none", "fallback"}, Begin(op)
  PROVE  Inv'
<1> USE DEF Inv
<1> DEFINE c == [NoCall EXCEPT !.op = op]
<1>1. c \in CallRecord /\ c.op = op /\ c.ex = 1 /\ c.after = 0 /\ c.out = {}
      /\ c.worth = 0 /\ c.cash = 0 /\ c.total = 0
  BY DEF NoCall, CallRecord, Operation, Listing, Need
<1>2. First(op) \in Need \ {"none"}
  BY DEF First, Operation, Listing, Need
<1>3. Ask(c, First(op))
  BY DEF Begin
<1>4. UNCHANGED <<venue, order, open, row, faults, wrong, claimed>>
  BY DEF Begin
<1>5. sawGone' = Name \ holds /\ moved' = FALSE /\ hole' = FALSE
  BY DEF Begin
<1> HIDE DEF c
<1>6. /\ call' \in CallRecord /\ call'.attempt = 0 /\ call'.op = op
      /\ call'.next = First(op) /\ call'.req \in {"token", First(op)}
      /\ call'.ex = 1 /\ call'.after = 0 /\ call'.out = {}
      /\ call'.worth = 0 /\ call'.cash = 0 /\ call'.total = 0
      /\ tokens' \subseteq Cache
  BY <1>1, <1>2, <1>3, Asked DEF Types
<1>7. Types'
  <2>1. call'.attempt <= MaxRetries
    BY <1>6, Constants
  <2>2. sawGone' \subseteq Name /\ hole' \in BOOLEAN /\ moved' \in BOOLEAN
    BY <1>5
  <2> QED BY <1>4, <1>6, <2>1, <2>2 DEF Types, venue
<1>8. Shape'
  <2>1. market' = market /\ 1 \in Exchanges
    BY <1>4 DEF venue, Exchanges
  <2>2. call'.op \in Listing => call'.ex \in Exchanges'
    BY <1>6, <2>1 DEF Exchanges
  <2> QED BY <1>6, <2>2 DEF Shape, First, Operation, Listing
<1>9. Orders' /\ Fills'
  BY <1>4, <1>6 DEF Orders, Fills, Begin
<1>10. Listings'
  <2>1. \A n \in Name : ~ Passed(call, n)'
    BY <1>6, Constants DEF Passed, Where
  <2>2. Value({})' = 0
    <3>1. Value({}) = 0
      BY Valued
    <3> QED BY <1>4, <3>1 DEF Value, Won, venue
  <2>3. Funds(call)'
    BY <1>6, <2>2 DEF Funds
  <2> QED BY <1>4, <1>5, <1>6, <2>1, <2>3 DEF Listings, Accounted, venue
<1>11. Results'
  BY <1>4, Rest
<1> QED BY <1>7, <1>8, <1>9, <1>10, <1>11

\* A step of a call that goes on, or ends, without a word about a listing.
LEMMA QuietStep ==
  ASSUME Inv, UNCHANGED <<venue, open, ghosts>>, tokens' \subseteq Cache,
         call' \in CallRecord, call'.attempt <= MaxRetries, Shape',
         \/ call'.op = "none"
         \/ call'.op = call.op /\ (call.op \notin Listing \/
              UNCHANGED <<call.ex, call.after, call.out, call.worth, call.cash, call.total>>),
         order' \in [count : Nat, filled : 0 .. Quantity, cancelled : BOOLEAN],
         row' \in [status : RowStatus, filled : 0 .. Quantity],
         Orders', Fills'
  PROVE  Inv'
<1> USE DEF Inv
<1>1. Types'
  BY DEF Types, venue, ghosts
<1>2. Listings'
  BY SameListing DEF ghosts
<1> QED BY <1>1, <1>2, Rest DEF ghosts

LEMMA CallEnds ==
  ASSUME call' = NoCall
  PROVE  /\ call' \in CallRecord /\ call'.attempt <= MaxRetries /\ call'.op = "none" /\ Shape'
<1>1. NoCall \in CallRecord
  BY DEF NoCall, CallRecord, Operation, Listing, Need
<1>2. call'.attempt <= MaxRetries
  BY Constants DEF NoCall
<1> QED BY <1>1, <1>2 DEF Shape, NoCall, Listing

\* A call with another request, from its first attempt.
LEMMA Requested ==
  ASSUME Types, NEW r \in Need \cup {"token", "order", "cancel"},
         call' = [call EXCEPT !.req = r, !.attempt = 0]
  PROVE  /\ call' \in CallRecord /\ call'.attempt <= MaxRetries /\ call'.req = r
         /\ UNCHANGED <<call.op, call.next, call.ex, call.after, call.out, call.worth, call.cash, call.total>>
<1>1. call \in CallRecord
  BY DEF Types
<1>2. call' \in CallRecord
  BY <1>1 DEF CallRecord
<1>3. call'.attempt = 0 /\ call'.req = r
  BY <1>1 DEF CallRecord
<1>4. UNCHANGED <<call.op, call.next, call.ex, call.after, call.out, call.worth, call.cash, call.total>>
  BY <1>1 DEF CallRecord
<1> QED BY <1>2, <1>3, <1>4, Constants

LEMMA SignedStep == ASSUME Inv, Signed PROVE Inv'
<1> USE DEF Inv
<1>1. call.op \in {"place", "cancel"} /\ call.next = "hash"
  BY DEF Signed, Shape, Types, CallRecord, Operation, Listing
<1>2. call' = [call EXCEPT !.req = IF call.op = "place" THEN "order" ELSE "cancel", !.attempt = 0]
      /\ UNCHANGED <<venue, order, tokens, open, row, faults, ghosts>>
  BY DEF Signed
<1>3. /\ call' \in CallRecord /\ call'.attempt <= MaxRetries /\ call'.op = call.op
      /\ call'.next = call.next /\ call'.req = IF call.op = "place" THEN "order" ELSE "cancel"
  <2>1. (IF call.op = "place" THEN "order" ELSE "cancel") \in Need \cup {"token", "order", "cancel"}
    OBVIOUS
  <2> QED BY <1>2, <2>1, Requested
<1>4. Shape'
  BY <1>1, <1>3 DEF Shape, Listing
<1>5. Orders' /\ Fills'
  BY <1>2, <1>3 DEF Orders, Fills
<1>6. call.op \notin Listing
  BY <1>1 DEF Listing
<1> QED BY <1>2, <1>3, <1>4, <1>5, <1>6, QuietStep DEF Types

LEMMA TokenIssuedStep == ASSUME Inv, TokenIssued PROVE Inv'
<1> USE DEF Inv
<1>1. /\ call.req = "token" /\ tokens' = Cache
      /\ call' = [call EXCEPT !.req = call.next, !.attempt = 0]
      /\ UNCHANGED <<venue, order, open, row, faults, ghosts>>
  BY DEF TokenIssued
<1>2. call.op # "none" /\ call.next \in Need
  BY <1>1 DEF Shape, Types, CallRecord
<1>3. /\ call' \in CallRecord /\ call'.attempt <= MaxRetries /\ call'.op = call.op
      /\ call'.next = call.next /\ call'.req = call.next
      /\ UNCHANGED <<call.ex, call.after, call.out, call.worth, call.cash, call.total>>
  BY <1>1, <1>2, Requested
<1>4. Shape'
  BY <1>1, <1>2, <1>3 DEF Shape, Need, Exchanges, venue
<1>5. Orders' /\ Fills'
  BY <1>1, <1>3 DEF Orders, Fills
<1> QED BY <1>1, <1>3, <1>4, <1>5, QuietStep DEF Types

LEMMA RetryStep == ASSUME Inv, NEW o \in Outcome, Retry(o) PROVE Inv'
<1> USE DEF Inv
<1>1. /\ call.req # "none" /\ call.attempt < MaxRetries
      /\ call' = [call EXCEPT !.attempt = @ + 1]
      /\ order' = order
      /\ UNCHANGED <<venue, tokens, open, row, ghosts>>
  BY DEF Retry, Retried
<1>2. /\ call' \in CallRecord /\ call'.attempt <= MaxRetries /\ call'.op = call.op
      /\ call'.next = call.next /\ call'.req = call.req
      /\ UNCHANGED <<call.ex, call.after, call.out, call.worth, call.cash, call.total>>
  BY <1>1, Constants DEF Types, CallRecord
<1>3. Shape'
  BY <1>1, <1>2 DEF Shape, Exchanges, venue
<1>4. Orders' /\ Fills'
  BY <1>1, <1>2 DEF Orders, Fills
<1> QED BY <1>1, <1>2, <1>3, <1>4, QuietStep DEF Types

\* An order that reached the venue, or may have.
LEMMA Counted ==
  ASSUME Inv, call.req = "order", call' = NoCall,
         order' = [order EXCEPT !.count = @ + 1],
         NEW s \in {"submitted", "unknown"}, row' = [row EXCEPT !.status = s]
  PROVE  /\ order' \in [count : Nat, filled : 0 .. Quantity, cancelled : BOOLEAN]
         /\ row' \in [status : RowStatus, filled : 0 .. Quantity]
         /\ Orders' /\ Fills'
<1> USE DEF Inv
<1>1. /\ order \in [count : Nat, filled : 0 .. Quantity, cancelled : BOOLEAN]
      /\ row \in [status : RowStatus, filled : 0 .. Quantity]
  BY DEF Types
<1>2. call.op = "place" /\ order.count = 0
  BY DEF Shape, Orders
<1>3. /\ order'.count = order.count + 1 /\ order'.filled = order.filled
      /\ order' \in [count : Nat, filled : 0 .. Quantity, cancelled : BOOLEAN]
  BY <1>1
<1>4. /\ row'.status = s /\ row'.filled = row.filled
      /\ row' \in [status : RowStatus, filled : 0 .. Quantity]
  BY <1>1 DEF RowStatus
<1>5. call'.op = "none"
  BY DEF NoCall
<1> QED BY <1>2, <1>3, <1>4, <1>5 DEF Orders, Fills

LEMMA PlacedStep == ASSUME Inv, Placed PROVE Inv'
<1> USE DEF Inv
<1>1. /\ call.req = "order" /\ call' = NoCall
      /\ UNCHANGED <<venue, tokens, open, faults, ghosts>>
  BY DEF Placed
<1>2. /\ order' \in [count : Nat, filled : 0 .. Quantity, cancelled : BOOLEAN]
      /\ row' \in [status : RowStatus, filled : 0 .. Quantity]
      /\ Orders' /\ Fills'
  <2>1. CASE order' = [order EXCEPT !.count = @ + 1] /\ row' = [row EXCEPT !.status = "submitted"]
    BY <1>1, <2>1, Counted
  <2>2. CASE row' = [row EXCEPT !.status = "rejected"] /\ UNCHANGED order
    <3>1. row \in [status : RowStatus, filled : 0 .. Quantity]
      BY DEF Types
    <3>2. /\ row'.status = "rejected" /\ row'.filled = row.filled
          /\ row' \in [status : RowStatus, filled : 0 .. Quantity]
      BY <2>2, <3>1 DEF RowStatus
    <3> QED BY <1>1, <2>2, <3>2 DEF Orders, Fills, NoCall, Types
  <2> QED BY <2>1, <2>2 DEF Placed
<1> QED BY <1>1, <1>2, CallEnds, QuietStep DEF Types

LEMMA CancelledStep == ASSUME Inv, Cancelled PROVE Inv'
<1> USE DEF Inv
<1>1. /\ call' = NoCall /\ row' = row
      /\ UNCHANGED <<venue, tokens, open, faults, ghosts>>
  BY DEF Cancelled
<1>2. order \in [count : Nat, filled : 0 .. Quantity, cancelled : BOOLEAN]
  BY DEF Types
<1>3. /\ order'.count = order.count /\ order'.filled = order.filled
      /\ order.cancelled => order'.cancelled
  BY <1>2 DEF Cancelled
<1>4. order' \in [count : Nat, filled : 0 .. Quantity, cancelled : BOOLEAN]
  BY <1>2 DEF Cancelled
<1>5. Orders' /\ Fills'
  BY <1>1, <1>3 DEF Orders, Fills, NoCall
<1> QED BY <1>1, <1>4, <1>5, CallEnds, QuietStep DEF Types

LEMMA FillCall == ASSUME Inv, call.req = "fill" PROVE call.op = "fill" /\ call.next = "fill"
  BY DEF Inv, Shape, Types, CallRecord, Operation, Listing

\* A row merged with what the venue says of the order ends only with it.
LEMMA MergedRow ==
  ASSUME Inv, call.op = "fill", order' = order, call'.op \in {"none", "fill"},
         \/ row' = Merged(Classify(order.filled, order.cancelled), order.filled)
         \/ row' = Merged("submitted", 0)
  PROVE  /\ row' \in [status : RowStatus, filled : 0 .. Quantity]
         /\ row'.status # "none" /\ row'.filled <= order.filled
         /\ row'.status \in {"filled", "cancelled"} =>
              (order.cancelled \/ order.filled = Quantity) /\ row'.filled = order.filled
<1> USE DEF Inv
<1>1. /\ row.status \in {"submitted", "partially_filled"} /\ row.filled \in 0 .. Quantity
      /\ order.filled \in 0 .. Quantity /\ row.filled <= order.filled /\ Quantity \in Nat
  BY Constants DEF Fills, Types
<1>2. CASE row' = Merged("submitted", 0)
  <2>1. /\ row'.filled = row.filled
        /\ row'.status \in {"submitted", "partially_filled"}
        /\ row' = [filled |-> row'.filled, status |-> row'.status]
    BY <1>1, <1>2 DEF Merged
  <2> QED BY <1>1, <2>1 DEF RowStatus
<1>3. CASE row' = Merged(Classify(order.filled, order.cancelled), order.filled)
  <2> DEFINE s == Classify(order.filled, order.cancelled)
  <2>1. /\ s \in {"partially_filled", "cancelled", "filled", "submitted"}
        /\ s = "filled" => order.filled = Quantity
        /\ s = "cancelled" => order.filled = 0 /\ order.cancelled
    BY <1>1 DEF Classify
  <2> HIDE DEF s
  <2>2. /\ row'.filled = order.filled
        /\ row'.status \in {"filled", s, "partially_filled"}
        /\ row'.status = "filled" => s = "filled"
        /\ row' = [filled |-> row'.filled, status |-> row'.status]
    BY <1>1, <1>3, <2>1 DEF Merged, s
  <2> QED BY <1>1, <2>1, <2>2 DEF RowStatus
<1> QED BY <1>2, <1>3

LEMMA FillPageStep == ASSUME Inv, FillPage PROVE Inv'
<1> USE DEF Inv
<1>1. call.req = "fill" /\ UNCHANGED <<venue, order, open, faults, ghosts>>
  BY DEF FillPage
<1>2. call.op = "fill" /\ call.op \notin Listing
  BY <1>1, FillCall DEF Listing
<1>3. CASE /\ call' = NoCall /\ UNCHANGED tokens
           /\ \/ row' = Merged(Classify(order.filled, order.cancelled), order.filled)
              \/ row' = Merged("submitted", 0)
  <2>1. /\ row' \in [status : RowStatus, filled : 0 .. Quantity]
        /\ row'.status # "none" /\ row'.filled <= order.filled
        /\ row'.status \in {"filled", "cancelled"} =>
              (order.cancelled \/ order.filled = Quantity) /\ row'.filled = order.filled
    BY <1>1, <1>2, <1>3, CallEnds, MergedRow
  <2>2. Orders' /\ Fills'
    BY <1>1, <1>3, <2>1, CallEnds DEF Orders, Fills
  <2> QED BY <1>1, <1>3, <2>1, <2>2, CallEnds, QuietStep DEF Types
<1>4. CASE Ask([call EXCEPT !.pages = @ + 1], "fill") /\ UNCHANGED row
  <2> DEFINE c == [call EXCEPT !.pages = @ + 1]
  <2>1. c \in CallRecord /\ c.op = call.op
    BY DEF Types, CallRecord
  <2>2. Ask(c, "fill")
    BY <1>4
  <2> HIDE DEF c
  <2>3. /\ call' \in CallRecord /\ call'.attempt = 0 /\ call'.op = "fill" /\ call'.next = "fill"
        /\ call'.req \in {"token", "fill"} /\ tokens' \subseteq Cache
    BY <1>2, <2>1, <2>2, Asked DEF Types, Need
  <2>4. Shape'
    BY <2>3 DEF Shape, Listing
  <2>5. Orders' /\ Fills'
    BY <1>1, <1>2, <1>4, <2>3 DEF Orders, Fills
  <2> QED BY <1>1, <1>2, <1>4, <2>3, <2>4, <2>5, Constants, QuietStep DEF Types
<1> QED BY <1>3, <1>4 DEF FillPage

-----------------------------------------------------------------------------
(* Listings *)

\* What a step of a listing leaves alone.
Frame == UNCHANGED <<venue, order, row, sawGone, moved>>

\* The listing c asks for its next page.
LEMMA AskPage ==
  ASSUME Inv, Frame, hole' \in BOOLEAN, hole => hole', UNCHANGED <<open, wrong, claimed>>,
         NEW c \in CallRecord, c.op \in Listing, c.ex \in Exchanges, call.op # "none",
         Ask(c, "page"), Funds(c), ~hole' => Accounted(c)
  PROVE  Inv'
<1> USE DEF Inv
<1>1. UNCHANGED <<market, mode, holds, cash, price, other, order, row, sawGone, moved>>
  BY DEF Frame, venue
<1>2. /\ call' \in CallRecord /\ call'.attempt = 0
      /\ call'.op = c.op /\ call'.next = "page" /\ call'.req \in {"token", "page"}
      /\ call'.ex = c.ex /\ call'.after = c.after /\ call'.out = c.out
      /\ call'.worth = c.worth /\ call'.cash = c.cash /\ call'.total = c.total
      /\ tokens' \subseteq Cache
  BY Asked DEF Types, Need
<1>3. Types'
  BY <1>1, <1>2, Constants DEF Types
<1>4. Shape'
  BY <1>1, <1>2 DEF Shape, Exchanges, Listing
<1>5. Orders' /\ Fills'
  BY <1>1, <1>2 DEF Orders, Fills, Listing
<1>6. Listings'
  <2>1. ~hole' => Accounted(call)'
    BY <1>1, <1>2 DEF Accounted, Passed, Where
  <2>2. Funds(call)'
    BY <1>1, <1>2 DEF Funds, Value, Won
  <2>3. Name \ holds \subseteq sawGone /\ (~moved => sawGone \subseteq Name \ holds)
    BY DEF Listings
  <2> QED BY <1>1, <2>1, <2>2, <2>3 DEF Listings
<1>7. Results'
  BY Rest
<1> QED BY <1>3, <1>4, <1>5, <1>6, <1>7

\* The listing c is over.
LEMMA AnswerListing ==
  ASSUME Inv, Frame, hole' \in BOOLEAN,
         NEW c \in CallRecord, c.op \in Listing, call.op # "none", Answer(c), Funds(c),
         ~hole' => \A n \in Name : n \notin c.out => n \in sawGone
  PROVE  Inv'
<1> USE DEF Inv
<1>1. UNCHANGED <<market, mode, holds, cash, price, other, order, row, sawGone, moved>>
  BY DEF Frame, venue
<1>2. ~moved => sawGone \subseteq Name \ holds
  BY DEF Listings
<1>3. /\ Results' /\ call' = NoCall /\ tokens' = tokens /\ open' \subseteq Name
  BY <1>1, <1>2, Answered
<1>4. /\ call' \in CallRecord /\ call'.attempt <= MaxRetries /\ call'.op = "none" /\ Shape'
  BY <1>3, CallEnds
<1>5. Types'
  BY <1>1, <1>3, <1>4 DEF Types
<1>6. Orders' /\ Fills'
  BY <1>1, <1>4 DEF Orders, Fills
<1>7. Listings'
  BY <1>4 DEF Listings, Listing
<1> QED BY <1>3, <1>4, <1>5, <1>6, <1>7

\* The listing c goes on to the next exchange, or is over.
LEMMA NextStep ==
  ASSUME Inv, Frame, hole' \in BOOLEAN, hole => hole',
         NEW c \in CallRecord, c.op \in Listing, c.ex \in Exchanges, call.op # "none",
         NextExchange(c), Funds(c),
         ~hole' => \A n \in Name : Where(n) <= c.ex /\ n \notin c.out => n \in sawGone
  PROVE  Inv'
<1>1. \A n \in Name : Where(n) \in 1 .. 3 /\ n \in Nat \ {0}
  BY Constants DEF Where
<1>2. c.ex \in 1 .. 3
  BY DEF CallRecord
<1>3. CASE c.ex + 1 \in Exchanges
  <2> DEFINE d == [c EXCEPT !.ex = @ + 1, !.after = 0, !.pages = 0]
  <2>1. c.ex + 1 \in 1 .. 3
    BY <1>2, <1>3 DEF Exchanges
  <2>2. d \in CallRecord /\ d.op = c.op /\ d.ex = c.ex + 1 /\ d.after = 0
    BY <2>1 DEF CallRecord
  <2>3. d.out = c.out /\ d.worth = c.worth /\ d.cash = c.cash /\ d.total = c.total
    BY DEF CallRecord
  <2>4. Ask(d, "page") /\ UNCHANGED <<open, wrong, claimed>>
    BY <1>3 DEF NextExchange
  <2> HIDE DEF d
  <2>5. Funds(d)
    BY <2>3 DEF Funds
  <2>6. ~hole' => Accounted(d)
    <3>1. \A n \in Name : Passed(d, n) => Where(n) <= c.ex
      BY <1>1, <1>2, <2>2 DEF Passed
    <3> QED BY <2>3, <3>1 DEF Accounted
  <2> QED BY <1>3, <2>2, <2>4, <2>5, <2>6, AskPage
<1>4. CASE c.ex + 1 \notin Exchanges
  <2>1. \A n \in Name : Where(n) <= c.ex
    BY <1>1, <1>2, <1>4 DEF Exchanges, Where, Inv, Types
  <2>2. Answer(c)
    BY <1>4 DEF NextExchange
  <2> QED BY <2>1, <2>2, AnswerListing
<1> QED BY <1>3, <1>4

\* A request for a page belongs to a listing.
LEMMA ListingCall ==
  ASSUME Inv, call.next \in {"page", "present"}, call.req # "none"
  PROVE  /\ call.op \in Listing /\ call.op # "none" /\ call.ex \in Exchanges
         /\ call \in CallRecord /\ Funds(call)
         /\ (~hole => Accounted(call)) /\ Name \ holds \subseteq sawGone
  BY DEF Inv, Shape, Types, CallRecord, Operation, Listings, Listing

LEMMA PageStep == ASSUME Inv, Page PROVE Inv'
<1> USE DEF Inv
<1>1. Frame /\ call.req = "page" /\ hole \in BOOLEAN
  BY DEF Page, Frame, Types
<1>2. call.next = "page"
  BY <1>1 DEF Shape
<1>3. /\ call.op \in Listing /\ call.op # "none" /\ call.ex \in Exchanges
      /\ call \in CallRecord /\ Funds(call)
      /\ (~hole => Accounted(call)) /\ Name \ holds \subseteq sawGone
  BY <1>1, <1>2, ListingCall
<1>4. PICK answered \in BOOLEAN, keys \in BOOLEAN :
        LET rest == Remaining(call)
            n    == CHOOSE m \in rest : \A k \in rest : m <= k
            none == [call EXCEPT !.cash = IF market = "KR" /\ answered THEN cash ELSE @]
            c    == IF ~ answered \/ rest = {} THEN none
                    ELSE [none EXCEPT !.out = @ \cup {n}, !.worth = @ + Won(price), !.after = n]
            more == Remaining(c) # {}
        IN  IF answered /\ keys /\ more /\ call.pages + 1 < PageCap
            THEN /\ Ask([c EXCEPT !.pages = @ + 1], "page")
                 /\ UNCHANGED <<hole, open, wrong, claimed>>
            ELSE hole' = (hole \/ more) /\ NextExchange(c)
  BY Zenon DEF Page
<1> DEFINE rest == Remaining(call)
           n    == CHOOSE m \in rest : \A k \in rest : m <= k
           none == [call EXCEPT !.cash = IF market = "KR" /\ answered THEN cash ELSE @]
           full == [none EXCEPT !.out = @ \cup {n}, !.worth = @ + Won(price), !.after = n]
           c    == IF ~ answered \/ rest = {} THEN none ELSE full
           next == [c EXCEPT !.pages = @ + 1]
<1>5. \/ Ask(next, "page") /\ UNCHANGED <<hole, open, wrong, claimed>>
      \/ hole' = (hole \/ Remaining(c) # {}) /\ NextExchange(c)
  BY <1>4, Zenon
<1>6. /\ none \in CallRecord /\ none.op = call.op /\ none.ex = call.ex
      /\ none.after = call.after /\ none.out = call.out /\ none.total = call.total
      /\ none.worth = call.worth /\ none.cash \in {call.cash, cash}
  BY <1>3 DEF CallRecord, Types
<1>7. Funds(none)
  BY <1>3, <1>6 DEF Funds
<1>8. \A m \in Name : Where(m) \in 1 .. 3 /\ m \in Nat
  BY Constants DEF Where
<1>9. call.ex \in 1 .. 3 /\ call.after \in Nat /\ call.out \subseteq Name /\ call.worth \in Nat
  BY <1>3 DEF CallRecord
<1>10. ASSUME NEW d \in CallRecord, d.ex = call.ex, NEW m \in Name
       PROVE  m \in Remaining(d) <=> m \in holds /\ Where(m) = call.ex /\ m > d.after
  BY <1>3, <1>10 DEF Remaining, ListedAt, Where, Exchanges, Types
<1>11. Won(price) \in Nat
  BY Constants, InWon DEF Types
<1> HIDE DEF none
<1>12. /\ c \in CallRecord /\ c.op = call.op /\ c.ex = call.ex /\ Funds(c)
       /\ ~hole => Accounted(c)
  <2>1. CASE c = none
    <3>1. ~hole => Accounted(none)
      BY <1>3, <1>6 DEF Accounted, Passed
    <3> HIDE DEF c
    <3> QED BY <1>6, <1>7, <2>1, <3>1
  <2>2. CASE c = full /\ rest # {}
    <3>1. n \in rest /\ \A k \in rest : n <= k
      <4>1. rest \in SUBSET Name
        BY DEF Remaining, ListedAt
      <4> QED BY <2>2, <4>1, LeastName
    <3> HIDE DEF c, n
    <3>2. n \in Name /\ n \in Nat /\ Where(n) = call.ex /\ n > call.after
      BY <1>3, <1>8, <1>10, <3>1 DEF Remaining, ListedAt
    <3>3. /\ full \in CallRecord /\ full.op = call.op /\ full.ex = call.ex
          /\ full.after = n /\ full.out = call.out \cup {n}
          /\ full.worth = call.worth + Won(price)
          /\ full.total = none.total /\ full.cash = none.cash
      <4>1. none.worth + Won(price) \in Nat /\ none.out \cup {n} \in SUBSET Name
        BY <1>6, <1>9, <1>11, <3>2
      <4>2. PICK w \in Nat : w = none.worth + Won(price)
        BY <4>1
      <4>3. PICK o \in SUBSET Name : o = none.out \cup {n}
        BY <4>1
      <4>4. full = [none EXCEPT !.out = o, !.worth = w, !.after = n]
        BY <4>2, <4>3
      <4> HIDE DEF full
      <4>5. /\ full \in CallRecord /\ full.op = none.op /\ full.ex = none.ex
            /\ full.after = n /\ full.out = o /\ full.worth = w
            /\ full.total = none.total /\ full.cash = none.cash
        BY <1>6, <3>2, <4>2, <4>3, <4>4 DEF CallRecord
      <4> QED BY <1>6, <4>2, <4>3, <4>5
    <3> HIDE DEF full
    <3>4. Funds(full)
      <4> SUFFICES ASSUME ~moved PROVE full.worth >= Value(full.out)
        BY <1>7, <3>3 DEF Funds
      <4>1. Value(call.out \cup {n}) <= Value(call.out) + Won(price)
        BY <1>9, <3>2, ValueOfOneMore
      <4>2. call.worth >= Value(call.out)
        BY <1>3 DEF Funds
      <4>3. Value(call.out) \in Nat /\ Value(call.out \cup {n}) \in Nat
        BY <1>9, <3>2, Valued
      <4> QED BY <1>9, <1>11, <3>3, <4>1, <4>2, <4>3
    <3>5. ASSUME ~hole, NEW m \in Name, Passed(full, m), m \notin full.out
          PROVE  m \in sawGone
      <4>1. CASE Passed(call, m)
        BY <1>3, <3>3, <3>5, <4>1 DEF Accounted
      <4>2. CASE ~Passed(call, m)
        <5>1. Where(m) = call.ex /\ m > call.after /\ m < n
          <6>1. /\ m \in Nat /\ Where(m) \in Nat /\ call.ex \in Nat /\ call.after \in Nat
                /\ n \in Nat /\ m # n /\ full.ex = call.ex /\ full.after = n
            BY <1>8, <1>9, <3>2, <3>3, <3>5
          <6> QED BY <3>5, <4>2, <6>1 DEF Passed
        <5>2. m \notin rest
          BY <1>8, <3>1, <3>2, <5>1
        <5> QED BY <1>3, <1>10, <5>1, <5>2
      <4> QED BY <4>1, <4>2
    <3> QED BY <2>2, <3>3, <3>4, <3>5 DEF Accounted
  <2> QED BY <2>1, <2>2
<1> HIDE DEF rest, n, full, c
<1>13. CASE Ask(next, "page") /\ UNCHANGED <<hole, open, wrong, claimed>>
  <2>1. /\ next \in CallRecord /\ next.op = c.op /\ next.ex = c.ex /\ next.after = c.after
        /\ next.out = c.out /\ next.worth = c.worth /\ next.cash = c.cash
        /\ next.total = c.total
    BY <1>12 DEF CallRecord
  <2> HIDE DEF next
  <2>2. Funds(next) /\ (~hole => Accounted(next))
    BY <1>12, <2>1 DEF Funds, Accounted, Passed
  <2> QED BY <1>1, <1>3, <1>12, <1>13, <2>1, <2>2, AskPage
<1>14. CASE hole' = (hole \/ Remaining(c) # {}) /\ NextExchange(c)
  <2>1. ASSUME ~hole', NEW m \in Name, Where(m) <= c.ex, m \notin c.out
        PROVE  m \in sawGone
    <3>1. ~hole /\ Remaining(c) = {}
      BY <1>1, <1>14, <2>1
    <3>2. CASE Passed(c, m)
      BY <1>12, <2>1, <3>1, <3>2 DEF Accounted
    <3>3. CASE ~Passed(c, m)
      <4>1. Where(m) = call.ex /\ m > c.after
        BY <1>8, <1>9, <1>12, <2>1, <3>3 DEF Passed, CallRecord
      <4>2. m \notin Remaining(c)
        BY <3>1
      <4> QED BY <1>3, <1>10, <1>12, <4>1, <4>2
    <3> QED BY <3>2, <3>3
  <2>2. hole' \in BOOLEAN /\ (hole => hole')
    BY <1>1, <1>14
  <2> QED BY <1>1, <1>3, <1>12, <1>14, <2>1, <2>2, NextStep
<1> QED BY <1>5, <1>13, <1>14

LEMMA PresentStep == ASSUME Inv, Present PROVE Inv'
<1> USE DEF Inv
<1>1. Frame /\ call.req = "present" /\ hole \in BOOLEAN
  BY DEF Present, Frame, Types
<1>2. call.next = "present"
  BY <1>1 DEF Shape
<1>3. /\ call.op \in Listing /\ call.op # "none" /\ call.ex \in Exchanges
      /\ call \in CallRecord /\ Funds(call)
      /\ (~hole => Accounted(call)) /\ Name \ holds \subseteq sawGone
  BY <1>1, <1>2, ListingCall
<1>4. /\ holds \in SUBSET Name /\ cash \in Nat /\ other \in Nat
      /\ Won(cash) \in Nat /\ Value(holds) \in Nat
  BY InWon, Valued DEF Types
<1>5. ASSUME NEW s \in Statement
      PROVE  s[1] \in {0, cash} /\ s[2] \in {0, Won(cash) + Value(holds) + other}
  BY DEF Statement, Value
<1>6. PICK s \in Statement :
        LET c == [call EXCEPT !.cash = s[1], !.total = s[2]] IN
        \/ \E free \in SUBSET holds \ {{}} :
             /\ mode = "live"
             /\ hole' = (hole \/ free # holds)
             /\ Answer([c EXCEPT !.out = free, !.worth = Won(price) * Cardinality(free)])
        \/ Ask(c, "page") /\ UNCHANGED <<hole, open, wrong, claimed>>
  BY Zenon DEF Present
<1> DEFINE c == [call EXCEPT !.cash = s[1], !.total = s[2]]
<1>7. s[1] \in Nat /\ s[2] \in Nat
  BY <1>4, <1>5
<1>8. /\ c \in CallRecord /\ c.op = call.op /\ c.ex = call.ex /\ c.after = call.after
      /\ c.out = call.out /\ c.worth = call.worth /\ c.cash = s[1] /\ c.total = s[2]
  BY <1>3, <1>7 DEF CallRecord
<1>9. CASE Ask(c, "page") /\ UNCHANGED <<hole, open, wrong, claimed>>
  <2> HIDE DEF c
  <2>1. Funds(c)
    BY <1>3, <1>5, <1>8 DEF Funds
  <2>2. ~hole => Accounted(c)
    BY <1>3, <1>8 DEF Accounted, Passed
  <2> QED BY <1>1, <1>3, <1>8, <1>9, <2>1, <2>2, AskPage
<1>10. ASSUME NEW free \in SUBSET holds,
              hole' = (hole \/ free # holds),
              Answer([c EXCEPT !.out = free, !.worth = Won(price) * Cardinality(free)])
       PROVE  Inv'
  <2> DEFINE d == [c EXCEPT !.out = free, !.worth = Value(free)]
  <2>1. free \in SUBSET Name /\ Value(free) \in Nat
    BY <1>4, Valued
  <2>2. Answer(d)
    BY <1>10 DEF Value
  <2> HIDE DEF c
  <2>3. /\ d \in CallRecord /\ d.op = c.op /\ d.out = free /\ d.worth = Value(free)
        /\ d.cash = c.cash /\ d.total = c.total
    BY <1>8, <2>1 DEF CallRecord
  <2> HIDE DEF d
  <2>4. Funds(d)
    BY <1>5, <1>8, <2>1, <2>3 DEF Funds
  <2>5. ~hole' => \A n \in Name : n \notin d.out => n \in sawGone
    BY <1>1, <1>3, <1>10, <2>3
  <2>6. hole' \in BOOLEAN
    BY <1>1, <1>10
  <2> QED BY <1>1, <1>3, <1>8, <2>2, <2>3, <2>4, <2>5, <2>6, AnswerListing
<1> QED BY <1>6, <1>9, <1>10

-----------------------------------------------------------------------------
(* Failures *)

LEMMA FailStep == ASSUME Inv, NEW o \in Outcome, Fail(o) PROVE Inv'
<1> USE DEF Inv
<1>1. /\ call.req # "none" /\ UNCHANGED <<venue, sawGone, moved>> /\ hole \in BOOLEAN
      /\ \/ order' = order
         \/ call.req = "order" /\ order' = [order EXCEPT !.count = @ + 1]
  BY DEF Fail, Types
<1>2. call.next \in {"page", "present"} =>
        /\ call.op \in Listing /\ call.op # "none" /\ call.ex \in Exchanges
        /\ call \in CallRecord /\ Funds(call) /\ order' = order
  BY <1>1, ListingCall DEF Shape, Listing
<1>3. \/ Swallowed(o) /\ hole' = TRUE /\ NextExchange(call) /\ UNCHANGED row
      \/ /\ call.next = "page" /\ hole' = TRUE
         /\ Answer([call EXCEPT !.out = {}, !.worth = 0]) /\ UNCHANGED row
      \/ /\ call.next = "present" /\ Ask([NoCall EXCEPT !.op = "fallback"], "page")
         /\ UNCHANGED <<hole, open, wrong, claimed, row>>
      \/ /\ call.op = "fill" /\ call' = NoCall /\ row' = Merged("submitted", 0)
         /\ UNCHANGED <<tokens, hole, open, wrong, claimed>>
      \/ /\ call' = NoCall
         /\ row' = IF call.op = "place" THEN [row EXCEPT !.status = "unknown"] ELSE row
         /\ UNCHANGED <<tokens, hole, open, wrong, claimed>>
  BY DEF Fail
<1>4. CASE Swallowed(o) /\ hole' = TRUE /\ NextExchange(call) /\ UNCHANGED row
  <2>1. call.next = "page"
    BY <1>4 DEF Swallowed
  <2> QED BY <1>1, <1>2, <1>4, <2>1, NextStep DEF Frame
<1>5. CASE /\ call.next = "page" /\ hole' = TRUE
           /\ Answer([call EXCEPT !.out = {}, !.worth = 0]) /\ UNCHANGED row
  <2> DEFINE c == [call EXCEPT !.out = {}, !.worth = 0]
  <2>1. /\ c \in CallRecord /\ c.op = call.op /\ c.cash = call.cash /\ c.total = call.total
        /\ c.out = {} /\ c.worth = 0
    BY <1>2, <1>5 DEF CallRecord
  <2>2. Answer(c)
    BY <1>5
  <2> HIDE DEF c
  <2>3. Funds(c)
    BY <1>2, <1>5, <2>1, Valued DEF Funds
  <2> QED BY <1>1, <1>2, <1>5, <2>1, <2>2, <2>3, AnswerListing DEF Frame
<1>6. CASE /\ call.next = "present" /\ Ask([NoCall EXCEPT !.op = "fallback"], "page")
           /\ UNCHANGED <<hole, open, wrong, claimed, row>>
  <2> DEFINE c == [NoCall EXCEPT !.op = "fallback"]
  <2>1. /\ c \in CallRecord /\ c.op = "fallback" /\ c.ex = 1 /\ c.after = 0
        /\ c.cash = 0 /\ c.total = 0 /\ c.out = {} /\ c.worth = 0
    BY DEF NoCall, CallRecord, Operation, Listing, Need
  <2>2. Ask(c, "page")
    BY <1>6
  <2> HIDE DEF c
  <2>3. c.op \in Listing /\ c.ex \in Exchanges /\ Funds(c)
    BY <2>1, Valued DEF Listing, Exchanges, Funds
  <2>4. Accounted(c)
    BY <2>1, Constants DEF Accounted, Passed, Where
  <2> QED BY <1>1, <1>2, <1>6, <2>1, <2>2, <2>3, <2>4, AskPage DEF Frame
<1>7. CASE /\ call.op = "fill" /\ call' = NoCall /\ row' = Merged("submitted", 0)
           /\ UNCHANGED <<tokens, hole, open, wrong, claimed>>
  <2>1. order' = order
    BY <1>1, <1>7 DEF Shape
  <2>2. /\ row' \in [status : RowStatus, filled : 0 .. Quantity]
        /\ row'.status # "none" /\ row'.filled <= order.filled
        /\ row'.status \in {"filled", "cancelled"} =>
              (order.cancelled \/ order.filled = Quantity) /\ row'.filled = order.filled
    BY <1>7, <2>1, CallEnds, MergedRow
  <2>3. Orders' /\ Fills'
    BY <1>7, <2>1, <2>2, CallEnds DEF Orders, Fills
  <2> QED BY <1>1, <1>7, <2>1, <2>2, <2>3, CallEnds, QuietStep DEF Types, ghosts
<1>8. CASE /\ call' = NoCall
           /\ row' = IF call.op = "place" THEN [row EXCEPT !.status = "unknown"] ELSE row
           /\ UNCHANGED <<tokens, hole, open, wrong, claimed>>
  <2>1. /\ order' \in [count : Nat, filled : 0 .. Quantity, cancelled : BOOLEAN]
        /\ row' \in [status : RowStatus, filled : 0 .. Quantity]
        /\ Orders' /\ Fills'
    <3>1. CASE call.req = "order" /\ order' = [order EXCEPT !.count = @ + 1]
      <4>1. call.op = "place"
        BY <3>1 DEF Shape
      <4> QED BY <1>8, <3>1, <4>1, Counted
    <3>2. CASE order' = order
      <4>1. /\ row' \in [status : RowStatus, filled : 0 .. Quantity]
            /\ row'.filled = row.filled /\ row'.status \in {row.status, "unknown"}
        BY <1>8 DEF Types, RowStatus
      <4> QED BY <1>8, <3>2, <4>1, CallEnds DEF Orders, Fills, Types
    <3> QED BY <1>1, <3>1, <3>2
  <2> QED BY <1>1, <1>8, <2>1, CallEnds, QuietStep DEF Types, ghosts
<1> QED BY <1>3, <1>4, <1>5, <1>6, <1>7, <1>8

-----------------------------------------------------------------------------
(* The invariant holds *)

LEMMA StepInv == ASSUME Inv, Next PROVE Inv'
<1>1. CASE \E n \in Name : Trade(n)
  BY <1>1, TradeStep
<1>2. CASE \E op \in Called : Begin(op)
  <2>1. Called \subseteq Operation \ {"none", "fallback"}
    BY KisAssumption DEF KisAssumption, Operation, Listing
  <2> QED BY <1>2, <2>1, BeginStep
<1>3. CASE Request
  BY <1>3, SignedStep, TokenIssuedStep, PlacedStep, CancelledStep, PageStep, PresentStep,
     FillPageStep DEF Request
<1>4. CASE \E o \in Outcome : Retry(o)
  BY <1>4, RetryStep
<1>5. CASE \E o \in Outcome : Fail(o)
  BY <1>5, FailStep
<1> QED BY <1>1, <1>2, <1>3, <1>4, <1>5, PriceStep, OrderStep, TokenStep DEF Next

LEMMA StutterInv == ASSUME Inv, UNCHANGED vars PROVE Inv'
<1>1. UNCHANGED <<venue, order, tokens, call, open, row, ghosts>>
  BY DEF vars
<1>2. Types' /\ Shape' /\ Orders' /\ Fills'
  BY <1>1 DEF Inv, Types, Shape, Exchanges, Orders, Fills, venue, ghosts
<1>3. Listings'
  BY <1>1, SameListing DEF ghosts
<1> QED BY <1>1, <1>2, <1>3, Rest DEF Inv, ghosts

LEMMA Invariance == Spec => []Inv
<1>1. Inv /\ [Next]_vars => Inv'
  BY StepInv, StutterInv
<1> QED BY InitInv, <1>1, PTL DEF Spec

-----------------------------------------------------------------------------
(* The theorems *)

\* What a call, a row and the account look like, for every account.
THEOREM TypeCorrect == Spec => []TypeOK
<1>1. Inv => TypeOK
  <2> SUFFICES ASSUME Inv PROVE TypeOK
    OBVIOUS
  <2> USE DEF Inv
  <2>1. order \in [count : 0 .. 2, filled : 0 .. Quantity, cancelled : BOOLEAN]
    BY DEF Types, Orders
  <2>2. /\ call.op \in {"none", "positions", "balance", "fallback", "fill", "place", "cancel"}
        /\ call.out \subseteq Name /\ call.attempt \in 0 .. MaxRetries
    BY Constants DEF Types, CallRecord, Operation, Listing
  <2>3. /\ row.status \in {"none", "unknown", "rejected", "submitted", "partially_filled",
                           "filled", "cancelled"}
        /\ row.filled \in 0 .. Quantity
    BY DEF Types, RowStatus
  <2> QED BY <2>1, <2>2, <2>3 DEF Types, TypeOK
<1> QED BY Invariance, <1>1, PTL

\* get_positions and the reconciliation that reads it: a position is written
\* off only if its name was out of the account at some moment of the listing,
\* unless the listing ended with names still to come (an error of a US
\* exchange, an answer that is an error, the cap of the pages, no context keys).
THEOREM WriteOffWasSeen == Spec => []CloseWasSeen
<1>1. Inv => CloseWasSeen
  BY DEF Inv, Results
<1> QED BY Invariance, <1>1, PTL

\* get_balance: with account and price at rest and no name left out of the
\* listing, the cash a buy is sized by is never more than the account's cash and
\* its assets in other foreign currencies, at any price and any rate.
THEOREM CashIsThere == Spec => []CashNotOverstated
<1>1. Inv => CashNotOverstated
  BY DEF Inv, Results
<1> QED BY Invariance, <1>1, PTL

\* place_order over _request: at most one order per call, whatever is tried
\* again and whatever is lost.
THEOREM OneOrderPerCall == Spec => []OnePerCall
<1>1. Inv => OnePerCall
  BY DEF Inv, Orders, OnePerCall
<1> QED BY Invariance, <1>1, PTL

\* get_order_fill and _merge_fill: a row ends only with its order, and with
\* the shares that filled.
THEOREM TerminalIsExact == Spec => []TerminalExact
<1>1. Inv => TerminalExact
  BY DEF Inv, Fills, TerminalExact
<1> QED BY Invariance, <1>1, PTL
=============================================================================
