--------------------------- MODULE ExitLadderProofs ---------------------------
(***************************************************************************)
(* What ExitLadder promises of the shares, of the trailing stop and of the *)
(* simulated exit, for any prices, plans and quantities.                   *)
(***************************************************************************)
EXTENDS ExitLadder, TLAPS

-----------------------------------------------------------------------------
(* The invariant *)

\* Shares are conserved: what the bot sold and what is left was bought or was
\* there before.
Conserved == account + sold <= bought + Others

\* The row counts every share sold, and the sell in flight fits into the rest.
Counted == forgot \/ (sold <= parts + last /\ sold + sell.left <= bought)

\* The trail is armed before the first share of the half can be sold.
Armed == (parts > 0 \/ (InFlight /\ sell.link = "parts")) => trail >= Entry

Inv == TypeOK /\ Conserved /\ Counted /\ Armed

LEMMA Constants ==
  /\ MaxPrice \in Nat \ {0} /\ Atr \in Nat \ {0} /\ Shares \in Nat \ {0} /\ MaxDay \in Nat \ {0}
  /\ Others \in Nat
  /\ StopLoss \in Price /\ Entry \in Price /\ Target1 \in Price /\ Target2 \in Price
  BY LadderAssumption DEF LadderAssumption, Price

\* The fields of the state, as numbers.
LEMMA Numbers ==
  ASSUME TypeOK
  PROVE  /\ day \in 1 .. MaxDay + 1 /\ price \in Price
         /\ bar \in Bar /\ bar.low <= price /\ price <= bar.high
         /\ bought \in 1 .. Shares /\ parts \in Nat /\ last \in Nat /\ trail \in 0 .. MaxPrice
         /\ sell.left \in 0 .. Shares /\ sell.limit \in 0 .. MaxPrice
         /\ sell.link \in {"parts", "last", "lost"}
         /\ sell = [left |-> sell.left, limit |-> sell.limit, link |-> sell.link]
         /\ account \in 0 .. Shares + Others /\ sold \in 0 .. Shares + Others
         /\ worst \in 1 .. MaxPrice + 1
<1>1. bar.low \in Price /\ bar.high \in Price /\ price \in bar.low .. bar.high
  BY DEF TypeOK, Bar
<1>2. price \in Price /\ bar.low <= price /\ price <= bar.high
  BY <1>1, Constants DEF Price
<1>3. /\ sell.left \in 0 .. Shares /\ sell.limit \in 0 .. MaxPrice
      /\ sell.link \in {"parts", "last", "lost"}
      /\ sell = [left |-> sell.left, limit |-> sell.limit, link |-> sell.link]
  BY DEF TypeOK, SellRecord
<1> QED BY <1>2, <1>3 DEF TypeOK

-----------------------------------------------------------------------------
(* The simulation stays in its type *)

LEMMA ArmedPrice ==
  ASSUME NEW p \in Price
  PROVE  ArmedAt(p) \in Price /\ ArmedAt(p) >= Entry
  BY Constants DEF ArmedAt, Higher, Price

LEMMA InBarType ==
  ASSUME NEW b \in Bar, NEW c \in Price, NEW t \in 0 .. MaxPrice
  PROVE  InBar(b, c, t) \in SimRecord
<1>1. b.low \in Price /\ b.high \in Price
  BY DEF Bar
<1>2. CASE b.low <= t
  <2>1. t \in Price
    BY <1>1, <1>2, Constants DEF Price
  <2> QED BY <1>2, <2>1, Constants DEF InBar, Gone, SimRecord
<1>3. CASE ~(b.low <= t) /\ b.high >= Target2
  BY <1>3, Constants DEF InBar, Gone, SimRecord
<1>4. CASE ~(b.low <= t) /\ ~(b.high >= Target2)
  <2>1. Higher(t, c - 2 * Atr) \in 0 .. MaxPrice
    BY Constants DEF Higher, Price
  <2> QED BY <1>4, <2>1 DEF InBar, SimRecord
<1> QED BY <1>2, <1>3, <1>4

LEMMA ScaleOutType ==
  ASSUME NEW b \in Bar, NEW c \in Price, NEW p \in Price
  PROVE  ScaleOutBar(b, c, p) \in SimRecord
<1>1. ArmedAt(p) \in 0 .. MaxPrice
  BY ArmedPrice, Constants DEF Price
<1>2. InBar(b, c, ArmedAt(p)) \in SimRecord
  BY <1>1, InBarType
<1> QED BY <1>2 DEF ScaleOutBar, SimRecord

LEMMA LadderType ==
  ASSUME NEW s \in SimRecord, NEW b \in Bar, NEW c \in Price
  PROVE  LadderStep(s, b, c) \in SimRecord
<1>1. b.open \in Price
  BY DEF Bar
<1>2. \A p \in Price : Gone({p}) \in SimRecord
  BY Constants DEF Gone, SimRecord
<1>3. Gone({}) \in SimRecord
  BY Constants DEF Gone, SimRecord
<1>4. FullBar(b, c) \in SimRecord
  <2>1. [phase |-> "full", trail |-> 0, fills |-> {}] \in SimRecord
    BY Constants DEF SimRecord
  <2> QED BY <1>1, <1>2, <2>1, ScaleOutType, Constants DEF FullBar
<1>5. s.trail \in 0 .. MaxPrice /\ s.phase \in {"full", "runner", "out"}
  BY DEF SimRecord
<1>6. RunnerBar(b, c, s.trail) \in SimRecord
  BY <1>1, <1>2, <1>5, InBarType DEF RunnerBar
<1> QED BY <1>3, <1>4, <1>5, <1>6 DEF LadderStep

LEMMA WalkType ==
  ASSUME NEW s \in SimRecord, NEW b \in Bar, NEW c \in Price
  PROVE  Walk(s, b, c) \in SimRecord
<1> DEFINE n == LadderStep(s, b, c)
<1>1. n \in SimRecord
  BY LadderType
<1>2. Walk(s, b, c) \in {n, Gone(n.fills \union {c})}
  BY DEF Walk
<1> HIDE DEF n
<1> QED BY <1>1, <1>2, Constants DEF Gone, SimRecord

-----------------------------------------------------------------------------
(* The market *)

LEMMA InitInv == Init => Inv
<1> SUFFICES ASSUME Init PROVE Inv
  OBVIOUS
<1>1. /\ day = 1 /\ price = Entry /\ bar = OpenAt(Entry) /\ bought \in 1 .. Shares
      /\ parts = 0 /\ last = 0 /\ trail = 0 /\ sell = NoSell /\ account = bought + Others
      /\ sold = 0 /\ worst = MaxPrice + 1
  BY DEF Init
<1>2. seen = FALSE /\ prompt = TRUE /\ forgot = FALSE
  BY DEF Init
<1>3. bar \in Bar /\ price \in bar.low .. bar.high
  BY <1>1, Constants DEF Bar, OpenAt, Price
<1>4. sell \in SellRecord /\ sell.left = 0 /\ sell.link = "lost"
  BY <1>1, Constants DEF NoSell, SellRecord
<1>5. sim \in SimRecord
  BY Constants DEF Init, SimRecord
<1>6. /\ day \in 1 .. MaxDay + 1 /\ trail \in 0 .. MaxPrice /\ worst \in 1 .. MaxPrice + 1
      /\ account \in 0 .. Shares + Others /\ sold \in 0 .. Shares + Others
  BY <1>1, Constants
<1>7. parts \in Nat /\ last \in Nat
  BY <1>1
<1>8. {seen, prompt, forgot} \subseteq BOOLEAN
  BY <1>2
<1>9. TypeOK
  BY <1>1, <1>3, <1>4, <1>5, <1>6, <1>7, <1>8 DEF TypeOK
<1>10. Conserved /\ Counted /\ Armed
  BY <1>1, <1>4, Constants DEF Conserved, Counted, Armed, InFlight
<1> QED BY <1>9, <1>10 DEF Inv

\* A price is followed: the shares and the row stay.
LEMMA FollowStep ==
  ASSUME Inv, NEW b \in Bar, NEW s \in SimRecord, Follow(b, s),
         price' \in Price, price' \in b.low .. b.high, day' \in 1 .. MaxDay + 1
  PROVE  Inv'
<1> USE DEF Inv
<1>1. UNCHANGED <<bought, parts, last, trail, sell, account, sold, forgot>>
  BY DEF Follow, row
<1>2. \/ bar' = b /\ sim' = s /\ worst' = worst
      \/ bar' = OpenAt(price') /\ sim' = Gone({}) /\ worst' = MaxPrice + 1
  BY DEF Follow
<1>3. bar' \in Bar /\ price' \in bar'.low .. bar'.high
  BY <1>2, Constants DEF Bar, OpenAt, Price
<1>4. sim' \in SimRecord
  BY <1>2, Constants DEF SimRecord, Gone
<1>5. worst' \in 1 .. MaxPrice + 1
  BY <1>2, Constants DEF TypeOK
<1>6. {seen', prompt'} \subseteq BOOLEAN
  BY Zenon DEF Follow
<1>7. forgot' \in BOOLEAN
  BY <1>1, Zenon DEF TypeOK
<1>8. TypeOK'
  BY <1>1, <1>3, <1>4, <1>5, <1>6, <1>7 DEF TypeOK
<1>9. Conserved' /\ Counted' /\ Armed'
  BY <1>1 DEF Conserved, Counted, Armed, InFlight
<1> QED BY <1>8, <1>9

LEMMA TickStep == ASSUME Inv, Tick PROVE Inv'
<1> USE DEF Inv
<1> DEFINE b == [bar EXCEPT !.low = Lower(@, price'), !.high = Higher(@, price')]
<1>1. price' \in Price /\ day' = day /\ Follow(b, sim)
  BY DEF Tick
<1>2. bar \in Bar
  BY Numbers
<1>3. bar \in [open : Price, low : Price, high : Price]
  BY <1>2 DEF Bar
<1>4. Lower(bar.low, price') \in Price /\ Higher(bar.high, price') \in Price
  BY <1>1, <1>3 DEF Lower, Higher
<1>5. /\ b \in [open : Price, low : Price, high : Price] /\ b.open = bar.open
      /\ b.low = Lower(bar.low, price') /\ b.high = Higher(bar.high, price')
  BY <1>3, <1>4
<1> HIDE DEF b
<1>6. bar.low <= bar.open /\ bar.open <= bar.high
  BY <1>2 DEF Bar
<1>7. b \in Bar /\ price' \in b.low .. b.high
  <2>1. bar.open \in Nat /\ bar.low \in Nat /\ bar.high \in Nat /\ price' \in Nat
    BY <1>1, <1>3, Constants DEF Price
  <2>2. /\ b.low <= b.open /\ b.open <= b.high /\ price' \in b.low .. b.high
    BY <1>5, <1>6, <2>1 DEF Lower, Higher
  <2> QED BY <1>5, <2>2 DEF Bar
<1> QED BY <1>1, <1>7, FollowStep DEF TypeOK

LEMMA NextDayStep == ASSUME Inv, NextDay PROVE Inv'
<1> USE DEF Inv
<1>1. Follow(OpenAt(price'), Walk(sim, bar, price))
  BY DEF NextDay
<1>2. price' \in Price
  BY Numbers DEF NextDay
<1>3. Walk(sim, bar, price) \in SimRecord
  BY Numbers, WalkType DEF TypeOK
<1>4. day' \in 1 .. MaxDay + 1
  BY Numbers, Constants DEF NextDay
<1>5. OpenAt(price') \in Bar /\ price' \in OpenAt(price').low .. OpenAt(price').high
  BY <1>2, Constants DEF OpenAt, Bar, Price
<1> QED BY <1>1, <1>2, <1>3, <1>4, <1>5, FollowStep

\* A step of the shares or of the row.
LEMMA RowStep ==
  ASSUME Inv, UNCHANGED <<market, sim>>,
         bought' \in 1 .. Shares, parts' \in Nat, last' \in Nat, trail' \in 0 .. MaxPrice,
         sell' \in SellRecord, account' \in Nat, sold' \in Nat, worst' \in 1 .. MaxPrice + 1,
         {seen', prompt', forgot'} \subseteq BOOLEAN,
         Conserved', Counted', Armed'
  PROVE  Inv'
<1>1. account' + sold' <= bought' + Others
  BY DEF Conserved
<1>2. account' \in Nat /\ sold' \in Nat /\ bought' \in 1 .. Shares
  OBVIOUS
<1>3. \A a, s \in Nat, b \in 1 .. Shares :
        a + s <= b + Others => a \in 0 .. Shares + Others /\ s \in 0 .. Shares + Others
  BY Constants
<1>4. account' \in 0 .. Shares + Others /\ sold' \in 0 .. Shares + Others
  BY <1>1, <1>2, <1>3
<1> QED BY <1>4 DEF Inv, TypeOK, market

LEMMA BuyFillsStep == ASSUME Inv, BuyFills PROVE Inv'
<1> USE DEF Inv
<1>1. /\ bought < Shares /\ bought' = bought + 1 /\ account' = account + 1
      /\ UNCHANGED <<market, parts, last, trail, sell, sim, seen, sold, worst, forgot>>
  BY DEF BuyFills
<1>2. {seen', prompt', forgot'} \subseteq BOOLEAN
  BY <1>1, Zenon DEF BuyFills, TypeOK
<1>3. Conserved' /\ Counted' /\ Armed'
  BY <1>1, Numbers, Constants DEF Conserved, Counted, Armed, InFlight
<1>4. bought' \in 1 .. Shares /\ account' \in Nat /\ sold' \in Nat
  BY <1>1, Numbers, Constants
<1> QED BY <1>1, <1>2, <1>3, <1>4, RowStep DEF TypeOK

LEMMA SellFillsStep == ASSUME Inv, NEW n \in 1 .. Shares + Others, SellFills(n) PROVE Inv'
<1> USE DEF Inv
<1>1. /\ n <= Lower(sell.left, account)
      /\ sell' = [sell EXCEPT !.left = @ - n]
      /\ parts' = IF sell.link = "parts" THEN parts + n ELSE parts
      /\ last' = IF sell.link = "last" THEN last + n ELSE last
      /\ account' = account - n /\ sold' = sold + n
      /\ UNCHANGED <<market, bought, trail, sim, prompt>>
  BY DEF SellFills
<1>2. /\ sell'.left = sell.left - n /\ sell'.link = sell.link /\ sell' \in SellRecord
      /\ n <= sell.left /\ n <= account /\ n \in Nat \ {0}
  <2>1. n \in Nat \ {0} /\ n <= sell.left /\ n <= account
    BY <1>1, Numbers, Constants DEF Lower
  <2>2. sell.left - n \in 0 .. Shares
    BY <2>1, Numbers, Constants
  <2> QED BY <1>1, <2>1, <2>2 DEF TypeOK, SellRecord
<1>3. {seen', prompt', forgot'} \subseteq BOOLEAN
  <2>1. seen' = FALSE /\ prompt' = prompt /\ forgot' = (forgot \/ sell.link = "lost")
    BY DEF SellFills
  <2> QED BY <2>1, Zenon DEF TypeOK
<1>4. worst' \in 1 .. MaxPrice + 1
  <2>1. worst' \in {worst, price}
    BY DEF SellFills, Lower
  <2> QED BY <2>1, Numbers, Constants DEF Price
<1>5. parts' \in Nat /\ last' \in Nat /\ account' \in Nat /\ sold' \in Nat
  BY <1>1, <1>2, Numbers, Constants
<1>6. Conserved'
  BY <1>1, <1>2, Numbers, Constants DEF Conserved
<1>7. Counted'
  <2>1. SUFFICES ASSUME ~forgot' PROVE sold' <= parts' + last' /\ sold' + sell'.left <= bought'
    BY DEF Counted
  <2>2. ~forgot /\ sell.link # "lost"
    BY <2>1 DEF SellFills
  <2>3. parts' + last' = parts + last + n
    BY <1>1, <1>2, <2>2, Numbers
  <2> QED BY <1>1, <1>2, <2>2, <2>3, Numbers DEF Counted
<1>8. Armed'
  BY <1>1, <1>2, Numbers DEF Armed, InFlight
<1> QED BY <1>1, <1>2, <1>3, <1>4, <1>5, <1>6, <1>7, <1>8, RowStep DEF TypeOK

LEMMA NoSellType == NoSell \in SellRecord /\ NoSell.left = 0
  BY Constants DEF NoSell, SellRecord

LEMMA SellDiesStep == ASSUME Inv, SellDies PROVE Inv'
<1> USE DEF Inv
<1>1. sell' = NoSell /\ UNCHANGED <<market, row, account, sim, seen, sold, worst, forgot>>
  BY DEF SellDies
<1>2. {seen', prompt', forgot'} \subseteq BOOLEAN
  BY <1>1, Zenon DEF SellDies, TypeOK
<1>3. Conserved' /\ Counted' /\ Armed'
  BY <1>1, NoSellType, Numbers DEF row, Conserved, Counted, Armed, InFlight
<1>4. account' \in Nat /\ sold' \in Nat
  BY <1>1, Numbers
<1> QED BY <1>1, <1>2, <1>3, <1>4, NoSellType, RowStep DEF TypeOK, row

LEMMA OperatorSellsStep ==
  ASSUME Inv, NEW n \in 1 .. Shares + Others, OperatorSells(n)
  PROVE  Inv'
<1> USE DEF Inv
<1>1. /\ n <= account /\ account' = account - n
      /\ UNCHANGED <<market, row, sell, sim, seen, sold, worst, forgot>>
  BY DEF OperatorSells
<1>2. {seen', prompt', forgot'} \subseteq BOOLEAN
  BY <1>1, Zenon DEF OperatorSells, TypeOK
<1>3. account' \in Nat /\ sold' \in Nat /\ Conserved'
  BY <1>1, Numbers, Constants DEF row, Conserved
<1>4. Counted' /\ Armed'
  BY <1>1 DEF row, Counted, Armed, InFlight
<1> QED BY <1>1, <1>2, <1>3, <1>4, RowStep DEF TypeOK, row

-----------------------------------------------------------------------------
(* A pass of the ladder *)

LEMMA Left ==
  ASSUME TypeOK
  PROVE  /\ Remaining \in 0 .. Shares
         /\ Remaining > 0 => Remaining = bought - parts - last
         /\ Remaining > 0 => Quantity \in 1 .. Remaining
<1>1. Remaining \in 0 .. Shares /\ (Remaining > 0 => Remaining = bought - parts - last)
  BY Numbers, Constants DEF Remaining, Higher
<1>2. ASSUME Remaining > 0 PROVE Quantity \in 1 .. Remaining
  <2>1. Quantity \in {Remaining, (Remaining + 1) \div 2}
    BY DEF Quantity
  <2>2. \A r \in Nat : r > 0 => (r + 1) \div 2 \in 1 .. r
    OBVIOUS
  <2> QED BY <1>1, <1>2, <2>1, <2>2
<1> QED BY <1>1, <1>2

LEMMA RatchetRises ==
  ASSUME TypeOK
  PROVE  /\ Ratcheted \in 0 .. MaxPrice
         /\ Ratcheted = trail \/ (Ratcheted >= trail /\ Ratcheted >= Entry)
<1>1. ArmedAt(price) \in Price /\ ArmedAt(price) >= Entry
  BY Numbers, ArmedPrice
<1> QED BY <1>1, Numbers, Constants DEF Ratcheted, Price

\* What a pass leaves alone.
LEMMA PassStep ==
  ASSUME Inv, UNCHANGED <<market, bought, parts, sell, account, sim, sold, worst>>,
         last' \in Nat, trail' \in 0 .. MaxPrice, {seen', prompt', forgot'} \subseteq BOOLEAN,
         Counted', parts > 0 => trail' >= Entry,
         trail' = trail \/ ~(InFlight /\ sell.link = "parts")
  PROVE  Inv'
<1> USE DEF Inv
<1>1. Conserved' /\ Armed'
  BY DEF Conserved, Armed, InFlight
<1>2. account' \in Nat /\ sold' \in Nat
  BY Numbers
<1> QED BY <1>1, <1>2, RowStep DEF TypeOK

LEMMA HoldStep == ASSUME Inv, Hold PROVE Inv'
<1> USE DEF Inv
<1>1. /\ Managed /\ trail' = (IF ScaledOut THEN Ratcheted ELSE trail)
      /\ UNCHANGED <<market, bought, parts, last, sell, account, sim, sold, worst, forgot>>
  BY DEF Hold, ghost
<1>2. {seen', prompt', forgot'} \subseteq BOOLEAN
  BY Zenon DEF Hold, ghost, TypeOK
<1>3. trail' \in 0 .. MaxPrice /\ (parts > 0 => trail' >= Entry)
  BY <1>1, RatchetRises, Numbers DEF ScaledOut, Armed
<1>4. Counted'
  BY <1>1 DEF Counted
<1>5. ~(InFlight /\ sell.link = "parts")
  BY <1>1 DEF Managed
<1> QED BY <1>1, <1>2, <1>3, <1>4, <1>5, Numbers, PassStep

LEMMA DeferStep == ASSUME Inv, Defer \/ EnqueueFails PROVE Inv'
<1> USE DEF Inv
<1>1. UNCHANGED <<market, bought, parts, last, trail, sell, account, sim, sold, worst, forgot>>
  BY DEF Defer, EnqueueFails, row, ghost
<1>2. {seen', prompt', forgot'} \subseteq BOOLEAN
  BY Zenon DEF Defer, EnqueueFails, ghost, TypeOK
<1>3. Counted' /\ (parts > 0 => trail' >= Entry)
  BY <1>1 DEF Counted, Armed
<1> QED BY <1>1, <1>2, <1>3, Numbers, PassStep

LEMMA ExternalCloseStep == ASSUME Inv, ExternalClose PROVE Inv'
<1> USE DEF Inv
<1>1. /\ Managed /\ last' = Remaining
      /\ UNCHANGED <<market, bought, parts, trail, sell, account, sim, sold, worst>>
  BY DEF ExternalClose
<1>2. {seen', prompt', forgot'} \subseteq BOOLEAN
  BY Zenon DEF ExternalClose, TypeOK
<1>3. Counted'
  <2>1. SUFFICES ASSUME ~forgot' PROVE sold' <= parts' + last' /\ sold' + sell'.left <= bought'
    BY DEF Counted
  <2>2. ~forgot /\ ~(last > 0)
    BY <2>1 DEF ExternalClose
  <2> QED BY <1>1, <2>2, Numbers, Left DEF Counted
<1>4. parts > 0 => trail' >= Entry
  BY <1>1 DEF Armed
<1> QED BY <1>1, <1>2, <1>3, <1>4, Numbers, Left, PassStep

LEMMA SubmitStep ==
  ASSUME Inv, NEW n \in 1 .. Shares + Others, NEW linked \in BOOLEAN, NEW accepted \in BOOLEAN,
         Submit(n, linked, accepted)
  PROVE  Inv'
<1> USE DEF Inv
<1> DEFINE link == IF SellsHalf THEN "parts" ELSE "last"
           sent == [left |-> n, limit |-> IF TargetHit THEN price ELSE 0,
                    link |-> IF linked THEN link ELSE "lost"]
<1>1. /\ Managed /\ ~InFlight
      /\ last' = IF linked /\ link = "last" THEN 0 ELSE last
      /\ trail' = IF linked /\ link = "parts" THEN ArmedAt(price) ELSE trail
      /\ sell' = IF ~accepted THEN NoSell ELSE sent
      /\ UNCHANGED <<market, bought, parts, account, sim, sold, worst>>
  BY DEF Submit
<1>2. forgot' = (forgot \/ (linked /\ link = "last" /\ last > 0))
  BY DEF Submit
<1>3. n \in 1 .. Remaining /\ Remaining = bought - parts - last
  <2>1. Remaining > 0 /\ Remaining \in Nat
    BY <1>1, Left DEF Managed
  <2>2. PICK a \in Available : a > 0 /\ n = Lower(Quantity, a)
    BY DEF Submit
  <2>3. a \in Nat
    BY <2>1, <2>2, Numbers DEF Available
  <2>4. Quantity \in 1 .. Remaining
    BY <2>1, Left
  <2> QED BY <2>1, <2>2, <2>3, <2>4, Left DEF Lower
<1>4. link \in {"parts", "last"} /\ (link = "parts" => parts = 0)
  BY Numbers DEF SellsHalf, ScaledOut
<1>5. ArmedAt(price) \in 0 .. MaxPrice /\ ArmedAt(price) >= Entry
  BY Numbers, ArmedPrice, Constants DEF Price
<1>6. sent \in SellRecord /\ sent.left = n
  <2>1. n \in 0 .. Shares
    BY <1>3, Left, Constants
  <2>2. (IF TargetHit THEN price ELSE 0) \in 0 .. MaxPrice
    BY Numbers, Constants DEF Price
  <2>3. (IF linked THEN link ELSE "lost") \in {"parts", "last", "lost"}
    BY <1>4
  <2> QED BY <2>1, <2>2, <2>3 DEF SellRecord
<1>7. sent.link = "parts" => linked /\ link = "parts"
  BY <1>4
<1> HIDE DEF link, sent
<1>8. {seen', prompt', forgot'} \subseteq BOOLEAN
  <2>1. forgot' \in BOOLEAN
    BY <1>2, Zenon
  <2>2. seen' \in BOOLEAN /\ prompt' \in BOOLEAN
    BY Zenon DEF Submit
  <2> QED BY <2>1, <2>2
<1>9. Conserved'
  BY <1>1 DEF Conserved
<1>10. Counted'
  <2>1. SUFFICES ASSUME ~forgot' PROVE sold' <= parts' + last' /\ sold' + sell'.left <= bought'
    BY DEF Counted
  <2>2. ~forgot /\ ~(linked /\ link = "last" /\ last > 0)
    BY <1>2, <2>1
  <2>3. last' = last
    BY <1>1, <2>2, Numbers
  <2>4. sell'.left \in {0, n}
    BY <1>1, <1>6, NoSellType
  <2> QED BY <1>1, <1>3, <2>2, <2>3, <2>4, Numbers DEF Counted
<1>11. Armed'
  <2>1. ASSUME parts > 0 PROVE trail' >= Entry
    BY <1>1, <1>4, <2>1, Numbers DEF Armed
  <2>2. ASSUME sell'.left > 0, sell'.link = "parts" PROVE trail' >= Entry
    BY <1>1, <1>5, <1>7, <2>2, NoSellType
  <2> QED BY <1>1, <2>1, <2>2 DEF Armed, InFlight
<1>12. /\ last' \in Nat /\ trail' \in 0 .. MaxPrice /\ sell' \in SellRecord
       /\ account' \in Nat /\ sold' \in Nat
  BY <1>1, <1>5, <1>6, Numbers, NoSellType
<1> QED BY <1>1, <1>8, <1>9, <1>10, <1>11, <1>12, RowStep DEF TypeOK

-----------------------------------------------------------------------------
(* The invariant holds *)

LEMMA StepInv == ASSUME Inv, Next PROVE Inv'
<1>1. CASE \E n \in 1 .. Shares + Others : SellFills(n) \/ OperatorSells(n)
  BY <1>1, SellFillsStep, OperatorSellsStep
<1>2. CASE \E n \in 1 .. Shares + Others, linked, accepted \in BOOLEAN : Submit(n, linked, accepted)
  BY <1>2, SubmitStep
<1>3. CASE Tick \/ NextDay \/ BuyFills \/ SellDies
  BY <1>3, TickStep, NextDayStep, BuyFillsStep, SellDiesStep
<1>4. CASE Hold \/ Defer \/ ExternalClose \/ EnqueueFails
  BY <1>4, HoldStep, DeferStep, ExternalCloseStep
<1> QED BY <1>1, <1>2, <1>3, <1>4 DEF Next

LEMMA StutterInv == ASSUME Inv, UNCHANGED vars PROVE Inv'
  BY DEF vars, market, row, ghost, Inv, TypeOK, Conserved, Counted, Armed, InFlight

LEMMA Invariance == Spec => []Inv
<1>1. Inv /\ [Next]_vars => Inv'
  BY StepInv, StutterInv
<1> QED BY InitInv, <1>1, PTL DEF Spec

-----------------------------------------------------------------------------
(* Beside the simulation: what holds while every price is seen and every sell *)
(* fills at once                                                            *)

Whole == sold = 0 /\ ~InFlight
Half  == parts > 0 \/ (InFlight /\ sell.link = "parts")

\* The row, the account and the shares sold agree; a sell that is not of the half
\* is of all that is left.
Booked ==
  /\ sold = parts + last /\ account = bought + Others - sold
  /\ sold + sell.left <= bought
  /\ InFlight => sell.link \in {"parts", "last"}
  /\ last > 0 \/ (InFlight /\ sell.link = "last") => sold + sell.left = bought
  /\ InFlight /\ sell.link = "parts" => last = 0
  /\ sold = 0 => worst = MaxPrice + 1

\* A runner the pass has looked at is trailed, but for the smallest step.
Ridden ==
  seen /\ parts > 0 /\ sold < bought /\ ~InFlight => 10 * (ArmedAt(price) - trail) < Atr

\* Where the half of a position that is whole before bar b is sold, and the least
\* a stop brings on that bar.
HalfAt(b) == Higher(b.open, Target1)

StopAt(b) ==
  IF b.open <= StopLoss THEN b.open
  ELSE IF b.open >= Target1 THEN ArmedAt(b.open)
  ELSE IF b.low <= StopLoss THEN StopLoss ELSE ArmedAt(Target1)

\* A whole position: at the open, or between the stop and the target, one of
\* which may just have been reached.
Between ==
  \/ ~seen /\ bar = OpenAt(price)
  \/ /\ StopLoss < bar.open /\ bar.open < Target1
     /\ StopLoss <= bar.low /\ bar.high <= Target1
     /\ bar.low = StopLoss => ~seen /\ price = StopLoss
     /\ bar.high = Target1 => ~seen /\ price = Target1

Trailed ==
  /\ bar.open > StopLoss /\ bar.high >= HalfAt(bar) /\ trail >= ArmedAt(HalfAt(bar))
  /\ InFlight /\ sell.link = "parts" => price > trail
  /\ sold < bought /\ ~InFlight => price >= trail /\ (seen => price > trail)

\* The day of a position the simulation still holds whole.
Today ==
  /\ Whole => Between
  /\ Half => Trailed
  /\ InFlight => price >= StopAt(bar)
  /\ sold > 0 => worst >= StopAt(bar)
  /\ sold > 0 \/ InFlight => bar.low <= StopLoss \/ bar.high >= Target1

\* A day of the simulated runner.
Running ==
  /\ parts > 0 \/ sold = bought
  /\ parts > 0 /\ sold < bought => 10 * (sim.trail - trail) < Atr

Abreast ==
  prompt => /\ Booked /\ Ridden
            /\ sim.phase = "full" => Today
            /\ sim.phase = "runner" => Running

\* The levels of a bar: the half goes above the entry, and what arms the trail
\* there is below it but not below the least a stop brings.
LEMMA Levels ==
  ASSUME NEW b \in Bar
  PROVE  /\ HalfAt(b) \in Price /\ HalfAt(b) >= Target1 /\ HalfAt(b) >= b.open
         /\ StopAt(b) \in Price
         /\ ArmedAt(HalfAt(b)) \in Price /\ ArmedAt(HalfAt(b)) < HalfAt(b)
         /\ ArmedAt(HalfAt(b)) >= Entry
         /\ b.open > StopLoss => StopAt(b) <= ArmedAt(HalfAt(b))
<1>1. b.open \in Price /\ b.low \in Price
  BY DEF Bar
<1>2. HalfAt(b) \in Price /\ HalfAt(b) >= Target1 /\ HalfAt(b) >= b.open
  BY <1>1, Constants DEF HalfAt, Higher, Price
<1>3. StopLoss < Entry /\ Entry < Target1
  BY LadderAssumption
<1>4. \A p \in Price : p > Entry => ArmedAt(p) \in Price /\ ArmedAt(p) < p /\ ArmedAt(p) >= Entry
  BY Constants DEF ArmedAt, Higher, Price
<1>5. HalfAt(b) > Entry /\ Target1 > Entry
  BY <1>2, <1>3, Constants DEF Price
<1>6. /\ ArmedAt(HalfAt(b)) \in Price /\ ArmedAt(HalfAt(b)) < HalfAt(b)
      /\ ArmedAt(HalfAt(b)) >= Entry
  BY <1>2, <1>4, <1>5
<1>7. HalfAt(b) = IF b.open >= Target1 THEN b.open ELSE Target1
  BY <1>1, Constants DEF HalfAt, Higher, Price
<1>8. ArmedAt(b.open) \in Price /\ ArmedAt(Target1) \in Price
  BY <1>1, ArmedPrice, Constants
<1>9. StopAt(b) \in Price
  BY <1>1, <1>8, Constants DEF StopAt
<1>10. b.open > StopLoss => StopAt(b) <= ArmedAt(HalfAt(b))
  <2>1. StopLoss <= ArmedAt(HalfAt(b))
    BY <1>3, <1>6, Constants DEF Price
  <2>2. b.open > StopLoss => StopAt(b) \in {ArmedAt(HalfAt(b)), StopLoss}
    BY <1>1, <1>7, Constants DEF StopAt, Price
  <2> QED BY <1>6, <1>9, <2>1, <2>2 DEF Price
<1> QED BY <1>2, <1>6, <1>9, <1>10

\* Whatever else the price does, the least a stop brings does not rise.
LEMMA StopSinks ==
  ASSUME NEW b \in Bar, NEW n \in Bar, n.open = b.open, n.low <= b.low
  PROVE  StopAt(n) <= StopAt(b) /\ HalfAt(n) = HalfAt(b)
<1>1. /\ b.open \in Price /\ b.low \in Price /\ n.low \in Price
      /\ ArmedAt(b.open) \in Price /\ ArmedAt(Target1) \in Price /\ ArmedAt(Target1) >= Entry
  BY ArmedPrice, Constants DEF Bar
<1>2. StopLoss < Entry
  BY LadderAssumption
<1> QED BY <1>1, <1>2, Constants DEF StopAt, HalfAt, Price

\* What the row says is left is left.
LEMMA Sides ==
  ASSUME TypeOK, Booked
  PROVE  /\ Remaining = bought - sold /\ Remaining \in Nat /\ account >= Remaining
         /\ bought \in Nat \ {0} /\ sold \in Nat /\ sold <= bought
         /\ Whole => parts = 0 /\ last = 0 /\ sell.left = 0
         /\ ~InFlight => sell.left = 0
<1>1. /\ sold = parts + last /\ account = bought + Others - sold /\ sold + sell.left <= bought
  BY DEF Booked
<1>2. /\ bought \in Nat \ {0} /\ sold \in Nat /\ parts \in Nat /\ last \in Nat /\ sell.left \in Nat
      /\ Others \in Nat
  BY Numbers, Constants
<1>3. Remaining = bought - sold /\ Remaining \in Nat /\ account >= Remaining /\ sold <= bought
  BY <1>1, <1>2 DEF Remaining, Higher
<1> QED BY <1>1, <1>2, <1>3 DEF Whole, InFlight

-----------------------------------------------------------------------------
(* The market beside the simulation *)

LEMMA InitAbreast == Init => Abreast
<1> SUFFICES ASSUME Init PROVE Abreast
  OBVIOUS
<1>1. /\ parts = 0 /\ last = 0 /\ sold = 0 /\ sell = NoSell /\ sell.left = 0
      /\ account = bought + Others /\ bought \in 1 .. Shares /\ worst = MaxPrice + 1
      /\ bar = OpenAt(price) /\ seen = FALSE
  BY NoSellType DEF Init
<1>2. sim.phase = "full"
  BY DEF Init
<1>3. Booked
  BY <1>1, Constants DEF Booked, InFlight
<1>4. Ridden
  BY <1>1 DEF Ridden
<1>5. Today
  BY <1>1 DEF Today, Between, Half, InFlight
<1> QED BY <1>2, <1>3, <1>4, <1>5 DEF Abreast

LEMMA TickAbreast == ASSUME Inv, Abreast, Tick PROVE Abreast'
<1>1. SUFFICES ASSUME prompt'
               PROVE  /\ Booked' /\ Ridden'
                      /\ sim'.phase = "full" => Today'
                      /\ sim'.phase = "runner" => Running'
  BY DEF Abreast
<1> DEFINE n == [bar EXCEPT !.low = Lower(@, price'), !.high = Higher(@, price')]
<1>2. /\ prompt /\ seen /\ ~ InFlight /\ seen' = FALSE
      /\ bar' = n /\ sim' = sim /\ worst' = worst
      /\ price' \in Price /\ price' \in {price - 1, price + 1}
      /\ UNCHANGED <<bought, parts, last, trail, sell, account, sold, forgot>>
  BY <1>1 DEF Tick, Follow, row
<1>3. /\ bar \in Bar /\ bar.open \in Nat /\ bar.low \in Nat /\ bar.high \in Nat
      /\ price \in Nat /\ trail \in Nat /\ bought \in Nat /\ sold \in Nat /\ worst \in Nat
      /\ price' \in Nat /\ bar.low <= price /\ price <= bar.high
      /\ Target1 \in Nat /\ StopLoss \in Nat
  BY <1>2, Numbers, Constants DEF Inv, Bar, Price
<1>4. bar' \in Bar
  BY TickStep DEF Inv, TypeOK
<1>5. /\ bar'.open = bar.open
      /\ bar'.low = (IF bar.low <= price' THEN bar.low ELSE price')
      /\ bar'.high = (IF bar.high >= price' THEN bar.high ELSE price')
  BY <1>2, <1>3 DEF Bar, Lower, Higher
<1> HIDE DEF n
<1>6. bar'.low <= bar.low /\ bar'.high >= bar.high
  BY <1>3, <1>5
<1>7. Booked'
  BY <1>1, <1>2 DEF Abreast, Booked, InFlight
<1>8. Ridden'
  BY <1>2 DEF Ridden
<1>9. ASSUME sim.phase = "full" PROVE Today'
  <2>1. Today
    BY <1>2, <1>9 DEF Abreast
  <2>2. Whole' => Between'
    <3>1. SUFFICES ASSUME Whole PROVE Between'
      BY <1>2 DEF Whole, InFlight
    <3>2. /\ StopLoss < bar.open /\ bar.open < Target1
          /\ StopLoss < bar.low /\ bar.high < Target1
      BY <1>2, <1>3, <2>1, <3>1 DEF Today, Between
    <3> QED BY <1>2, <1>3, <1>5, <3>2 DEF Between
  <2>3. Half' => Trailed'
    <3>1. SUFFICES ASSUME Half PROVE Trailed'
      BY <1>2 DEF Half, InFlight
    <3>2. Trailed
      BY <2>1, <3>1 DEF Today
    <3>3. HalfAt(bar') = HalfAt(bar) /\ HalfAt(bar) \in Nat
      BY <1>3, <1>4, <1>5, <1>6, StopSinks, Levels, Constants DEF Price
    <3>4. bar'.open > StopLoss /\ bar'.high >= HalfAt(bar') /\ trail' >= ArmedAt(HalfAt(bar'))
      BY <1>2, <1>3, <1>4, <1>5, <1>6, <3>2, <3>3 DEF Trailed, Bar, Price
    <3>5. ASSUME sold' < bought' PROVE price' >= trail'
      BY <1>2, <1>3, <3>2, <3>5 DEF Trailed
    <3> QED BY <1>2, <3>4, <3>5 DEF Trailed, InFlight
  <2>4. StopAt(bar') <= StopAt(bar) /\ StopAt(bar) \in Nat /\ StopAt(bar') \in Nat
    BY <1>3, <1>4, <1>5, <1>6, StopSinks, Levels, Constants DEF Price
  <2>5. sold' > 0 => worst' >= StopAt(bar')
    BY <1>2, <1>3, <2>1, <2>4 DEF Today
  <2>6. sold' > 0 => bar'.low <= StopLoss \/ bar'.high >= Target1
    BY <1>2, <1>3, <1>4, <1>6, <2>1 DEF Today, Bar, Price
  <2> QED BY <1>2, <2>2, <2>3, <2>5, <2>6 DEF Today, InFlight
<1>10. ASSUME sim.phase = "runner" PROVE Running'
  BY <1>2, <1>10 DEF Abreast, Running
<1> QED BY <1>2, <1>7, <1>8, <1>9, <1>10

\* ladder_step on a position held whole.
LEMMA FullDay ==
  ASSUME NEW b \in Bar, NEW c \in Price
  PROVE  /\ FullBar(b, c).phase = "full" => StopLoss < b.low /\ b.high < Target1
         /\ FullBar(b, c).phase = "runner" =>
              /\ b.high >= Target1
              /\ FullBar(b, c).trail = Higher(ArmedAt(HalfAt(b)), c - 2 * Atr)
         /\ FullBar(b, c).phase = "out" =>
              /\ b.low <= StopLoss \/ b.high >= Target1
              /\ Target2 \in FullBar(b, c).fills \/ StopAt(b) \in FullBar(b, c).fills
<1>1. /\ b.open \in Nat /\ b.low \in Nat /\ b.high \in Nat /\ b.low <= b.open /\ b.open <= b.high
      /\ Target1 \in Nat /\ StopLoss \in Nat
  BY Constants DEF Bar, Price
<1>2. \A p : Gone({p}).phase = "out" /\ p \in Gone({p}).fills
  BY DEF Gone
<1>3. ASSUME NEW p \in Price
      PROVE  /\ ScaleOutBar(b, c, p).phase \in {"runner", "out"}
             /\ ScaleOutBar(b, c, p).phase = "runner" =>
                  ScaleOutBar(b, c, p).trail = Higher(ArmedAt(p), c - 2 * Atr)
             /\ ScaleOutBar(b, c, p).phase = "out" =>
                  Target2 \in ScaleOutBar(b, c, p).fills \/ ArmedAt(p) \in ScaleOutBar(b, c, p).fills
  BY DEF ScaleOutBar, InBar, Gone
<1>4. CASE b.open <= StopLoss
  <2>1. FullBar(b, c) = Gone({b.open}) /\ StopAt(b) = b.open
    BY <1>4 DEF FullBar, StopAt
  <2>2. FullBar(b, c).phase = "out" /\ StopAt(b) \in FullBar(b, c).fills
    BY <1>2, <2>1
  <2>3. b.low <= StopLoss
    BY <1>1, <1>4
  <2> QED BY <2>2, <2>3
<1>5. CASE b.open > StopLoss /\ b.open >= Target1
  <2>1. /\ FullBar(b, c) = ScaleOutBar(b, c, b.open) /\ StopAt(b) = ArmedAt(b.open)
        /\ HalfAt(b) = b.open /\ b.open \in Price
    BY <1>1, <1>5 DEF FullBar, StopAt, HalfAt, Higher, Bar
  <2> QED BY <1>1, <1>3, <1>5, <2>1
<1>6. CASE b.open > StopLoss /\ b.open < Target1 /\ b.low <= StopLoss
  <2>1. FullBar(b, c) = Gone({StopLoss}) /\ StopAt(b) = StopLoss
    BY <1>1, <1>6 DEF FullBar, StopAt
  <2> QED BY <1>1, <1>2, <1>6, <2>1
<1>7. CASE b.open > StopLoss /\ b.open < Target1 /\ b.low > StopLoss /\ b.high >= Target1
  <2>1. /\ FullBar(b, c) = ScaleOutBar(b, c, Target1) /\ StopAt(b) = ArmedAt(Target1)
        /\ HalfAt(b) = Target1 /\ Target1 \in Price
    BY <1>1, <1>7, Constants DEF FullBar, StopAt, HalfAt, Higher
  <2> QED BY <1>1, <1>3, <1>7, <2>1
<1>8. CASE b.open > StopLoss /\ b.open < Target1 /\ b.low > StopLoss /\ b.high < Target1
  <2>1. FullBar(b, c).phase = "full"
    BY <1>1, <1>8 DEF FullBar
  <2> QED BY <1>1, <1>8, <2>1
<1> QED BY <1>1, <1>4, <1>5, <1>6, <1>7, <1>8

\* A day of the walk: where each phase comes from.
LEMMA WalkDay ==
  ASSUME NEW s \in SimRecord, NEW b \in Bar, NEW c \in Price
  PROVE  /\ Walk(s, b, c).phase = "full" => s.phase = "full" /\ FullBar(b, c).phase = "full"
         /\ Walk(s, b, c).phase = "runner" =>
              \/ /\ s.phase = "full" /\ FullBar(b, c).phase = "runner"
                 /\ Walk(s, b, c).trail = FullBar(b, c).trail
              \/ s.phase = "runner" /\ Walk(s, b, c).trail = Higher(s.trail, c - 2 * Atr)
         /\ Walk(s, b, c).phase = "out" /\ s.phase = "full" /\ day < MaxDay =>
              FullBar(b, c).phase = "out" /\ Walk(s, b, c).fills = FullBar(b, c).fills
<1> DEFINE n == LadderStep(s, b, c)
           w == Walk(s, b, c)
<1>1. \A F : Gone(F).phase = "out"
  BY DEF Gone
<1>2. w.phase # "out" => w = n
  BY <1>1 DEF Walk
<1>3. day < MaxDay => w = n
  BY Constants, <1>1 DEF Walk
<1>4. s.phase = "full" => n = FullBar(b, c)
  BY DEF LadderStep
<1>5. s.phase = "runner" => /\ n.phase \in {"runner", "out"}
                            /\ n.phase = "runner" => n.trail = Higher(s.trail, c - 2 * Atr)
  <2>1. s.phase = "runner" => n = RunnerBar(b, c, s.trail)
    BY DEF LadderStep
  <2> QED BY <2>1 DEF RunnerBar, InBar, Gone
<1>6. s.phase = "out" => n.phase = "out"
  BY <1>1 DEF LadderStep
<1>7. s.phase \in {"full", "runner", "out"}
  BY DEF SimRecord
<1> HIDE DEF n, w
<1>8. /\ w.phase = "full" => s.phase = "full" /\ FullBar(b, c).phase = "full"
      /\ w.phase = "runner" =>
           \/ s.phase = "full" /\ FullBar(b, c).phase = "runner" /\ w.trail = FullBar(b, c).trail
           \/ s.phase = "runner" /\ w.trail = Higher(s.trail, c - 2 * Atr)
      /\ w.phase = "out" /\ s.phase = "full" /\ day < MaxDay =>
           FullBar(b, c).phase = "out" /\ w.fills = FullBar(b, c).fills
  BY <1>2, <1>3, <1>4, <1>5, <1>6, <1>7
<1> QED BY <1>8 DEF w

LEMMA NextDayAbreast == ASSUME Inv, Abreast, NextDay PROVE Abreast'
<1>1. SUFFICES ASSUME prompt'
               PROVE  /\ Booked' /\ Ridden'
                      /\ sim'.phase = "full" => Today'
                      /\ sim'.phase = "runner" => Running'
  BY DEF Abreast
<1>2. /\ prompt /\ seen /\ ~ InFlight /\ seen' = FALSE
      /\ bar' = OpenAt(price') /\ sim' = Walk(sim, bar, price) /\ worst' = worst
      /\ UNCHANGED <<bought, parts, last, trail, sell, account, sold, forgot>>
  BY <1>1 DEF NextDay, Follow, row
<1>3. /\ bar \in Bar /\ price \in Price /\ price \in Nat /\ sim \in SimRecord /\ trail \in Nat
      /\ sim.trail \in Nat /\ Atr \in Nat \ {0}
  BY Numbers, Constants DEF Inv, TypeOK, SimRecord, Price
<1>4. Booked /\ Ridden
  BY <1>2 DEF Abreast
<1>5. Booked'
  BY <1>2, <1>4 DEF Booked, InFlight
<1>6. Ridden'
  BY <1>2 DEF Ridden
<1>7. /\ Remaining = bought - sold /\ bought \in Nat \ {0} /\ sold \in Nat /\ sold <= bought
      /\ Whole => parts = 0
  BY <1>4, Sides DEF Inv
<1>8. ASSUME sim'.phase = "full" PROVE Today'
  <2>1. sim.phase = "full" /\ StopLoss < bar.low /\ bar.high < Target1
    BY <1>2, <1>3, <1>8, WalkDay, FullDay
  <2>2. Today
    BY <1>2, <2>1 DEF Abreast
  <2>3. sold = 0
    BY <1>3, <1>7, <2>1, <2>2, Constants DEF Today, Bar, Price
  <2>4. parts = 0
    BY <1>2, <1>7, <2>3 DEF Whole
  <2> QED BY <1>2, <2>3, <2>4 DEF Today, Between, Half, InFlight
<1>9. ASSUME sim'.phase = "runner" PROVE Running'
  <2>1. CASE sim.phase = "full"
    <3>1. /\ bar.high >= Target1 /\ sim'.trail = Higher(ArmedAt(HalfAt(bar)), price - 2 * Atr)
      BY <1>2, <1>3, <1>9, <2>1, WalkDay, FullDay
    <3>2. Today
      BY <1>2, <2>1 DEF Abreast
    <3>3. parts > 0 \/ sold = bought
      <4>1. ~ Whole
        BY <1>2, <1>3, <3>1, <3>2, Constants DEF Today, Between, Bar, Price
      <4>2. sold > 0
        BY <1>2, <1>7, <4>1 DEF Whole
      <4> QED BY <1>2, <1>4, <1>7, <4>2, Numbers DEF Booked, Inv, InFlight
    <3>4. ASSUME parts > 0, sold < bought PROVE 10 * (sim'.trail - trail) < Atr
      <4>1. trail >= ArmedAt(HalfAt(bar)) /\ ArmedAt(HalfAt(bar)) \in Nat
        BY <1>3, <3>2, <3>4, Levels, Constants DEF Today, Half, Trailed, Price
      <4>2. 10 * (ArmedAt(price) - trail) < Atr
        BY <1>2, <1>4, <3>4 DEF Ridden
      <4>3. ArmedAt(price) \in Nat /\ ArmedAt(price) >= price - 2 * Atr
        BY <1>3, ArmedPrice, Constants DEF ArmedAt, Higher, Price
      <4> QED BY <1>3, <3>1, <4>1, <4>2, <4>3 DEF Higher
    <3> QED BY <1>2, <3>3, <3>4 DEF Running
  <2>2. CASE sim.phase = "runner"
    <3>1. sim'.trail = Higher(sim.trail, price - 2 * Atr)
      BY <1>2, <1>3, <1>9, <2>2, WalkDay
    <3>2. Running
      BY <1>2, <2>2 DEF Abreast
    <3>3. ASSUME parts > 0, sold < bought PROVE 10 * (sim'.trail - trail) < Atr
      <4>1. 10 * (sim.trail - trail) < Atr
        BY <3>2, <3>3 DEF Running
      <4>2. 10 * (ArmedAt(price) - trail) < Atr
        BY <1>2, <1>4, <3>3 DEF Ridden
      <4>3. ArmedAt(price) \in Nat /\ ArmedAt(price) >= price - 2 * Atr
        BY <1>3, ArmedPrice, Constants DEF ArmedAt, Higher, Price
      <4> QED BY <1>3, <3>1, <4>1, <4>2, <4>3 DEF Higher
    <3> QED BY <1>2, <3>2, <3>3 DEF Running
  <2> QED BY <1>2, <1>3, <1>9, <2>1, <2>2, WalkDay
<1> QED BY <1>5, <1>6, <1>8, <1>9

LEMMA BuyFillsAbreast == ASSUME Inv, Abreast, BuyFills PROVE Abreast'
<1>1. SUFFICES ASSUME prompt'
               PROVE  /\ Booked' /\ Ridden'
                      /\ sim'.phase = "full" => Today'
                      /\ sim'.phase = "runner" => Running'
  BY DEF Abreast
<1>2. /\ prompt /\ sold = 0 /\ ~ InFlight /\ bought' = bought + 1 /\ account' = account + 1
      /\ UNCHANGED <<market, parts, last, trail, sell, sim, seen, sold, worst, forgot>>
  BY <1>1 DEF BuyFills
<1>3. Booked /\ Ridden
  BY <1>2 DEF Abreast
<1>4. /\ parts = 0 /\ last = 0 /\ sell.left = 0 /\ bought \in Nat \ {0} /\ sold < bought
  BY <1>2, <1>3, Sides DEF Inv, Whole
<1>5. Booked'
  BY <1>2, <1>3, <1>4, Constants DEF Booked, InFlight
<1>6. Ridden'
  BY <1>2, <1>4 DEF Ridden
<1>7. sim.phase = "full" => Today'
  BY <1>2, <1>4 DEF Abreast, Today, Whole, Half, Between, InFlight, market
<1>8. sim.phase # "runner"
  BY <1>2, <1>4 DEF Abreast, Running
<1> QED BY <1>2, <1>5, <1>6, <1>7, <1>8

LEMMA SellFillsAbreast ==
  ASSUME Inv, Abreast, NEW n \in 1 .. Shares + Others, SellFills(n)
  PROVE  Abreast'
<1>1. SUFFICES ASSUME prompt'
               PROVE  /\ Booked' /\ Ridden'
                      /\ sim'.phase = "full" => Today'
                      /\ sim'.phase = "runner" => Running'
  BY DEF Abreast
<1>2. /\ prompt /\ n <= Lower(sell.left, account)
      /\ sell' = [sell EXCEPT !.left = @ - n]
      /\ parts' = (IF sell.link = "parts" THEN parts + n ELSE parts)
      /\ last' = (IF sell.link = "last" THEN last + n ELSE last)
      /\ account' = account - n /\ sold' = sold + n
      /\ worst' = Lower(worst, price) /\ seen' = FALSE
      /\ UNCHANGED <<market, bought, trail, sim>>
  BY <1>1 DEF SellFills
<1>3. Booked /\ Ridden
  BY <1>2 DEF Abreast
<1>4. /\ bought \in Nat \ {0} /\ sold \in Nat /\ parts \in Nat /\ last \in Nat /\ sell.left \in Nat
      /\ account \in Nat /\ worst \in Nat /\ price \in Nat /\ trail \in Nat /\ bar \in Bar
      /\ MaxPrice \in Nat /\ price <= MaxPrice /\ n \in Nat \ {0} /\ Others \in Nat
  BY Numbers, Constants DEF Inv, Price
<1>5. n <= sell.left /\ InFlight
  BY <1>2, <1>4 DEF Lower, InFlight
<1>6. sell'.left = sell.left - n /\ sell'.link = sell.link
  <2>1. sell = [left |-> sell.left, limit |-> sell.limit, link |-> sell.link]
    BY Numbers DEF Inv
  <2> QED BY <1>2, <2>1
<1>7. sell.link \in {"parts", "last"}
  BY <1>3, <1>5 DEF Booked
<1>8. Booked'
  <2>1. sold' = parts' + last' /\ account' = bought' + Others - sold' /\ sold' + sell'.left <= bought'
    BY <1>2, <1>3, <1>4, <1>6, <1>7 DEF Booked
  <2>2. InFlight' => sell'.link \in {"parts", "last"}
    BY <1>6, <1>7
  <2>3. last' > 0 \/ (InFlight' /\ sell'.link = "last") => sold' + sell'.left = bought'
    BY <1>2, <1>3, <1>4, <1>5, <1>6, <1>7 DEF Booked
  <2>4. InFlight' /\ sell'.link = "parts" => last' = 0
    BY <1>2, <1>3, <1>5, <1>6 DEF Booked
  <2>5. sold' > 0
    BY <1>2, <1>4
  <2> QED BY <1>4, <1>2, <2>1, <2>2, <2>3, <2>4, <2>5 DEF Booked
<1>9. Ridden'
  BY <1>2 DEF Ridden
<1>10. ASSUME sim.phase = "full" PROVE Today'
  <2>1. Today
    BY <1>2, <1>10 DEF Abreast
  <2>2. ~ Whole'
    BY <1>2, <1>4 DEF Whole
  <2>3. Half' => Half
    BY <1>2, <1>5, <1>6, <1>7 DEF Half, InFlight
  <2>4. Half' => Trailed'
    <3>1. SUFFICES ASSUME Half' PROVE Trailed'
      OBVIOUS
    <3>2. Trailed
      BY <2>1, <2>3, <3>1 DEF Today
    <3>3. /\ bar'.open > StopLoss /\ bar'.high >= HalfAt(bar') /\ trail' >= ArmedAt(HalfAt(bar'))
      BY <1>2, <3>2 DEF Trailed, market
    <3>4. InFlight' /\ sell'.link = "parts" => price' > trail'
      BY <1>2, <1>5, <1>6, <3>2 DEF Trailed, market
    <3>5. sold' < bought' /\ ~ InFlight' => price' >= trail'
      <4>1. CASE sell.link = "parts"
        BY <1>2, <1>4, <1>5, <3>2, <4>1 DEF Trailed, market
      <4>2. CASE sell.link = "last"
        BY <1>2, <1>3, <1>4, <1>5, <1>6, <4>2 DEF Booked, InFlight
      <4> QED BY <1>7, <4>1, <4>2
    <3> QED BY <1>2, <3>3, <3>4, <3>5 DEF Trailed
  <2>5. price >= StopAt(bar) /\ StopAt(bar) \in Nat /\ StopAt(bar) <= MaxPrice
    BY <1>4, <1>5, <2>1, Levels DEF Today, Price
  <2>6. worst' >= StopAt(bar')
    <3>1. worst >= StopAt(bar)
      BY <1>3, <1>4, <2>1, <2>5 DEF Today, Booked
    <3> QED BY <1>2, <1>4, <2>5, <3>1 DEF Lower, market
  <2>7. bar'.low <= StopLoss \/ bar'.high >= Target1
    BY <1>2, <1>5, <2>1 DEF Today, market
  <2>8. price' >= StopAt(bar')
    BY <1>2, <2>5 DEF market
  <2> QED BY <2>2, <2>4, <2>6, <2>7, <2>8 DEF Today
<1>11. ASSUME sim.phase = "runner" PROVE Running'
  <2>1. Running
    BY <1>2, <1>11 DEF Abreast
  <2>2. sold < bought
    BY <1>3, <1>4, <1>5 DEF Booked
  <2>3. parts > 0 /\ 10 * (sim.trail - trail) < Atr
    BY <1>4, <2>1, <2>2 DEF Running
  <2>4. parts' > 0
    BY <1>2, <1>4, <2>3
  <2> QED BY <1>2, <2>3, <2>4 DEF Running
<1> QED BY <1>2, <1>8, <1>9, <1>10, <1>11

LEMMA GivenUpAbreast ==
  ASSUME SellDies \/ EnqueueFails \/ (\E n \in 1 .. Shares + Others : OperatorSells(n))
  PROVE  Abreast'
<1>1. ~ prompt'
  BY DEF SellDies, EnqueueFails, OperatorSells
<1> QED BY <1>1 DEF Abreast

-----------------------------------------------------------------------------
(* A pass beside the simulation *)

\* A pass that finds shares finds them all in the account and no sell of them.
LEMMA PassFinds ==
  ASSUME TypeOK, Booked, Managed
  PROVE  /\ ~ InFlight /\ sold < bought /\ last = 0 /\ sold = parts
         /\ Remaining = bought - sold /\ account > 0
         /\ (~ ScaledOut <=> Whole) /\ (ScaledOut => Half)
<1>1. /\ Remaining = bought - sold /\ Remaining \in Nat /\ account >= Remaining
      /\ bought \in Nat /\ sold \in Nat /\ sold <= bought /\ Remaining > 0 /\ account \in Nat
      /\ parts \in Nat /\ last \in Nat
  BY Sides, Numbers, Constants DEF Managed
<1>2. ~ InFlight
  BY DEF Managed, Booked
<1>3. sell.left = 0
  BY <1>2, Sides
<1>4. last = 0
  BY <1>1, <1>3 DEF Booked
<1>5. sold = parts
  BY <1>1, <1>4 DEF Booked
<1> QED BY <1>1, <1>2, <1>4, <1>5 DEF ScaledOut, Whole, Half

LEMMA HoldAbreast == ASSUME Inv, Abreast, Hold PROVE Abreast'
<1>1. SUFFICES ASSUME prompt'
               PROVE  /\ Booked' /\ Ridden'
                      /\ sim'.phase = "full" => Today'
                      /\ sim'.phase = "runner" => Running'
  BY DEF Abreast
<1>2. /\ prompt /\ Managed /\ ~ StopHit /\ ~ TargetHit /\ seen' = TRUE
      /\ trail' = (IF ScaledOut THEN Ratcheted ELSE trail)
      /\ UNCHANGED <<market, bought, parts, last, sell, account, sim, sold, worst, forgot>>
  BY <1>1 DEF Hold, ghost
<1>3. Booked /\ Ridden /\ TypeOK
  BY <1>2 DEF Abreast, Inv
<1>4. /\ ~ InFlight /\ sold < bought /\ sold = parts
      /\ (~ ScaledOut <=> Whole) /\ (ScaledOut => Half)
  BY <1>2, <1>3, PassFinds
<1>5. /\ bought \in Nat /\ sold \in Nat /\ parts \in Nat /\ trail \in Nat /\ price \in Nat
      /\ price \in Price /\ bar \in Bar /\ Atr \in Nat \ {0} /\ Entry \in Nat
      /\ Target1 \in Nat /\ StopLoss \in Nat
  BY <1>3, Numbers, Constants DEF Price
<1>6. Booked'
  BY <1>2, <1>3 DEF Booked, InFlight
<1>7. /\ ArmedAt(price) \in Nat
      /\ ScaledOut => /\ trail' \in Nat /\ trail' >= trail /\ 10 * (ArmedAt(price) - trail') < Atr
                      /\ trail' \in {trail, ArmedAt(price)}
  <2>1. ArmedAt(price) \in Nat
    BY <1>5, ArmedPrice, Constants DEF Price
  <2>2. ScaledOut => trail' = Ratcheted /\ trail >= Entry
    BY <1>2, Numbers DEF Inv, Armed, ScaledOut
  <2>3. ScaledOut => trail # 0
    BY <1>5, <2>2, Constants DEF Price
  <2>4. Ratcheted \in {trail, ArmedAt(price)}
    BY DEF Ratcheted
  <2>5. trail # 0 => Ratcheted >= trail /\ 10 * (ArmedAt(price) - Ratcheted) < Atr
    BY <1>5, <2>1 DEF Ratcheted
  <2> QED BY <1>5, <2>1, <2>2, <2>3, <2>4, <2>5
<1>8. Ridden'
  BY <1>2, <1>4, <1>5, <1>7 DEF Ridden, ScaledOut, market
<1>9. ASSUME sim.phase = "full" PROVE Today'
  <2>1. Today
    BY <1>2, <1>9 DEF Abreast
  <2>2. ASSUME Whole PROVE Between'
    <3>1. StopLoss < price /\ price < Target1
      BY <1>2, <1>4, <1>5, <2>2 DEF StopHit, TargetHit, EffectiveStop
    <3>2. Between
      BY <2>1, <2>2 DEF Today
    <3>3. /\ StopLoss < bar.open /\ bar.open < Target1 /\ StopLoss < bar.low /\ bar.high < Target1
      <4>1. CASE bar = OpenAt(price)
        BY <1>5, <3>1, <4>1 DEF OpenAt
      <4>2. CASE ~ (bar = OpenAt(price))
        <5>1. bar.low \in Nat /\ bar.high \in Nat
          BY <1>5, Constants DEF Bar, Price
        <5> QED BY <1>5, <3>1, <3>2, <4>2, <5>1 DEF Between
      <4> QED BY <4>1, <4>2
    <3>4. bar.low \in Nat /\ bar.high \in Nat
      BY <1>5, Constants DEF Bar, Price
    <3> QED BY <1>2, <1>5, <3>3, <3>4 DEF Between, market
  <2>3. ASSUME Half PROVE Trailed'
    <3>1. ScaledOut
      BY <1>4, <2>3 DEF Half, ScaledOut
    <3>2. Trailed
      BY <2>1, <2>3 DEF Today
    <3>3. trail # 0
      <4>1. ArmedAt(HalfAt(bar)) \in Price
        BY <1>5, Levels
      <4> QED BY <1>5, <3>2, <4>1, Constants DEF Trailed, Price
    <3>4. price > trail
      BY <1>2, <1>5, <3>1, <3>3 DEF StopHit, EffectiveStop
    <3>5. trail >= Entry
      BY <3>1, Numbers DEF Inv, Armed, ScaledOut
    <3>6. price > trail'
      BY <1>5, <1>7, <3>1, <3>4, <3>5 DEF ArmedAt, Higher
    <3>7. ArmedAt(HalfAt(bar)) \in Nat
      BY <1>5, Levels, Constants DEF Price
    <3>8. trail' >= ArmedAt(HalfAt(bar)) /\ bar.open > StopLoss /\ bar.high >= HalfAt(bar)
      BY <1>5, <1>7, <3>1, <3>2, <3>7 DEF Trailed
    <3> QED BY <1>2, <1>4, <1>5, <1>7, <3>1, <3>6, <3>8 DEF Trailed, InFlight, market
  <2> QED BY <1>2, <1>4, <2>1, <2>2, <2>3 DEF Today, Whole, Half, InFlight, market
<1>10. ASSUME sim.phase = "runner" PROVE Running'
  <2>1. Running
    BY <1>2, <1>10 DEF Abreast
  <2>2. parts > 0 /\ 10 * (sim.trail - trail) < Atr
    BY <1>4, <1>5, <2>1 DEF Running
  <2>3. sim.trail \in Nat
    BY <1>3, Constants DEF TypeOK, SimRecord
  <2>4. 10 * (sim.trail - trail') < Atr
    BY <1>5, <1>7, <2>2, <2>3 DEF ScaledOut
  <2> QED BY <1>2, <2>2, <2>4 DEF Running
<1> QED BY <1>2, <1>6, <1>8, <1>9, <1>10

LEMMA DeferAbreast == ASSUME Inv, Abreast, Defer PROVE Abreast'
<1>1. SUFFICES ASSUME prompt'
               PROVE  /\ Booked' /\ Ridden'
                      /\ sim'.phase = "full" => Today'
                      /\ sim'.phase = "runner" => Running'
  BY DEF Abreast
<1>2. /\ prompt /\ ~ Managed
      /\ UNCHANGED <<market, bought, parts, last, trail, sell, account, sim, sold, worst, forgot>>
  BY <1>1 DEF Defer, row, ghost
<1>3. Booked /\ Ridden
  BY <1>2 DEF Abreast
<1>4. sold = bought \/ InFlight
  <2>1. Remaining = bought - sold /\ Remaining \in Nat /\ bought \in Nat /\ sold \in Nat
    BY <1>3, Sides DEF Inv
  <2> QED BY <1>2, <2>1 DEF Managed
<1>5. bought \in Nat \ {0}
  BY Numbers, Constants DEF Inv
<1>6. Booked'
  BY <1>2, <1>3 DEF Booked, InFlight
<1>7. Ridden'
  BY <1>2, <1>4, <1>5 DEF Ridden, InFlight
<1>8. ASSUME sim.phase = "full" PROVE Today'
  <2>1. Today
    BY <1>2, <1>8 DEF Abreast
  <2>2. ~ Whole
    BY <1>4, <1>5 DEF Whole
  <2>3. Half => Trailed'
    BY <1>2, <1>4, <1>5, <2>1 DEF Today, Trailed, InFlight, market
  <2> QED BY <1>2, <2>1, <2>2, <2>3 DEF Today, Whole, Half, InFlight, market
<1>9. sim.phase = "runner" => Running'
  BY <1>2 DEF Abreast, Running
<1> QED BY <1>2, <1>6, <1>7, <1>8, <1>9

LEMMA ExternalCloseAbreast == ASSUME Inv, Abreast, ExternalClose PROVE Abreast'
<1>1. SUFFICES ASSUME prompt' PROVE FALSE
  BY DEF Abreast
<1>2. prompt /\ Managed /\ account = 0
  BY <1>1 DEF ExternalClose
<1> QED BY <1>2, PassFinds DEF Abreast, Inv

LEMMA SubmitAbreast ==
  ASSUME Inv, Abreast, NEW n \in 1 .. Shares + Others, NEW linked \in BOOLEAN,
         NEW accepted \in BOOLEAN, Submit(n, linked, accepted)
  PROVE  Abreast'
<1>1. SUFFICES ASSUME prompt'
               PROVE  /\ Booked' /\ Ridden'
                      /\ sim'.phase = "full" => Today'
                      /\ sim'.phase = "runner" => Running'
  BY DEF Abreast
<1>2. /\ prompt /\ linked /\ accepted /\ Managed /\ (StopHit \/ TargetHit)
      /\ UNCHANGED <<market, bought, parts, account, sim, sold, worst>>
  BY <1>1 DEF Submit
<1>3. Booked /\ TypeOK
  BY <1>2 DEF Abreast, Inv
<1>4. /\ ~ InFlight /\ sold < bought /\ last = 0 /\ sold = parts /\ Remaining = bought - sold
      /\ (~ ScaledOut <=> Whole) /\ (ScaledOut => Half)
  BY <1>2, <1>3, PassFinds
<1>5. /\ bought \in Nat /\ sold \in Nat /\ parts \in Nat /\ trail \in Nat /\ price \in Nat
      /\ price \in Price /\ bar \in Bar /\ Target1 \in Nat /\ StopLoss \in Nat /\ account \in Nat
      /\ bar.low \in Nat /\ bar.high \in Nat /\ bar.open \in Nat
      /\ bar.low <= price /\ price <= bar.high
  BY <1>3, Numbers, Constants DEF Price, Bar
<1>6. /\ last' = 0
      /\ sell'.left = n /\ sell'.link = (IF SellsHalf THEN "parts" ELSE "last")
      /\ trail' = IF SellsHalf THEN ArmedAt(price) ELSE trail
  <2>1. /\ last' = (IF linked /\ (IF SellsHalf THEN "parts" ELSE "last") = "last" THEN 0 ELSE last)
        /\ sell' = [left |-> n, limit |-> IF TargetHit THEN price ELSE 0,
                    link |-> IF linked THEN IF SellsHalf THEN "parts" ELSE "last" ELSE "lost"]
        /\ trail' = IF linked /\ (IF SellsHalf THEN "parts" ELSE "last") = "parts"
                    THEN ArmedAt(price) ELSE trail
    BY <1>2 DEF Submit
  <2> QED BY <1>2, <1>4, <2>1
<1>7. n \in Nat \ {0} /\ n <= Remaining /\ (~ SellsHalf => n = Remaining) /\ InFlight'
  <2>1. PICK a \in Available : n = Lower(Quantity, a)
    BY DEF Submit
  <2>2. a \in Nat /\ a >= Remaining /\ Remaining \in Nat
    BY <1>3, <1>5, <2>1, Sides DEF Available
  <2>3. Quantity \in 1 .. Remaining /\ (~ SellsHalf => Quantity = Remaining)
    BY <1>3, <1>4, <1>5, Left DEF Quantity
  <2>4. n \in 1 .. Remaining /\ (~ SellsHalf => n = Remaining)
    BY <2>1, <2>2, <2>3 DEF Lower
  <2> QED BY <1>6, <2>2, <2>4 DEF InFlight
<1>8. SellsHalf => Whole /\ TargetHit
  BY <1>4 DEF SellsHalf
<1>9. Booked'
  <2>1. sold' = parts' + last' /\ account' = bought' + Others - sold'
    BY <1>2, <1>3, <1>4, <1>5, <1>6 DEF Booked
  <2>2. sold' + sell'.left <= bought'
    BY <1>2, <1>4, <1>5, <1>6, <1>7
  <2>3. sell'.link \in {"parts", "last"}
    BY <1>6
  <2>4. sell'.link = "last" => sold' + sell'.left = bought'
    BY <1>2, <1>4, <1>5, <1>6, <1>7
  <2>5. sold' = 0 => worst' = MaxPrice + 1
    BY <1>2, <1>3 DEF Booked
  <2> QED BY <1>6, <2>1, <2>2, <2>3, <2>4, <2>5 DEF Booked
<1>10. Ridden'
  BY <1>7 DEF Ridden
<1>11. ASSUME sim.phase = "full" PROVE Today'
  <2>1. Today
    BY <1>2, <1>11 DEF Abreast
  <2>2. /\ HalfAt(bar) \in Nat /\ HalfAt(bar) >= Target1 /\ StopAt(bar) \in Nat
        /\ ArmedAt(HalfAt(bar)) \in Nat /\ ArmedAt(HalfAt(bar)) < HalfAt(bar)
        /\ bar.open > StopLoss => StopAt(bar) <= ArmedAt(HalfAt(bar))
    BY <1>5, Levels, Constants DEF Price
  <2>3. ASSUME Whole, TargetHit PROVE price = HalfAt(bar) /\ bar.open > StopLoss
    <3>1. price >= Target1 /\ price > StopLoss
      BY <1>4, <1>5, <2>3 DEF TargetHit, StopHit, EffectiveStop
    <3>2. Between
      BY <2>1, <2>3 DEF Today
    <3>3. CASE bar = OpenAt(price)
      BY <1>5, <3>1, <3>3 DEF OpenAt, HalfAt, Higher
    <3>4. CASE ~ (bar = OpenAt(price))
      BY <1>5, <3>1, <3>2, <3>4 DEF Between, HalfAt, Higher
    <3> QED BY <3>3, <3>4
  <2>4. ASSUME Whole, StopHit PROVE price >= StopAt(bar)
    <3>1. price <= StopLoss
      BY <1>4, <2>4 DEF StopHit, EffectiveStop
    <3>2. Between
      BY <2>1, <2>4 DEF Today
    <3>3. CASE bar = OpenAt(price)
      BY <1>5, <3>1, <3>3 DEF OpenAt, StopAt
    <3>4. CASE ~ (bar = OpenAt(price))
      <4>1. /\ StopLoss < bar.open /\ bar.open < Target1 /\ bar.low = StopLoss /\ price = StopLoss
        BY <1>5, <3>1, <3>2, <3>4 DEF Between
      <4> QED BY <1>5, <4>1 DEF StopAt
    <3> QED BY <3>3, <3>4
  <2>5. ASSUME Half PROVE Trailed /\ price >= trail
    <3>1. Trailed
      BY <2>1, <2>5 DEF Today
    <3> QED BY <1>4, <3>1 DEF Trailed
  <2>6. price >= StopAt(bar)
    <3>1. CASE Whole
      BY <1>2, <1>5, <2>2, <2>3, <2>4, <3>1
    <3>2. CASE ~ Whole
      <4>1. Half
        BY <1>4, <3>2
      <4> QED BY <1>5, <2>2, <2>5, <4>1 DEF Trailed
    <3> QED BY <3>1, <3>2
  <2>7. Half' => Trailed'
    <3>1. CASE SellsHalf
      <4>1. price = HalfAt(bar) /\ bar.open > StopLoss
        BY <1>8, <2>3, <3>1
      <4>2. trail' = ArmedAt(HalfAt(bar)) /\ price > trail'
        BY <1>6, <2>2, <3>1, <4>1
      <4>3. bar.high >= HalfAt(bar) /\ trail' >= ArmedAt(HalfAt(bar))
        BY <1>5, <2>2, <4>1, <4>2
      <4> QED BY <1>2, <1>7, <4>1, <4>2, <4>3 DEF Trailed, market
    <3>2. CASE ~ SellsHalf
      <4>1. Half' => Half
        BY <1>2, <1>6, <3>2 DEF Half
      <4>2. trail' = trail /\ sell'.link = "last"
        BY <1>6, <3>2
      <4> QED BY <1>2, <1>7, <2>5, <4>1, <4>2 DEF Trailed, market
    <3> QED BY <3>1, <3>2
  <2>8. bar.low <= StopLoss \/ bar.high >= Target1
    <3>1. CASE Whole /\ StopHit
      BY <1>4, <1>5, <3>1 DEF StopHit, EffectiveStop
    <3>2. CASE Whole /\ TargetHit
      BY <1>5, <2>2, <2>3, <3>2
    <3>3. CASE ~ Whole
      <4>1. sold > 0
        BY <1>4, <1>5, <3>3 DEF Whole
      <4> QED BY <2>1, <4>1 DEF Today
    <3> QED BY <1>2, <3>1, <3>2, <3>3
  <2>9. ~ Whole'
    BY <1>7 DEF Whole
  <2> QED BY <1>2, <2>1, <2>6, <2>7, <2>8, <2>9 DEF Today, market
<1>12. ASSUME sim.phase = "runner" PROVE Running'
  <2>1. Running
    BY <1>2, <1>12 DEF Abreast
  <2>2. parts > 0 /\ 10 * (sim.trail - trail) < Atr
    BY <1>4, <1>5, <2>1 DEF Running
  <2>3. trail' = trail
    BY <1>6, <1>8, <1>4, <2>2 DEF ScaledOut
  <2> QED BY <1>2, <2>2, <2>3 DEF Running
<1> QED BY <1>2, <1>9, <1>10, <1>11, <1>12

LEMMA StepAbreast == ASSUME Inv, Abreast, Next PROVE Abreast'
<1>1. CASE \E n \in 1 .. Shares + Others : SellFills(n) \/ OperatorSells(n)
  BY <1>1, SellFillsAbreast, GivenUpAbreast
<1>2. CASE \E n \in 1 .. Shares + Others, linked, accepted \in BOOLEAN : Submit(n, linked, accepted)
  BY <1>2, SubmitAbreast
<1>3. CASE Tick \/ NextDay \/ BuyFills \/ SellDies
  BY <1>3, TickAbreast, NextDayAbreast, BuyFillsAbreast, GivenUpAbreast
<1>4. CASE Hold \/ Defer \/ ExternalClose \/ EnqueueFails
  BY <1>4, HoldAbreast, DeferAbreast, ExternalCloseAbreast, GivenUpAbreast
<1> QED BY <1>1, <1>2, <1>3, <1>4 DEF Next

LEMMA StutterAbreast == ASSUME Abreast, UNCHANGED vars PROVE Abreast'
  BY DEF vars, market, row, ghost, Abreast, Booked, Ridden, Today, Running, Whole, Half,
         Between, Trailed, InFlight

LEMMA SideBySide == Spec => [](Inv /\ Abreast)
<1>1. Inv /\ Abreast /\ [Next]_vars => Inv' /\ Abreast'
  BY StepInv, StutterInv, StepAbreast, StutterAbreast
<1> QED BY InitInv, InitAbreast, <1>1, PTL DEF Spec

-----------------------------------------------------------------------------
(* The theorems *)

\* The ladder and its simulation keep to their types: shares are conserved by
\* fills, exits and the owner's sells, and every fill of ladder_step is a price.
THEOREM TypeCorrect == Spec => []TypeOK
<1>1. Inv => TypeOK
  BY DEF Inv
<1> QED BY Invariance, <1>1, PTL

\* manage_open_positions with _submit_exit: the sells of a position never add
\* up to more than was bought, unless the row lost count of an earlier one.
THEOREM NeverOversold == Spec => []NotOversold
<1>1. Inv => NotOversold
  BY DEF Inv, Counted, NotOversold
<1> QED BY Invariance, <1>1, PTL

\* _ratchet_trail and the arming at target 1: once scaled out, the trail never
\* falls and never lies below the entry.
THEOREM TrailNeverFalls == Spec => RunnerFloor
<1>1. Inv /\ [Next]_vars => [parts > 0 => trail' >= trail /\ trail' >= Entry]_vars
  <2>1. SUFFICES ASSUME Inv, Next, parts > 0 PROVE trail' >= trail /\ trail' >= Entry
    OBVIOUS
  <2>2. trail \in Nat /\ Entry \in Nat /\ trail >= Entry
    BY <2>1, Numbers, Constants DEF Inv, Armed, Price
  <2>3. CASE Hold
    <3>1. trail' = Ratcheted
      BY <2>1, <2>3 DEF Hold, ScaledOut
    <3> QED BY <2>1, <2>2, <3>1, RatchetRises DEF Inv
  <2>4. CASE ~Hold
    <3>1. trail' = trail
      <4>1. ASSUME NEW n \in 1 .. Shares + Others, NEW linked \in BOOLEAN,
                   NEW accepted \in BOOLEAN, Submit(n, linked, accepted)
            PROVE  trail' = trail
        BY <2>1, <4>1 DEF Submit, SellsHalf, ScaledOut
      <4>2. CASE \E n \in 1 .. Shares + Others : SellFills(n) \/ OperatorSells(n)
        BY <4>2 DEF SellFills, OperatorSells, row
      <4>3. CASE Tick \/ NextDay
        BY <4>3 DEF Tick, NextDay, Follow, row
      <4>4. CASE BuyFills \/ SellDies \/ Defer \/ ExternalClose \/ EnqueueFails
        BY <4>4 DEF BuyFills, SellDies, Defer, ExternalClose, EnqueueFails, row
      <4> QED BY <2>1, <2>4, <4>1, <4>2, <4>3, <4>4 DEF Next
    <3> QED BY <2>2, <3>1
  <2> QED BY <2>3, <2>4
<1> QED BY Invariance, <1>1, PTL DEF Spec, RunnerFloor

\* _ratchet_trail beside ladder_step: for a position whose passes saw every price,
\* the live runner is trailed as tightly as the simulated one, up to the ratchet's
\* smallest step.
THEOREM TrailsAhead == Spec => []TrailAhead
<1>1. Inv /\ Abreast => TrailAhead
  <2> SUFFICES ASSUME Inv, Abreast, prompt, sim.phase = "runner", ScaledOut, Remaining > 0
               PROVE  10 * (sim.trail - trail) < Atr
    BY DEF TrailAhead
  <2>1. Booked /\ Running
    BY DEF Abreast
  <2>2. sold < bought
    BY <2>1, Sides DEF Inv
  <2> QED BY <2>1, <2>2 DEF Running, ScaledOut
<1> QED BY SideBySide, <1>1, PTL

\* What the simulation sells at was traded that day.
LEMMA FillsTraded ==
  ASSUME NEW s \in SimRecord, NEW b \in Bar, NEW c \in Price, c <= b.high
  PROVE  \A p \in Walk(s, b, c).fills : p <= b.high
<1> DEFINE n == LadderStep(s, b, c)
<1>1. /\ b.open \in Nat /\ b.low \in Nat /\ b.high \in Nat /\ b.low <= b.open /\ b.open <= b.high
      /\ b.open \in Price
      /\ Target1 \in Nat /\ Target2 \in Nat /\ StopLoss \in Nat /\ Entry \in Nat
      /\ Entry < Target1 /\ Atr \in Nat \ {0}
  BY Constants, LadderAssumption DEF Bar, Price
<1>2. ASSUME NEW t \in Nat, t <= b.high PROVE \A p \in InBar(b, c, t).fills : p <= b.high
  BY <1>1, <1>2 DEF InBar, Gone
<1>3. ASSUME NEW f \in Price, Target1 <= f, f <= b.high
      PROVE  \A p \in ScaleOutBar(b, c, f).fills : p <= b.high
  <2>1. ArmedAt(f) \in Nat /\ ArmedAt(f) <= b.high
    BY <1>1, <1>3, Constants DEF ArmedAt, Higher, Price
  <2>2. \A p \in InBar(b, c, ArmedAt(f)).fills : p <= b.high
    BY <1>2, <2>1
  <2>3. ScaleOutBar(b, c, f).fills = InBar(b, c, ArmedAt(f)).fills \union {f}
    BY DEF ScaleOutBar, InBar, Gone
  <2> QED BY <1>3, <2>2, <2>3
<1>4. \A p \in FullBar(b, c).fills : p <= b.high
  <2>1. b.open <= StopLoss => FullBar(b, c).fills = {b.open}
    BY DEF FullBar, Gone
  <2>2. ~ (b.open <= StopLoss) /\ b.open >= Target1 => FullBar(b, c) = ScaleOutBar(b, c, b.open)
    BY DEF FullBar
  <2>3. ~ (b.open <= StopLoss) /\ ~ (b.open >= Target1) /\ b.low <= StopLoss
          => FullBar(b, c).fills = {StopLoss}
    BY DEF FullBar, Gone
  <2>4. ~ (b.open <= StopLoss) /\ ~ (b.open >= Target1) /\ ~ (b.low <= StopLoss) /\ b.high >= Target1
          => FullBar(b, c) = ScaleOutBar(b, c, Target1)
    BY DEF FullBar
  <2>5. ~ (b.open <= StopLoss) /\ ~ (b.open >= Target1) /\ ~ (b.low <= StopLoss) /\ ~ (b.high >= Target1)
          => FullBar(b, c).fills = {}
    BY DEF FullBar
  <2>6. b.open >= Target1 => \A p \in ScaleOutBar(b, c, b.open).fills : p <= b.high
    BY <1>1, <1>3
  <2>7. b.high >= Target1 => \A p \in ScaleOutBar(b, c, Target1).fills : p <= b.high
    BY <1>1, <1>3, Constants
  <2> QED BY <1>1, <2>1, <2>2, <2>3, <2>4, <2>5, <2>6, <2>7
<1>5. \A p \in n.fills : p <= b.high
  <2>1. CASE s.phase = "full"
    BY <1>4, <2>1 DEF LadderStep
  <2>2. CASE s.phase = "runner"
    <3>1. s.trail \in Nat
      BY Constants DEF SimRecord
    <3>2. b.open <= s.trail \/ b.open >= Target2 => RunnerBar(b, c, s.trail).fills = {b.open}
      BY DEF RunnerBar, Gone
    <3>3. ~ (b.open <= s.trail \/ b.open >= Target2)
            => RunnerBar(b, c, s.trail) = InBar(b, c, s.trail) /\ s.trail <= b.high
      BY <1>1, <3>1 DEF RunnerBar
    <3> QED BY <1>1, <1>2, <2>2, <3>1, <3>2, <3>3 DEF LadderStep
  <2>3. CASE s.phase = "out"
    BY <2>3 DEF LadderStep, Gone
  <2> QED BY <2>1, <2>2, <2>3 DEF SimRecord
<1> HIDE DEF n
<1>6. Walk(s, b, c) \in {n, Gone(n.fills \union {c})}
  BY DEF Walk, n
<1>7. Gone(n.fills \union {c}).fills = n.fills \union {c}
  BY DEF Gone
<1> QED BY <1>5, <1>6, <1>7

\* A close of a position held whole at the open, followed to the next day.
LEMMA CloseWorstCase ==
  ASSUME Inv, Abreast, NextDay, prompt', sim.phase = "full"
  PROVE  /\ sim'.phase = "out" /\ day < MaxDay /\ (\A p \in sim'.fills : p < Target2) =>
              \E p \in sim'.fills : worst >= p /\ (Remaining > 0 => price >= p)
         /\ sim'.phase = "full" => sold = 0
<1>1. /\ prompt /\ seen /\ ~ InFlight /\ sim' = Walk(sim, bar, price)
  BY DEF NextDay, Follow
<1>2. /\ bar \in Bar /\ price \in Price /\ price \in Nat /\ sim \in SimRecord /\ trail \in Nat
      /\ worst \in Nat /\ MaxPrice \in Nat /\ Target1 \in Nat /\ StopLoss \in Nat /\ Target2 \in Nat
      /\ bar.low \in Nat /\ bar.high \in Nat
      /\ parts \in Nat /\ last \in Nat
  BY Numbers, Constants DEF Inv, TypeOK, Price, Bar
<1>3. Booked /\ Today
  BY <1>1 DEF Abreast
<1>4. /\ Remaining = bought - sold /\ bought \in Nat \ {0} /\ sold \in Nat /\ sold <= bought
      /\ sell.left = 0
  BY <1>1, <1>3, Sides DEF Inv
<1>5. sim'.phase = "full" => sold = 0
  <2>1. sim'.phase = "full" => StopLoss < bar.low /\ bar.high < Target1
    BY <1>1, <1>2, WalkDay, FullDay
  <2> QED BY <1>2, <1>3, <1>4, <2>1 DEF Today
<1>6. ASSUME sim'.phase = "out", day < MaxDay, \A p \in sim'.fills : p < Target2
      PROVE  \E p \in sim'.fills : worst >= p /\ (Remaining > 0 => price >= p)
  <2>1. /\ bar.low <= StopLoss \/ bar.high >= Target1
        /\ Target2 \in sim'.fills \/ StopAt(bar) \in sim'.fills
    BY <1>1, <1>2, <1>6, WalkDay, FullDay
  <2>2. StopAt(bar) \in sim'.fills
    BY <1>2, <1>6, <2>1
  <2>3. sold > 0
    <3>1. ~ Whole
      BY <1>1, <1>2, <1>3, <2>1 DEF Today, Between
    <3> QED BY <1>1, <1>4, <3>1 DEF Whole
  <2>4. worst >= StopAt(bar)
    BY <1>3, <2>3 DEF Today
  <2>5. ASSUME Remaining > 0 PROVE price >= StopAt(bar)
    <3>1. sold < bought /\ last = 0
      BY <1>2, <1>3, <1>4, <2>5 DEF Booked
    <3>2. Half
      BY <1>2, <1>3, <2>3, <3>1 DEF Booked, Half
    <3>3. Trailed
      BY <1>3, <3>2 DEF Today
    <3>4. /\ StopAt(bar) \in Nat /\ ArmedAt(HalfAt(bar)) \in Nat
          /\ bar.open > StopLoss => StopAt(bar) <= ArmedAt(HalfAt(bar))
      BY <1>2, Levels, Constants DEF Price
    <3> QED BY <1>1, <1>2, <3>1, <3>3, <3>4 DEF Trailed
  <2> QED BY <2>2, <2>4, <2>5
<1> QED BY <1>5, <1>6

\* ladder_step against manage_open_positions: the backtest never sells above what
\* the day traded at, stops a position out no better than the passes did, and does
\* nothing on a bar only when they sold nothing.
THEOREM SimulationIsWorstCase == Spec => SimWorstCase
<1>1. ASSUME Inv, Abreast, Next, day' > day
      PROVE  NextDay /\ prompt'
  <2>1. ASSUME NextDay PROVE prompt'
    <3>1. day' = IF prompt' THEN day + 1 ELSE 1
      BY <2>1 DEF NextDay
    <3> QED BY <1>1, <3>1, Numbers DEF Inv
  <2>2. ASSUME ~ NextDay PROVE day' = day
    <3>1. CASE \E n \in 1 .. Shares + Others : SellFills(n) \/ OperatorSells(n)
      BY <3>1 DEF SellFills, OperatorSells, market
    <3>2. CASE \E n \in 1 .. Shares + Others, linked, accepted \in BOOLEAN :
                 Submit(n, linked, accepted)
      BY <3>2 DEF Submit, market
    <3>3. CASE Tick
      BY <3>3 DEF Tick
    <3>4. CASE BuyFills \/ SellDies \/ Hold \/ Defer \/ ExternalClose \/ EnqueueFails
      BY <3>4 DEF BuyFills, SellDies, Hold, Defer, ExternalClose, EnqueueFails, market
    <3> QED BY <1>1, <2>2, <3>1, <3>2, <3>3, <3>4 DEF Next
  <2> QED BY <1>1, <2>1, <2>2, Numbers DEF Inv
<1>2. ASSUME Inv, Abreast, Next, day' > day
      PROVE  \A p \in sim'.fills : p <= bar.high
  <2>1. sim' = Walk(sim, bar, price)
    BY <1>1, <1>2 DEF NextDay, Follow
  <2>2. bar \in Bar /\ price \in Price /\ sim \in SimRecord /\ price <= bar.high
    BY <1>2, Numbers DEF Inv, TypeOK
  <2> QED BY <2>1, <2>2, FillsTraded
<1>3. Inv /\ Abreast /\ [Next]_vars =>
        [/\ day' > day => \A p \in sim'.fills : p <= bar.high
         /\ day' > day /\ prompt /\ prompt' /\ sim.phase = "full" =>
              /\ sim'.phase = "out" /\ day < MaxDay /\ (\A p \in sim'.fills : p < Target2) =>
                   \E p \in sim'.fills : worst >= p /\ (Remaining > 0 => price >= p)
              /\ sim'.phase = "full" => sold = 0]_vars
  BY <1>1, <1>2, CloseWorstCase
<1> QED BY SideBySide, <1>3, PTL DEF Spec, SimWorstCase
=============================================================================
