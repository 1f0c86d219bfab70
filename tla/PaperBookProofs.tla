--------------------------- MODULE PaperBookProofs ---------------------------
(***************************************************************************)
(* Theorems about Risk and PaperBook: what the account mutators and the    *)
(* risk engine guarantee, that the store stays well typed, that the account*)
(* and the tables stay in step, that the journal tells the truth about     *)
(* every signal, that what is final stays final, and that the book         *)
(* implements PaperLedger.  Each operator on a database that a transaction *)
(* is made of is first shown to keep the tables well formed, the account in*)
(* step with them, and to rewrite exactly the rows it names; the theorems  *)
(* then only have to look at which operators an action applies.            *)
(***************************************************************************)
EXTENDS PaperBook, TLAPS, SequenceTheorems, WellFoundedInduction

-----------------------------------------------------------------------------
(* Integer division *)

LEMMA DivInt == ASSUME NEW x \in Int, NEW y \in Nat \ {0} PROVE x \div y \in Int
  OBVIOUS

LEMMA DivBound ==
  ASSUME NEW x \in Int, NEW y \in Nat \ {0} PROVE (x \div y) * y <= x
  OBVIOUS

-----------------------------------------------------------------------------
(* Costs and the account *)

LEMMA CostInt == ASSUME NEW n \in Int PROVE CostForFill(n) \in Int
  BY DivInt, CostModelAssumption DEF CostForFill, CostModelType

LEMMA PriceInt ==
  ASSUME NEW n \in Nat PROVE EntryPrice(n) \in Int /\ ExitPrice(n) \in Int
  BY DivInt, CostModelAssumption DEF EntryPrice, ExitPrice, CostModelType

LEMMA NewAccountType == NewAccount \in Account
  BY InitialCapitalAssumption DEF NewAccount, Account, NoDay

LEMMA EquityInt == ASSUME NEW a \in Account PROVE Equity(a) \in Int
  BY DEF Equity, Account

\* UpdatePeak raises the peak to the equity and changes nothing else.
LEMMA UpdatePeakEffect ==
  ASSUME NEW a \in Account
  PROVE  LET b == UpdatePeak(a) IN
         /\ b \in Account /\ b.peak_equity >= Equity(a)
         /\ b.quantity = a.quantity /\ b.entry_price = a.entry_price
         /\ b.cash = a.cash /\ b.realized_pnl = a.realized_pnl
  BY EquityInt DEF UpdatePeak, Account

LEMMA RollToDayEffect ==
  ASSUME NEW a \in Account, NEW day \in Int
  PROVE  LET b == RollToDay(a, day) IN
         /\ b \in Account
         /\ b.quantity = a.quantity /\ b.entry_price = a.entry_price
         /\ b.cash = a.cash /\ b.realized_pnl = a.realized_pnl
  BY EquityInt DEF RollToDay, Account

LEMMA MarkToMarketEffect ==
  ASSUME NEW a \in Account, NEW price \in Int
  PROVE  LET b == MarkToMarket(a, price) IN
         /\ b \in Account
         /\ b.quantity = a.quantity /\ b.entry_price = a.entry_price
         /\ b.cash = a.cash /\ b.realized_pnl = a.realized_pnl
<1> DEFINE m == [a EXCEPT !.unrealized_pnl =
                   IF a.quantity > 0 THEN (price - a.entry_price) * a.quantity ELSE @]
<1>1. m \in Account
  BY DEF Account
<1>2. MarkToMarket(a, price) = UpdatePeak(m)
  BY DEF MarkToMarket
<1> HIDE DEF m
<1>3. /\ m.quantity = a.quantity /\ m.entry_price = a.entry_price
      /\ m.cash = a.cash /\ m.realized_pnl = a.realized_pnl
  BY DEF m, Account
<1> QED
  BY <1>1, <1>2, <1>3, UpdatePeakEffect

LEMMA PaidEffect ==
  ASSUME NEW a \in Account, NEW amount \in Int
  PROVE  LET b == Paid(a, amount) IN
         /\ b \in Account
         /\ b.cash = a.cash + amount /\ b.realized_pnl = a.realized_pnl
  BY DEF Paid, Account

LEMMA CountedEffect ==
  ASSUME NEW a \in Account, NEW net_pnl \in Int
  PROVE  LET b == Counted(a, net_pnl) IN
         /\ b \in Account
         /\ b.cash = a.cash /\ b.realized_pnl = a.realized_pnl + net_pnl
<1> DEFINE realized == a.realized_pnl + net_pnl
           trades == a.total_trades + 1
           losses == IF net_pnl < 0 THEN a.consecutive_losses + 1 ELSE 0
           b == [a EXCEPT !.realized_pnl = realized, !.total_trades = trades,
                          !.consecutive_losses = losses]
<1>1. realized \in Int /\ trades \in Nat /\ losses \in Nat
  BY DEF Account
<1>2. Counted(a, net_pnl) = b
  BY DEF Counted
<1>3. b \in Account /\ b.cash = a.cash /\ b.realized_pnl = realized
  <2> HIDE DEF realized, trades, losses
  <2> QED BY <1>1 DEF Account
<1> HIDE DEF b
<1> QED
  BY <1>2, <1>3

LEMMA HoldingEffect ==
  ASSUME NEW a \in Account, NEW quantity \in Nat, NEW price \in Int
  PROVE  LET b == Holding(a, quantity, price) IN
         /\ b \in Account
         /\ b.quantity = quantity /\ b.entry_price = price
         /\ b.cash = a.cash /\ b.realized_pnl = a.realized_pnl
<1> DEFINE half == [a EXCEPT !.quantity = quantity, !.entry_price = price]
           basis == quantity * price
           whole == [half EXCEPT !.cost_basis = basis, !.unrealized_pnl = 0]
<1>1. half \in Account
  BY DEF Account
<1>2. /\ half.quantity = quantity /\ half.entry_price = price
      /\ half.cash = a.cash /\ half.realized_pnl = a.realized_pnl
  BY DEF Account
<1>3. basis \in Int
  OBVIOUS
<1>4. /\ whole \in Account
      /\ whole.quantity = half.quantity /\ whole.entry_price = half.entry_price
      /\ whole.cash = half.cash /\ whole.realized_pnl = half.realized_pnl
  <2> DEFINE most == [half EXCEPT !.cost_basis = basis]
             full == [most EXCEPT !.unrealized_pnl = 0]
  <2> HIDE DEF half, basis
  <2>1. /\ most \in Account
        /\ most.quantity = half.quantity /\ most.entry_price = half.entry_price
        /\ most.cash = half.cash /\ most.realized_pnl = half.realized_pnl
    BY <1>1, <1>3 DEF Account
  <2>2. whole = full
    OBVIOUS
  <2> HIDE DEF most, whole
  <2>3. /\ full \in Account
        /\ full.quantity = most.quantity /\ full.entry_price = most.entry_price
        /\ full.cash = most.cash /\ full.realized_pnl = most.realized_pnl
    BY <2>1 DEF Account
  <2> HIDE DEF full
  <2> QED
    BY <2>1, <2>2, <2>3
<1>5. Holding(a, quantity, price) = whole
  BY DEF Holding
<1> HIDE DEF half, whole
<1> QED
  BY <1>2, <1>4, <1>5

LEMMA OpenAccountEffect ==
  ASSUME NEW a \in Account, NEW quantity \in Nat, NEW price \in Int, NEW fee \in Int
  PROVE  LET b == OpenAccountPosition(a, quantity, price, fee) IN
         /\ b \in Account
         /\ b.quantity = quantity /\ b.entry_price = price
         /\ b.cash = a.cash - (quantity * price + fee)
         /\ b.realized_pnl = a.realized_pnl
<1> DEFINE amount == -(quantity * price + fee)
           paid == Paid(a, amount)
           held == Holding(paid, quantity, price)
<1>1. amount \in Int /\ a.cash + amount = a.cash - (quantity * price + fee)
  BY DEF Account
<1> HIDE DEF amount
<1>2. /\ paid \in Account
      /\ paid.cash = a.cash + amount /\ paid.realized_pnl = a.realized_pnl
  BY <1>1, PaidEffect
<1> HIDE DEF paid
<1>3. /\ held \in Account
      /\ held.quantity = quantity /\ held.entry_price = price
      /\ held.cash = paid.cash /\ held.realized_pnl = paid.realized_pnl
  BY <1>2, HoldingEffect
<1>4. OpenAccountPosition(a, quantity, price, fee) = UpdatePeak(held)
  BY DEF OpenAccountPosition, held, paid, amount
<1> HIDE DEF held
<1> QED
  BY <1>1, <1>2, <1>3, <1>4, UpdatePeakEffect

LEMMA CloseAccountEffect ==
  ASSUME NEW a \in Account, NEW price \in Int, NEW fee \in Int, NEW net_pnl \in Int
  PROVE  LET b == CloseAccountPosition(a, price, fee, net_pnl) IN
         /\ b \in Account
         /\ b.quantity = 0 /\ b.entry_price = 0
         /\ b.cash = a.cash + (a.quantity * price - fee)
         /\ b.realized_pnl = a.realized_pnl + net_pnl
<1> DEFINE amount == a.quantity * price - fee
           paid == Paid(a, amount)
           counted == Counted(paid, net_pnl)
           flat == Holding(counted, 0, 0)
<1>1. amount \in Int
  BY DEF Account
<1> HIDE DEF amount
<1>2. /\ paid \in Account
      /\ paid.cash = a.cash + amount /\ paid.realized_pnl = a.realized_pnl
  BY <1>1, PaidEffect
<1> HIDE DEF paid
<1>3. /\ counted \in Account
      /\ counted.cash = paid.cash /\ counted.realized_pnl = paid.realized_pnl + net_pnl
  BY <1>2, CountedEffect
<1> HIDE DEF counted
<1>4. /\ flat \in Account
      /\ flat.quantity = 0 /\ flat.entry_price = 0
      /\ flat.cash = counted.cash /\ flat.realized_pnl = counted.realized_pnl
  BY <1>3, HoldingEffect
<1>5. CloseAccountPosition(a, price, fee, net_pnl) = UpdatePeak(flat)
  BY DEF CloseAccountPosition, flat, counted, paid, amount
<1> HIDE DEF flat
<1> QED
  BY <1>1, <1>2, <1>3, <1>4, <1>5, UpdatePeakEffect DEF amount

-----------------------------------------------------------------------------
(* The risk engine *)

LEMMA SizeInt ==
  ASSUME NEW symbols, NEW s \in SignalOf(symbols), NEW a \in Account, StructurallyValid(s)
  PROVE  RequestedQuantity(s, a) \in Int /\ SizedQuantity(s, a) \in Int
<1>1. s.reference - s.stop \in Nat \ {0} /\ s.reference \in Nat \ {0}
  BY DEF SignalOf, StructurallyValid
<1>2. RiskBps(a) \in Nat
  BY RiskConfigAssumption DEF RiskBps, RiskConfigType
<1>3. Equity(a) * RiskBps(a) \in Int /\ 10000 * (s.reference - s.stop) \in Nat \ {0}
  BY <1>1, <1>2, EquityInt
<1>4. RequestedQuantity(s, a) \in Int
  BY <1>3, DivInt DEF RequestedQuantity
<1>5. a.cash \div s.reference \in Int
  BY <1>1, DivInt DEF Account
<1> QED
  BY <1>4, <1>5 DEF SizedQuantity

\* The engine approves only an order it can pay for and only on a free
\* account that no circuit breaker halts.
THEOREM EvaluateSafe ==
  ASSUME NEW symbols, NEW s \in SignalOf(symbols), NEW a \in Account
  PROVE  LET decision == Evaluate(s, a) IN
         /\ decision.approved \in BOOLEAN /\ decision.quantity \in Nat
         /\ decision.approved => /\ decision.quantity >= 1
                                 /\ a.quantity = 0 /\ HaltReasons(a) = {}
                                 /\ decision.quantity * s.reference <= a.cash
<1>1. CASE ~StructurallyValid(s)
  BY <1>1 DEF Evaluate
<1>2. CASE StructurallyValid(s)
  <2> DEFINE q == SizedQuantity(s, a)
  <2>1. q \in Int /\ RequestedQuantity(s, a) \in Int
    BY <1>2, SizeInt
  <2>2. s.reference \in Nat \ {0} /\ a.cash \in Int /\ a.quantity \in Nat
    BY <1>2 DEF SignalOf, StructurallyValid, Account
  <2>3. q >= 1 => q * s.reference <= a.cash
    <3>1. CASE RequestedQuantity(s, a) >= 1 /\ RequestedQuantity(s, a) * s.reference > a.cash
      BY <3>1, <2>2, DivBound DEF SizedQuantity
    <3>2. CASE ~(RequestedQuantity(s, a) >= 1 /\ RequestedQuantity(s, a) * s.reference > a.cash)
      <4>1. q = RequestedQuantity(s, a)
        BY <3>2 DEF SizedQuantity
      <4>2. RequestedQuantity(s, a) * s.reference \in Int
        BY <2>1, <2>2
      <4> HIDE DEF q
      <4> QED
        BY <2>1, <2>2, <3>2, <4>1, <4>2
    <3> QED
      BY <3>1, <3>2
  <2>4. Vetoed(s, a) \/ (a.quantity = 0 /\ HaltReasons(a) = {})
    BY <2>2 DEF Vetoed
  <2> HIDE DEF q
  <2> DEFINE approved == q >= 1 /\ ~Vetoed(s, a) /\ ~ExposureBreached(s, a, q)
  <2>5. Evaluate(s, a) = [approved |-> approved, quantity |-> IF approved THEN q ELSE 0]
    BY <1>2 DEF Evaluate, q
  <2>6. /\ Evaluate(s, a).approved = approved
        /\ Evaluate(s, a).quantity = IF approved THEN q ELSE 0
    BY <2>5
  <2>7. approved \in BOOLEAN
    OBVIOUS
  <2>8. approved => q >= 1 /\ ~Vetoed(s, a)
    OBVIOUS
  <2> HIDE DEF approved
  <2> QED
    BY <2>1, <2>2, <2>3, <2>4, <2>6, <2>7, <2>8
<1> QED
  BY <1>1, <1>2

-----------------------------------------------------------------------------
(* Tables *)

LEMMA AppendSeq ==
  ASSUME NEW S, NEW seq \in Seq(S), NEW e \in S
  PROVE  /\ Append(seq, e) \in Seq(S)
         /\ Len(Append(seq, e)) = Len(seq) + 1
         /\ DOMAIN Append(seq, e) = DOMAIN seq \cup {Len(seq) + 1}
         /\ \A j \in DOMAIN seq : Append(seq, e)[j] = seq[j]
         /\ Append(seq, e)[Len(seq) + 1] = e
         /\ Len(seq) + 1 \notin DOMAIN seq
  BY LenProperties

LEMMA ReplaceSeq ==
  ASSUME NEW S, NEW seq \in Seq(S), NEW i \in DOMAIN seq, NEW e \in S
  PROVE  /\ [seq EXCEPT ![i] = e] \in Seq(S)
         /\ DOMAIN [seq EXCEPT ![i] = e] = DOMAIN seq
         /\ Len([seq EXCEPT ![i] = e]) = Len(seq)
         /\ [seq EXCEPT ![i] = e][i] = e
         /\ \A j \in DOMAIN seq \ {i} : [seq EXCEPT ![i] = e][j] = seq[j]
  BY LenProperties, ExceptSeq

LEMMA RowOfSeq ==
  ASSUME NEW S, NEW seq \in Seq(S), NEW i \in DOMAIN seq PROVE seq[i] \in S
  BY LenProperties, ElementOfSeq

LEMMA SignalFields ==
  ASSUME NEW s \in Signal
  PROVE  /\ s \in SignalOf(Symbol) /\ s.symbol \in Symbol
         /\ s.stop \in Nat /\ s.target \in Nat /\ s.reference \in Nat
  BY SignalAssumption DEF SignalOf

LEMMA BarFields ==
  ASSUME NEW bar \in BarShape
  PROVE  bar.open \in Nat /\ bar.high \in Nat /\ bar.low \in Nat /\ bar.close \in Nat
  BY BarAssumption

\* Every position refers to an order of the table.
Linked(d) == \A i \in DOMAIN d.positions : d.positions[i].order \in DOMAIN d.orders

WellFormed(d) == d \in Database /\ Linked(d)

\* A fill and a close replace these tables and no other.
LEMMA FillTables ==
  ASSUME NEW d \in Database, NEW F \in Seq(PaperFill), NEW O \in Seq(PaperOrder),
         NEW P \in Seq(Position), NEW A \in Account, NEW J \in [Signal -> JournalEntry]
  PROVE  [d EXCEPT !.fills = F, !.orders = O, !.positions = P, !.account = A,
                   !.journal = J] \in Database
  BY DEF Database

LEMMA CloseTables ==
  ASSUME NEW d \in Database, NEW F \in Seq(PaperFill), NEW T \in Seq(Trade),
         NEW P \in Seq(Position), NEW A \in Account, NEW J \in [Signal -> JournalEntry]
  PROVE  [d EXCEPT !.fills = F, !.trades = T, !.positions = P, !.account = A,
                   !.journal = J] \in Database
  BY DEF Database

-----------------------------------------------------------------------------
(* submit_signal *)

LEMMA SubmittedEffect ==
  ASSUME NEW d, WellFormed(d), NEW s \in Signal, NEW account \in Account
  PROVE  LET e == Submitted(d, s, account) IN
         /\ WellFormed(e)
         /\ e.account = d.account /\ e.positions = d.positions
         /\ e.account_exists = d.account_exists
<1> DEFINE decision == Evaluate(s, account)
           entry(outcome, order) ==
             [outcome |-> outcome, order |-> order, position |-> 0, trade |-> 0]
           known == [d EXCEPT !.signals = @ \cup {s}]
           rejected == [known EXCEPT !.journal[s] = entry("REJECTED", 0)]
           skipped == [known EXCEPT !.journal[s] = entry("SKIPPED_ALREADY_ACTIVE", 0)]
           order == [signal |-> s, quantity |-> decision.quantity, status |-> "PENDING"]
           pending == [known EXCEPT
                         !.orders = Append(@, order),
                         !.journal[s] = entry("APPROVED_PENDING", Len(d.orders) + 1)]
<1>1. decision.quantity \in Nat
  BY SignalFields, EvaluateSafe
<1>2. known \in Database /\ known.orders = d.orders /\ known.positions = d.positions
      /\ known.account = d.account /\ known.journal = d.journal
      /\ known.account_exists = d.account_exists
  BY DEF WellFormed, Database
<1>3. order \in PaperOrder
  BY <1>1 DEF PaperOrder
<1>4. Append(d.orders, order) \in Seq(PaperOrder)
      /\ DOMAIN d.orders \subseteq DOMAIN Append(d.orders, order)
      /\ Len(d.orders) + 1 \in Nat
  <2>1. d.orders \in Seq(PaperOrder)
    BY DEF WellFormed, Database
  <2> HIDE DEF order
  <2> QED
    BY <1>3, <2>1, AppendSeq, LenProperties
<1>5. /\ entry("REJECTED", 0) \in JournalEntry
      /\ entry("SKIPPED_ALREADY_ACTIVE", 0) \in JournalEntry
      /\ entry("APPROVED_PENDING", Len(d.orders) + 1) \in JournalEntry
  BY <1>4 DEF JournalEntry, JournalOutcome
<1>6. Submitted(d, s, account) \in {rejected, skipped, pending}
  BY DEF Submitted
<1> HIDE DEF decision, known, entry, order
<1>7. /\ rejected \in Database /\ rejected.orders = d.orders
      /\ rejected.positions = d.positions /\ rejected.account = d.account
      /\ rejected.account_exists = d.account_exists
  BY <1>2, <1>5 DEF Database
<1>8. /\ skipped \in Database /\ skipped.orders = d.orders
      /\ skipped.positions = d.positions /\ skipped.account = d.account
      /\ skipped.account_exists = d.account_exists
  BY <1>2, <1>5 DEF Database
<1>9. /\ pending \in Database /\ pending.orders = Append(d.orders, order)
      /\ pending.positions = d.positions /\ pending.account = d.account
      /\ pending.account_exists = d.account_exists
  BY <1>2, <1>4, <1>5 DEF Database
<1> HIDE DEF rejected, skipped, pending
<1> QED
  BY <1>4, <1>6, <1>7, <1>8, <1>9 DEF WellFormed, Linked

-----------------------------------------------------------------------------
(* process_bar *)

LEMMA FilledEffect ==
  ASSUME NEW d, WellFormed(d), NEW i \in DOMAIN d.orders, NEW bar \in BarShape
  PROVE  LET e     == Filled(d, i, bar)
             n     == Len(d.positions) + 1
             q     == d.orders[i].quantity
             price == EntryPrice(bar.open)
         IN  /\ WellFormed(e)
             /\ DOMAIN e.positions = DOMAIN d.positions \cup {n}
             /\ n \notin DOMAIN d.positions
             /\ \A j \in DOMAIN d.positions : e.positions[j] = d.positions[j]
             /\ e.positions[n].status = "OPEN" /\ e.positions[n].quantity = q
             /\ e.positions[n].entry_price = price
             /\ e.account = OpenAccountPosition(d.account, q, price,
                                                CostForFill(q * price))
             /\ e.account_exists = d.account_exists
<1> DEFINE n     == Len(d.positions) + 1
           order == d.orders[i]
           price == EntryPrice(bar.open)
           fill  == [order |-> i, kind |-> "ENTRY", quantity |-> order.quantity]
           row   == [order |-> i, status |-> "OPEN", quantity |-> order.quantity,
                     entry_price |-> price, bars_held |-> 0,
                     entry_fill |-> Len(d.fills) + 1, exit_fill |-> 0, trade |-> 0]
           F == Append(d.fills, fill)
           O == [d.orders EXCEPT ![i] = [@ EXCEPT !.status = "FILLED"]]
           P == Append(d.positions, row)
           A == OpenAccountPosition(d.account, order.quantity, price,
                                    CostForFill(order.quantity * price))
           J == [d.journal EXCEPT ![order.signal] =
                   [@ EXCEPT !.position = n, !.outcome = "APPROVED_FILLED_OPEN"]]
           e == [d EXCEPT !.fills = F, !.orders = O, !.positions = P, !.account = A,
                          !.journal = J]
<1>1. /\ d \in Database
      /\ d.fills \in Seq(PaperFill) /\ d.orders \in Seq(PaperOrder)
      /\ d.positions \in Seq(Position) /\ d.account \in Account
      /\ d.journal \in [Signal -> JournalEntry]
  BY DEF WellFormed, Database
<1>2. /\ order \in PaperOrder /\ i \in Nat
      /\ n \in Nat /\ Len(d.fills) + 1 \in Nat
  BY <1>1, RowOfSeq, LenProperties
<1>3. order.quantity \in Nat /\ order.signal \in Signal
  BY <1>2 DEF PaperOrder
<1>4. price \in Int
  BY BarFields, PriceInt
<1>5. F \in Seq(PaperFill)
  <2>1. fill \in PaperFill
    BY <1>2, <1>3 DEF PaperFill
  <2> QED
    BY <2>1, <1>1, AppendSeq
<1>6. O \in Seq(PaperOrder) /\ DOMAIN O = DOMAIN d.orders
  <2>1. [order EXCEPT !.status = "FILLED"] \in PaperOrder
    BY <1>2 DEF PaperOrder
  <2> QED
    BY <2>1, <1>1, ReplaceSeq
<1>7. /\ P \in Seq(Position)
      /\ DOMAIN P = DOMAIN d.positions \cup {n} /\ n \notin DOMAIN d.positions
      /\ \A j \in DOMAIN d.positions : P[j] = d.positions[j]
      /\ P[n] = row
  <2>1. row \in Position
    BY <1>2, <1>3, <1>4 DEF Position
  <2> HIDE DEF row
  <2> QED
    BY <2>1, <1>1, AppendSeq
<1>8. A \in Account
  <2>1. order.quantity * price \in Int
    BY <1>3, <1>4
  <2>2. CostForFill(order.quantity * price) \in Int
    BY <2>1, CostInt
  <2> QED
    BY <2>2, <1>1, <1>3, <1>4, OpenAccountEffect
<1>9. J \in [Signal -> JournalEntry]
  <2>1. d.journal[order.signal] \in JournalEntry
    BY <1>1, <1>3
  <2>2. [d.journal[order.signal] EXCEPT !.position = n,
                !.outcome = "APPROVED_FILLED_OPEN"] \in JournalEntry
    BY <2>1, <1>2 DEF JournalEntry, JournalOutcome
  <2> QED
    BY <2>2, <1>1
<1>10. Filled(d, i, bar) = e
  BY DEF Filled
<1>11. row.order = i /\ row.status = "OPEN" /\ row.quantity = order.quantity
       /\ row.entry_price = price
  OBVIOUS
<1> HIDE DEF F, O, P, A, J, row
<1>12. /\ e \in Database
       /\ e.orders = O /\ e.positions = P /\ e.account = A
       /\ e.account_exists = d.account_exists
  <2>1. /\ F \in Seq(PaperFill) /\ O \in Seq(PaperOrder) /\ P \in Seq(Position)
        /\ A \in Account /\ J \in [Signal -> JournalEntry]
    BY <1>5, <1>6, <1>7, <1>8, <1>9
  <2>2. e \in Database
    BY <2>1, <1>1, FillTables
  <2> QED
    BY <2>2, <1>1 DEF Database
<1> HIDE DEF e
<1>13. Linked(e)
  BY <1>6, <1>7, <1>11, <1>12 DEF Linked, WellFormed
<1> QED
  BY <1>7, <1>10, <1>11, <1>12, <1>13 DEF WellFormed, A

LEMMA ClosedEffect ==
  ASSUME NEW d, WellFormed(d), NEW i \in DOMAIN d.positions, NEW price \in Int,
         NEW reason \in {"STOP", "TARGET", "EXPIRED", "END_OF_DATA"}
  PROVE  LET e       == Closed(d, i, price, reason)
             q       == d.positions[i].quantity
             entry   == d.positions[i].entry_price
             fee     == CostForFill(price * q)
             net_pnl == (price - entry) * q - (CostForFill(entry * q) + fee)
         IN  /\ WellFormed(e)
             /\ DOMAIN e.positions = DOMAIN d.positions
             /\ \A j \in DOMAIN d.positions \ {i} : e.positions[j] = d.positions[j]
             /\ e.positions[i].status = "CLOSED"
             /\ e.account = CloseAccountPosition(d.account, price, fee, net_pnl)
             /\ e.account_exists = d.account_exists
<1> DEFINE position == d.positions[i]
           signal   == d.orders[position.order].signal
           q        == position.quantity
           entry    == position.entry_price
           fee      == CostForFill(price * q)
           net_pnl  == (price - entry) * q - (CostForFill(entry * q) + fee)
           t        == Len(d.trades) + 1
           fill  == [order |-> position.order, kind |-> "EXIT", quantity |-> q]
           trade == [position |-> i, net_pnl |-> net_pnl, reason |-> reason]
           row   == [position EXCEPT !.status = "CLOSED",
                                     !.exit_fill = Len(d.fills) + 1, !.trade = t]
           F == Append(d.fills, fill)
           T == Append(d.trades, trade)
           P == [d.positions EXCEPT ![i] = row]
           A == CloseAccountPosition(d.account, price, fee, net_pnl)
           J == [d.journal EXCEPT ![signal] =
                   [@ EXCEPT !.trade = t, !.outcome = "APPROVED_FILLED_CLOSED"]]
           e == [d EXCEPT !.fills = F, !.trades = T, !.positions = P, !.account = A,
                          !.journal = J]
<1>1. /\ d \in Database
      /\ d.fills \in Seq(PaperFill) /\ d.orders \in Seq(PaperOrder)
      /\ d.positions \in Seq(Position) /\ d.account \in Account
      /\ d.trades \in Seq(Trade) /\ d.journal \in [Signal -> JournalEntry]
  BY DEF WellFormed, Database
<1>2. /\ position \in Position /\ i \in Nat
      /\ t \in Nat /\ Len(d.fills) + 1 \in Nat
  BY <1>1, RowOfSeq, LenProperties
<1>3. q \in Nat /\ entry \in Int /\ position.order \in Nat
  BY <1>2 DEF Position
<1>4. signal \in Signal
  <2>1. position.order \in DOMAIN d.orders
    BY DEF WellFormed, Linked
  <2>2. d.orders[position.order] \in PaperOrder
    BY <2>1, <1>1, RowOfSeq
  <2> QED
    BY <2>2 DEF PaperOrder
<1>5. fee \in Int /\ net_pnl \in Int
  <2>1. price * q \in Int /\ entry * q \in Int /\ (price - entry) * q \in Int
    BY <1>3
  <2>2. fee \in Int /\ CostForFill(entry * q) \in Int
    BY <2>1, CostInt
  <2> QED
    BY <2>1, <2>2
<1>6. F \in Seq(PaperFill)
  <2>1. fill \in PaperFill
    BY <1>3 DEF PaperFill
  <2> QED
    BY <2>1, <1>1, AppendSeq
<1>7. T \in Seq(Trade)
  <2> HIDE DEF net_pnl
  <2>1. trade \in Trade
    BY <1>2, <1>5 DEF Trade
  <2> HIDE DEF trade
  <2> QED
    BY <2>1, <1>1, AppendSeq
<1>8. /\ P \in Seq(Position) /\ DOMAIN P = DOMAIN d.positions /\ P[i] = row
      /\ \A j \in DOMAIN d.positions \ {i} : P[j] = d.positions[j]
  <2> HIDE DEF position
  <2>1. row \in Position
    BY <1>2 DEF Position
  <2> HIDE DEF row
  <2> QED
    BY <2>1, <1>1, ReplaceSeq
<1>9. A \in Account
  BY <1>1, <1>5, CloseAccountEffect
<1>10. J \in [Signal -> JournalEntry]
  <2> HIDE DEF signal
  <2>1. d.journal[signal] \in JournalEntry
    BY <1>1, <1>4
  <2>2. [d.journal[signal] EXCEPT !.trade = t,
                !.outcome = "APPROVED_FILLED_CLOSED"] \in JournalEntry
    BY <2>1, <1>2 DEF JournalEntry, JournalOutcome
  <2> QED
    BY <2>2, <1>1
<1>11. Closed(d, i, price, reason) = e
  BY DEF Closed
<1>12. row.order = position.order /\ row.status = "CLOSED"
  BY <1>2 DEF Position
<1> HIDE DEF F, T, P, A, J, row
<1>13. /\ e \in Database
       /\ e.orders = d.orders /\ e.positions = P /\ e.account = A
       /\ e.account_exists = d.account_exists
  <2>1. e \in Database
    BY <1>1, <1>6, <1>7, <1>8, <1>9, <1>10, CloseTables
  <2> QED
    BY <2>1, <1>1 DEF Database
<1> HIDE DEF e
<1>14. Linked(e)
  BY <1>8, <1>12, <1>13 DEF Linked, WellFormed
<1> QED
  BY <1>8, <1>11, <1>12, <1>13, <1>14 DEF WellFormed, A

LEMMA MarkedEffect ==
  ASSUME NEW d, WellFormed(d), NEW account \in Account
  PROVE  LET e == [d EXCEPT !.account = account] IN
         /\ WellFormed(e)
         /\ e.account = account /\ e.positions = d.positions /\ e.orders = d.orders
         /\ e.account_exists = d.account_exists
<1> DEFINE e == [d EXCEPT !.account = account]
<1>1. e \in Database /\ e.account = account
      /\ e.positions = d.positions /\ e.orders = d.orders
      /\ e.account_exists = d.account_exists
  BY DEF WellFormed, Database
<1>2. WellFormed(e)
  <2> HIDE DEF e
  <2> QED
    BY <1>1 DEF WellFormed, Linked
<1> QED
  BY <1>1, <1>2

\* What managing an open position may do to the tables and the account.
LEMMA ManagedEffect ==
  ASSUME NEW d, WellFormed(d), NEW i \in DOMAIN d.positions, NEW bar \in BarShape
  PROVE  LET e      == Managed(d, i, bar)
             m      == MarkToMarket(d.account, bar.close)
             q      == d.positions[i].quantity
             entry  == d.positions[i].entry_price
         IN  /\ WellFormed(e) /\ e.account_exists = d.account_exists
             /\ DOMAIN e.positions = DOMAIN d.positions
             /\ \A j \in DOMAIN d.positions \ {i} : e.positions[j] = d.positions[j]
             /\ \/ /\ e.positions[i].status = d.positions[i].status
                   /\ e.positions[i].quantity = q
                   /\ e.positions[i].entry_price = entry
                   /\ e.account = m
                \/ /\ e.positions[i].status = "CLOSED"
                   /\ \E price \in Int :
                        LET fee == CostForFill(price * q) IN
                        e.account = CloseAccountPosition(m, price, fee,
                                      (price - entry) * q
                                        - (CostForFill(entry * q) + fee))
<1> DEFINE m      == MarkToMarket(d.account, bar.close)
           marked == [d EXCEPT !.account = m]
           q      == d.positions[i].quantity
           entry  == d.positions[i].entry_price
           signal == d.orders[d.positions[i].order].signal
           held   == d.positions[i].bars_held + 1
           counted == [marked EXCEPT !.positions[i].bars_held = held]
           e      == Managed(d, i, bar)
<1>1. /\ d \in Database /\ d.positions \in Seq(Position)
      /\ d.account \in Account /\ d.orders \in Seq(PaperOrder)
  BY DEF WellFormed, Database
<1>2. m \in Account
  <2>1. bar.close \in Int
    BY BarFields
  <2> QED
    BY <1>1, <2>1, MarkToMarketEffect
<1> HIDE DEF m
<1>3. /\ WellFormed(marked)
      /\ marked.account = m /\ marked.positions = d.positions /\ marked.orders = d.orders
      /\ marked.account_exists = d.account_exists
  BY <1>2, MarkedEffect
<1>4. signal.stop \in Int /\ signal.target \in Int /\ ExitPrice(bar.close) \in Int
  <2>1. d.positions[i].order \in DOMAIN d.orders
    BY DEF WellFormed, Linked
  <2>2. d.orders[d.positions[i].order] \in PaperOrder
    BY <2>1, <1>1, RowOfSeq
  <2>3. signal \in Signal
    BY <2>2 DEF PaperOrder
  <2> QED
    BY <2>3, SignalFields, BarFields, PriceInt
<1>5. \/ \E price \in Int, reason \in {"STOP", "TARGET", "EXPIRED", "END_OF_DATA"} :
           e = Closed(marked, i, price, reason)
      \/ e = marked
      \/ e = counted
  BY <1>4 DEF Managed, m
<1> HIDE DEF e
<1>6. CASE e = marked
  <2> HIDE DEF marked
  <2> QED
    BY <1>3, <1>6 DEF e, m
<1>7. CASE e = counted
  <2> DEFINE row == [d.positions[i] EXCEPT !.bars_held = held]
             P == [d.positions EXCEPT ![i] = row]
  <2>1. d.positions[i] \in Position
    BY <1>1, RowOfSeq
  <2>2. /\ row \in Position /\ row.status = d.positions[i].status
        /\ row.quantity = q /\ row.entry_price = entry
        /\ row.order = d.positions[i].order
    BY <2>1 DEF Position
  <2> HIDE DEF row
  <2>3. /\ P \in Seq(Position) /\ DOMAIN P = DOMAIN d.positions /\ P[i] = row
        /\ \A j \in DOMAIN d.positions \ {i} : P[j] = d.positions[j]
    BY <2>2, <1>1, ReplaceSeq
  <2>4. counted = [marked EXCEPT !.positions = P]
    BY <1>3 DEF row
  <2> HIDE DEF P, marked
  <2>5. /\ e \in Database /\ e.positions = P
        /\ e.account = m /\ e.orders = d.orders /\ e.account_exists = d.account_exists
    BY <1>3, <1>7, <2>3, <2>4 DEF WellFormed, Database
  <2>6. Linked(e)
    BY <2>2, <2>3, <2>5 DEF WellFormed, Linked
  <2> QED
    BY <2>2, <2>3, <2>5, <2>6 DEF WellFormed, e, m
<1>8. CASE \E price \in Int, reason \in {"STOP", "TARGET", "EXPIRED", "END_OF_DATA"} :
             e = Closed(marked, i, price, reason)
  <2> HIDE DEF marked
  <2>1. PICK price \in Int, reason \in {"STOP", "TARGET", "EXPIRED", "END_OF_DATA"} :
          e = Closed(marked, i, price, reason)
    BY <1>8
  <2> DEFINE fee == CostForFill(price * q)
             net_pnl == (price - entry) * q - (CostForFill(entry * q) + fee)
  <2>2. /\ WellFormed(e)
        /\ DOMAIN e.positions = DOMAIN d.positions
        /\ \A j \in DOMAIN d.positions \ {i} : e.positions[j] = d.positions[j]
        /\ e.positions[i].status = "CLOSED"
        /\ e.account = CloseAccountPosition(m, price, fee, net_pnl)
        /\ e.account_exists = d.account_exists
    BY <1>3, <2>1, ClosedEffect
  <2> QED
    BY <2>2 DEF e, m
<1> QED
  BY <1>5, <1>6, <1>7, <1>8

LEMMA OldestIsRow ==
  ASSUME NEW rows, rows \subseteq Nat, rows # {} PROVE Oldest(rows) \in rows
<1>1. \E i \in rows : \A j \in rows : ~(<<j, i>> \in OpToRel(<, Nat))
  BY NatLessThanWellFounded, WFMin
<1>2. PICK i \in rows : \A j \in rows : ~(<<j, i>> \in OpToRel(<, Nat))
  BY <1>1
<1>3. ASSUME NEW j \in rows PROVE i <= j
  <2>1. <<j, i>> \in Nat \X Nat /\ <<j, i>>[1] = j /\ <<j, i>>[2] = i
    OBVIOUS
  <2>2. ~(j < i)
    BY <1>2, <2>1, Zenon DEF OpToRel
  <2> QED
    BY <2>2
<1> QED
  BY <1>3 DEF Oldest

LEMMA ActiveRows ==
  ASSUME NEW d, WellFormed(d), NEW x
  PROVE  /\ PendingOrders(d, x) # {} => Oldest(PendingOrders(d, x)) \in PendingOrders(d, x)
         /\ OpenPositions(d, x) # {} => Oldest(OpenPositions(d, x)) \in OpenPositions(d, x)
<1>1. d.orders \in Seq(PaperOrder) /\ d.positions \in Seq(Position)
  BY DEF WellFormed, Database
<1>2. DOMAIN d.orders \subseteq Nat /\ DOMAIN d.positions \subseteq Nat
  BY <1>1, LenProperties
<1>3. PendingOrders(d, x) \subseteq Nat /\ OpenPositions(d, x) \subseteq Nat
  BY <1>2 DEF PendingOrders, OpenPositions
<1> QED
  BY <1>3, OldestIsRow

\* The trading part of process_bar does nothing, manages an open position or
\* fills a pending order and manages the position just opened.
LEMMA TradedCases ==
  ASSUME NEW d, WellFormed(d), NEW x, NEW bar, NEW is_fresh \in BOOLEAN,
         NEW allow_new_fill \in BOOLEAN
  PROVE  LET e == Traded(d, x, bar, is_fresh, allow_new_fill) IN
         \/ e = d
         \/ \E i \in OpenPositions(d, x) : e = Managed(d, i, bar)
         \/ /\ WouldFill(d, x, is_fresh, allow_new_fill)
            /\ Oldest(PendingOrders(d, x)) \in PendingOrders(d, x)
            /\ e = Managed(Filled(d, Oldest(PendingOrders(d, x)), bar),
                           Len(d.positions) + 1, bar)
  BY ActiveRows DEF Traded, WouldFill

LEMMA TradedWellFormed ==
  ASSUME NEW d, WellFormed(d), NEW x, NEW bar \in BarShape, NEW is_fresh \in BOOLEAN,
         NEW allow_new_fill \in BOOLEAN
  PROVE  LET e == Traded(d, x, bar, is_fresh, allow_new_fill)
         IN  WellFormed(e) /\ e.account_exists = d.account_exists
<1> DEFINE e == Traded(d, x, bar, is_fresh, allow_new_fill)
           i == Oldest(PendingOrders(d, x))
           f == Filled(d, i, bar)
<1>1. CASE e = d
  BY <1>1
<1>2. CASE \E k \in OpenPositions(d, x) : e = Managed(d, k, bar)
  BY <1>2, ManagedEffect DEF OpenPositions
<1>3. CASE i \in PendingOrders(d, x) /\ e = Managed(f, Len(d.positions) + 1, bar)
  <2>1. i \in DOMAIN d.orders
    BY <1>3 DEF PendingOrders
  <2>2. /\ WellFormed(f) /\ Len(d.positions) + 1 \in DOMAIN f.positions
        /\ f.account_exists = d.account_exists
    BY <2>1, FilledEffect
  <2> HIDE DEF f
  <2> QED
    BY <1>3, <2>2, ManagedEffect
<1> QED
  BY <1>1, <1>2, <1>3, TradedCases

-----------------------------------------------------------------------------
(* Type correctness *)

\* The inductive invariant: an action reads orders through the positions
\* that refer to them, so the tables must be linked for it to be typed.
TypeInv == TypeOK /\ Linked(db)

\* The database after process_bar, and after close_at_end_of_data.
AfterBar(x, t, bar, is_fresh, allow_new_fill) ==
  [Traded([db EXCEPT !.account = RollToDay(db.account, Day(t))], x, bar, is_fresh,
          allow_new_fill) EXCEPT !.bar_cursor[x] = t]
AfterEndOfData(x, bar) ==
  Closed([db EXCEPT !.account = db.account], Oldest(OpenPositions(db, x)),
         ExitPrice(bar.close), "END_OF_DATA")

\* What a step of any process does to the database.
DatabaseStep ==
  \/ db' = db
  \/ /\ \E p \in Proc : mem[p].state = "creating"
     /\ db' = [db EXCEPT !.account = NewAccount, !.account_exists = TRUE]
  \/ \E s \in Signal \ db.signals : db' = Submitted(db, s, db.account)
  \/ \E x \in Symbol, t \in 1 .. MaxTime, bar \in BarShape, is_fresh \in BOOLEAN,
        allow_new_fill \in BOOLEAN :
       /\ t > db.bar_cursor[x]
       /\ ~FillRaises(db, x, is_fresh, allow_new_fill)
       /\ db' = AfterBar(x, t, bar, is_fresh, allow_new_fill)
  \/ \E x \in Symbol, bar \in BarShape :
       /\ OpenPositions(db, x) # {}
       /\ db' = AfterEndOfData(x, bar)

LEMMA NextIsDatabaseStep == ASSUME TypeInv, Next PROVE DatabaseStep
<1> USE DEF DatabaseStep, Refreshed
<1> PICK p \in Proc :
      \/ Start(p) \/ CreateAccount(p) \/ Crash(p) \/ RefreshAccount(p)
      \/ \E s \in Signal : LookUp(p, s)
      \/ Submit(p)
      \/ \E x \in Symbol, t \in 1 .. MaxTime : SkipBar(p, x, t) \/ FailBar(p, x, t)
      \/ \E x \in Symbol, t \in 1 .. MaxTime, bar \in BarShape,
            is_fresh \in BOOLEAN, allow_new_fill \in BOOLEAN :
           ProcessBar(p, x, t, bar, is_fresh, allow_new_fill)
      \/ \E x \in Symbol, bar \in BarShape : CloseAtEndOfData(p, x, bar)
  BY DEF Next
<1>1. CASE Start(p) \/ Crash(p) \/ RefreshAccount(p) \/ \E s \in Signal : LookUp(p, s)
  BY <1>1 DEF Start, Crash, RefreshAccount, LookUp
<1>2. CASE CreateAccount(p)
  BY <1>2 DEF CreateAccount
<1>3. CASE Submit(p)
  BY <1>3 DEF Submit, TypeInv, TypeOK
<1>4. CASE \E x \in Symbol, t \in 1 .. MaxTime : SkipBar(p, x, t) \/ FailBar(p, x, t)
  BY <1>4 DEF SkipBar, FailBar
<1>5. CASE \E x \in Symbol, t \in 1 .. MaxTime, bar \in BarShape,
              is_fresh \in BOOLEAN, allow_new_fill \in BOOLEAN :
             ProcessBar(p, x, t, bar, is_fresh, allow_new_fill)
  <2>1. PICK x \in Symbol, t \in 1 .. MaxTime, bar \in BarShape,
             is_fresh \in BOOLEAN, allow_new_fill \in BOOLEAN :
               ProcessBar(p, x, t, bar, is_fresh, allow_new_fill)
    BY <1>5
  <2>2. /\ t > db.bar_cursor[x]
        /\ ~FillRaises(db, x, is_fresh, allow_new_fill)
        /\ db' = AfterBar(x, t, bar, is_fresh, allow_new_fill)
    BY <2>1, Zenon DEF ProcessBar, NewBar, AfterBar
  <2> QED
    BY <2>2, Zenon
<1>6. CASE \E x \in Symbol, bar \in BarShape : CloseAtEndOfData(p, x, bar)
  BY <1>6 DEF CloseAtEndOfData, AfterEndOfData
<1> QED
  BY <1>1, <1>2, <1>3, <1>4, <1>5, <1>6

LEMMA DatabaseStepType == ASSUME TypeInv, DatabaseStep PROVE WellFormed(db')
<1>1. /\ WellFormed(db) /\ db \in Database /\ db.account \in Account
  BY DEF TypeInv, TypeOK, WellFormed, Database
<1>2. CASE db' = db
  BY <1>1, <1>2
<1>3. CASE db' = [db EXCEPT !.account = NewAccount, !.account_exists = TRUE]
  <2> DEFINE e == [db EXCEPT !.account = NewAccount, !.account_exists = TRUE]
  <2>1. e \in Database /\ e.positions = db.positions /\ e.orders = db.orders
    BY <1>1, NewAccountType DEF Database
  <2> HIDE DEF e
  <2>2. WellFormed(e)
    BY <1>1, <2>1 DEF WellFormed, Linked
  <2> QED
    BY <1>3, <2>2 DEF e
<1>4. CASE \E s \in Signal : db' = Submitted(db, s, db.account)
  BY <1>1, <1>4, SubmittedEffect
<1>5. ASSUME NEW x \in Symbol, NEW t \in 1 .. MaxTime, NEW bar \in BarShape,
             NEW is_fresh \in BOOLEAN, NEW allow_new_fill \in BOOLEAN,
             db' = AfterBar(x, t, bar, is_fresh, allow_new_fill)
      PROVE  WellFormed(db')
  <2> DEFINE a      == RollToDay(db.account, Day(t))
             rolled == [db EXCEPT !.account = a]
             e      == Traded(rolled, x, bar, is_fresh, allow_new_fill)
  <2>1. Day(t) \in Int /\ t \in Nat
    BY DivInt, BookAssumption DEF Day
  <2>2. a \in Account
    BY <1>1, <2>1, RollToDayEffect
  <2> HIDE DEF a
  <2>3. WellFormed(rolled)
    BY <1>1, <2>2, MarkedEffect
  <2> HIDE DEF rolled
  <2>4. WellFormed(e)
    BY <2>3, TradedWellFormed
  <2>5. db' = [e EXCEPT !.bar_cursor[x] = t]
    BY <1>5 DEF AfterBar, rolled, a
  <2> HIDE DEF e
  <2>6. db' \in Database /\ db'.positions = e.positions /\ db'.orders = e.orders
    BY <2>1, <2>4, <2>5 DEF WellFormed, Database
  <2> QED
    BY <2>4, <2>6 DEF WellFormed, Linked
<1>6. ASSUME NEW x \in Symbol, NEW bar \in BarShape, OpenPositions(db, x) # {},
             db' = AfterEndOfData(x, bar)
      PROVE  WellFormed(db')
  <2> DEFINE d == [db EXCEPT !.account = db.account]
             i == Oldest(OpenPositions(db, x))
  <2>1. WellFormed(d) /\ d.positions = db.positions
    BY <1>1, MarkedEffect
  <2>2. i \in DOMAIN d.positions
    BY <1>1, <1>6, <2>1, ActiveRows DEF OpenPositions
  <2>3. ExitPrice(bar.close) \in Int
    BY BarFields, PriceInt
  <2> HIDE DEF d, i
  <2>4. WellFormed(Closed(d, i, ExitPrice(bar.close), "END_OF_DATA"))
    BY <2>1, <2>2, <2>3, ClosedEffect
  <2> QED
    BY <1>6, <2>4 DEF AfterEndOfData, d, i
<1>7. CASE \E x \in Symbol, t \in 1 .. MaxTime, bar \in BarShape,
              is_fresh \in BOOLEAN, allow_new_fill \in BOOLEAN :
             /\ ~FillRaises(db, x, is_fresh, allow_new_fill)
             /\ db' = AfterBar(x, t, bar, is_fresh, allow_new_fill)
  BY <1>5, <1>7
<1>8. CASE \E x \in Symbol, bar \in BarShape :
             /\ OpenPositions(db, x) # {}
             /\ db' = AfterEndOfData(x, bar)
  BY <1>6, <1>8
<1> QED
  BY <1>2, <1>3, <1>4, <1>7, <1>8 DEF DatabaseStep

LEMMA MemoryType ==
  ASSUME TypeInv, Next
  PROVE  mem' \in [Proc -> Engine] /\ looked' \in [Proc -> SUBSET Signal]
<1>1. /\ WellFormed(db) /\ db \in Database /\ db.account \in Account
      /\ mem \in [Proc -> Engine] /\ looked \in [Proc -> SUBSET Signal]
  BY DEF TypeInv, TypeOK, WellFormed, Database
<1>2. \A a \in Account : Up(a) \in Engine
  BY DEF Up, Engine
<1>3. /\ DownEngine \in Engine
      /\ [state |-> "creating", account |-> NewAccount] \in Engine
  BY NewAccountType DEF DownEngine, Engine
<1>4. ASSUME NEW t \in 1 .. MaxTime PROVE RollToDay(db.account, Day(t)) \in Account
  <2>1. Day(t) \in Int
    BY DivInt, BookAssumption DEF Day
  <2> QED
    BY <1>1, <2>1, RollToDayEffect
<1> USE DEF Refreshed
<1>5. ASSUME NEW p \in Proc, Start(p)
      PROVE  mem' \in [Proc -> Engine] /\ looked' \in [Proc -> SUBSET Signal]
  BY <1>1, <1>2, <1>3, <1>5 DEF Start
<1>6. ASSUME NEW p \in Proc, CreateAccount(p)
      PROVE  mem' \in [Proc -> Engine] /\ looked' \in [Proc -> SUBSET Signal]
  BY <1>1, <1>2, <1>6, NewAccountType DEF CreateAccount
<1>7. ASSUME NEW p \in Proc, Crash(p)
      PROVE  mem' \in [Proc -> Engine] /\ looked' \in [Proc -> SUBSET Signal]
  BY <1>1, <1>3, <1>7 DEF Crash
<1>8. ASSUME NEW p \in Proc, RefreshAccount(p)
      PROVE  mem' \in [Proc -> Engine] /\ looked' \in [Proc -> SUBSET Signal]
  BY <1>1, <1>2, <1>8 DEF RefreshAccount
<1>9. ASSUME NEW p \in Proc, NEW s \in Signal, LookUp(p, s)
      PROVE  mem' \in [Proc -> Engine] /\ looked' \in [Proc -> SUBSET Signal]
  BY <1>1, <1>9 DEF LookUp
<1>10. ASSUME NEW p \in Proc, Submit(p)
       PROVE  mem' \in [Proc -> Engine] /\ looked' \in [Proc -> SUBSET Signal]
  <2>1. mem' = [mem EXCEPT ![p] = Up(db.account)] /\ looked' = [looked EXCEPT ![p] = {}]
    BY <1>10, Zenon DEF Submit
  <2> QED
    BY <1>1, <1>2, <2>1
<1>11. ASSUME NEW p \in Proc, NEW x \in Symbol, NEW t \in 1 .. MaxTime, SkipBar(p, x, t)
       PROVE  mem' \in [Proc -> Engine] /\ looked' \in [Proc -> SUBSET Signal]
  BY <1>1, <1>2, <1>11 DEF SkipBar
<1>12. ASSUME NEW p \in Proc, NEW x \in Symbol, NEW t \in 1 .. MaxTime, FailBar(p, x, t)
       PROVE  mem' \in [Proc -> Engine] /\ looked' \in [Proc -> SUBSET Signal]
  BY <1>1, <1>2, <1>4, <1>12 DEF FailBar
<1>13. ASSUME NEW p \in Proc, NEW x \in Symbol, NEW t \in 1 .. MaxTime,
              NEW bar \in BarShape, NEW is_fresh \in BOOLEAN,
              NEW allow_new_fill \in BOOLEAN,
              ProcessBar(p, x, t, bar, is_fresh, allow_new_fill)
       PROVE  mem' \in [Proc -> Engine] /\ looked' \in [Proc -> SUBSET Signal]
  <2> DEFINE e == Traded([db EXCEPT !.account = RollToDay(db.account, Day(t))], x, bar,
                         is_fresh, allow_new_fill)
  <2>1. WellFormed([db EXCEPT !.account = RollToDay(db.account, Day(t))])
    BY <1>1, <1>4, MarkedEffect
  <2>2. e.account \in Account
    BY <2>1, TradedWellFormed DEF WellFormed, Database
  <2>3. mem' = [mem EXCEPT ![p] = Up(e.account)] /\ looked' = looked
    BY <1>13, Zenon DEF ProcessBar
  <2> HIDE DEF e
  <2> QED
    BY <1>1, <1>2, <2>2, <2>3
<1>14. ASSUME NEW p \in Proc, NEW x \in Symbol, NEW bar \in BarShape,
              CloseAtEndOfData(p, x, bar), db'.account \in Account
       PROVE  mem' \in [Proc -> Engine] /\ looked' \in [Proc -> SUBSET Signal]
  <2>1. mem' = [mem EXCEPT ![p] = Up(db'.account)] /\ looked' = looked
    BY <1>14, Zenon DEF CloseAtEndOfData
  <2> QED
    BY <1>1, <1>2, <1>14, <2>1
<1>15. db'.account \in Account
  BY NextIsDatabaseStep, DatabaseStepType DEF WellFormed, Database
<1> QED
  BY <1>5, <1>6, <1>7, <1>8, <1>9, <1>10, <1>11, <1>12, <1>13, <1>14, <1>15 DEF Next

\* A step of one process leaves the submissions of the others alone.
LEMMA InFlightKept ==
  ASSUME TypeInv, Next PROVE \A q \in Proc : OneInFlight(q)'
<1>1. /\ mem \in [Proc -> Engine] /\ looked \in [Proc -> SUBSET Signal]
      /\ \A q \in Proc : OneInFlight(q)
  BY DEF TypeInv, TypeOK
<1>2. \A a : Up(a).state = "up"
  BY DEF Up
<1> PICK p \in Proc :
      \/ Start(p) \/ CreateAccount(p) \/ Crash(p) \/ RefreshAccount(p)
      \/ \E s \in Signal : LookUp(p, s)
      \/ Submit(p)
      \/ \E x \in Symbol, t \in 1 .. MaxTime : SkipBar(p, x, t) \/ FailBar(p, x, t)
      \/ \E x \in Symbol, t \in 1 .. MaxTime, bar \in BarShape,
            is_fresh \in BOOLEAN, allow_new_fill \in BOOLEAN :
           ProcessBar(p, x, t, bar, is_fresh, allow_new_fill)
      \/ \E x \in Symbol, bar \in BarShape : CloseAtEndOfData(p, x, bar)
  BY DEF Next
<1>3. ASSUME NEW e, mem' = [mem EXCEPT ![p] = e],
             \/ looked' = looked /\ looked[p] = {}
             \/ looked' = looked /\ e.state = "up"
             \/ looked' = [looked EXCEPT ![p] = {}]
      PROVE  \A q \in Proc : OneInFlight(q)'
  <2>1. /\ mem'[p] = e /\ looked'[p] \in {{}, looked[p]}
        /\ looked'[p] = {} \/ (looked'[p] = looked[p] /\ e.state = "up")
        /\ \A q \in Proc \ {p} : mem'[q] = mem[q] /\ looked'[q] = looked[q]
    BY <1>1, <1>3
  <2>2. OneInFlight(p)'
    BY <1>1, <2>1 DEF OneInFlight
  <2>3. \A q \in Proc \ {p} : OneInFlight(q)'
    BY <1>1, <2>1 DEF OneInFlight
  <2> QED
    BY <2>2, <2>3
<1>4. CASE Start(p)
  <2>1. mem[p].state = "down" /\ looked' = looked
    BY <1>4 DEF Start
  <2>2. looked[p] = {}
    BY <1>1, <2>1 DEF OneInFlight
  <2> QED
    BY <1>3, <1>4, <2>1, <2>2 DEF Start
<1>5. CASE CreateAccount(p)
  BY <1>2, <1>3, <1>5 DEF CreateAccount
<1>6. CASE Crash(p)
  BY <1>3, <1>6 DEF Crash
<1>7. CASE RefreshAccount(p)
  BY <1>3, <1>7 DEF RefreshAccount, Idle
<1>8. ASSUME NEW s \in Signal, LookUp(p, s) PROVE \A q \in Proc : OneInFlight(q)'
  <2>1. /\ mem' = mem /\ mem[p].state = "up" /\ looked'[p] = {s}
        /\ \A q \in Proc \ {p} : looked'[q] = looked[q]
    BY <1>1, <1>8 DEF LookUp, Idle
  <2> QED
    BY <1>1, <2>1 DEF OneInFlight
<1>9. CASE Submit(p)
  <2>1. mem' = [mem EXCEPT ![p] = Up(Refreshed(p))] /\ looked' = [looked EXCEPT ![p] = {}]
    BY <1>9, Zenon DEF Submit
  <2> QED
    BY <1>3, <2>1
<1>10. CASE \E x \in Symbol, t \in 1 .. MaxTime : SkipBar(p, x, t) \/ FailBar(p, x, t)
  <2>1. looked[p] = {} /\ looked' = looked /\ \E a : mem' = [mem EXCEPT ![p] = Up(a)]
    BY <1>10, Zenon DEF SkipBar, FailBar, NewBar, Idle
  <2> QED
    BY <1>3, <2>1
<1>11. CASE \E x \in Symbol, t \in 1 .. MaxTime, bar \in BarShape,
               is_fresh \in BOOLEAN, allow_new_fill \in BOOLEAN :
              ProcessBar(p, x, t, bar, is_fresh, allow_new_fill)
  <2>1. looked[p] = {} /\ looked' = looked /\ \E a : mem' = [mem EXCEPT ![p] = Up(a)]
    BY <1>11, Zenon DEF ProcessBar, NewBar, Idle
  <2> QED
    BY <1>3, <2>1
<1>12. CASE \E x \in Symbol, bar \in BarShape : CloseAtEndOfData(p, x, bar)
  <2>1. looked[p] = {} /\ looked' = looked /\ \E a : mem' = [mem EXCEPT ![p] = Up(a)]
    BY <1>12, Zenon DEF CloseAtEndOfData, Idle
  <2> QED
    BY <1>3, <2>1
<1> QED
  BY <1>4, <1>5, <1>6, <1>7, <1>8, <1>9, <1>10, <1>11, <1>12

LEMMA InitTypeInv == Init => TypeInv
<1> SUFFICES ASSUME Init PROVE TypeInv
  OBVIOUS
<1>1. EmptyDatabase \in Database
  <2>1. NoEntry \in JournalEntry
    BY DEF NoEntry, JournalEntry, JournalOutcome
  <2> QED
    BY <2>1, NewAccountType, BookAssumption, EmptySeq DEF EmptyDatabase, Database
<1>2. Linked(EmptyDatabase)
  BY DEF Linked, EmptyDatabase
<1>3. DownEngine \in Engine
  BY NewAccountType DEF DownEngine, Engine
<1> QED
  BY <1>1, <1>2, <1>3 DEF Init, TypeInv, TypeOK, OneInFlight

LEMMA NextTypeInv == TypeInv /\ [Next]_vars => TypeInv'
<1> SUFFICES ASSUME TypeInv, [Next]_vars PROVE TypeInv'
  OBVIOUS
<1>1. CASE Next
  <2>1. WellFormed(db')
    BY <1>1, NextIsDatabaseStep, DatabaseStepType
  <2> QED
    BY <1>1, <2>1, MemoryType, InFlightKept DEF TypeInv, TypeOK, WellFormed, Linked
<1>2. CASE UNCHANGED vars
  BY <1>2 DEF vars, TypeInv, TypeOK, Linked, OneInFlight
<1> QED
  BY <1>1, <1>2

\* Whatever the processes do, every table of the store holds rows of its
\* type, every process an engine of its type and at most one submission, and
\* none once it is down.
THEOREM TypeCorrect == Spec => []TypeOK
<1>1. TypeInv => TypeOK
  BY DEF TypeInv
<1> QED
  BY <1>1, InitTypeInv, NextTypeInv, PTL DEF Spec

-----------------------------------------------------------------------------
(* The account and the tables stay in step, for every number of processes, *)
(* symbols and signals, provided the account row exists when the processes *)
(* start or there is only one process.  (Without that proviso they do not: *)
(* two first starts can erase what the other has traded.)                  *)

\* AccountHoldsThePosition and CashConserved, of any database.
Fits(d) ==
  IF d.account.quantity = 0 THEN OpenPositionIds(d) = {}
  ELSE \E i \in OpenPositionIds(d) :
         /\ OpenPositionIds(d) = {i}
         /\ d.account.quantity = d.positions[i].quantity
         /\ d.account.entry_price = d.positions[i].entry_price

Balanced(a) ==
  a.cash = InitialCapital + a.realized_pnl
             - (IF a.quantity = 0 THEN 0
                ELSE a.quantity * a.entry_price
                       + CostForFill(a.quantity * a.entry_price))

Sound(d) == WellFormed(d) /\ Fits(d) /\ Balanced(d.account)

-----------------------------------------------------------------------------
(* The account alone *)

\* Accounts that agree on what is held and on the money balance alike.
LEMMA BalancedAlike ==
  ASSUME NEW a, NEW b, Balanced(a),
         b.quantity = a.quantity, b.entry_price = a.entry_price,
         b.cash = a.cash, b.realized_pnl = a.realized_pnl
  PROVE  Balanced(b)
  BY DEF Balanced

\* The fee charged at the fill is the fee the balance expects.
LEMMA OpenBalanced ==
  ASSUME NEW a \in Account, Balanced(a), NEW q \in Nat, CanOpen(a, q), NEW price \in Int
  PROVE  Balanced(OpenAccountPosition(a, q, price, CostForFill(q * price)))
<1> DEFINE fee == CostForFill(q * price)
           b   == OpenAccountPosition(a, q, price, fee)
<1>1. q * price \in Int
  OBVIOUS
<1>2. fee \in Int
  BY <1>1, CostInt
<1>3. /\ b.quantity = q /\ b.entry_price = price
      /\ b.cash = a.cash - (q * price + fee) /\ b.realized_pnl = a.realized_pnl
  BY <1>2, OpenAccountEffect
<1>4. a.cash = InitialCapital + a.realized_pnl /\ q # 0
  BY DEF CanOpen, Balanced, Account
<1>5. a.realized_pnl \in Int /\ InitialCapital \in Int
  BY InitialCapitalAssumption DEF Account
<1> HIDE DEF b
<1>6. /\ b.quantity # 0
      /\ b.cash = InitialCapital + b.realized_pnl
                    - (b.quantity * b.entry_price + CostForFill(b.quantity * b.entry_price))
  <2> DEFINE cost == q * price
  <2> HIDE DEF cost, fee
  <2>1. b.cash = InitialCapital + a.realized_pnl - (cost + fee)
    BY <1>1, <1>2, <1>3, <1>4, <1>5 DEF cost
  <2> QED
    BY <2>1, <1>3, <1>4 DEF cost, fee
<1> QED
  BY <1>6 DEF Balanced, b

\* The two fees of a round trip, computed again when the position closes,
\* are the ones the account was charged.
LEMMA CloseBalanced ==
  ASSUME NEW a \in Account, Balanced(a), a.quantity # 0, NEW price \in Int
  PROVE  LET q     == a.quantity
             entry == a.entry_price
             fee   == CostForFill(price * q)
         IN  Balanced(CloseAccountPosition(a, price, fee,
                        (price - entry) * q - (CostForFill(entry * q) + fee)))
<1> DEFINE q       == a.quantity
           entry   == a.entry_price
           fee     == CostForFill(price * q)
           paid    == CostForFill(entry * q)
           net_pnl == (price - entry) * q - (paid + fee)
           b       == CloseAccountPosition(a, price, fee, net_pnl)
<1>1. /\ q \in Nat /\ entry \in Int /\ a.cash \in Int /\ a.realized_pnl \in Int
      /\ InitialCapital \in Int
  BY InitialCapitalAssumption DEF Account
<1>2. price * q \in Int /\ entry * q \in Int /\ (price - entry) * q \in Int
  BY <1>1
<1>3. fee \in Int /\ paid \in Int
  BY <1>2, CostInt
<1>4. net_pnl \in Int
  <2> HIDE DEF fee, paid
  <2> QED
    BY <1>2, <1>3
<1>5. /\ b.quantity = 0
      /\ b.cash = a.cash + (q * price - fee) /\ b.realized_pnl = a.realized_pnl + net_pnl
  <2> HIDE DEF net_pnl, fee
  <2> QED
    BY <1>3, <1>4, CloseAccountEffect
<1>6. q * entry = entry * q /\ q * price = price * q
      /\ (price - entry) * q = price * q - entry * q
  BY <1>1
<1>7. a.cash = InitialCapital + a.realized_pnl - (entry * q + paid)
  BY <1>6 DEF Balanced
<1> HIDE DEF b
<1>8. b.cash = InitialCapital + b.realized_pnl
  <2> DEFINE x == price * q
             y == entry * q
  <2>1. net_pnl = x - y - (paid + fee) /\ x \in Int /\ y \in Int
    BY <1>2, <1>6
  <2>2. b.cash = a.cash + (x - fee)
    BY <1>5, <1>6
  <2>3. a.cash = InitialCapital + a.realized_pnl - (y + paid)
    BY <1>7
  <2> HIDE DEF x, y, net_pnl, fee, paid
  <2> QED
    BY <2>1, <2>2, <2>3, <1>1, <1>3, <1>5
<1>9. Balanced(b)
  <2>1. b.realized_pnl \in Int
    <3> HIDE DEF net_pnl
    <3> QED BY <1>1, <1>4, <1>5
  <2> QED
    BY <1>1, <1>5, <1>8, <2>1 DEF Balanced
<1> QED
  BY <1>9 DEF b

-----------------------------------------------------------------------------
(* The operators of a transaction *)

\* An account change that moves no money and no holding keeps a database sound.
LEMMA MarkedSound ==
  ASSUME NEW d, Sound(d), NEW account \in Account,
         account.quantity = d.account.quantity,
         account.entry_price = d.account.entry_price,
         account.cash = d.account.cash,
         account.realized_pnl = d.account.realized_pnl
  PROVE  Sound([d EXCEPT !.account = account])
<1> DEFINE e == [d EXCEPT !.account = account]
<1>1. WellFormed(e) /\ e.account = account /\ e.positions = d.positions
  BY MarkedEffect DEF Sound
<1> HIDE DEF e
<1>2. Balanced(e.account)
  BY <1>1, BalancedAlike DEF Sound
<1>3. Fits(e)
  BY <1>1 DEF Sound, Fits, OpenPositionIds
<1> QED
  BY <1>1, <1>2, <1>3 DEF Sound, e

LEMMA SubmittedSound ==
  ASSUME NEW d, Sound(d), NEW s \in Signal, NEW account \in Account
  PROVE  Sound(Submitted(d, s, account))
<1> DEFINE e == Submitted(d, s, account)
<1>1. WellFormed(e) /\ e.account = d.account /\ e.positions = d.positions
  BY SubmittedEffect DEF Sound
<1> HIDE DEF e
<1> QED
  BY <1>1 DEF Sound, Fits, OpenPositionIds, e

LEMMA FilledSound ==
  ASSUME NEW d, Sound(d), NEW i \in DOMAIN d.orders, NEW bar \in BarShape,
         CanOpen(d.account, d.orders[i].quantity)
  PROVE  /\ Sound(Filled(d, i, bar))
         /\ Len(d.positions) + 1 \in OpenPositionIds(Filled(d, i, bar))
<1> DEFINE e     == Filled(d, i, bar)
           n     == Len(d.positions) + 1
           q     == d.orders[i].quantity
           price == EntryPrice(bar.open)
<1>1. d.account \in Account /\ d.orders \in Seq(PaperOrder)
  BY DEF Sound, WellFormed, Database
<1>2. q \in Nat
  <2>1. d.orders[i] \in PaperOrder
    BY <1>1, RowOfSeq
  <2> QED
    BY <2>1 DEF PaperOrder
<1>3. price \in Int
  BY BarFields, PriceInt
<1>4. /\ WellFormed(e)
      /\ DOMAIN e.positions = DOMAIN d.positions \cup {n}
      /\ n \notin DOMAIN d.positions
      /\ \A j \in DOMAIN d.positions : e.positions[j] = d.positions[j]
      /\ e.positions[n].status = "OPEN" /\ e.positions[n].quantity = q
      /\ e.positions[n].entry_price = price
      /\ e.account = OpenAccountPosition(d.account, q, price, CostForFill(q * price))
  BY FilledEffect DEF Sound
<1>5. CostForFill(q * price) \in Int
  <2>1. q * price \in Int
    BY <1>2, <1>3
  <2> QED
    BY <2>1, CostInt
<1>6. e.account.quantity = q /\ e.account.entry_price = price
  BY <1>1, <1>2, <1>3, <1>4, <1>5, OpenAccountEffect
<1>7. Balanced(e.account)
  BY <1>1, <1>2, <1>3, <1>4, OpenBalanced DEF Sound
<1>8. OpenPositionIds(d) = {}
  BY DEF Sound, Fits, CanOpen
<1> HIDE DEF e, n, price
<1>9. OpenPositionIds(e) = {n}
  BY <1>4, <1>8 DEF OpenPositionIds
<1>10. Fits(e)
  <2>1. q # 0
    BY <1>2 DEF CanOpen
  <2> QED
    BY <2>1, <1>4, <1>6, <1>9 DEF Fits
<1> QED
  BY <1>4, <1>7, <1>9, <1>10 DEF Sound, e, n

\* An open position is the one the account holds.
LEMMA OpenIsHeld ==
  ASSUME NEW d, Fits(d), NEW i \in OpenPositionIds(d)
  PROVE  /\ OpenPositionIds(d) = {i} /\ d.account.quantity # 0
         /\ d.account.quantity = d.positions[i].quantity
         /\ d.account.entry_price = d.positions[i].entry_price
  BY DEF Fits

LEMMA ManagedSound ==
  ASSUME NEW d, Sound(d), NEW i \in OpenPositionIds(d), NEW bar \in BarShape
  PROVE  Sound(Managed(d, i, bar))
<1> DEFINE e     == Managed(d, i, bar)
           m     == MarkToMarket(d.account, bar.close)
           q     == d.positions[i].quantity
           entry == d.positions[i].entry_price
<1>1. d.account \in Account /\ i \in DOMAIN d.positions /\ d.positions[i].status = "OPEN"
  BY DEF Sound, WellFormed, Database, OpenPositionIds
<1>2. /\ OpenPositionIds(d) = {i} /\ q # 0
      /\ d.account.quantity = q /\ d.account.entry_price = entry
  BY OpenIsHeld DEF Sound
<1>3. /\ m \in Account /\ m.quantity = q /\ m.entry_price = entry
      /\ m.cash = d.account.cash /\ m.realized_pnl = d.account.realized_pnl
  <2>1. bar.close \in Int
    BY BarFields
  <2> QED
    BY <1>1, <1>2, <2>1, MarkToMarketEffect
<1>4. Balanced(m)
  BY <1>2, <1>3, BalancedAlike DEF Sound
<1>5. /\ WellFormed(e)
      /\ DOMAIN e.positions = DOMAIN d.positions
      /\ \A j \in DOMAIN d.positions \ {i} : e.positions[j] = d.positions[j]
      /\ \/ /\ e.positions[i].status = d.positions[i].status
            /\ e.positions[i].quantity = q
            /\ e.positions[i].entry_price = entry
            /\ e.account = m
         \/ /\ e.positions[i].status = "CLOSED"
            /\ \E price \in Int :
                 LET fee == CostForFill(price * q) IN
                 e.account = CloseAccountPosition(m, price, fee,
                               (price - entry) * q - (CostForFill(entry * q) + fee))
  BY <1>1, ManagedEffect DEF Sound
<1> HIDE DEF e, m
<1>6. CASE /\ e.positions[i].status = d.positions[i].status
           /\ e.positions[i].quantity = q
           /\ e.positions[i].entry_price = entry
           /\ e.account = m
  <2>1. OpenPositionIds(e) = {i}
    BY <1>1, <1>2, <1>5, <1>6 DEF OpenPositionIds
  <2>2. Fits(e)
    BY <2>1, <1>2, <1>3, <1>6 DEF Fits
  <2> QED
    BY <2>2, <1>4, <1>5, <1>6 DEF Sound, e
<1>7. CASE /\ e.positions[i].status = "CLOSED"
           /\ \E price \in Int :
                LET fee == CostForFill(price * q) IN
                e.account = CloseAccountPosition(m, price, fee,
                              (price - entry) * q - (CostForFill(entry * q) + fee))
  <2>1. PICK price \in Int :
          LET fee == CostForFill(price * q) IN
          e.account = CloseAccountPosition(m, price, fee,
                        (price - entry) * q - (CostForFill(entry * q) + fee))
    BY <1>7
  <2>2. Balanced(e.account)
    BY <2>1, <1>2, <1>3, <1>4, CloseBalanced
  <2>3. e.account.quantity = 0
    <3> DEFINE fee     == CostForFill(price * q)
               net_pnl == (price - entry) * q - (CostForFill(entry * q) + fee)
    <3>1. q \in Nat /\ entry \in Int
      BY <1>3 DEF Account
    <3>2. price * q \in Int /\ entry * q \in Int /\ (price - entry) * q \in Int
      BY <3>1
    <3>3. fee \in Int /\ CostForFill(entry * q) \in Int
      BY <3>2, CostInt
    <3>4. net_pnl \in Int
      <4> HIDE DEF fee
      <4> QED BY <3>2, <3>3
    <3>5. e.account = CloseAccountPosition(m, price, fee, net_pnl)
      BY <2>1
    <3> HIDE DEF fee, net_pnl
    <3> QED
      BY <1>3, <3>3, <3>4, <3>5, CloseAccountEffect
  <2>4. OpenPositionIds(e) = {}
    BY <1>2, <1>5, <1>7 DEF OpenPositionIds
  <2> QED
    BY <2>2, <2>3, <2>4, <1>5 DEF Sound, Fits, e
<1> QED
  BY <1>5, <1>6, <1>7

LEMMA TradedSound ==
  ASSUME NEW d, Sound(d), NEW x, NEW bar \in BarShape, NEW is_fresh \in BOOLEAN,
         NEW allow_new_fill \in BOOLEAN, ~FillRaises(d, x, is_fresh, allow_new_fill)
  PROVE  Sound(Traded(d, x, bar, is_fresh, allow_new_fill))
<1> DEFINE e == Traded(d, x, bar, is_fresh, allow_new_fill)
           i == Oldest(PendingOrders(d, x))
           f == Filled(d, i, bar)
           n == Len(d.positions) + 1
<1>1. CASE e = d
  BY <1>1
<1>2. CASE \E k \in OpenPositions(d, x) : e = Managed(d, k, bar)
  BY <1>2, ManagedSound DEF OpenPositions, OpenPositionIds
<1>3. CASE /\ WouldFill(d, x, is_fresh, allow_new_fill)
           /\ i \in PendingOrders(d, x) /\ e = Managed(f, n, bar)
  <2>1. i \in DOMAIN d.orders /\ CanOpen(d.account, d.orders[i].quantity)
    BY <1>3 DEF FillRaises, PendingOrders
  <2>2. Sound(f) /\ n \in OpenPositionIds(f)
    BY <2>1, FilledSound
  <2> HIDE DEF f, n
  <2>3. Sound(Managed(f, n, bar))
    BY <2>2, ManagedSound
  <2> QED
    BY <1>3, <2>3
<1> QED
  BY <1>1, <1>2, <1>3, TradedCases DEF Sound

LEMMA EndClosedSound ==
  ASSUME NEW d, Sound(d), NEW i \in OpenPositionIds(d), NEW price \in Int,
         NEW reason \in {"STOP", "TARGET", "EXPIRED", "END_OF_DATA"}
  PROVE  Sound(Closed(d, i, price, reason))
<1> DEFINE e       == Closed(d, i, price, reason)
           q       == d.positions[i].quantity
           entry   == d.positions[i].entry_price
           fee     == CostForFill(price * q)
           net_pnl == (price - entry) * q - (CostForFill(entry * q) + fee)
<1>1. WellFormed(d) /\ d.account \in Account /\ i \in DOMAIN d.positions
  BY DEF Sound, WellFormed, Database, OpenPositionIds
<1>2. /\ OpenPositionIds(d) = {i} /\ d.account.quantity # 0
      /\ d.account.quantity = q /\ d.account.entry_price = entry
  BY OpenIsHeld DEF Sound
<1>3. /\ WellFormed(e)
      /\ DOMAIN e.positions = DOMAIN d.positions
      /\ \A j \in DOMAIN d.positions \ {i} : e.positions[j] = d.positions[j]
      /\ e.positions[i].status = "CLOSED"
      /\ e.account = CloseAccountPosition(d.account, price, fee, net_pnl)
  BY <1>1, ClosedEffect
<1>4. Balanced(e.account)
  <2> HIDE DEF e
  <2> QED
    BY <1>1, <1>2, <1>3, CloseBalanced DEF Sound
<1>5. e.account.quantity = 0
  <2>1. q \in Nat /\ entry \in Int
    BY <1>1, <1>2 DEF Account
  <2>2. price * q \in Int /\ entry * q \in Int /\ (price - entry) * q \in Int
    BY <2>1
  <2>3. fee \in Int /\ CostForFill(entry * q) \in Int
    BY <2>2, CostInt
  <2>4. net_pnl \in Int
    <3> HIDE DEF fee
    <3> QED BY <2>2, <2>3
  <2> HIDE DEF e, fee, net_pnl
  <2> QED
    BY <1>1, <1>3, <2>3, <2>4, CloseAccountEffect
<1> HIDE DEF e, net_pnl, fee
<1>6. OpenPositionIds(e) = {}
  BY <1>2, <1>3 DEF OpenPositionIds
<1> QED
  BY <1>3, <1>4, <1>5, <1>6 DEF Sound, Fits, e

-----------------------------------------------------------------------------
(* The invariant *)

\* Where no two processes can start on a database without an account row.
StartsAlone == AccountRowAtStart \/ \A p, q \in Proc : p = q

\* A process that is between reading that there is no account row and writing
\* one replaces no account that is traded on: until the row is there nobody
\* works on the database.
FirstStart ==
  /\ AccountRowAtStart => db.account_exists
  /\ ~db.account_exists => db = EmptyDatabase /\ \A p \in Proc : mem[p].state # "up"
  /\ \A p \in Proc : mem[p].state = "creating" => ~db.account_exists
  /\ \A p \in Proc : looked[p] # {} => mem[p].state = "up"

AccountInv ==
  /\ StartsAlone
  /\ TypeInv /\ FirstStart
  /\ Fits(db) /\ Balanced(db.account)

LEMMA InitAccountInv == StartsAlone /\ Init => AccountInv
<1> SUFFICES ASSUME StartsAlone, Init PROVE AccountInv
  OBVIOUS
<1>1. TypeInv
  BY InitTypeInv
<1>2. db = EmptyDatabase /\ mem = [p \in Proc |-> DownEngine] /\ looked = [p \in Proc |-> {}]
  BY DEF Init
<1>3. Balanced(NewAccount)
  BY InitialCapitalAssumption DEF Balanced, NewAccount
<1>4. Fits(EmptyDatabase)
  BY DEF Fits, OpenPositionIds, EmptyDatabase, NewAccount
<1> QED
  BY <1>1, <1>2, <1>3, <1>4 DEF AccountInv, FirstStart, EmptyDatabase, DownEngine

LEMMA DatabaseStepSound ==
  ASSUME AccountInv, DatabaseStep
  PROVE  Sound(db') /\ (db.account_exists => db'.account_exists)
<1>1. /\ WellFormed(db) /\ Sound(db) /\ db.account \in Account /\ db \in Database
  BY DEF AccountInv, TypeInv, TypeOK, WellFormed, Database, Sound
<1>2. CASE db' = db
  BY <1>1, <1>2
<1>3. CASE /\ \E p \in Proc : mem[p].state = "creating"
           /\ db' = [db EXCEPT !.account = NewAccount, !.account_exists = TRUE]
  <2>1. db.account = NewAccount
    BY <1>3 DEF AccountInv, FirstStart, EmptyDatabase
  <2>2. /\ db'.account = NewAccount /\ db'.positions = db.positions
        /\ db'.account_exists
    BY <1>1, <1>3 DEF Database
  <2>3. WellFormed(db')
    BY DatabaseStepType DEF AccountInv
  <2> QED
    BY <1>1, <2>1, <2>2, <2>3 DEF Sound, Fits, OpenPositionIds
<1>4. ASSUME NEW s \in Signal, db' = Submitted(db, s, db.account)
      PROVE  Sound(db') /\ (db.account_exists => db'.account_exists)
  BY <1>1, <1>4, SubmittedSound, SubmittedEffect
<1>5. ASSUME NEW x \in Symbol, NEW t \in 1 .. MaxTime, NEW bar \in BarShape,
             NEW is_fresh \in BOOLEAN, NEW allow_new_fill \in BOOLEAN,
             ~FillRaises(db, x, is_fresh, allow_new_fill),
             db' = AfterBar(x, t, bar, is_fresh, allow_new_fill)
      PROVE  Sound(db') /\ (db.account_exists => db'.account_exists)
  <2> DEFINE a      == RollToDay(db.account, Day(t))
             rolled == [db EXCEPT !.account = a]
             e      == Traded(rolled, x, bar, is_fresh, allow_new_fill)
  <2>1. Day(t) \in Int
    BY DivInt, BookAssumption DEF Day
  <2>2. /\ a \in Account
        /\ a.quantity = db.account.quantity /\ a.entry_price = db.account.entry_price
        /\ a.cash = db.account.cash /\ a.realized_pnl = db.account.realized_pnl
    BY <1>1, <2>1, RollToDayEffect
  <2> HIDE DEF a
  <2>3. /\ Sound(rolled) /\ WellFormed(rolled) /\ rolled.account = a
        /\ rolled.positions = db.positions /\ rolled.orders = db.orders
        /\ rolled.account_exists = db.account_exists
    BY <1>1, <2>2, MarkedSound, MarkedEffect
  <2> HIDE DEF rolled
  <2>4. ~FillRaises(rolled, x, is_fresh, allow_new_fill)
    BY <1>5, <2>2, <2>3
       DEF FillRaises, WouldFill, CanOpen, PendingOrders, OpenPositions, SymbolOfPosition
  <2>5. Sound(e) /\ WellFormed(e) /\ e.account_exists = db.account_exists
    BY <1>1, <2>3, <2>4, TradedSound, TradedWellFormed
  <2>6. db' = [e EXCEPT !.bar_cursor[x] = t]
    BY <1>5 DEF AfterBar, rolled, a
  <2>7. WellFormed(db')
    BY DatabaseStepType DEF AccountInv
  <2> HIDE DEF e
  <2>8. /\ db'.positions = e.positions /\ db'.account = e.account
        /\ db'.account_exists = e.account_exists
    BY <2>5, <2>6 DEF WellFormed, Database
  <2> QED
    BY <2>5, <2>7, <2>8 DEF Sound, Fits, OpenPositionIds
<1>6. ASSUME NEW x \in Symbol, NEW bar \in BarShape, OpenPositions(db, x) # {},
             db' = AfterEndOfData(x, bar)
      PROVE  Sound(db') /\ (db.account_exists => db'.account_exists)
  <2> DEFINE d == [db EXCEPT !.account = db.account]
             i == Oldest(OpenPositions(db, x))
  <2>1. d = db
    BY <1>1 DEF Database
  <2>2. i \in OpenPositionIds(db) /\ i \in DOMAIN db.positions
    BY <1>1, <1>6, ActiveRows DEF OpenPositions, OpenPositionIds
  <2>3. ExitPrice(bar.close) \in Int
    BY BarFields, PriceInt
  <2> HIDE DEF i
  <2>4. db' = Closed(db, i, ExitPrice(bar.close), "END_OF_DATA")
    BY <1>6, <2>1 DEF AfterEndOfData, i
  <2> QED
    BY <1>1, <2>2, <2>3, <2>4, EndClosedSound, ClosedEffect
<1>7. CASE \E s \in Signal : db' = Submitted(db, s, db.account)
  BY <1>4, <1>7
<1>8. CASE \E x \in Symbol, t \in 1 .. MaxTime, bar \in BarShape, is_fresh \in BOOLEAN,
             allow_new_fill \in BOOLEAN :
             /\ ~FillRaises(db, x, is_fresh, allow_new_fill)
             /\ db' = AfterBar(x, t, bar, is_fresh, allow_new_fill)
  BY <1>5, <1>8
<1>9. CASE \E x \in Symbol, bar \in BarShape :
             /\ OpenPositions(db, x) # {}
             /\ db' = AfterEndOfData(x, bar)
  BY <1>6, <1>9
<1> QED
  BY <1>2, <1>3, <1>7, <1>8, <1>9 DEF DatabaseStep

LEMMA FirstStartKept ==
  ASSUME AccountInv, Next PROVE FirstStart'
<1>1. /\ mem \in [Proc -> Engine] /\ looked \in [Proc -> SUBSET Signal] /\ FirstStart
      /\ StartsAlone
  BY DEF AccountInv, TypeInv, TypeOK
<1>2. DownEngine.state = "down" /\ \A a : Up(a).state = "up"
  BY DEF DownEngine, Up
<1>3. db.account_exists => db'.account_exists
  BY NextIsDatabaseStep, DatabaseStepSound DEF AccountInv
<1>4. PICK p \in Proc :
        \/ Start(p) \/ CreateAccount(p) \/ Crash(p) \/ RefreshAccount(p)
        \/ \E s \in Signal : LookUp(p, s)
        \/ Submit(p)
        \/ \E x \in Symbol, t \in 1 .. MaxTime : SkipBar(p, x, t) \/ FailBar(p, x, t)
        \/ \E x \in Symbol, t \in 1 .. MaxTime, bar \in BarShape,
              is_fresh \in BOOLEAN, allow_new_fill \in BOOLEAN :
             ProcessBar(p, x, t, bar, is_fresh, allow_new_fill)
        \/ \E x \in Symbol, bar \in BarShape : CloseAtEndOfData(p, x, bar)
  BY DEF Next
\* Every other step is of a process that is up, which leaves it up.
<1>5. ASSUME mem[p].state = "up",
             mem' = mem \/ \E a : mem' = [mem EXCEPT ![p] = Up(a)],
             \A q \in Proc \ {p} : looked'[q] = looked[q]
      PROVE  FirstStart'
  <2>1. mem'[p].state = "up" /\ \A q \in Proc \ {p} : mem'[q] = mem[q]
    BY <1>1, <1>2, <1>5
  <2>2. db.account_exists /\ db'.account_exists
    BY <1>1, <1>3, <1>5 DEF FirstStart
  <2> QED
    BY <1>1, <1>5, <2>1, <2>2 DEF FirstStart
<1>6. CASE Start(p)
  <2>1. mem[p].state = "down" /\ db' = db /\ looked' = looked
    BY <1>6 DEF Start
  <2>2. CASE db.account_exists
    <3>1. mem' = [mem EXCEPT ![p] = Up(db.account)]
      BY <1>6, <2>2 DEF Start
    <3> QED
      BY <1>1, <1>2, <2>1, <2>2, <3>1 DEF FirstStart
  <2>3. CASE ~db.account_exists
    <3>1. mem' = [mem EXCEPT ![p] = [state |-> "creating", account |-> NewAccount]]
      BY <1>6, <2>3 DEF Start
    <3>2. mem'[p].state = "creating" /\ \A q \in Proc \ {p} : mem'[q] = mem[q]
      BY <1>1, <3>1
    <3> QED
      BY <1>1, <2>1, <2>3, <3>2 DEF FirstStart
  <2> QED
    BY <2>2, <2>3
<1>7. CASE CreateAccount(p)
  <2>1. /\ mem[p].state = "creating" /\ looked' = looked
        /\ db' = [db EXCEPT !.account = NewAccount, !.account_exists = TRUE]
        /\ mem' = [mem EXCEPT ![p] = Up(NewAccount)]
    BY <1>7 DEF CreateAccount
  <2>2. ~db.account_exists
    BY <1>1, <2>1 DEF FirstStart
  <2>3. \A q \in Proc : q = p
    BY <1>1, <2>2 DEF FirstStart, StartsAlone
  <2>4. db'.account_exists
    BY <2>1 DEF AccountInv, TypeInv, TypeOK, Database
  <2>5. mem'[p].state = "up"
    BY <1>1, <1>2, <2>1
  <2> QED
    BY <2>3, <2>4, <2>5 DEF FirstStart
<1>8. CASE Crash(p)
  <2>1. /\ db' = db /\ mem' = [mem EXCEPT ![p] = DownEngine]
        /\ looked' = [looked EXCEPT ![p] = {}]
    BY <1>8 DEF Crash
  <2>2. /\ mem'[p].state = "down" /\ looked'[p] = {}
        /\ \A q \in Proc \ {p} : mem'[q] = mem[q] /\ looked'[q] = looked[q]
    BY <1>1, <1>2, <2>1
  <2> QED
    BY <1>1, <2>1, <2>2 DEF FirstStart
<1>9. CASE RefreshAccount(p)
  BY <1>5, <1>9 DEF RefreshAccount, Idle
<1>10. ASSUME NEW s \in Signal, LookUp(p, s)
       PROVE  FirstStart'
  <2>1. \A q \in Proc \ {p} : looked'[q] = looked[q]
    BY <1>1, <1>10 DEF LookUp
  <2> QED
    BY <1>5, <1>10, <2>1 DEF LookUp, Idle
<1>11. CASE Submit(p)
  <2>1. mem' = [mem EXCEPT ![p] = Up(db.account)] /\ looked' = [looked EXCEPT ![p] = {}]
    BY <1>11, Zenon DEF Submit, Refreshed
  <2>2. looked[p] # {}
    BY <1>11 DEF Submit
  <2>3. mem[p].state = "up"
    BY <1>1, <2>2 DEF FirstStart
  <2>4. \A q \in Proc \ {p} : looked'[q] = looked[q]
    BY <1>1, <2>1
  <2> QED
    BY <1>5, <2>1, <2>3, <2>4
<1>12. ASSUME NEW x \in Symbol, NEW t \in 1 .. MaxTime, SkipBar(p, x, t) \/ FailBar(p, x, t)
       PROVE  FirstStart'
  <2>1. mem[p].state = "up" /\ looked' = looked /\ \E a : mem' = [mem EXCEPT ![p] = Up(a)]
    BY <1>12, Zenon DEF SkipBar, FailBar, NewBar, Idle
  <2> QED
    BY <1>5, <2>1
<1>13. ASSUME NEW x \in Symbol, NEW t \in 1 .. MaxTime, NEW bar \in BarShape,
              NEW is_fresh \in BOOLEAN, NEW allow_new_fill \in BOOLEAN,
              ProcessBar(p, x, t, bar, is_fresh, allow_new_fill)
       PROVE  FirstStart'
  <2>1. mem[p].state = "up" /\ looked' = looked /\ \E a : mem' = [mem EXCEPT ![p] = Up(a)]
    BY <1>13, Zenon DEF ProcessBar, NewBar, Idle
  <2> QED
    BY <1>5, <2>1
<1>14. ASSUME NEW x \in Symbol, NEW bar \in BarShape, CloseAtEndOfData(p, x, bar)
       PROVE  FirstStart'
  <2>1. mem[p].state = "up" /\ looked' = looked /\ \E a : mem' = [mem EXCEPT ![p] = Up(a)]
    BY <1>14, Zenon DEF CloseAtEndOfData, Idle
  <2> QED
    BY <1>5, <2>1
<1> QED
  BY <1>4, <1>6, <1>7, <1>8, <1>9, <1>10, <1>11, <1>12, <1>13, <1>14

LEMMA NextAccountInv == AccountInv /\ [Next]_vars => AccountInv'
<1> SUFFICES ASSUME AccountInv, [Next]_vars PROVE AccountInv'
  OBVIOUS
<1>1. TypeInv'
  BY NextTypeInv DEF AccountInv
<1>2. CASE Next
  <2>1. DatabaseStep
    BY <1>2, NextIsDatabaseStep DEF AccountInv
  <2> QED
    BY <1>1, <1>2, <2>1, DatabaseStepSound, FirstStartKept DEF AccountInv, Sound, Fits,
       OpenPositionIds, Balanced
<1>3. CASE UNCHANGED vars
  <2>1. FirstStart'
    BY <1>3, Zenon DEF vars, AccountInv, FirstStart
  <2> QED
    BY <1>1, <1>3, <2>1 DEF vars, AccountInv, Fits, OpenPositionIds, Balanced
<1> QED
  BY <1>2, <1>3

\* Where no two processes can start without an account row, the account is
\* flat exactly when no position of any symbol is open, and otherwise carries
\* the quantity and entry price of the only open one, however submissions and
\* bars of all processes interleave.
THEOREM AccountInStep == StartsAlone /\ Spec => []AccountHoldsThePosition
<1>1. AccountInv => AccountHoldsThePosition
  BY DEF AccountInv, Fits, AccountHoldsThePosition
<1> QED
  BY <1>1, InitAccountInv, NextAccountInv, PTL DEF Spec

\* Under the same proviso cash is always the initial capital plus the
\* realized profit, less what the open position cost with its entry fee.
THEOREM CashIsConserved == StartsAlone /\ Spec => []CashConserved
<1>1. AccountInv => CashConserved
  BY DEF AccountInv, Balanced, CashConserved
<1> QED
  BY <1>1, InitAccountInv, NextAccountInv, PTL DEF Spec

-----------------------------------------------------------------------------
(* The journal against the tables.  JournalMatchesBook speaks of sets of   *)
(* rows; Truthful follows the references in both directions, so that a     *)
(* step that rewrites one row is checked at that row.                      *)

OrderEntry(d, i)    == d.journal[d.orders[i].signal]
PositionEntry(d, i) == OrderEntry(d, d.positions[i].order)

\* The rows an entry names exist and refer back to it.
EntryHasRows(d, s) ==
  LET entry == d.journal[s] IN
  /\ s \in d.signals <=> entry.outcome # "NONE"
  /\ entry.outcome \in Ordered =>
       entry.order \in DOMAIN d.orders /\ d.orders[entry.order].signal = s
  /\ entry.outcome \in WithPosition =>
       /\ entry.position \in DOMAIN d.positions
       /\ d.positions[entry.position].order = entry.order
  /\ entry.outcome = "APPROVED_FILLED_CLOSED" =>
       /\ entry.trade \in DOMAIN d.trades
       /\ d.trades[entry.trade].position = entry.position

\* Every row is the one its entry names, in the state the outcome says.
OrderHasEntry(d, i) ==
  LET entry == OrderEntry(d, i) IN
  /\ entry.order = i /\ entry.outcome \in Ordered
  /\ d.orders[i].status = "PENDING" <=> entry.outcome = "APPROVED_PENDING"

PositionHasEntry(d, i) ==
  LET entry == PositionEntry(d, i) IN
  /\ entry.position = i /\ entry.outcome \in WithPosition
  /\ d.positions[i].status = "CLOSED" <=> entry.outcome = "APPROVED_FILLED_CLOSED"

TradeHasEntry(d, i) ==
  /\ d.trades[i].position \in DOMAIN d.positions
  /\ LET entry == PositionEntry(d, d.trades[i].position) IN
     entry.trade = i /\ entry.outcome = "APPROVED_FILLED_CLOSED"

Truthful(d) ==
  /\ WellFormed(d)
  /\ \A s \in Signal : EntryHasRows(d, s)
  /\ \A i \in DOMAIN d.orders : OrderHasEntry(d, i)
  /\ \A i \in DOMAIN d.positions : PositionHasEntry(d, i)
  /\ \A i \in DOMAIN d.trades : TradeHasEntry(d, i)

-----------------------------------------------------------------------------
(* The rows each operator writes *)

LEMMA TableTypes ==
  ASSUME NEW d, WellFormed(d)
  PROVE  /\ d \in Database
         /\ d.orders \in Seq(PaperOrder) /\ d.fills \in Seq(PaperFill)
         /\ d.positions \in Seq(Position) /\ d.trades \in Seq(Trade)
         /\ d.journal \in [Signal -> JournalEntry] /\ d.account \in Account
         /\ d.signals \subseteq Signal /\ d.bar_cursor \in [Symbol -> Nat]
  BY DEF WellFormed, Database

LEMMA RowTypes ==
  ASSUME NEW d, WellFormed(d)
  PROVE  /\ \A i \in DOMAIN d.orders :
              d.orders[i] \in PaperOrder /\ d.orders[i].signal \in Signal
         /\ \A i \in DOMAIN d.positions :
              /\ d.positions[i] \in Position
              /\ d.positions[i].order \in DOMAIN d.orders
              /\ d.orders[d.positions[i].order].signal \in Signal
         /\ \A i \in DOMAIN d.trades : d.trades[i] \in Trade
<1>1. ASSUME NEW i \in DOMAIN d.orders
      PROVE  d.orders[i] \in PaperOrder /\ d.orders[i].signal \in Signal
  <2>1. d.orders[i] \in PaperOrder
    BY TableTypes, RowOfSeq
  <2> QED
    BY <2>1 DEF PaperOrder
<1>2. ASSUME NEW i \in DOMAIN d.positions
      PROVE  d.positions[i] \in Position /\ d.positions[i].order \in DOMAIN d.orders
  BY TableTypes, RowOfSeq DEF WellFormed, Linked
<1>3. ASSUME NEW i \in DOMAIN d.trades PROVE d.trades[i] \in Trade
  BY TableTypes, RowOfSeq
<1> QED
  BY <1>1, <1>2, <1>3

\* A table that grew by one row, and a table with one row replaced.
Grew(old, new) ==
  /\ Len(new) = Len(old) + 1 /\ DOMAIN new = DOMAIN old \cup {Len(old) + 1}
  /\ Len(old) + 1 \notin DOMAIN old
  /\ \A i \in DOMAIN old : new[i] = old[i]

Rewrote(old, new, i) ==
  /\ Len(new) = Len(old) /\ DOMAIN new = DOMAIN old
  /\ \A j \in DOMAIN old \ {i} : new[j] = old[j]

LEMMA AppendGrew ==
  ASSUME NEW S, NEW seq \in Seq(S), NEW e \in S
  PROVE  Grew(seq, Append(seq, e)) /\ Append(seq, e)[Len(seq) + 1] = e
  BY AppendSeq DEF Grew

LEMMA ExceptRewrote ==
  ASSUME NEW S, NEW seq \in Seq(S), NEW i \in DOMAIN seq, NEW e \in S
  PROVE  Rewrote(seq, [seq EXCEPT ![i] = e], i) /\ [seq EXCEPT ![i] = e][i] = e
  BY ReplaceSeq DEF Rewrote

\* submit_signal writes the signal, its entry and, when it approves, an order.
SubmitWrites(d, e, s, account) ==
  LET n == Len(d.orders) + 1 IN
  /\ WellFormed(e)
  /\ e.signals = d.signals \cup {s}
  /\ e.positions = d.positions /\ e.fills = d.fills /\ e.trades = d.trades
  /\ e.bar_cursor = d.bar_cursor
  /\ \A r \in Signal \ {s} : e.journal[r] = d.journal[r]
  /\ \/ /\ e.journal[s].outcome \in {"REJECTED", "SKIPPED_ALREADY_ACTIVE"}
        /\ e.orders = d.orders
     \/ /\ Evaluate(s, account).approved /\ ~AlreadyActive(d, s.symbol)
        /\ e.journal[s].outcome = "APPROVED_PENDING" /\ e.journal[s].order = n
        /\ Grew(d.orders, e.orders)
        /\ e.orders[n].signal = s /\ e.orders[n].status = "PENDING"
        /\ e.orders[n].quantity = Evaluate(s, account).quantity

LEMMA SubmittedRows ==
  ASSUME NEW d, WellFormed(d), NEW s \in Signal, NEW account \in Account
  PROVE  SubmitWrites(d, Submitted(d, s, account), s, account)
<1> DEFINE n == Len(d.orders) + 1
           decision == Evaluate(s, account)
           entry(outcome, order) ==
             [outcome |-> outcome, order |-> order, position |-> 0, trade |-> 0]
           known == [d EXCEPT !.signals = @ \cup {s}]
           rejected == [known EXCEPT !.journal[s] = entry("REJECTED", 0)]
           skipped == [known EXCEPT !.journal[s] = entry("SKIPPED_ALREADY_ACTIVE", 0)]
           order == [signal |-> s, quantity |-> decision.quantity, status |-> "PENDING"]
           pending == [known EXCEPT
                         !.orders = Append(@, order),
                         !.journal[s] = entry("APPROVED_PENDING", n)]
           e == Submitted(d, s, account)
<1>1. decision.quantity \in Nat
  BY SignalFields, EvaluateSafe
<1>2. /\ known \in Database /\ known.orders = d.orders /\ known.positions = d.positions
      /\ known.fills = d.fills /\ known.trades = d.trades
      /\ known.bar_cursor = d.bar_cursor /\ known.journal = d.journal
      /\ known.signals = d.signals \cup {s}
  BY DEF WellFormed, Database
<1>3. d.journal \in [Signal -> JournalEntry]
  BY TableTypes
<1>4. Grew(d.orders, Append(d.orders, order)) /\ Append(d.orders, order)[n] = order
  <2>1. order \in PaperOrder
    BY <1>1 DEF PaperOrder
  <2> HIDE DEF order
  <2> QED
    BY <2>1, TableTypes, AppendGrew
<1>5. \/ e = rejected
      \/ e = skipped
      \/ decision.approved /\ ~AlreadyActive(d, s.symbol) /\ e = pending
  BY DEF Submitted
<1>6. WellFormed(e)
  BY SubmittedEffect
<1>7. order.signal = s /\ order.status = "PENDING" /\ order.quantity = decision.quantity
  OBVIOUS
<1>8. /\ entry("REJECTED", 0).outcome = "REJECTED"
      /\ entry("SKIPPED_ALREADY_ACTIVE", 0).outcome = "SKIPPED_ALREADY_ACTIVE"
      /\ entry("APPROVED_PENDING", n).outcome = "APPROVED_PENDING"
      /\ entry("APPROVED_PENDING", n).order = n
  OBVIOUS
<1> HIDE DEF decision, known, entry, order, e, n
<1>9. ASSUME NEW j, e = [known EXCEPT !.journal[s] = j]
      PROVE  /\ e.signals = d.signals \cup {s}
             /\ e.positions = d.positions /\ e.fills = d.fills /\ e.trades = d.trades
             /\ e.bar_cursor = d.bar_cursor
             /\ \A r \in Signal \ {s} : e.journal[r] = d.journal[r]
             /\ e.journal[s] = j /\ e.orders = d.orders
  BY <1>2, <1>3, <1>9 DEF Database
<1>10. ASSUME e = pending
       PROVE  /\ e.signals = d.signals \cup {s}
              /\ e.positions = d.positions /\ e.fills = d.fills /\ e.trades = d.trades
              /\ e.bar_cursor = d.bar_cursor
              /\ \A r \in Signal \ {s} : e.journal[r] = d.journal[r]
              /\ e.journal[s] = entry("APPROVED_PENDING", n)
              /\ e.orders = Append(d.orders, order)
  BY <1>2, <1>3, <1>10 DEF Database
<1>11. CASE e = rejected
  BY <1>6, <1>8, <1>9, <1>11 DEF e, SubmitWrites
<1>12. CASE e = skipped
  BY <1>6, <1>8, <1>9, <1>12 DEF e, SubmitWrites
<1>13. CASE decision.approved /\ ~AlreadyActive(d, s.symbol) /\ e = pending
  <2> HIDE DEF pending
  <2>1. e.orders[n].quantity = decision.quantity /\ e.orders = Append(d.orders, order)
    BY <1>4, <1>7, <1>10, <1>13
  <2>2. decision.approved /\ ~AlreadyActive(d, s.symbol)
    BY <1>13
  <2>3. /\ Evaluate(s, account).approved /\ ~AlreadyActive(d, s.symbol)
        /\ e.orders[n].quantity = Evaluate(s, account).quantity
    BY <2>1, <2>2 DEF decision
  <2> QED
    BY <1>4, <1>6, <1>7, <1>8, <1>10, <1>13, <2>3 DEF e, n, SubmitWrites
<1> QED
  BY <1>5, <1>11, <1>12, <1>13

\* A fill rewrites its order and its signal's entry, and adds a position and
\* a fill.
FillWrites(d, e, i) ==
  LET s == d.orders[i].signal
      n == Len(d.positions) + 1
  IN  /\ WellFormed(e)
      /\ e.signals = d.signals /\ e.trades = d.trades /\ e.bar_cursor = d.bar_cursor
      /\ Rewrote(d.orders, e.orders, i)
      /\ e.orders[i].signal = s /\ e.orders[i].status = "FILLED"
      /\ Grew(d.positions, e.positions) /\ Grew(d.fills, e.fills)
      /\ e.positions[n].order = i /\ e.positions[n].status = "OPEN"
      /\ e.fills[Len(d.fills) + 1].kind = "ENTRY"
      /\ e.fills[Len(d.fills) + 1].quantity = d.orders[i].quantity
      /\ \A r \in Signal \ {s} : e.journal[r] = d.journal[r]
      /\ e.journal[s].outcome = "APPROVED_FILLED_OPEN"
      /\ e.journal[s].position = n /\ e.journal[s].order = d.journal[s].order

LEMMA FilledRows ==
  ASSUME NEW d, WellFormed(d), NEW i \in DOMAIN d.orders, NEW bar \in BarShape
  PROVE  FillWrites(d, Filled(d, i, bar), i)
<1> DEFINE n     == Len(d.positions) + 1
           order == d.orders[i]
           s     == order.signal
           price == EntryPrice(bar.open)
           fill  == [order |-> i, kind |-> "ENTRY", quantity |-> order.quantity]
           row   == [order |-> i, status |-> "OPEN", quantity |-> order.quantity,
                     entry_price |-> price, bars_held |-> 0,
                     entry_fill |-> Len(d.fills) + 1, exit_fill |-> 0, trade |-> 0]
           done  == [order EXCEPT !.status = "FILLED"]
           entry == [d.journal[s] EXCEPT !.position = n,
                                         !.outcome = "APPROVED_FILLED_OPEN"]
           F == Append(d.fills, fill)
           O == [d.orders EXCEPT ![i] = done]
           P == Append(d.positions, row)
           A == OpenAccountPosition(d.account, order.quantity, price,
                                    CostForFill(order.quantity * price))
           J == [d.journal EXCEPT ![s] = entry]
           e == [d EXCEPT !.fills = F, !.orders = O, !.positions = P, !.account = A,
                          !.journal = J]
<1>1. /\ d \in Database /\ i \in Nat
      /\ d.fills \in Seq(PaperFill) /\ d.orders \in Seq(PaperOrder)
      /\ d.positions \in Seq(Position) /\ d.journal \in [Signal -> JournalEntry]
      /\ n \in Nat /\ Len(d.fills) + 1 \in Nat
  BY TableTypes, LenProperties
<1>2. order \in PaperOrder /\ order.quantity \in Nat /\ s \in Signal
  <2>1. order \in PaperOrder
    BY <1>1, RowOfSeq
  <2> QED
    BY <2>1 DEF PaperOrder
<1>3. price \in Int
  BY BarFields, PriceInt
<1>4. /\ Grew(d.fills, F) /\ F[Len(d.fills) + 1] = fill
      /\ fill.kind = "ENTRY" /\ fill.quantity = order.quantity
  <2>1. fill \in PaperFill
    BY <1>1, <1>2 DEF PaperFill
  <2>2. Grew(d.fills, F) /\ F[Len(d.fills) + 1] = fill
    <3> HIDE DEF fill
    <3> QED
      BY <2>1, <1>1, AppendGrew
  <2> QED
    BY <2>2
<1>5. /\ Rewrote(d.orders, O, i) /\ O[i] = done
      /\ done.signal = s /\ done.status = "FILLED"
  <2>1. done \in PaperOrder /\ done.signal = s /\ done.status = "FILLED"
    BY <1>2 DEF PaperOrder
  <2> QED
    BY <2>1, <1>1, ExceptRewrote
<1>6. /\ Grew(d.positions, P) /\ P[n] = row
      /\ row.order = i /\ row.status = "OPEN"
  <2>1. row \in Position /\ row.order = i /\ row.status = "OPEN"
    BY <1>1, <1>2, <1>3 DEF Position
  <2> HIDE DEF row
  <2> QED
    BY <2>1, <1>1, AppendGrew
<1>7. /\ \A r \in Signal \ {s} : J[r] = d.journal[r]
      /\ J[s].outcome = "APPROVED_FILLED_OPEN"
      /\ J[s].position = n /\ J[s].order = d.journal[s].order
  <2>1. d.journal[s] \in JournalEntry
    BY <1>1, <1>2
  <2>2. /\ entry.outcome = "APPROVED_FILLED_OPEN"
        /\ entry.position = n /\ entry.order = d.journal[s].order
    BY <2>1 DEF JournalEntry
  <2>3. J[s] = entry /\ \A r \in Signal \ {s} : J[r] = d.journal[r]
    BY <1>1, <1>2
  <2> HIDE DEF J, entry
  <2> QED
    BY <2>2, <2>3
<1>8. Filled(d, i, bar) = e
  BY DEF Filled
<1>9. WellFormed(Filled(d, i, bar))
  BY FilledEffect
<1> HIDE DEF F, O, P, A, J, row, done, price, n, s, fill
<1>10. /\ e.signals = d.signals /\ e.trades = d.trades
       /\ e.bar_cursor = d.bar_cursor
       /\ e.fills = F /\ e.orders = O /\ e.positions = P /\ e.journal = J
  BY <1>1 DEF Database
<1> HIDE DEF e
<1> QED
  BY <1>4, <1>5, <1>6, <1>7, <1>8, <1>9, <1>10 DEF n, s, FillWrites

\* A close rewrites its position and its signal's entry, and adds a trade and
\* a fill.
CloseWrites(d, e, i) ==
  LET k == d.positions[i].order
      s == d.orders[k].signal
      t == Len(d.trades) + 1
  IN  /\ WellFormed(e)
      /\ e.signals = d.signals /\ e.orders = d.orders /\ e.bar_cursor = d.bar_cursor
      /\ Rewrote(d.positions, e.positions, i)
      /\ e.positions[i].order = k /\ e.positions[i].status = "CLOSED"
      /\ Grew(d.trades, e.trades) /\ Grew(d.fills, e.fills)
      /\ e.trades[t].position = i
      /\ e.fills[Len(d.fills) + 1].kind = "EXIT"
      /\ e.fills[Len(d.fills) + 1].quantity = d.positions[i].quantity
      /\ \E price \in Int, fee \in Int :
           e.account = CloseAccountPosition(d.account, price, fee, e.trades[t].net_pnl)
      /\ \A r \in Signal \ {s} : e.journal[r] = d.journal[r]
      /\ e.journal[s].outcome = "APPROVED_FILLED_CLOSED" /\ e.journal[s].trade = t
      /\ e.journal[s].position = d.journal[s].position
      /\ e.journal[s].order = d.journal[s].order

LEMMA ClosedRows ==
  ASSUME NEW d, WellFormed(d), NEW i \in DOMAIN d.positions, NEW price \in Int,
         NEW reason \in {"STOP", "TARGET", "EXPIRED", "END_OF_DATA"}
  PROVE  CloseWrites(d, Closed(d, i, price, reason), i)
<1> DEFINE position == d.positions[i]
           s        == d.orders[position.order].signal
           q        == position.quantity
           entered  == position.entry_price
           fee      == CostForFill(price * q)
           net_pnl  == (price - entered) * q - (CostForFill(entered * q) + fee)
           t        == Len(d.trades) + 1
           fill  == [order |-> position.order, kind |-> "EXIT", quantity |-> q]
           trade == [position |-> i, net_pnl |-> net_pnl, reason |-> reason]
           row   == [position EXCEPT !.status = "CLOSED",
                                     !.exit_fill = Len(d.fills) + 1, !.trade = t]
           entry == [d.journal[s] EXCEPT !.trade = t,
                                         !.outcome = "APPROVED_FILLED_CLOSED"]
           F == Append(d.fills, fill)
           T == Append(d.trades, trade)
           P == [d.positions EXCEPT ![i] = row]
           A == CloseAccountPosition(d.account, price, fee, net_pnl)
           J == [d.journal EXCEPT ![s] = entry]
           e == [d EXCEPT !.fills = F, !.trades = T, !.positions = P, !.account = A,
                          !.journal = J]
<1>1. /\ d \in Database /\ i \in Nat
      /\ d.fills \in Seq(PaperFill) /\ d.positions \in Seq(Position)
      /\ d.trades \in Seq(Trade) /\ d.journal \in [Signal -> JournalEntry]
      /\ t \in Nat /\ Len(d.fills) + 1 \in Nat
  BY TableTypes, LenProperties
<1>2. /\ position \in Position /\ s \in Signal
      /\ q \in Nat /\ entered \in Int /\ position.order \in Nat
  <2>1. position \in Position /\ s \in Signal
    BY RowTypes
  <2> QED
    BY <2>1 DEF Position
<1>3. net_pnl \in Int /\ fee \in Int
  <2>1. price * q \in Int /\ entered * q \in Int /\ (price - entered) * q \in Int
    BY <1>2
  <2>2. fee \in Int /\ CostForFill(entered * q) \in Int
    BY <2>1, CostInt
  <2> QED
    BY <2>1, <2>2
<1>4. /\ Grew(d.fills, F) /\ F[Len(d.fills) + 1] = fill
      /\ fill.kind = "EXIT" /\ fill.quantity = q
  <2>1. fill \in PaperFill /\ fill.kind = "EXIT" /\ fill.quantity = q
    BY <1>2 DEF PaperFill
  <2> HIDE DEF fill
  <2> QED
    BY <2>1, <1>1, AppendGrew
<1>5. /\ Grew(d.trades, T) /\ T[t] = trade
      /\ trade.position = i /\ trade.net_pnl = net_pnl
  <2> HIDE DEF net_pnl
  <2>1. trade \in Trade /\ trade.position = i /\ trade.net_pnl = net_pnl
    BY <1>1, <1>3 DEF Trade
  <2> HIDE DEF trade
  <2> QED
    BY <2>1, <1>1, AppendGrew
<1>6. /\ Rewrote(d.positions, P, i) /\ P[i] = row
      /\ row.order = position.order /\ row.status = "CLOSED"
  <2> HIDE DEF position
  <2>1. row \in Position /\ row.order = position.order /\ row.status = "CLOSED"
    BY <1>1, <1>2 DEF Position
  <2> HIDE DEF row
  <2> QED
    BY <2>1, <1>1, ExceptRewrote
<1> HIDE DEF s
<1>7. /\ \A r \in Signal \ {s} : J[r] = d.journal[r]
      /\ J[s].outcome = "APPROVED_FILLED_CLOSED" /\ J[s].trade = t
      /\ J[s].position = d.journal[s].position /\ J[s].order = d.journal[s].order
  <2>1. d.journal[s] \in JournalEntry
    BY <1>1, <1>2
  <2>2. /\ entry.outcome = "APPROVED_FILLED_CLOSED" /\ entry.trade = t
        /\ entry.position = d.journal[s].position /\ entry.order = d.journal[s].order
    BY <2>1 DEF JournalEntry
  <2>3. J[s] = entry /\ \A r \in Signal \ {s} : J[r] = d.journal[r]
    BY <1>1, <1>2
  <2> HIDE DEF J, entry
  <2> QED
    BY <2>2, <2>3
<1>8. Closed(d, i, price, reason) = e
  BY DEF Closed, s
<1>9. WellFormed(Closed(d, i, price, reason))
  BY ClosedEffect
<1> HIDE DEF F, T, P, J, row, trade, t, fill
<1>10. /\ e.signals = d.signals /\ e.orders = d.orders
       /\ e.bar_cursor = d.bar_cursor
       /\ e.fills = F /\ e.trades = T /\ e.positions = P /\ e.journal = J
       /\ e.account = A
  <2> HIDE DEF A
  <2> QED
    BY <1>1 DEF Database
<1> HIDE DEF e
<1>11. \E p \in Int, f \in Int :
         e.account = CloseAccountPosition(d.account, p, f, e.trades[t].net_pnl)
  <2> HIDE DEF net_pnl, fee
  <2> QED
    BY <1>3, <1>5, <1>10
<1> HIDE DEF A, net_pnl, fee
<1> QED
  BY <1>4, <1>5, <1>6, <1>7, <1>8, <1>9, <1>10, <1>11 DEF t, s, CloseWrites

\* A change of the account, of bars_held of an open position or of a cursor,
\* forward, which is all a transaction changes besides the rows above.
Alike(d, e) ==
  /\ WellFormed(e)
  /\ e.orders = d.orders /\ e.fills = d.fills /\ e.trades = d.trades
  /\ e.journal = d.journal /\ e.signals = d.signals
  /\ Len(e.positions) = Len(d.positions) /\ DOMAIN e.positions = DOMAIN d.positions
  /\ \A i \in DOMAIN d.positions :
       /\ e.positions[i].order = d.positions[i].order
       /\ e.positions[i].status = d.positions[i].status
       /\ d.positions[i].status = "CLOSED" => e.positions[i] = d.positions[i]
  /\ \A x \in Symbol : e.bar_cursor[x] >= d.bar_cursor[x]

LEMMA CursorSame ==
  ASSUME NEW d, WellFormed(d) PROVE \A x \in Symbol : d.bar_cursor[x] >= d.bar_cursor[x]
  BY TableTypes

LEMMA MarkedAlike ==
  ASSUME NEW d, WellFormed(d), NEW account \in Account
  PROVE  Alike(d, [d EXCEPT !.account = account])
<1> DEFINE e == [d EXCEPT !.account = account]
<1>1. WellFormed(e)
  BY MarkedEffect
<1>2. /\ e.orders = d.orders /\ e.fills = d.fills /\ e.trades = d.trades
      /\ e.journal = d.journal /\ e.signals = d.signals
      /\ e.positions = d.positions /\ e.bar_cursor = d.bar_cursor
  BY DEF WellFormed, Database
<1> HIDE DEF e
<1> QED
  BY <1>1, <1>2, CursorSame DEF Alike, e

\* A bar leaves an open position as it was, counts one more bar held, or
\* closes it; in every case it first marks the account.
LEMMA ManagedCases ==
  ASSUME NEW d, WellFormed(d), NEW i \in OpenPositionIds(d), NEW bar \in BarShape
  PROVE  LET m == [d EXCEPT !.account = MarkToMarket(d.account, bar.close)]
             e == Managed(d, i, bar)
         IN  /\ Alike(d, m) /\ m.positions = d.positions /\ m.bar_cursor = d.bar_cursor
             /\ \/ /\ Alike(d, e) /\ e.bar_cursor = d.bar_cursor
                   /\ e.account = m.account
                \/ \E price \in Int, reason \in {"STOP", "TARGET", "EXPIRED", "END_OF_DATA"} :
                     e = Closed(m, i, price, reason)
<1> DEFINE m      == [d EXCEPT !.account = MarkToMarket(d.account, bar.close)]
           signal == d.orders[d.positions[i].order].signal
           held   == d.positions[i].bars_held + 1
           counted == [m EXCEPT !.positions[i].bars_held = held]
           e      == Managed(d, i, bar)
<1>1. /\ i \in DOMAIN d.positions /\ d.positions[i].status = "OPEN"
      /\ d.positions[i] \in Position /\ d.positions \in Seq(Position)
  BY TableTypes, RowTypes DEF OpenPositionIds
<1>2. Alike(d, m)
  <2>1. bar.close \in Int
    BY BarFields
  <2>2. MarkToMarket(d.account, bar.close) \in Account
    BY <2>1, TableTypes, MarkToMarketEffect
  <2> QED
    BY <2>2, MarkedAlike
<1>3. /\ m \in Database /\ m.positions = d.positions
      /\ m.bar_cursor = d.bar_cursor
  BY <1>2, TableTypes DEF Alike, WellFormed, Database
<1>4. signal.stop \in Int /\ signal.target \in Int /\ ExitPrice(bar.close) \in Int
  <2>1. signal \in Signal
    BY <1>1, RowTypes
  <2> HIDE DEF signal
  <2> QED
    BY <2>1, SignalFields, BarFields, PriceInt
<1>5. \/ \E price \in Int, reason \in {"STOP", "TARGET", "EXPIRED", "END_OF_DATA"} :
           e = Closed(m, i, price, reason)
      \/ e = m
      \/ e = counted
  BY <1>4 DEF Managed
<1>6. CASE e = counted
  <2> DEFINE row == [d.positions[i] EXCEPT !.bars_held = held]
             P == [d.positions EXCEPT ![i] = row]
  <2>1. /\ row \in Position
        /\ row.status = "OPEN" /\ row.order = d.positions[i].order
    <3> DEFINE old == d.positions[i]
    <3>1. old \in Position /\ old.status = "OPEN"
      BY <1>1
    <3> HIDE DEF old
    <3>2. old.bars_held + 1 \in Nat
      BY <3>1 DEF Position
    <3>3. /\ [old EXCEPT !.bars_held = old.bars_held + 1] \in Position
          /\ [old EXCEPT !.bars_held = old.bars_held + 1].status = "OPEN"
          /\ [old EXCEPT !.bars_held = old.bars_held + 1].order = old.order
      BY <3>1, <3>2 DEF Position
    <3> QED
      BY <3>3 DEF old
  <2>2. Rewrote(d.positions, P, i) /\ P[i] = row
    <3> HIDE DEF row
    <3> QED
      BY <1>1, <2>1, ExceptRewrote
  <2>3. counted = [m EXCEPT !.positions = P]
    BY <1>3
  <2> HIDE DEF P, m, row
  <2>4. /\ e.orders = m.orders /\ e.fills = m.fills /\ e.trades = m.trades
        /\ e.journal = m.journal /\ e.signals = m.signals
        /\ e.positions = P /\ e.bar_cursor = m.bar_cursor
        /\ e.account = m.account
    BY <1>3, <1>6, <2>3 DEF Database
  <2>5. WellFormed(e)
    BY <1>1, ManagedEffect
  <2> HIDE DEF e
  <2>6. Alike(d, e) /\ e.bar_cursor = d.bar_cursor /\ e.account = m.account
    BY <1>1, <1>2, <1>3, <2>1, <2>2, <2>4, <2>5, CursorSame DEF Alike, Rewrote
  <2> QED
    BY <1>2, <1>3, <2>6 DEF m, e
<1> QED
  BY <1>2, <1>3, <1>5, <1>6

-----------------------------------------------------------------------------
(* The journal tells the truth *)

LEMMA AlikeTruthful ==
  ASSUME NEW d, NEW e, Truthful(d), Alike(d, e) PROVE Truthful(e)
<1>1. /\ WellFormed(e) /\ WellFormed(d)
      /\ e.orders = d.orders /\ e.trades = d.trades
      /\ e.journal = d.journal /\ e.signals = d.signals
      /\ DOMAIN e.positions = DOMAIN d.positions
      /\ \A i \in DOMAIN d.positions :
           /\ e.positions[i].order = d.positions[i].order
           /\ e.positions[i].status = d.positions[i].status
  BY DEF Truthful, Alike
<1>2. ASSUME NEW s \in Signal PROVE EntryHasRows(e, s)
  <2>1. EntryHasRows(d, s)
    BY DEF Truthful
  <2> QED
    BY <1>1, <2>1 DEF EntryHasRows
<1>3. ASSUME NEW i \in DOMAIN e.orders PROVE OrderHasEntry(e, i)
  <2>1. OrderHasEntry(d, i)
    BY <1>1 DEF Truthful
  <2> QED
    BY <1>1, <2>1 DEF OrderHasEntry, OrderEntry
<1>4. ASSUME NEW i \in DOMAIN e.positions PROVE PositionHasEntry(e, i)
  <2>1. PositionHasEntry(d, i) /\ i \in DOMAIN d.positions
    BY <1>1 DEF Truthful
  <2> QED
    BY <1>1, <2>1 DEF PositionHasEntry, PositionEntry, OrderEntry
<1>5. ASSUME NEW i \in DOMAIN e.trades PROVE TradeHasEntry(e, i)
  <2>1. TradeHasEntry(d, i)
    BY <1>1 DEF Truthful
  <2> QED
    BY <1>1, <2>1 DEF TradeHasEntry, PositionEntry, OrderEntry
<1> QED
  BY <1>1, <1>2, <1>3, <1>4, <1>5 DEF Truthful

\* A signal that is not stored has no order, so its new entry names the only one.
LEMMA SubmittedTruthful ==
  ASSUME NEW d, Truthful(d), NEW s \in Signal \ d.signals, NEW account \in Account
  PROVE  Truthful(Submitted(d, s, account))
<1> DEFINE e == Submitted(d, s, account)
           n == Len(d.orders) + 1
<1>1. WellFormed(d) /\ s \in Signal
  BY DEF Truthful
<1>2. /\ WellFormed(e)
      /\ e.signals = d.signals \cup {s}
      /\ e.positions = d.positions /\ e.trades = d.trades
      /\ \A r \in Signal \ {s} : e.journal[r] = d.journal[r]
      /\ \/ /\ e.journal[s].outcome \in {"REJECTED", "SKIPPED_ALREADY_ACTIVE"}
            /\ e.orders = d.orders
         \/ /\ e.journal[s].outcome = "APPROVED_PENDING" /\ e.journal[s].order = n
            /\ Grew(d.orders, e.orders)
            /\ e.orders[n].signal = s /\ e.orders[n].status = "PENDING"
  BY <1>1, SubmittedRows DEF SubmitWrites
<1> HIDE DEF e, n
<1>3. /\ DOMAIN d.orders \subseteq DOMAIN e.orders
      /\ \A i \in DOMAIN d.orders : e.orders[i] = d.orders[i]
      /\ \A i \in DOMAIN e.orders \ DOMAIN d.orders :
           /\ i = n /\ e.journal[s].outcome = "APPROVED_PENDING"
           /\ e.journal[s].order = n
           /\ e.orders[n].signal = s /\ e.orders[n].status = "PENDING"
  BY <1>2 DEF Grew, n
<1>4. d.journal[s].outcome = "NONE"
  BY DEF Truthful, EntryHasRows
<1>5. \A i \in DOMAIN d.orders : d.orders[i].signal \in Signal \ {s}
  <2>1. ASSUME NEW i \in DOMAIN d.orders PROVE d.orders[i].signal # s
    <3>1. OrderHasEntry(d, i)
      BY DEF Truthful
    <3> QED
      BY <1>4, <3>1 DEF OrderHasEntry, OrderEntry, Ordered
  <2> QED
    BY <1>1, <2>1, RowTypes
<1>6. ASSUME NEW r \in Signal PROVE EntryHasRows(e, r)
  <2>1. CASE r = s
    <3>1. e.journal[s].outcome \in {"REJECTED", "SKIPPED_ALREADY_ACTIVE", "APPROVED_PENDING"}
      BY <1>2
    <3>2. e.journal[s].outcome = "APPROVED_PENDING" =>
            /\ e.journal[s].order \in DOMAIN e.orders
            /\ e.orders[e.journal[s].order].signal = s
      BY <1>2 DEF Grew, n
    <3>3. s \in e.signals
      BY <1>2
    <3> QED
      BY <2>1, <3>1, <3>2, <3>3 DEF EntryHasRows, Ordered, WithPosition
  <2>2. CASE r # s
    <3>1. EntryHasRows(d, r) /\ e.journal[r] = d.journal[r]
          /\ (r \in e.signals <=> r \in d.signals)
      BY <1>2, <2>2 DEF Truthful
    <3> QED
      BY <1>2, <1>3, <3>1 DEF EntryHasRows
  <2> QED
    BY <2>1, <2>2
<1>7. ASSUME NEW i \in DOMAIN e.orders PROVE OrderHasEntry(e, i)
  <2>1. CASE i \in DOMAIN d.orders
    <3>1. OrderHasEntry(d, i)
      BY <2>1 DEF Truthful
    <3> QED
      BY <1>2, <1>3, <1>5, <2>1, <3>1 DEF OrderHasEntry, OrderEntry
  <2>2. CASE i \notin DOMAIN d.orders
    BY <1>3, <2>2 DEF OrderHasEntry, OrderEntry, Ordered
  <2> QED
    BY <2>1, <2>2
<1>8. \A i \in DOMAIN d.positions : PositionEntry(e, i) = PositionEntry(d, i)
  BY <1>1, <1>2, <1>3, <1>5, RowTypes DEF PositionEntry, OrderEntry
<1>9. ASSUME NEW i \in DOMAIN e.positions PROVE PositionHasEntry(e, i)
  <2>1. PositionHasEntry(d, i)
    BY <1>2 DEF Truthful
  <2> QED
    BY <1>2, <1>8, <2>1 DEF PositionHasEntry
<1>10. ASSUME NEW i \in DOMAIN e.trades PROVE TradeHasEntry(e, i)
  <2>1. TradeHasEntry(d, i)
    BY <1>2 DEF Truthful
  <2> QED
    BY <1>2, <1>8, <2>1 DEF TradeHasEntry
<1>11. Truthful(e)
  BY <1>2, <1>6, <1>7, <1>9, <1>10 DEF Truthful
<1> QED
  BY <1>11 DEF e

\* A pending order has no position, so the new one is the only one.
LEMMA FilledTruthful ==
  ASSUME NEW d, Truthful(d), NEW i \in DOMAIN d.orders, d.orders[i].status = "PENDING",
         NEW bar \in BarShape
  PROVE  Truthful(Filled(d, i, bar))
<1> DEFINE e == Filled(d, i, bar)
           s == d.orders[i].signal
           n == Len(d.positions) + 1
<1>1. WellFormed(d) /\ s \in Signal
  BY RowTypes DEF Truthful
<1>2. /\ WellFormed(e)
      /\ e.signals = d.signals /\ e.trades = d.trades
      /\ Rewrote(d.orders, e.orders, i)
      /\ e.orders[i].signal = s /\ e.orders[i].status = "FILLED"
      /\ Grew(d.positions, e.positions)
      /\ e.positions[n].order = i /\ e.positions[n].status = "OPEN"
      /\ \A r \in Signal \ {s} : e.journal[r] = d.journal[r]
      /\ e.journal[s].outcome = "APPROVED_FILLED_OPEN"
      /\ e.journal[s].position = n /\ e.journal[s].order = d.journal[s].order
  BY <1>1, FilledRows DEF FillWrites
<1> HIDE DEF e
<1>3. /\ DOMAIN e.orders = DOMAIN d.orders
      /\ \A j \in DOMAIN d.orders : e.orders[j].signal = d.orders[j].signal
      /\ \A j \in DOMAIN d.orders \ {i} : e.orders[j] = d.orders[j]
      /\ DOMAIN e.positions = DOMAIN d.positions \cup {n}
      /\ \A j \in DOMAIN d.positions : e.positions[j] = d.positions[j]
      /\ n \notin DOMAIN d.positions
  BY <1>2 DEF Rewrote, Grew
<1> HIDE DEF n
<1>4. d.journal[s].outcome = "APPROVED_PENDING" /\ d.journal[s].order = i
  <2>1. OrderHasEntry(d, i)
    BY DEF Truthful
  <2> QED
    BY <2>1 DEF OrderHasEntry, OrderEntry
<1> HIDE DEF s
<1>5. \A j \in DOMAIN d.orders \ {i} : d.orders[j].signal \in Signal \ {s}
  <2>1. ASSUME NEW j \in DOMAIN d.orders \ {i} PROVE d.orders[j].signal # s
    <3>1. OrderHasEntry(d, j)
      BY DEF Truthful
    <3> QED
      BY <1>4, <3>1 DEF OrderHasEntry, OrderEntry
  <2> QED
    BY <1>1, <2>1, RowTypes
<1>6. \A j \in DOMAIN d.positions :
        /\ d.positions[j].order \in DOMAIN d.orders \ {i}
        /\ PositionEntry(e, j) = PositionEntry(d, j)
  <2>1. ASSUME NEW j \in DOMAIN d.positions
        PROVE  d.positions[j].order \in DOMAIN d.orders \ {i}
    <3>1. PositionHasEntry(d, j) /\ d.positions[j].order \in DOMAIN d.orders
      BY <1>1, RowTypes DEF Truthful
    <3> QED
      BY <1>4, <3>1 DEF PositionHasEntry, PositionEntry, OrderEntry, WithPosition, s
  <2> QED
    BY <1>2, <1>3, <1>5, <2>1 DEF PositionEntry, OrderEntry
<1>7. ASSUME NEW r \in Signal PROVE EntryHasRows(e, r)
  <2>1. EntryHasRows(d, r)
    BY DEF Truthful
  <2>2. CASE r = s
    <3>1. s \in e.signals
      BY <1>2, <1>4, <2>1, <2>2 DEF EntryHasRows
    <3>2. /\ e.journal[s].outcome = "APPROVED_FILLED_OPEN"
          /\ e.journal[s].order = i /\ i \in DOMAIN e.orders /\ e.orders[i].signal = s
          /\ e.journal[s].position = n /\ n \in DOMAIN e.positions
          /\ e.positions[n].order = i
      BY <1>2, <1>3, <1>4
    <3> QED
      BY <2>2, <3>1, <3>2 DEF EntryHasRows
  <2>3. CASE r # s
    <3>1. e.journal[r] = d.journal[r]
      BY <1>2, <2>3
    <3> QED
      BY <1>2, <1>3, <2>1, <3>1 DEF EntryHasRows
  <2> QED
    BY <2>2, <2>3
<1>8. ASSUME NEW j \in DOMAIN e.orders PROVE OrderHasEntry(e, j)
  <2>1. CASE j = i
    BY <1>2, <1>4, <2>1 DEF OrderHasEntry, OrderEntry, Ordered
  <2>2. CASE j # i
    <3>1. OrderHasEntry(d, j) /\ e.orders[j] = d.orders[j]
          /\ e.journal[d.orders[j].signal] = d.journal[d.orders[j].signal]
      BY <1>2, <1>3, <1>5, <2>2 DEF Truthful
    <3> QED
      BY <3>1 DEF OrderHasEntry, OrderEntry
  <2> QED
    BY <2>1, <2>2
<1>9. ASSUME NEW j \in DOMAIN e.positions PROVE PositionHasEntry(e, j)
  <2>1. CASE j = n
    BY <1>2, <1>4, <2>1 DEF PositionHasEntry, PositionEntry, OrderEntry, WithPosition, Ordered
  <2>2. CASE j # n
    <3>1. j \in DOMAIN d.positions
      BY <1>3, <2>2
    <3>2. PositionHasEntry(d, j) /\ e.positions[j] = d.positions[j]
          /\ PositionEntry(e, j) = PositionEntry(d, j)
      BY <1>3, <1>6, <3>1 DEF Truthful
    <3> QED
      BY <3>2 DEF PositionHasEntry
  <2> QED
    BY <2>1, <2>2
<1>10. ASSUME NEW j \in DOMAIN e.trades PROVE TradeHasEntry(e, j)
  <2>1. TradeHasEntry(d, j)
    BY <1>2 DEF Truthful
  <2> QED
    BY <1>2, <1>3, <1>6, <2>1 DEF TradeHasEntry
<1>11. Truthful(e)
  BY <1>2, <1>7, <1>8, <1>9, <1>10 DEF Truthful
<1> QED
  BY <1>11 DEF e

\* An open position has no trade, so the new one is the only one.
LEMMA ClosedTruthful ==
  ASSUME NEW d, Truthful(d), NEW i \in OpenPositionIds(d), NEW price \in Int,
         NEW reason \in {"STOP", "TARGET", "EXPIRED", "END_OF_DATA"}
  PROVE  Truthful(Closed(d, i, price, reason))
<1> DEFINE e == Closed(d, i, price, reason)
           k == d.positions[i].order
           s == d.orders[k].signal
           t == Len(d.trades) + 1
<1>1. /\ WellFormed(d) /\ i \in DOMAIN d.positions /\ d.positions[i].status = "OPEN"
      /\ k \in DOMAIN d.orders /\ s \in Signal
  BY RowTypes DEF Truthful, OpenPositionIds
<1>2. /\ WellFormed(e)
      /\ e.signals = d.signals /\ e.orders = d.orders
      /\ Rewrote(d.positions, e.positions, i)
      /\ e.positions[i].order = k /\ e.positions[i].status = "CLOSED"
      /\ Grew(d.trades, e.trades) /\ e.trades[t].position = i
      /\ \A r \in Signal \ {s} : e.journal[r] = d.journal[r]
      /\ e.journal[s].outcome = "APPROVED_FILLED_CLOSED" /\ e.journal[s].trade = t
      /\ e.journal[s].position = d.journal[s].position
      /\ e.journal[s].order = d.journal[s].order
  <2>1. CloseWrites(d, e, i)
    BY <1>1, ClosedRows
  <2> HIDE DEF e
  <2> QED
    BY <2>1 DEF CloseWrites
<1> HIDE DEF e
<1>3. /\ DOMAIN e.positions = DOMAIN d.positions
      /\ \A j \in DOMAIN d.positions : e.positions[j].order = d.positions[j].order
      /\ \A j \in DOMAIN d.positions \ {i} : e.positions[j] = d.positions[j]
      /\ DOMAIN e.trades = DOMAIN d.trades \cup {t}
      /\ \A j \in DOMAIN d.trades : e.trades[j] = d.trades[j]
      /\ t \notin DOMAIN d.trades
  BY <1>2 DEF Rewrote, Grew
<1> HIDE DEF t
<1>4. /\ d.journal[s].outcome = "APPROVED_FILLED_OPEN"
      /\ d.journal[s].position = i /\ d.journal[s].order = k
      /\ d.orders[k].status # "PENDING" /\ s \in d.signals
  <2>1. PositionHasEntry(d, i) /\ OrderHasEntry(d, k) /\ EntryHasRows(d, s)
    BY <1>1 DEF Truthful
  <2> HIDE DEF k
  <2>2. /\ d.journal[s].outcome \in WithPosition
        /\ d.journal[s].outcome # "APPROVED_FILLED_CLOSED"
        /\ d.journal[s].position = i
    BY <1>1, <2>1 DEF PositionHasEntry, PositionEntry, OrderEntry, k
  <2>3. d.journal[s].order = k
        /\ (d.orders[k].status = "PENDING" <=> d.journal[s].outcome = "APPROVED_PENDING")
    BY <2>1 DEF OrderHasEntry, OrderEntry
  <2> QED
    BY <2>1, <2>2, <2>3 DEF WithPosition, Ordered, EntryHasRows
<1>5. /\ \A j \in DOMAIN d.orders \ {k} : d.orders[j].signal \in Signal \ {s}
      /\ \A j \in DOMAIN d.positions \ {i} : d.positions[j].order \in DOMAIN d.orders \ {k}
  <2>1. ASSUME NEW j \in DOMAIN d.orders \ {k} PROVE d.orders[j].signal # s
    <3>1. OrderHasEntry(d, j)
      BY DEF Truthful
    <3> QED
      BY <1>4, <3>1 DEF OrderHasEntry, OrderEntry
  <2>2. ASSUME NEW j \in DOMAIN d.positions \ {i}
        PROVE  d.positions[j].order \in DOMAIN d.orders \ {k}
    <3>1. PositionHasEntry(d, j) /\ d.positions[j].order \in DOMAIN d.orders
      BY <1>1, RowTypes DEF Truthful
    <3> QED
      BY <1>4, <3>1 DEF PositionHasEntry, PositionEntry, OrderEntry
  <2> QED
    BY <1>1, <2>1, <2>2, RowTypes
<1>6. \A j \in DOMAIN d.positions \ {i} : PositionEntry(e, j) = PositionEntry(d, j)
  <2> HIDE DEF k, s
  <2>1. ASSUME NEW j \in DOMAIN d.positions \ {i}
        PROVE  PositionEntry(e, j) = PositionEntry(d, j)
    <3>1. /\ e.positions[j] = d.positions[j] /\ e.orders = d.orders
          /\ d.orders[d.positions[j].order].signal \in Signal \ {s}
      BY <1>2, <1>3, <1>5
    <3> QED
      BY <1>2, <3>1 DEF PositionEntry, OrderEntry
  <2> QED
    BY <2>1
<1>7. PositionEntry(e, i) = e.journal[s]
  BY <1>2 DEF PositionEntry, OrderEntry
<1>8. ASSUME NEW j \in DOMAIN d.trades
      PROVE  d.trades[j].position \in DOMAIN d.positions \ {i}
  <2>1. TradeHasEntry(d, j)
    BY DEF Truthful
  <2> QED
    BY <1>4, <2>1 DEF TradeHasEntry, PositionEntry, OrderEntry
<1> HIDE DEF s, k
<1>9. ASSUME NEW r \in Signal PROVE EntryHasRows(e, r)
  <2>1. EntryHasRows(d, r)
    BY DEF Truthful
  <2>2. CASE r = s
    <3>1. /\ s \in e.signals
          /\ e.journal[s].outcome = "APPROVED_FILLED_CLOSED"
          /\ e.journal[s].order = k /\ k \in DOMAIN e.orders /\ e.orders[k].signal = s
          /\ e.journal[s].position = i /\ i \in DOMAIN e.positions
          /\ e.positions[i].order = k
          /\ e.journal[s].trade = t /\ t \in DOMAIN e.trades /\ e.trades[t].position = i
      BY <1>1, <1>2, <1>3, <1>4 DEF s
    <3> QED
      BY <2>2, <3>1 DEF EntryHasRows
  <2>3. CASE r # s
    <3>1. e.journal[r] = d.journal[r]
      BY <1>2, <2>3
    <3> QED
      BY <1>2, <1>3, <2>1, <3>1 DEF EntryHasRows
  <2> QED
    BY <2>2, <2>3
<1>10. ASSUME NEW j \in DOMAIN e.orders PROVE OrderHasEntry(e, j)
  <2>1. OrderHasEntry(d, j)
    BY <1>2 DEF Truthful
  <2>2. CASE j = k
    <3>1. OrderEntry(e, k) = e.journal[s]
      BY <1>2 DEF OrderEntry, s
    <3> QED
      BY <1>2, <1>4, <2>2, <3>1 DEF OrderHasEntry, Ordered
  <2>3. CASE j # k
    <3>1. OrderEntry(e, j) = OrderEntry(d, j)
      BY <1>2, <1>5, <2>3 DEF OrderEntry
    <3> QED
      BY <1>2, <2>1, <3>1 DEF OrderHasEntry
  <2> QED
    BY <2>2, <2>3
<1>11. ASSUME NEW j \in DOMAIN e.positions PROVE PositionHasEntry(e, j)
  <2>1. CASE j = i
    BY <1>2, <1>4, <1>7, <2>1 DEF PositionHasEntry, WithPosition, Ordered
  <2>2. CASE j # i
    <3>1. PositionHasEntry(d, j) /\ e.positions[j] = d.positions[j]
          /\ PositionEntry(e, j) = PositionEntry(d, j)
      BY <1>3, <1>6, <2>2 DEF Truthful
    <3> QED
      BY <3>1 DEF PositionHasEntry
  <2> QED
    BY <2>1, <2>2
<1>12. ASSUME NEW j \in DOMAIN e.trades PROVE TradeHasEntry(e, j)
  <2>1. CASE j = t
    BY <1>1, <1>2, <1>3, <1>7, <2>1 DEF TradeHasEntry
  <2>2. CASE j # t
    <3>1. /\ TradeHasEntry(d, j) /\ e.trades[j] = d.trades[j]
          /\ d.trades[j].position \in DOMAIN d.positions \ {i}
      BY <1>3, <1>8, <2>2 DEF Truthful
    <3>2. PositionEntry(e, d.trades[j].position) = PositionEntry(d, d.trades[j].position)
      BY <1>6, <3>1
    <3> QED
      BY <1>3, <3>1, <3>2 DEF TradeHasEntry
  <2> QED
    BY <2>1, <2>2
<1>13. Truthful(e)
  BY <1>2, <1>9, <1>10, <1>11, <1>12 DEF Truthful
<1> QED
  BY <1>13 DEF e

-----------------------------------------------------------------------------
(* What is final stays final *)

\* The step part of HistoryIsFinal, between any two databases.
FinalOutcome == {"REJECTED", "SKIPPED_ALREADY_ACTIVE", "APPROVED_FILLED_CLOSED"}

Final(d, e) ==
  /\ Len(d.orders) <= Len(e.orders) /\ Len(d.positions) <= Len(e.positions)
  /\ Len(d.fills) <= Len(e.fills) /\ Len(d.trades) <= Len(e.trades)
  /\ \A i \in DOMAIN d.orders :
       i \in DOMAIN e.orders
       /\ (d.orders[i].status = "FILLED" => e.orders[i] = d.orders[i])
  /\ \A i \in DOMAIN d.positions :
       i \in DOMAIN e.positions
       /\ (d.positions[i].status = "CLOSED" => e.positions[i] = d.positions[i])
  /\ \A i \in DOMAIN d.fills : i \in DOMAIN e.fills /\ e.fills[i] = d.fills[i]
  /\ \A i \in DOMAIN d.trades : i \in DOMAIN e.trades /\ e.trades[i] = d.trades[i]
  /\ \A s \in Signal : d.journal[s].outcome \in FinalOutcome => e.journal[s] = d.journal[s]
  /\ \A x \in Symbol : e.bar_cursor[x] >= d.bar_cursor[x]

LEMMA LengthsNat ==
  ASSUME NEW d, WellFormed(d)
  PROVE  /\ Len(d.orders) \in Nat /\ Len(d.positions) \in Nat
         /\ Len(d.fills) \in Nat /\ Len(d.trades) \in Nat
         /\ \A x \in Symbol : d.bar_cursor[x] \in Nat
  BY TableTypes, LenProperties

LEMMA FinalTransitive ==
  ASSUME NEW d, NEW e, NEW f, WellFormed(d), WellFormed(e), WellFormed(f),
         Final(d, e), Final(e, f)
  PROVE  Final(d, f)
<1>1. /\ Len(d.orders) <= Len(f.orders) /\ Len(d.positions) <= Len(f.positions)
      /\ Len(d.fills) <= Len(f.fills) /\ Len(d.trades) <= Len(f.trades)
      /\ \A x \in Symbol : f.bar_cursor[x] >= d.bar_cursor[x]
  <2>1. /\ \A x \in Symbol : d.bar_cursor[x] \in Nat
        /\ \A x \in Symbol : e.bar_cursor[x] \in Nat
        /\ \A x \in Symbol : f.bar_cursor[x] \in Nat
    BY LengthsNat
  <2>2. ASSUME NEW x \in Symbol PROVE f.bar_cursor[x] >= d.bar_cursor[x]
    <3>1. e.bar_cursor[x] >= d.bar_cursor[x] /\ f.bar_cursor[x] >= e.bar_cursor[x]
      BY DEF Final
    <3> QED
      BY <2>1, <3>1
  <2>3. /\ Len(d.orders) <= Len(e.orders) /\ Len(d.positions) <= Len(e.positions)
        /\ Len(d.fills) <= Len(e.fills) /\ Len(d.trades) <= Len(e.trades)
        /\ Len(e.orders) <= Len(f.orders) /\ Len(e.positions) <= Len(f.positions)
        /\ Len(e.fills) <= Len(f.fills) /\ Len(e.trades) <= Len(f.trades)
    BY DEF Final
  <2>4. \A g \in {d, e, f} : /\ Len(g.orders) \in Nat /\ Len(g.positions) \in Nat
                            /\ Len(g.fills) \in Nat /\ Len(g.trades) \in Nat
    BY LengthsNat
  <2>5. \A a, b, c \in Nat : a <= b /\ b <= c => a <= c
    OBVIOUS
  <2> QED
    BY <2>2, <2>3, <2>4, <2>5, Zenon
<1>2. /\ \A i \in DOMAIN d.orders :
           i \in DOMAIN f.orders
           /\ (d.orders[i].status = "FILLED" => f.orders[i] = d.orders[i])
      /\ \A i \in DOMAIN d.positions :
           i \in DOMAIN f.positions
           /\ (d.positions[i].status = "CLOSED" => f.positions[i] = d.positions[i])
      /\ \A i \in DOMAIN d.fills : i \in DOMAIN f.fills /\ f.fills[i] = d.fills[i]
      /\ \A i \in DOMAIN d.trades : i \in DOMAIN f.trades /\ f.trades[i] = d.trades[i]
  BY DEF Final
<1>3. \A s \in Signal : d.journal[s].outcome \in FinalOutcome => f.journal[s] = d.journal[s]
  BY DEF Final
<1> QED
  BY <1>1, <1>2, <1>3 DEF Final

LEMMA AlikeFinal ==
  ASSUME NEW d, NEW e, WellFormed(d), Alike(d, e) PROVE Final(d, e)
<1>1. /\ Len(d.orders) <= Len(e.orders) /\ Len(d.positions) <= Len(e.positions)
      /\ Len(d.fills) <= Len(e.fills) /\ Len(d.trades) <= Len(e.trades)
  BY LengthsNat DEF Alike
<1> QED
  BY <1>1 DEF Alike, Final

\* A table that grew keeps its rows; one that rewrote a row keeps the others.
LEMMA GrewKeeps ==
  ASSUME NEW old, NEW new, Len(old) \in Nat, Grew(old, new)
  PROVE  /\ Len(old) <= Len(new)
         /\ \A i \in DOMAIN old : i \in DOMAIN new /\ new[i] = old[i]
  BY DEF Grew

LEMMA RewroteKeeps ==
  ASSUME NEW old, NEW new, NEW i, Len(old) \in Nat, Rewrote(old, new, i)
  PROVE  /\ Len(old) <= Len(new)
         /\ \A j \in DOMAIN old : j \in DOMAIN new /\ (j # i => new[j] = old[j])
  BY DEF Rewrote

LEMMA SubmittedFinal ==
  ASSUME NEW d, Truthful(d), NEW s \in Signal \ d.signals, NEW account \in Account
  PROVE  Final(d, Submitted(d, s, account))
<1> DEFINE e == Submitted(d, s, account)
           n == Len(d.orders) + 1
<1>1. WellFormed(d) /\ s \in Signal
  BY DEF Truthful
<1>2. /\ WellFormed(e)
      /\ e.positions = d.positions /\ e.fills = d.fills /\ e.trades = d.trades
      /\ e.bar_cursor = d.bar_cursor
      /\ \A r \in Signal \ {s} : e.journal[r] = d.journal[r]
      /\ e.orders = d.orders \/ Grew(d.orders, e.orders)
  BY <1>1, SubmittedRows DEF SubmitWrites
<1> HIDE DEF e
<1>3. d.journal[s].outcome = "NONE"
  BY DEF Truthful, EntryHasRows
<1>4. \A r \in Signal : d.journal[r].outcome \in FinalOutcome => e.journal[r] = d.journal[r]
  BY <1>2, <1>3 DEF FinalOutcome
<1>5. /\ Len(d.orders) <= Len(e.orders)
      /\ \A i \in DOMAIN d.orders : i \in DOMAIN e.orders /\ e.orders[i] = d.orders[i]
  BY <1>1, <1>2, LengthsNat, GrewKeeps
<1>6. /\ Len(d.positions) <= Len(e.positions)
      /\ Len(d.fills) <= Len(e.fills) /\ Len(d.trades) <= Len(e.trades)
  BY <1>1, <1>2, LengthsNat
<1>7. Final(d, e)
  BY <1>1, <1>2, <1>4, <1>5, <1>6, CursorSame DEF Final
<1> QED
  BY <1>7 DEF e

LEMMA FilledFinal ==
  ASSUME NEW d, Truthful(d), NEW i \in DOMAIN d.orders, d.orders[i].status = "PENDING",
         NEW bar \in BarShape
  PROVE  Final(d, Filled(d, i, bar))
<1> DEFINE e == Filled(d, i, bar)
           s == d.orders[i].signal
<1>1. WellFormed(d) /\ s \in Signal
  BY RowTypes DEF Truthful
<1>2. /\ WellFormed(e)
      /\ e.trades = d.trades /\ e.bar_cursor = d.bar_cursor
      /\ Rewrote(d.orders, e.orders, i)
      /\ Grew(d.positions, e.positions) /\ Grew(d.fills, e.fills)
      /\ \A r \in Signal \ {s} : e.journal[r] = d.journal[r]
  BY <1>1, FilledRows DEF FillWrites
<1> HIDE DEF e
<1>3. d.journal[s].outcome = "APPROVED_PENDING"
  <2>1. OrderHasEntry(d, i)
    BY DEF Truthful
  <2> QED
    BY <2>1 DEF OrderHasEntry, OrderEntry
<1> HIDE DEF s
<1>4. \A r \in Signal : d.journal[r].outcome \in FinalOutcome => e.journal[r] = d.journal[r]
  BY <1>2, <1>3 DEF FinalOutcome
<1>5. /\ Len(d.orders) <= Len(e.orders) /\ Len(d.positions) <= Len(e.positions)
      /\ Len(d.fills) <= Len(e.fills) /\ Len(d.trades) <= Len(e.trades)
      /\ \A j \in DOMAIN d.orders :
           j \in DOMAIN e.orders /\ (j # i => e.orders[j] = d.orders[j])
      /\ \A j \in DOMAIN d.positions :
           j \in DOMAIN e.positions /\ e.positions[j] = d.positions[j]
      /\ \A j \in DOMAIN d.fills : j \in DOMAIN e.fills /\ e.fills[j] = d.fills[j]
  BY <1>1, <1>2, LengthsNat, GrewKeeps, RewroteKeeps
<1>6. Final(d, e)
  BY <1>1, <1>2, <1>4, <1>5, CursorSame DEF Final
<1> QED
  BY <1>6 DEF e

LEMMA ClosedFinal ==
  ASSUME NEW d, Truthful(d), NEW i \in OpenPositionIds(d), NEW price \in Int,
         NEW reason \in {"STOP", "TARGET", "EXPIRED", "END_OF_DATA"}
  PROVE  Final(d, Closed(d, i, price, reason))
<1> DEFINE e == Closed(d, i, price, reason)
           s == d.orders[d.positions[i].order].signal
<1>1. /\ WellFormed(d) /\ i \in DOMAIN d.positions /\ d.positions[i].status = "OPEN"
      /\ s \in Signal
  BY RowTypes DEF Truthful, OpenPositionIds
<1>2. /\ WellFormed(e)
      /\ e.orders = d.orders /\ e.bar_cursor = d.bar_cursor
      /\ Rewrote(d.positions, e.positions, i)
      /\ Grew(d.trades, e.trades) /\ Grew(d.fills, e.fills)
      /\ \A r \in Signal \ {s} : e.journal[r] = d.journal[r]
  <2>1. CloseWrites(d, e, i)
    BY <1>1, ClosedRows
  <2> HIDE DEF e
  <2> QED
    BY <2>1 DEF CloseWrites
<1> HIDE DEF e
<1>3. d.journal[s].outcome \notin FinalOutcome
  <2>1. PositionHasEntry(d, i)
    BY <1>1 DEF Truthful
  <2> QED
    BY <1>1, <2>1 DEF PositionHasEntry, PositionEntry, OrderEntry, WithPosition, Ordered,
       FinalOutcome
<1> HIDE DEF s
<1>4. \A r \in Signal : d.journal[r].outcome \in FinalOutcome => e.journal[r] = d.journal[r]
  BY <1>2, <1>3
<1>5. /\ Len(d.orders) <= Len(e.orders) /\ Len(d.positions) <= Len(e.positions)
      /\ Len(d.fills) <= Len(e.fills) /\ Len(d.trades) <= Len(e.trades)
      /\ \A j \in DOMAIN d.positions :
           j \in DOMAIN e.positions /\ (j # i => e.positions[j] = d.positions[j])
      /\ \A j \in DOMAIN d.fills : j \in DOMAIN e.fills /\ e.fills[j] = d.fills[j]
      /\ \A j \in DOMAIN d.trades : j \in DOMAIN e.trades /\ e.trades[j] = d.trades[j]
  BY <1>1, <1>2, LengthsNat, GrewKeeps, RewroteKeeps
<1>6. Final(d, e)
  BY <1>1, <1>2, <1>4, <1>5, CursorSame DEF Final
<1> QED
  BY <1>6 DEF e

-----------------------------------------------------------------------------
(* What a transaction does to the outcomes: the state of PaperLedger *)

Outcomes(d) == [s \in Signal |-> d.journal[s].outcome]

Turned(d, e, s, outcome) == Outcomes(e) = [Outcomes(d) EXCEPT ![s] = outcome]

LEMMA OneEntryTurned ==
  ASSUME NEW d, NEW e, NEW s \in Signal, \A r \in Signal \ {s} : e.journal[r] = d.journal[r]
  PROVE  Turned(d, e, s, e.journal[s].outcome)
  BY DEF Turned, Outcomes

LEMMA AlikeOutcomes ==
  ASSUME NEW d, NEW e, Alike(d, e) PROVE Outcomes(e) = Outcomes(d)
  BY DEF Alike, Outcomes

LEMMA ClosedTurned ==
  ASSUME NEW d, Truthful(d), NEW i \in OpenPositionIds(d), NEW price \in Int,
         NEW reason \in {"STOP", "TARGET", "EXPIRED", "END_OF_DATA"}
  PROVE  LET s == d.orders[d.positions[i].order].signal
         IN  /\ s \in Signal /\ Outcomes(d)[s] = "APPROVED_FILLED_OPEN"
             /\ Turned(d, Closed(d, i, price, reason), s, "APPROVED_FILLED_CLOSED")
<1> DEFINE e == Closed(d, i, price, reason)
           s == d.orders[d.positions[i].order].signal
<1>1. /\ WellFormed(d) /\ i \in DOMAIN d.positions /\ d.positions[i].status = "OPEN"
      /\ s \in Signal
  BY RowTypes DEF Truthful, OpenPositionIds
<1>2. /\ \A r \in Signal \ {s} : e.journal[r] = d.journal[r]
      /\ e.journal[s].outcome = "APPROVED_FILLED_CLOSED"
  <2>1. CloseWrites(d, e, i)
    BY <1>1, ClosedRows
  <2> HIDE DEF e
  <2> QED
    BY <2>1 DEF CloseWrites
<1>3. Outcomes(d)[s] = "APPROVED_FILLED_OPEN"
  <2>1. PositionHasEntry(d, i)
    BY <1>1 DEF Truthful
  <2>2. /\ d.journal[s].outcome \in WithPosition
        /\ d.journal[s].outcome # "APPROVED_FILLED_CLOSED"
    BY <1>1, <2>1 DEF PositionHasEntry, PositionEntry, OrderEntry
  <2> HIDE DEF s
  <2> QED
    BY <1>1, <2>2 DEF WithPosition, Ordered, Outcomes
<1> HIDE DEF e, s
<1>4. Turned(d, e, s, "APPROVED_FILLED_CLOSED")
  BY <1>1, <1>2, OneEntryTurned
<1> QED
  BY <1>1, <1>3, <1>4 DEF e, s

LEMMA FilledTurned ==
  ASSUME NEW d, Truthful(d), NEW i \in DOMAIN d.orders, d.orders[i].status = "PENDING",
         NEW bar \in BarShape
  PROVE  LET e == Filled(d, i, bar)
             s == d.orders[i].signal
             n == Len(d.positions) + 1
         IN  /\ s \in Signal /\ Outcomes(d)[s] = "APPROVED_PENDING"
             /\ Turned(d, e, s, "APPROVED_FILLED_OPEN")
             /\ n \in OpenPositionIds(e) /\ e.orders[e.positions[n].order].signal = s
<1> DEFINE e == Filled(d, i, bar)
           s == d.orders[i].signal
           n == Len(d.positions) + 1
<1>1. WellFormed(d) /\ s \in Signal
  BY RowTypes DEF Truthful
<1>2. /\ e.orders[i].signal = s
      /\ n \in DOMAIN e.positions
      /\ e.positions[n].order = i /\ e.positions[n].status = "OPEN"
      /\ \A r \in Signal \ {s} : e.journal[r] = d.journal[r]
      /\ e.journal[s].outcome = "APPROVED_FILLED_OPEN"
  <2>1. FillWrites(d, e, i)
    BY <1>1, FilledRows
  <2> HIDE DEF e
  <2> QED
    BY <2>1 DEF FillWrites, Grew
<1>3. d.journal[s].outcome = "APPROVED_PENDING"
  <2>1. OrderHasEntry(d, i)
    BY DEF Truthful
  <2> QED
    BY <2>1 DEF OrderHasEntry, OrderEntry
<1> HIDE DEF e, s, n
<1>4. Turned(d, e, s, "APPROVED_FILLED_OPEN")
  BY <1>1, <1>2, OneEntryTurned
<1>5. Outcomes(d)[s] = "APPROVED_PENDING"
  BY <1>1, <1>3 DEF Outcomes
<1>6. n \in OpenPositionIds(e) /\ e.orders[e.positions[n].order].signal = s
  BY <1>2 DEF OpenPositionIds
<1> QED
  BY <1>1, <1>4, <1>5, <1>6 DEF e, s, n

-----------------------------------------------------------------------------
(* Managing a position, a bar, a transaction *)

LEMMA ManagedAdvances ==
  ASSUME NEW d, Truthful(d), NEW i \in OpenPositionIds(d), NEW bar \in BarShape
  PROVE  LET e == Managed(d, i, bar)
             s == d.orders[d.positions[i].order].signal
         IN  /\ Truthful(e) /\ Final(d, e) /\ e.bar_cursor = d.bar_cursor
             /\ s \in Signal /\ Outcomes(d)[s] = "APPROVED_FILLED_OPEN"
             /\ \/ Outcomes(e) = Outcomes(d)
                \/ Turned(d, e, s, "APPROVED_FILLED_CLOSED")
<1> DEFINE m == [d EXCEPT !.account = MarkToMarket(d.account, bar.close)]
           e == Managed(d, i, bar)
           s == d.orders[d.positions[i].order].signal
<1>1. WellFormed(d)
  BY DEF Truthful
<1>2. /\ Alike(d, m) /\ m.positions = d.positions /\ m.bar_cursor = d.bar_cursor
      /\ \/ Alike(d, e) /\ e.bar_cursor = d.bar_cursor
         \/ \E price \in Int, reason \in {"STOP", "TARGET", "EXPIRED", "END_OF_DATA"} :
              e = Closed(m, i, price, reason)
  BY <1>1, ManagedCases
<1>3. s \in Signal /\ Outcomes(d)[s] = "APPROVED_FILLED_OPEN"
  BY ClosedTurned
<1> HIDE DEF e, m
<1>4. CASE Alike(d, e) /\ e.bar_cursor = d.bar_cursor
  BY <1>1, <1>3, <1>4, AlikeTruthful, AlikeFinal, AlikeOutcomes DEF e
<1>5. CASE \E price \in Int, reason \in {"STOP", "TARGET", "EXPIRED", "END_OF_DATA"} :
             e = Closed(m, i, price, reason)
  <2>1. PICK price \in Int, reason \in {"STOP", "TARGET", "EXPIRED", "END_OF_DATA"} :
          e = Closed(m, i, price, reason)
    BY <1>5
  <2>2. /\ Truthful(m) /\ Final(d, m) /\ WellFormed(m)
        /\ Outcomes(m) = Outcomes(d) /\ i \in OpenPositionIds(m)
    BY <1>1, <1>2, AlikeTruthful, AlikeFinal, AlikeOutcomes DEF Truthful, OpenPositionIds
  <2>3. /\ Truthful(e) /\ Final(m, e) /\ WellFormed(e)
    BY <2>1, <2>2, ClosedTruthful, ClosedFinal DEF Truthful
  <2>4. Final(d, e)
    BY <1>1, <2>2, <2>3, FinalTransitive
  <2>5. m.orders = d.orders /\ e.bar_cursor = d.bar_cursor
    <3>1. CloseWrites(m, e, i)
      BY <2>1, <2>2, ClosedRows DEF OpenPositionIds
    <3> QED
      BY <1>2, <3>1 DEF Alike, CloseWrites
  <2>6. Turned(m, e, s, "APPROVED_FILLED_CLOSED")
    BY <1>2, <2>1, <2>2, <2>5, ClosedTurned
  <2>7. Turned(d, e, s, "APPROVED_FILLED_CLOSED")
    BY <2>2, <2>6 DEF Turned
  <2> QED
    BY <1>3, <2>3, <2>4, <2>5, <2>7 DEF e
<1> QED
  BY <1>2, <1>4, <1>5

\* The ways the trading part of process_bar changes the outcomes: not at all,
\* by closing an open one, or by filling a pending one, which the same bar
\* may close.
BarTurns(d, e, may_fill) ==
  \/ Outcomes(e) = Outcomes(d)
  \/ \E s \in Signal : /\ Outcomes(d)[s] = "APPROVED_FILLED_OPEN"
                       /\ Turned(d, e, s, "APPROVED_FILLED_CLOSED")
  \/ /\ may_fill
     /\ \E s \in Signal, outcome \in {"APPROVED_FILLED_OPEN", "APPROVED_FILLED_CLOSED"} :
          Outcomes(d)[s] = "APPROVED_PENDING" /\ Turned(d, e, s, outcome)

LEMMA TurnedTwice ==
  ASSUME NEW d, NEW e, NEW f, NEW s \in Signal, NEW o, NEW p,
         Turned(d, e, s, o), Turned(e, f, s, p)
  PROVE  Turned(d, f, s, p)
  BY DEF Turned, Outcomes

LEMMA TradedAdvances ==
  ASSUME NEW d, Truthful(d), NEW x, NEW bar \in BarShape, NEW is_fresh \in BOOLEAN,
         NEW allow_new_fill \in BOOLEAN
  PROVE  LET e == Traded(d, x, bar, is_fresh, allow_new_fill) IN
         /\ Truthful(e) /\ Final(d, e) /\ e.bar_cursor = d.bar_cursor
         /\ BarTurns(d, e, WouldFill(d, x, is_fresh, allow_new_fill))
<1> DEFINE e == Traded(d, x, bar, is_fresh, allow_new_fill)
           i == Oldest(PendingOrders(d, x))
           f == Filled(d, i, bar)
           n == Len(d.positions) + 1
           s == d.orders[i].signal
           may_fill == WouldFill(d, x, is_fresh, allow_new_fill)
<1>1. WellFormed(d)
  BY DEF Truthful
<1>2. CASE e = d
  <2>1. Alike(d, d)
    BY <1>1, CursorSame DEF Alike
  <2> QED
    BY <1>1, <1>2, <2>1, AlikeFinal DEF BarTurns
<1>3. CASE \E k \in OpenPositions(d, x) : e = Managed(d, k, bar)
  <2>1. PICK k \in OpenPositions(d, x) : e = Managed(d, k, bar)
    BY <1>3
  <2>2. k \in OpenPositionIds(d)
    BY DEF OpenPositions, OpenPositionIds
  <2> HIDE DEF e
  <2>3. /\ Truthful(e) /\ Final(d, e) /\ e.bar_cursor = d.bar_cursor
        /\ \/ Outcomes(e) = Outcomes(d)
           \/ \E r \in Signal : /\ Outcomes(d)[r] = "APPROVED_FILLED_OPEN"
                                /\ Turned(d, e, r, "APPROVED_FILLED_CLOSED")
    BY <2>1, <2>2, ManagedAdvances
  <2> QED
    BY <2>3 DEF BarTurns, e
<1>4. CASE may_fill /\ i \in PendingOrders(d, x) /\ e = Managed(f, n, bar)
  <2>1. i \in DOMAIN d.orders /\ d.orders[i].status = "PENDING"
    BY <1>4 DEF PendingOrders
  <2>2. Truthful(f) /\ WellFormed(f) /\ Final(d, f) /\ f.bar_cursor = d.bar_cursor
    BY <1>1, <2>1, FilledTruthful, FilledFinal, FilledRows DEF Truthful, FillWrites
  <2>3. /\ s \in Signal /\ Outcomes(d)[s] = "APPROVED_PENDING"
        /\ Turned(d, f, s, "APPROVED_FILLED_OPEN")
        /\ n \in OpenPositionIds(f) /\ f.orders[f.positions[n].order].signal = s
    BY <2>1, FilledTurned
  <2>4. e = Managed(f, n, bar) /\ may_fill
    BY <1>4
  <2> HIDE DEF e, f, n, s, i, may_fill
  <2>5. /\ Truthful(e) /\ WellFormed(e) /\ Final(f, e) /\ e.bar_cursor = f.bar_cursor
        /\ Outcomes(e) = Outcomes(f) \/ Turned(f, e, s, "APPROVED_FILLED_CLOSED")
    BY <2>2, <2>3, <2>4, ManagedAdvances DEF Truthful
  <2>6. Final(d, e)
    BY <1>1, <2>2, <2>5, FinalTransitive
  <2>7. \/ Turned(d, e, s, "APPROVED_FILLED_OPEN")
        \/ Turned(d, e, s, "APPROVED_FILLED_CLOSED")
    <3>1. CASE Outcomes(e) = Outcomes(f)
      BY <2>3, <3>1 DEF Turned
    <3>2. CASE Turned(f, e, s, "APPROVED_FILLED_CLOSED")
      BY <2>3, <3>2, TurnedTwice
    <3> QED
      BY <2>5, <3>1, <3>2
  <2>8. BarTurns(d, e, may_fill)
    BY <2>3, <2>4, <2>7 DEF BarTurns
  <2> QED
    BY <2>2, <2>5, <2>6, <2>8 DEF e, may_fill
<1> QED
  BY <1>1, <1>2, <1>3, <1>4, TradedCases

\* A bar: the account is rolled to the day, then the bar trades, then the
\* cursor moves on.
LEMMA AfterBarAdvances ==
  ASSUME TypeInv, Truthful(db), NEW x \in Symbol, NEW t \in 1 .. MaxTime,
         NEW bar \in BarShape, NEW is_fresh \in BOOLEAN, NEW allow_new_fill \in BOOLEAN,
         t > db.bar_cursor[x]
  PROVE  LET e == AfterBar(x, t, bar, is_fresh, allow_new_fill) IN
         /\ Truthful(e) /\ Final(db, e)
         /\ BarTurns(db, e, WouldFill(db, x, is_fresh, allow_new_fill))
<1> DEFINE a      == RollToDay(db.account, Day(t))
           rolled == [db EXCEPT !.account = a]
           traded == Traded(rolled, x, bar, is_fresh, allow_new_fill)
           e      == [traded EXCEPT !.bar_cursor[x] = t]
           may_fill == WouldFill(db, x, is_fresh, allow_new_fill)
<1>1. WellFormed(db) /\ t \in Nat /\ db.bar_cursor \in [Symbol -> Nat]
  BY TableTypes, BookAssumption DEF Truthful
<1>2. a \in Account
  <2>1. Day(t) \in Int
    BY <1>1, DivInt, BookAssumption DEF Day
  <2> QED
    BY <1>1, <2>1, TableTypes, RollToDayEffect
<1> HIDE DEF a
<1>3. Alike(db, rolled) /\ rolled.bar_cursor = db.bar_cursor
      /\ rolled.positions = db.positions
  <2>1. Alike(db, rolled)
    BY <1>1, <1>2, MarkedAlike
  <2>2. rolled.bar_cursor = db.bar_cursor /\ rolled.positions = db.positions
    BY <1>1, TableTypes DEF Database
  <2> QED
    BY <2>1, <2>2
<1> HIDE DEF rolled
<1>4. /\ Truthful(rolled) /\ WellFormed(rolled) /\ Final(db, rolled)
      /\ Outcomes(rolled) = Outcomes(db)
      /\ WouldFill(rolled, x, is_fresh, allow_new_fill) = may_fill
  <2>1. rolled.orders = db.orders
    BY <1>3 DEF Alike
  <2>2. WouldFill(rolled, x, is_fresh, allow_new_fill) = may_fill
    BY <1>3, <2>1 DEF WouldFill, PendingOrders, OpenPositions, SymbolOfPosition
  <2> QED
    BY <1>1, <1>3, <2>2, AlikeTruthful, AlikeFinal, AlikeOutcomes DEF Truthful
<1>5. /\ Truthful(traded) /\ WellFormed(traded) /\ Final(rolled, traded)
      /\ traded.bar_cursor = rolled.bar_cursor
      /\ BarTurns(rolled, traded, may_fill)
  <2>1. /\ Truthful(traded) /\ Final(rolled, traded)
        /\ traded.bar_cursor = rolled.bar_cursor
        /\ BarTurns(rolled, traded, WouldFill(rolled, x, is_fresh, allow_new_fill))
    BY <1>4, TradedAdvances
  <2> HIDE DEF traded, may_fill
  <2>2. BarTurns(rolled, traded, may_fill)
    BY <1>4, <2>1, Zenon
  <2> QED
    BY <2>1, <2>2 DEF Truthful
<1> HIDE DEF traded, may_fill
<1>6. Alike(traded, e)
  <2>1. traded \in Database /\ traded.bar_cursor = db.bar_cursor
    BY <1>3, <1>5, TableTypes
  <2>2. /\ e \in Database
        /\ e.orders = traded.orders /\ e.fills = traded.fills /\ e.trades = traded.trades
        /\ e.journal = traded.journal /\ e.signals = traded.signals
        /\ e.positions = traded.positions
        /\ e.bar_cursor = [traded.bar_cursor EXCEPT ![x] = t]
    BY <1>1, <2>1 DEF Database
  <2> HIDE DEF e
  <2>3. WellFormed(e)
    BY <1>5, <2>2 DEF WellFormed, Linked
  <2>4. ASSUME NEW y \in Symbol PROVE e.bar_cursor[y] >= traded.bar_cursor[y]
    BY <1>1, <2>1, <2>2
  <2> QED
    BY <2>2, <2>3, <2>4 DEF Alike
<1>7. /\ Truthful(e) /\ WellFormed(e) /\ Final(traded, e) /\ Outcomes(e) = Outcomes(traded)
  BY <1>5, <1>6, AlikeTruthful, AlikeFinal, AlikeOutcomes DEF Truthful
<1>8. AfterBar(x, t, bar, is_fresh, allow_new_fill) = e
  BY DEF AfterBar, rolled, traded, a
<1> HIDE DEF e
<1>9. Final(db, e)
  <2>1. Final(db, traded)
    BY <1>1, <1>4, <1>5, FinalTransitive
  <2> QED
    BY <1>1, <1>5, <1>7, <2>1, FinalTransitive
<1>10. BarTurns(db, e, may_fill)
  BY <1>4, <1>5, <1>7 DEF BarTurns, Turned
<1> QED
  BY <1>7, <1>8, <1>9, <1>10 DEF may_fill

\* close_at_end_of_data closes the oldest open position of the symbol.
LEMMA AfterEndAdvances ==
  ASSUME TypeInv, Truthful(db), NEW x \in Symbol, NEW bar \in BarShape,
         OpenPositions(db, x) # {}
  PROVE  LET e == AfterEndOfData(x, bar) IN
         Truthful(e) /\ Final(db, e) /\ BarTurns(db, e, FALSE)
<1> DEFINE e == AfterEndOfData(x, bar)
           i == Oldest(OpenPositions(db, x))
           s == db.orders[db.positions[i].order].signal
<1>1. WellFormed(db) /\ db \in Database
  BY TableTypes DEF Truthful
<1>2. i \in OpenPositionIds(db)
  BY <1>1, ActiveRows DEF OpenPositions, OpenPositionIds
<1>3. ExitPrice(bar.close) \in Int
  BY BarFields, PriceInt
<1>4. [db EXCEPT !.account = db.account] = db
  BY <1>1 DEF Database
<1> HIDE DEF i
<1>5. e = Closed(db, i, ExitPrice(bar.close), "END_OF_DATA")
  BY <1>4 DEF AfterEndOfData, i
<1> HIDE DEF e
<1>6. /\ Truthful(e) /\ Final(db, e)
      /\ s \in Signal /\ Outcomes(db)[s] = "APPROVED_FILLED_OPEN"
      /\ Turned(db, e, s, "APPROVED_FILLED_CLOSED")
  BY <1>2, <1>3, <1>5, ClosedTruthful, ClosedFinal, ClosedTurned
<1> QED
  BY <1>6 DEF BarTurns, e

\* What a transaction does, for the three theorems below.
StepTurns ==
  \/ Outcomes(db') = Outcomes(db)
  \/ \E s \in Signal \ db.signals : db' = Submitted(db, s, db.account)
  \/ \E x \in Symbol, is_fresh \in BOOLEAN, allow_new_fill \in BOOLEAN :
       /\ ~FillRaises(db, x, is_fresh, allow_new_fill)
       /\ BarTurns(db, db', WouldFill(db, x, is_fresh, allow_new_fill))
  \/ BarTurns(db, db', FALSE)

LEMMA DatabaseStepAdvances ==
  ASSUME TypeInv, Truthful(db), DatabaseStep
  PROVE  Truthful(db') /\ Final(db, db') /\ StepTurns
<1>1. WellFormed(db) /\ db \in Database /\ db.account \in Account /\ WellFormed(db')
  BY TableTypes, DatabaseStepType DEF Truthful
<1>2. CASE db' = db
  <2>1. Alike(db, db)
    BY <1>1, CursorSame DEF Alike
  <2> QED
    BY <1>1, <1>2, <2>1, AlikeFinal DEF StepTurns
<1>3. CASE db' = [db EXCEPT !.account = NewAccount, !.account_exists = TRUE]
  <2> DEFINE e == [db EXCEPT !.account = NewAccount, !.account_exists = TRUE]
  <2>1. /\ e.orders = db.orders /\ e.fills = db.fills /\ e.trades = db.trades
        /\ e.journal = db.journal /\ e.signals = db.signals
        /\ e.positions = db.positions /\ e.bar_cursor = db.bar_cursor
    BY <1>1 DEF Database
  <2>2. WellFormed(e)
    BY <1>1, <1>3
  <2> HIDE DEF e
  <2>3. Alike(db, e)
    BY <1>1, <2>1, <2>2, CursorSame DEF Alike
  <2>4. Truthful(e) /\ Final(db, e) /\ Outcomes(e) = Outcomes(db)
    BY <1>1, <2>3, AlikeTruthful, AlikeFinal, AlikeOutcomes
  <2>5. db' = e
    BY <1>3 DEF e
  <2> QED
    BY <2>4, <2>5 DEF StepTurns
<1>4. CASE \E s \in Signal \ db.signals : db' = Submitted(db, s, db.account)
  BY <1>1, <1>4, SubmittedTruthful, SubmittedFinal DEF StepTurns
<1>5. CASE \E x \in Symbol, t \in 1 .. MaxTime, bar \in BarShape, is_fresh \in BOOLEAN,
              allow_new_fill \in BOOLEAN :
             /\ t > db.bar_cursor[x]
             /\ ~FillRaises(db, x, is_fresh, allow_new_fill)
             /\ db' = AfterBar(x, t, bar, is_fresh, allow_new_fill)
  <2>1. PICK x \in Symbol, t \in 1 .. MaxTime, bar \in BarShape, is_fresh \in BOOLEAN,
             allow_new_fill \in BOOLEAN :
               /\ t > db.bar_cursor[x]
               /\ ~FillRaises(db, x, is_fresh, allow_new_fill)
               /\ db' = AfterBar(x, t, bar, is_fresh, allow_new_fill)
    BY <1>5
  <2>2. /\ Truthful(db') /\ Final(db, db')
        /\ BarTurns(db, db', WouldFill(db, x, is_fresh, allow_new_fill))
    BY <2>1, AfterBarAdvances
  <2> QED
    BY <2>1, <2>2, Zenon DEF StepTurns
<1>6. CASE \E x \in Symbol, bar \in BarShape :
             /\ OpenPositions(db, x) # {}
             /\ db' = AfterEndOfData(x, bar)
  BY <1>6, AfterEndAdvances DEF StepTurns
<1> QED
  BY <1>2, <1>3, <1>4, <1>5, <1>6 DEF DatabaseStep

-----------------------------------------------------------------------------
(* The theorems about the journal *)

LedgerInv == TypeInv /\ Truthful(db)

LEMMA InitLedgerInv == Init => LedgerInv
<1> SUFFICES ASSUME Init PROVE LedgerInv
  OBVIOUS
<1>1. TypeInv /\ db = EmptyDatabase
  BY InitTypeInv DEF Init
<1>2. WellFormed(db)
  BY <1>1 DEF TypeInv, TypeOK, WellFormed
<1>3. /\ DOMAIN db.orders = {} /\ DOMAIN db.positions = {} /\ DOMAIN db.trades = {}
      /\ db.signals = {} /\ \A s \in Signal : db.journal[s].outcome = "NONE"
  BY <1>1 DEF EmptyDatabase, NoEntry
<1>4. \A s \in Signal : EntryHasRows(db, s)
  BY <1>3 DEF EntryHasRows, Ordered, WithPosition
<1> QED
  BY <1>1, <1>2, <1>3, <1>4 DEF LedgerInv, Truthful

LEMMA UnchangedLedgerInv == ASSUME LedgerInv, UNCHANGED vars PROVE LedgerInv'
<1>1. TypeInv'
  BY NextTypeInv DEF LedgerInv
<1>2. Truthful(db')
  BY DEF vars, LedgerInv
<1> QED
  BY <1>1, <1>2 DEF LedgerInv, Truthful, EntryHasRows, OrderHasEntry, PositionHasEntry,
     TradeHasEntry, OrderEntry, PositionEntry, WellFormed, Linked

LEMMA NextAdvances ==
  ASSUME LedgerInv, Next PROVE LedgerInv' /\ Final(db, db') /\ StepTurns
<1>1. TypeInv'
  BY NextTypeInv DEF LedgerInv
<1>2. Truthful(db') /\ Final(db, db') /\ StepTurns
  BY NextIsDatabaseStep, DatabaseStepAdvances DEF LedgerInv
<1> QED
  BY <1>1, <1>2 DEF LedgerInv, Truthful, EntryHasRows, OrderHasEntry, PositionHasEntry,
     TradeHasEntry, OrderEntry, PositionEntry, WellFormed, Linked

LEMMA NextLedgerInv == LedgerInv /\ [Next]_vars => LedgerInv'
  BY NextAdvances, UnchangedLedgerInv

\* References followed in both directions leave an entry one row of each kind.
LEMMA TruthfulMatches == LedgerInv => JournalMatchesBook
<1> SUFFICES ASSUME LedgerInv, NEW s \in Signal
             PROVE  LET entry       == db.journal[s]
                        ordersOf    == {i \in DOMAIN db.orders : db.orders[i].signal = s}
                        positionsOf == {i \in DOMAIN db.positions :
                                          db.positions[i].order \in ordersOf}
                        tradesOf    == {i \in DOMAIN db.trades :
                                          db.trades[i].position \in positionsOf}
                    IN  /\ s \in db.signals <=> entry.outcome # "NONE"
                        /\ entry.outcome \notin Ordered => ordersOf = {}
                        /\ entry.outcome \in Ordered =>
                             /\ ordersOf = {entry.order}
                             /\ db.orders[entry.order].status = "PENDING"
                                  <=> entry.outcome = "APPROVED_PENDING"
                        /\ entry.outcome \notin WithPosition => positionsOf = {}
                        /\ entry.outcome \in WithPosition =>
                             /\ positionsOf = {entry.position}
                             /\ db.positions[entry.position].status = "CLOSED"
                                  <=> entry.outcome = "APPROVED_FILLED_CLOSED"
                        /\ tradesOf = IF entry.outcome = "APPROVED_FILLED_CLOSED"
                                      THEN {entry.trade} ELSE {}
  BY DEF JournalMatchesBook
<1> DEFINE entry       == db.journal[s]
           ordersOf    == {i \in DOMAIN db.orders : db.orders[i].signal = s}
           positionsOf == {i \in DOMAIN db.positions : db.positions[i].order \in ordersOf}
           tradesOf    == {i \in DOMAIN db.trades : db.trades[i].position \in positionsOf}
<1>1. EntryHasRows(db, s) /\ WellFormed(db)
  BY DEF LedgerInv, Truthful
<1>2. \A i \in ordersOf : /\ i \in DOMAIN db.orders /\ entry.order = i
                          /\ entry.outcome \in Ordered
                          /\ (db.orders[i].status = "PENDING"
                                <=> entry.outcome = "APPROVED_PENDING")
  <2>1. ASSUME NEW i \in ordersOf
        PROVE  /\ entry.order = i /\ entry.outcome \in Ordered
               /\ (db.orders[i].status = "PENDING" <=> entry.outcome = "APPROVED_PENDING")
    <3>1. OrderHasEntry(db, i)
      BY DEF LedgerInv, Truthful
    <3> QED
      BY <3>1 DEF OrderHasEntry, OrderEntry
  <2> QED
    BY <2>1
<1>3. \A i \in positionsOf : /\ entry.position = i /\ entry.outcome \in WithPosition
                             /\ (db.positions[i].status = "CLOSED"
                                   <=> entry.outcome = "APPROVED_FILLED_CLOSED")
  <2>1. ASSUME NEW i \in positionsOf
        PROVE  /\ entry.position = i /\ entry.outcome \in WithPosition
               /\ (db.positions[i].status = "CLOSED"
                     <=> entry.outcome = "APPROVED_FILLED_CLOSED")
    <3>1. PositionHasEntry(db, i) /\ PositionEntry(db, i) = entry
      BY DEF LedgerInv, Truthful, PositionEntry, OrderEntry
    <3> QED
      BY <3>1 DEF PositionHasEntry
  <2> QED
    BY <2>1
<1>4. \A i \in tradesOf : entry.trade = i /\ entry.outcome = "APPROVED_FILLED_CLOSED"
  <2>1. ASSUME NEW i \in tradesOf
        PROVE  entry.trade = i /\ entry.outcome = "APPROVED_FILLED_CLOSED"
    <3>1. /\ TradeHasEntry(db, i)
          /\ PositionEntry(db, db.trades[i].position) = entry
      BY DEF LedgerInv, Truthful, PositionEntry, OrderEntry
    <3> QED
      BY <3>1 DEF TradeHasEntry
  <2> QED
    BY <2>1
<1>5. entry.outcome \in Ordered => entry.order \in ordersOf
  BY <1>1 DEF EntryHasRows
<1>6. entry.outcome \in WithPosition => entry.position \in positionsOf
  BY <1>1, <1>5 DEF EntryHasRows, WithPosition
<1>7. entry.outcome = "APPROVED_FILLED_CLOSED" => entry.trade \in tradesOf
  BY <1>1, <1>6 DEF EntryHasRows, WithPosition, Ordered
<1>8. s \in db.signals <=> entry.outcome # "NONE"
  BY <1>1 DEF EntryHasRows
<1> HIDE DEF entry, ordersOf, positionsOf, tradesOf
<1>9. entry.outcome \notin Ordered => ordersOf = {}
  BY <1>2
<1>10. entry.outcome \in Ordered =>
         /\ ordersOf = {entry.order}
         /\ (db.orders[entry.order].status = "PENDING"
               <=> entry.outcome = "APPROVED_PENDING")
  BY <1>2, <1>5
<1>11. entry.outcome \notin WithPosition => positionsOf = {}
  BY <1>3
<1>12. entry.outcome \in WithPosition =>
         /\ positionsOf = {entry.position}
         /\ (db.positions[entry.position].status = "CLOSED"
               <=> entry.outcome = "APPROVED_FILLED_CLOSED")
  BY <1>3, <1>6
<1>13. tradesOf = IF entry.outcome = "APPROVED_FILLED_CLOSED" THEN {entry.trade} ELSE {}
  BY <1>4, <1>7
<1> QED
  BY <1>8, <1>9, <1>10, <1>11, <1>12, <1>13, Zenon
     DEF entry, ordersOf, positionsOf, tradesOf

\* The journal names the only order, position and trade of every signal, and
\* its outcome is the state those rows are in: whatever processes submit the
\* same signal, crash, or share the store, and whether or not an account row
\* was there at the start.
THEOREM JournalIsTrue == Spec => []JournalMatchesBook
  BY InitLedgerInv, NextLedgerInv, TruthfulMatches, PTL DEF Spec

\* A filled order, a closed position, a fill, a trade and a decided or closed
\* journal entry never change again, and no bar cursor goes back, in any step
\* of any process.
THEOREM HistoryStaysFinal == Spec => HistoryIsFinal
<1> DEFINE kept == LET any(row) == TRUE
                       filled(row) == row.status = "FILLED"
                       closed(row) == row.status = "CLOSED"
                   IN  /\ RowsKept(db.orders, db'.orders, filled)
                       /\ RowsKept(db.positions, db'.positions, closed)
                       /\ RowsKept(db.fills, db'.fills, any)
                       /\ RowsKept(db.trades, db'.trades, any)
                       /\ \A s \in Signal :
                            db.journal[s].outcome \in
                                {"REJECTED", "SKIPPED_ALREADY_ACTIVE",
                                 "APPROVED_FILLED_CLOSED"}
                              => db'.journal[s] = db.journal[s]
                       /\ \A x \in Symbol : db'.bar_cursor[x] >= db.bar_cursor[x]
<1>1. ASSUME Final(db, db') PROVE kept
  BY <1>1 DEF Final, FinalOutcome, RowsKept
<1>2. LedgerInv /\ [Next]_vars => [kept]_vars
  BY <1>1, NextAdvances
<1>3. HistoryIsFinal <=> [][kept]_vars
  BY DEF HistoryIsFinal
<1> HIDE DEF kept
<1> QED
  BY <1>2, <1>3, InitLedgerInv, NextLedgerInv, PTL DEF Spec

\* A bar, and the close at the end of data, add no order.
LEMMA ManagedKeepsOrders ==
  ASSUME NEW d, WellFormed(d), NEW i \in OpenPositionIds(d), NEW bar \in BarShape
  PROVE  DOMAIN Managed(d, i, bar).orders = DOMAIN d.orders
<1> DEFINE m == [d EXCEPT !.account = MarkToMarket(d.account, bar.close)]
           e == Managed(d, i, bar)
<1>1. /\ Alike(d, m) /\ m.positions = d.positions
      /\ \/ Alike(d, e)
         \/ \E price \in Int, reason \in {"STOP", "TARGET", "EXPIRED", "END_OF_DATA"} :
              e = Closed(m, i, price, reason)
  BY ManagedCases
<1>2. i \in DOMAIN d.positions
  BY DEF OpenPositionIds
<1> HIDE DEF m, e
<1>3. ASSUME NEW price \in Int, NEW reason \in {"STOP", "TARGET", "EXPIRED", "END_OF_DATA"},
             e = Closed(m, i, price, reason)
      PROVE  e.orders = m.orders
  <2>1. WellFormed(m) /\ i \in DOMAIN m.positions
    BY <1>1, <1>2 DEF Alike
  <2>2. CloseWrites(m, Closed(m, i, price, reason), i)
    BY <2>1, ClosedRows
  <2> QED
    BY <1>3, <2>2 DEF CloseWrites
<1>4. m.orders = d.orders /\ (e.orders = d.orders \/ e.orders = m.orders)
  BY <1>1, <1>3 DEF Alike
<1> QED
  BY <1>4 DEF e

LEMMA TradedKeepsOrders ==
  ASSUME NEW d, WellFormed(d), NEW x, NEW bar \in BarShape, NEW is_fresh \in BOOLEAN,
         NEW allow_new_fill \in BOOLEAN
  PROVE  DOMAIN Traded(d, x, bar, is_fresh, allow_new_fill).orders = DOMAIN d.orders
<1> DEFINE e == Traded(d, x, bar, is_fresh, allow_new_fill)
           i == Oldest(PendingOrders(d, x))
           f == Filled(d, i, bar)
           n == Len(d.positions) + 1
<1>1. CASE e = d
  BY <1>1
<1>2. CASE \E k \in OpenPositions(d, x) : e = Managed(d, k, bar)
  <2>1. OpenPositions(d, x) \subseteq OpenPositionIds(d)
    BY DEF OpenPositions, OpenPositionIds
  <2> QED
    BY <1>2, <2>1, ManagedKeepsOrders
<1>3. CASE i \in PendingOrders(d, x) /\ e = Managed(f, n, bar)
  <2>1. i \in DOMAIN d.orders
    BY <1>3 DEF PendingOrders
  <2>2. FillWrites(d, f, i)
    BY <2>1, FilledRows
  <2>3. e = Managed(f, n, bar)
    BY <1>3
  <2>4. /\ WellFormed(f) /\ DOMAIN f.orders = DOMAIN d.orders
        /\ n \in DOMAIN f.positions /\ f.positions[n].status = "OPEN"
    BY <2>2 DEF FillWrites, Rewrote, Grew
  <2>5. n \in OpenPositionIds(f)
    BY <2>4 DEF OpenPositionIds
  <2> HIDE DEF e, f, n
  <2>6. DOMAIN e.orders = DOMAIN f.orders
    BY <2>3, <2>4, <2>5, ManagedKeepsOrders
  <2> QED
    BY <2>4, <2>6 DEF e
<1> QED
  BY <1>1, <1>2, <1>3, TradedCases

LEMMA AddedIsAffordable ==
  ASSUME TypeInv, DatabaseStep, NEW i \in DOMAIN db'.orders \ DOMAIN db.orders
  PROVE  LET order == db'.orders[i] IN
         /\ order.quantity >= 1
         /\ order.quantity * order.signal.reference <= db.account.cash
         /\ db.account.quantity = 0 /\ HaltReasons(db.account) = {}
<1>1. WellFormed(db) /\ db \in Database /\ db.account \in Account
  BY DEF TypeInv, TypeOK, WellFormed, Database
<1>2. CASE db' = db
  BY <1>2
<1>3. CASE db' = [db EXCEPT !.account = NewAccount, !.account_exists = TRUE]
  BY <1>1, <1>3 DEF Database
<1>4. ASSUME NEW s \in Signal \ db.signals, db' = Submitted(db, s, db.account)
      PROVE  /\ db'.orders[i].quantity >= 1
             /\ db'.orders[i].quantity * db'.orders[i].signal.reference <= db.account.cash
             /\ db.account.quantity = 0 /\ HaltReasons(db.account) = {}
  <2>1. SubmitWrites(db, db', s, db.account)
    BY <1>1, <1>4, SubmittedRows
  <2>2. /\ Evaluate(s, db.account).approved /\ i = Len(db.orders) + 1
        /\ db'.orders[i].signal = s
        /\ db'.orders[i].quantity = Evaluate(s, db.account).quantity
    BY <2>1 DEF SubmitWrites, Grew
  <2> QED
    BY <1>1, <2>2, SignalFields, EvaluateSafe
<1>5. ASSUME NEW x \in Symbol, NEW t \in 1 .. MaxTime, NEW bar \in BarShape,
             NEW is_fresh \in BOOLEAN, NEW allow_new_fill \in BOOLEAN,
             db' = AfterBar(x, t, bar, is_fresh, allow_new_fill)
      PROVE  DOMAIN db'.orders = DOMAIN db.orders
  <2> DEFINE a      == RollToDay(db.account, Day(t))
             rolled == [db EXCEPT !.account = a]
             e      == Traded(rolled, x, bar, is_fresh, allow_new_fill)
  <2>1. a \in Account
    BY <1>1, DivInt, BookAssumption, RollToDayEffect DEF Day
  <2> HIDE DEF a
  <2>2. WellFormed(rolled) /\ rolled.orders = db.orders
    BY <1>1, <2>1, MarkedAlike DEF Alike
  <2> HIDE DEF rolled
  <2>3. WellFormed(e) /\ DOMAIN e.orders = DOMAIN db.orders
    BY <2>2, TradedWellFormed, TradedKeepsOrders
  <2>4. db' = [e EXCEPT !.bar_cursor[x] = t]
    BY <1>5 DEF AfterBar, rolled, a
  <2> HIDE DEF e
  <2> QED
    BY <2>3, <2>4 DEF WellFormed, Database
<1>6. ASSUME NEW x \in Symbol, NEW bar \in BarShape, OpenPositions(db, x) # {},
             db' = AfterEndOfData(x, bar)
      PROVE  db'.orders = db.orders
  <2> DEFINE k == Oldest(OpenPositions(db, x))
  <2>1. [db EXCEPT !.account = db.account] = db
    BY <1>1 DEF Database
  <2>2. k \in DOMAIN db.positions /\ ExitPrice(bar.close) \in Int
    BY <1>1, <1>6, ActiveRows, BarFields, PriceInt DEF OpenPositions
  <2> HIDE DEF k
  <2>3. db' = Closed(db, k, ExitPrice(bar.close), "END_OF_DATA")
    BY <1>6, <2>1 DEF AfterEndOfData, k
  <2>4. CloseWrites(db, Closed(db, k, ExitPrice(bar.close), "END_OF_DATA"), k)
    BY <1>1, <2>2, ClosedRows
  <2> QED
    BY <2>3, <2>4 DEF CloseWrites
<1> QED
  BY <1>2, <1>3, <1>4, <1>5, <1>6 DEF DatabaseStep

\* Whichever process submits, and however old its cached account is, an order
\* that is added has a quantity of at least one, which the committed account's
\* cash pays for at the signal's price, and that account is flat and not halted.
THEOREM OrdersStayAffordable == Spec => OrdersAreAffordable
<1> DEFINE affordable == \A i \in DOMAIN db'.orders \ DOMAIN db.orders :
                           LET order == db'.orders[i] IN
                           /\ order.quantity >= 1
                           /\ order.quantity * order.signal.reference <= db.account.cash
                           /\ db.account.quantity = 0 /\ HaltReasons(db.account) = {}
<1>1. TypeInv /\ [Next]_vars => [affordable]_vars
  BY NextIsDatabaseStep, AddedIsAffordable
<1>2. OrdersAreAffordable <=> [][affordable]_vars
  BY DEF OrdersAreAffordable
<1> HIDE DEF affordable
<1> QED
  BY <1>1, <1>2, InitTypeInv, NextTypeInv, PTL DEF Spec

-----------------------------------------------------------------------------
(* The book implements the ledger of signal outcomes *)

\* The two invariants together: an outcome says a position is open exactly
\* when the account holds one.
BookInv == AccountInv /\ Truthful(db)

Status == [s \in Signal |-> db.journal[s].outcome]

\* A free account has no open outcome.
LEMMA FreeAccount ==
  ASSUME BookInv, db.account.quantity = 0
  PROVE  \A s \in Signal : Outcomes(db)[s] # "APPROVED_FILLED_OPEN"
<1> SUFFICES ASSUME NEW s \in Signal, Outcomes(db)[s] = "APPROVED_FILLED_OPEN" PROVE FALSE
  OBVIOUS
<1> DEFINE i == db.journal[s].position
<1>1. db.journal[s].outcome = "APPROVED_FILLED_OPEN"
  BY DEF Outcomes
<1>2. /\ i \in DOMAIN db.positions
      /\ db.positions[i].order = db.journal[s].order
      /\ db.orders[db.journal[s].order].signal = s
  <2>1. EntryHasRows(db, s)
    BY DEF BookInv, Truthful
  <2> QED
    BY <1>1, <2>1 DEF EntryHasRows, WithPosition, Ordered
<1>3. db.positions[i].status # "CLOSED" /\ db.positions[i] \in Position
  <2>1. PositionHasEntry(db, i) /\ WellFormed(db)
    BY <1>2 DEF BookInv, Truthful
  <2>2. PositionEntry(db, i) = db.journal[s]
    BY <1>2 DEF PositionEntry, OrderEntry
  <2> QED
    BY <1>1, <1>2, <2>1, <2>2, RowTypes DEF PositionHasEntry
<1>4. db.positions[i].status = "OPEN"
  BY <1>3 DEF Position
<1>5. i \in OpenPositionIds(db)
  BY <1>2, <1>4 DEF OpenPositionIds
<1>6. OpenPositionIds(db) = {}
  BY DEF BookInv, AccountInv, Fits
<1> QED
  BY <1>5, <1>6

\* A symbol without a pending order has no pending outcome.
LEMMA NoPendingOutcome ==
  ASSUME BookInv, NEW x, PendingOrders(db, x) = {}
  PROVE  \A r \in Signal : r.symbol = x => Outcomes(db)[r] # "APPROVED_PENDING"
<1> SUFFICES ASSUME NEW r \in Signal, r.symbol = x, Outcomes(db)[r] = "APPROVED_PENDING"
             PROVE  FALSE
  OBVIOUS
<1> DEFINE i == db.journal[r].order
<1>1. db.journal[r].outcome = "APPROVED_PENDING"
  BY DEF Outcomes
<1>2. i \in DOMAIN db.orders /\ db.orders[i].signal = r
  <2>1. EntryHasRows(db, r)
    BY DEF BookInv, Truthful
  <2> QED
    BY <1>1, <2>1 DEF EntryHasRows, Ordered
<1>3. db.orders[i].status = "PENDING"
  <2>1. OrderHasEntry(db, i)
    BY <1>2 DEF BookInv, Truthful
  <2> QED
    BY <1>1, <1>2, <2>1 DEF OrderHasEntry, OrderEntry
<1>4. i \in PendingOrders(db, x)
  BY <1>2, <1>3 DEF PendingOrders
<1> QED
  BY <1>4

LEMMA SubmitDecides ==
  ASSUME BookInv, NEW s \in Signal \ db.signals, db' = Submitted(db, s, db.account)
  PROVE  \E outcome \in Ledger!Outcome : Ledger!Decide(s, outcome)
<1> PICK outcome : outcome = db'.journal[s].outcome
  OBVIOUS
<1>1. /\ WellFormed(db) /\ s \in Signal /\ db.account \in Account
  BY TableTypes DEF BookInv, Truthful
<1>2. SubmitWrites(db, db', s, db.account)
  BY <1>1, SubmittedRows
<1>3. Status[s] = "NONE" /\ Status = Outcomes(db) /\ Status' = Outcomes(db')
  <2>1. db.journal[s].outcome = "NONE"
    BY <1>1 DEF BookInv, Truthful, EntryHasRows
  <2> QED
    BY <1>1, <2>1 DEF Status, Outcomes
<1>4. Status' = [Status EXCEPT ![s] = outcome]
  <2>1. \A r \in Signal \ {s} : db'.journal[r] = db.journal[r]
    BY <1>2 DEF SubmitWrites
  <2>2. Turned(db, db', s, outcome)
    BY <1>1, <2>1, OneEntryTurned
  <2> QED
    BY <1>3, <2>2 DEF Turned
<1>5. outcome \in {"REJECTED", "SKIPPED_ALREADY_ACTIVE", "APPROVED_PENDING"}
  BY <1>2 DEF SubmitWrites
<1>6. ASSUME outcome = "APPROVED_PENDING"
      PROVE  /\ \A r \in Signal : Status[r] # "APPROVED_FILLED_OPEN"
             /\ \A r \in Signal : r.symbol = s.symbol => Status[r] # "APPROVED_PENDING"
  <2>1. Evaluate(s, db.account).approved /\ ~AlreadyActive(db, s.symbol)
    BY <1>2, <1>6 DEF SubmitWrites
  <2>2. db.account.quantity = 0
    BY <1>1, <2>1, SignalFields, EvaluateSafe
  <2>3. PendingOrders(db, s.symbol) = {}
    BY <2>1 DEF AlreadyActive
  <2> QED
    BY <1>3, <2>2, <2>3, FreeAccount, NoPendingOutcome
<1>7. Ledger!Decide(s, outcome)
  BY <1>1, <1>3, <1>4, <1>5, <1>6
     DEF Ledger!Decide, Ledger!HasOpen, Ledger!Active, Status
<1>8. outcome \in Ledger!Outcome
  BY <1>5 DEF Ledger!Outcome
<1> QED
  BY <1>7, <1>8

LEMMA BarFillsOrCloses ==
  ASSUME BookInv, NEW may_fill, may_fill => db.account.quantity = 0,
         BarTurns(db, db', may_fill)
  PROVE  Ledger!Next \/ UNCHANGED Status
<1>1. Status = Outcomes(db) /\ Status' = Outcomes(db')
  BY DEF Status, Outcomes
<1>2. CASE Outcomes(db') = Outcomes(db)
  BY <1>1, <1>2
<1>3. ASSUME NEW s \in Signal, Outcomes(db)[s] = "APPROVED_FILLED_OPEN",
             Turned(db, db', s, "APPROVED_FILLED_CLOSED")
      PROVE  Ledger!Next
  <2>1. Status[s] = "APPROVED_FILLED_OPEN"
        /\ Status' = [Status EXCEPT ![s] = "APPROVED_FILLED_CLOSED"]
    BY <1>1, <1>3 DEF Turned
  <2>2. Ledger!Close(s)
    BY <2>1 DEF Ledger!Close, Status
  <2> QED
    BY <2>2 DEF Ledger!Next
<1>4. ASSUME may_fill, NEW s \in Signal,
             NEW outcome \in {"APPROVED_FILLED_OPEN", "APPROVED_FILLED_CLOSED"},
             Outcomes(db)[s] = "APPROVED_PENDING", Turned(db, db', s, outcome)
      PROVE  Ledger!Next
  <2>1. Status[s] = "APPROVED_PENDING" /\ Status' = [Status EXCEPT ![s] = outcome]
    BY <1>1, <1>4 DEF Turned
  <2>2. \A r \in Signal : Status[r] # "APPROVED_FILLED_OPEN"
    BY <1>1, <1>4, FreeAccount
  <2>3. Ledger!Fill(s, outcome) /\ outcome \in Ledger!Outcome
    BY <2>1, <2>2 DEF Ledger!Fill, Ledger!HasOpen, Ledger!Outcome, Status
  <2> QED
    BY <2>3 DEF Ledger!Next
<1> QED
  BY <1>2, <1>3, <1>4 DEF BarTurns

LEMMA StepImplements == BookInv /\ [Next]_vars => [Ledger!Next]_Status
<1> SUFFICES ASSUME BookInv, [Next]_vars PROVE Ledger!Next \/ UNCHANGED Status
  OBVIOUS
<1>1. CASE UNCHANGED vars
  BY <1>1 DEF vars, Status
<1>2. CASE Next
  <2>1. StepTurns
    BY <1>2, NextAdvances DEF BookInv, AccountInv, LedgerInv
  <2>2. CASE Outcomes(db') = Outcomes(db)
    BY <2>2 DEF Status, Outcomes
  <2>3. CASE \E s \in Signal \ db.signals : db' = Submitted(db, s, db.account)
    BY <2>3, SubmitDecides DEF Ledger!Next
  <2>4. ASSUME NEW x \in Symbol, NEW is_fresh \in BOOLEAN, NEW allow_new_fill \in BOOLEAN,
               ~FillRaises(db, x, is_fresh, allow_new_fill),
               BarTurns(db, db', WouldFill(db, x, is_fresh, allow_new_fill))
        PROVE  Ledger!Next \/ UNCHANGED Status
    <3>1. WouldFill(db, x, is_fresh, allow_new_fill) => db.account.quantity = 0
      BY <2>4 DEF FillRaises, CanOpen
    <3> QED
      BY <2>4, <3>1, BarFillsOrCloses
  <2>5. CASE BarTurns(db, db', FALSE)
    BY <2>5, BarFillsOrCloses
  <2> QED
    BY <2>1, <2>2, <2>3, <2>4, <2>5, Zenon DEF StepTurns
<1> QED
  BY <1>1, <1>2

\* Under the same proviso the book implements PaperLedger:
\* every signal is decided once, fills once and closes once, no symbol has two
\* active signals, and no fill happens while any symbol's position is open.
THEOREM BookImplementsLedger == StartsAlone /\ Spec => ImplementsLedger
<1>1. StartsAlone /\ Init => BookInv
  BY InitAccountInv, InitLedgerInv DEF BookInv, LedgerInv
<1>2. BookInv /\ [Next]_vars => BookInv'
  <2>1. BookInv /\ [Next]_vars => AccountInv' /\ LedgerInv'
    BY NextAccountInv, NextLedgerInv DEF BookInv, AccountInv, LedgerInv
  <2> QED
    BY <2>1 DEF BookInv, LedgerInv
<1>3. Init => Ledger!Init
  BY DEF Init, EmptyDatabase, NoEntry, Ledger!Init
<1>4. ImplementsLedger <=> Ledger!Init /\ [][Ledger!Next]_Status
  BY DEF ImplementsLedger, Ledger!Spec, Status
<1> QED
  BY <1>1, <1>2, <1>3, <1>4, StepImplements, PTL DEF Spec

-----------------------------------------------------------------------------
(* Sums over a table.  Total is a recursive function: it exists, agrees on  *)
(* a common beginning, and grows by the row that is appended.               *)

\* f holds the partial sums of the first m values.
IsSum(f, values, m) ==
  f = [n \in 0 .. m |-> IF n = 0 THEN 0 ELSE f[n - 1] + values[n]]

LEMMA TotalIs ==
  ASSUME NEW values
  PROVE Total(values) = (CHOOSE f : IsSum(f, values, Len(values)))[Len(values)]
  BY Zenon DEF Total, IsSum

\* A set of naturals has a least element.
LEMMA LeastNat ==
  ASSUME NEW S \in SUBSET Nat, S # {}
  PROVE  \E n \in S : \A k \in S : n <= k
  <1> DEFINE Less == {ss \in Nat \X Nat : ss[1] < ss[2]}
  <1>1. IsWellFoundedOn(Less, Nat)
    BY NatLessThanWellFounded, Zenon DEF OpToRel
  <1>2. PICK least \in S : \A k \in S : ~(<<k, least>> \in Less)
    <2> HIDE DEF Less
    <2> QED
      BY <1>1, WFMin
  <1>3. ASSUME NEW k \in S PROVE least <= k
    <2>1. <<k, least>> \in Nat \X Nat
      OBVIOUS
    <2>2. ~(k < least)
      BY <1>2, <2>1
    <2> QED
      BY <2>2
  <1> QED
    BY <1>3

LEMMA SumExists ==
  ASSUME NEW values \in Seq(Int), NEW m \in 0 .. Len(values)
  PROVE  \E f \in [0 .. m -> Int] : IsSum(f, values, m)
  <1> DEFINE Has(n) == \E f \in [0 .. n -> Int] : IsSum(f, values, n)
             without == {n \in 0 .. Len(values) : ~Has(n)}
  <1>1. Has(0)
    <2> DEFINE f == [n \in 0 .. 0 |-> 0]
    <2>1. f \in [0 .. 0 -> Int] /\ IsSum(f, values, 0)
      BY DEF IsSum
    <2> QED
      BY <2>1
  <1>2. ASSUME NEW n \in 1 .. Len(values), Has(n - 1)
        PROVE  Has(n)
    <2>1. PICK f \in [0 .. n - 1 -> Int] : IsSum(f, values, n - 1)
      BY <1>2
    <2> DEFINE g == [k \in 0 .. n |-> IF k = n THEN f[n - 1] + values[n] ELSE f[k]]
    <2>2. \A k \in 0 .. n - 1 : f[k] = IF k = 0 THEN 0 ELSE f[k - 1] + values[k]
      BY <2>1 DEF IsSum
    <2>3. f[n - 1] \in Int /\ values[n] \in Int
      BY <1>2
    <2>4. g \in [0 .. n -> Int]
      BY <2>3
    <2>5. ASSUME NEW k \in 0 .. n
          PROVE  g[k] = IF k = 0 THEN 0 ELSE g[k - 1] + values[k]
      <3>1. CASE k = n
        <4>1. g[n] = f[n - 1] + values[n] /\ g[n - 1] = f[n - 1] /\ n # 0
          BY <1>2
        <4> HIDE DEF g
        <4> QED
          BY <3>1, <4>1
      <3>2. CASE k # n
        <4>1. g[k] = f[k] /\ (k # 0 => g[k - 1] = f[k - 1]) /\ k \in 0 .. n - 1
          BY <3>2
        <4> HIDE DEF g
        <4> QED
          BY <2>2, <4>1
      <3> QED
        BY <3>1, <3>2
    <2>6. IsSum(g, values, n)
      <3> HIDE DEF g
      <3> QED
        BY <2>4, <2>5 DEF IsSum
    <2> QED
      BY <2>4, <2>6
  <1>3. without = {}
    <2> HIDE DEF Has
    <2>1. SUFFICES ASSUME without # {} PROVE FALSE
      OBVIOUS
    <2>2. PICK n \in without : \A k \in without : n <= k
      <3>1. without \in SUBSET Nat
        OBVIOUS
      <3> HIDE DEF without
      <3> QED
        BY <2>1, <3>1, LeastNat
    <2>3. n # 0 /\ n \in 1 .. Len(values)
      BY <1>1, <2>2
    <2>4. n - 1 \notin without
      BY <2>2, <2>3
    <2> QED
      BY <1>2, <2>2, <2>3, <2>4
  <1> HIDE DEF Has
  <1>4. Has(m)
    BY <1>3
  <1> QED
    BY <1>4 DEF Has

\* The first m values of both tables agree, and so do their partial sums.
Begins(values, longer, m) == \A k \in 1 .. m : longer[k] = values[k]

LEMMA SumUnique ==
  ASSUME NEW values, NEW longer, NEW m \in Nat, NEW n \in Nat, m <= n,
         Begins(values, longer, m),
         NEW f, IsSum(f, values, m), NEW g, IsSum(g, longer, n)
  PROVE  \A k \in 0 .. m : f[k] = g[k]
  <1> DEFINE apart == {k \in 0 .. m : f[k] # g[k]}
  <1>1. \A k \in 0 .. m : f[k] = IF k = 0 THEN 0 ELSE f[k - 1] + values[k]
    BY Zenon DEF IsSum
  <1>2. \A k \in 0 .. n : g[k] = IF k = 0 THEN 0 ELSE g[k - 1] + longer[k]
    BY Zenon DEF IsSum
  <1>3. SUFFICES ASSUME apart # {} PROVE FALSE
    OBVIOUS
  <1>4. PICK k \in apart : \A j \in apart : k <= j
    <2>1. apart \in SUBSET Nat
      OBVIOUS
    <2> HIDE DEF apart
    <2> QED
      BY <1>3, <2>1, LeastNat
  <1>5. k # 0 /\ k \in 1 .. m
    BY <1>1, <1>2, <1>4
  <1>6. f[k - 1] = g[k - 1]
    BY <1>4, <1>5
  <1> QED
    BY <1>1, <1>2, <1>4, <1>5, <1>6 DEF Begins

LEMMA TotalOfNone == Total(<<>>) = 0
  <1> DEFINE f == CHOOSE f : IsSum(f, <<>>, 0)
  <1>1. \E g : IsSum(g, <<>>, 0)
    <2>1. <<>> \in Seq(Int) /\ 0 \in 0 .. Len(<<>>)
      OBVIOUS
    <2> QED
      BY <2>1, SumExists
  <1>2. IsSum(f, <<>>, 0)
    BY <1>1, Zenon
  <1> HIDE DEF f
  <1>3. f[0] = 0
    BY <1>2 DEF IsSum
  <1>4. Total(<<>>) = f[0]
    BY TotalIs DEF f
  <1> QED
    BY <1>3, <1>4

LEMMA TotalOfMore ==
  ASSUME NEW values \in Seq(Int), NEW longer \in Seq(Int), Len(longer) = Len(values) + 1,
         \A k \in 1 .. Len(values) : longer[k] = values[k]
  PROVE  Total(longer) = Total(values) + longer[Len(longer)] /\ Total(values) \in Int
  <1> DEFINE m == Len(values)
             n == Len(longer)
             f == CHOOSE f : IsSum(f, values, m)
             g == CHOOSE g : IsSum(g, longer, n)
  <1>0. m \in 0 .. Len(values) /\ n \in 0 .. Len(longer)
    OBVIOUS
  <1>1. PICK f0 \in [0 .. m -> Int] : IsSum(f0, values, m)
    BY <1>0, SumExists
  <1>2. PICK g0 \in [0 .. n -> Int] : IsSum(g0, longer, n)
    BY <1>0, SumExists
  <1>3. IsSum(f, values, m) /\ IsSum(g, longer, n)
    BY <1>1, <1>2, Zenon
  <1>4. Total(values) = f[m] /\ Total(longer) = g[n]
    BY TotalIs, Zenon
  <1>5. m \in Nat /\ n = m + 1
    OBVIOUS
  <1>9. Begins(values, longer, m) /\ Begins(values, values, m)
    BY DEF Begins
  <1> HIDE DEF f, g, m, n
  <1>6. f[m] = g[m] /\ f[m] = f0[m]
    <2>1. \A k \in 0 .. m : f[k] = g[k]
      <3>1. m \in Nat /\ n \in Nat /\ m <= n
        BY <1>5
      <3> QED
        BY <1>3, <1>9, <3>1, SumUnique
    <2>2. \A k \in 0 .. m : f[k] = f0[k]
      <3>1. m \in Nat /\ m <= m
        BY <1>5
      <3> QED
        BY <1>1, <1>3, <1>9, <3>1, SumUnique
    <2> QED
      BY <2>1, <2>2, <1>5
  <1>7. g[n] = g[n - 1] + longer[n]
    BY <1>3, <1>5 DEF IsSum
  <1> QED
    <2>1. Total(longer) = Total(values) + longer[n] /\ Total(values) \in Int
      <3>1. f0[m] \in Int /\ n - 1 = m
        BY <1>1, <1>5
      <3> QED
        BY <1>4, <1>6, <1>7, <3>1, Zenon
    <2> QED
      BY <2>1 DEF n

-----------------------------------------------------------------------------
(* What an account has counted *)

\* b has counted the trades a has, holds what a holds, and knows its peak.
SameTally(a, b) ==
  /\ b.realized_pnl = a.realized_pnl /\ b.total_trades = a.total_trades
  /\ b.consecutive_losses = a.consecutive_losses /\ b.quantity = a.quantity
  /\ b.peak_equity >= Equity(b)

LEMMA UpdatePeakTally ==
  ASSUME NEW a \in Account PROVE SameTally(a, UpdatePeak(a))
<1> DEFINE b == UpdatePeak(a)
<1>1. /\ b.realized_pnl = a.realized_pnl /\ b.total_trades = a.total_trades
      /\ b.consecutive_losses = a.consecutive_losses /\ b.quantity = a.quantity
      /\ b.cash = a.cash /\ b.cost_basis = a.cost_basis
      /\ b.unrealized_pnl = a.unrealized_pnl
  BY DEF UpdatePeak, Account
<1>2. b.peak_equity >= Equity(a)
  BY UpdatePeakEffect
<1> HIDE DEF b
<1> QED
  BY <1>1, <1>2 DEF SameTally, Equity, b

LEMMA RollTally ==
  ASSUME NEW a \in Account, NEW day \in Int, a.peak_equity >= Equity(a)
  PROVE  SameTally(a, RollToDay(a, day))
  BY EquityInt DEF SameTally, RollToDay, Account, Equity

LEMMA MarkTally ==
  ASSUME NEW a \in Account, NEW price \in Int
  PROVE  SameTally(a, MarkToMarket(a, price))
<1> DEFINE gain == IF a.quantity > 0 THEN (price - a.entry_price) * a.quantity
                   ELSE a.unrealized_pnl
           m == [a EXCEPT !.unrealized_pnl = gain]
<1>1. gain \in Int
  BY DEF Account
<1>2. MarkToMarket(a, price) = UpdatePeak(m)
  BY DEF MarkToMarket
<1> HIDE DEF gain
<1>3. /\ m \in Account
      /\ m.realized_pnl = a.realized_pnl /\ m.total_trades = a.total_trades
      /\ m.consecutive_losses = a.consecutive_losses /\ m.quantity = a.quantity
  BY <1>1 DEF Account
<1> HIDE DEF m
<1> QED
  BY <1>2, <1>3, UpdatePeakTally DEF SameTally

LEMMA HoldingTally ==
  ASSUME NEW a \in Account, NEW quantity, NEW price
  PROVE  LET b == Holding(a, quantity, price) IN
         /\ b.realized_pnl = a.realized_pnl /\ b.total_trades = a.total_trades
         /\ b.consecutive_losses = a.consecutive_losses
  BY Zenon DEF Holding, Account

LEMMA PaidTally ==
  ASSUME NEW a \in Account, NEW amount
  PROVE  LET b == Paid(a, amount) IN
         /\ b.realized_pnl = a.realized_pnl /\ b.total_trades = a.total_trades
         /\ b.consecutive_losses = a.consecutive_losses
  BY Zenon DEF Paid, Account

\* Opening a position counts no trade.
LEMMA OpenTally ==
  ASSUME NEW a \in Account, NEW quantity \in Nat, NEW price \in Int, NEW fee \in Int
  PROVE  LET b == OpenAccountPosition(a, quantity, price, fee) IN
         /\ b.realized_pnl = a.realized_pnl /\ b.total_trades = a.total_trades
         /\ b.consecutive_losses = a.consecutive_losses /\ b.quantity = quantity
         /\ b.peak_equity >= Equity(b)
<1> DEFINE amount == -(quantity * price + fee)
           paid == Paid(a, amount)
           held == Holding(paid, quantity, price)
<1>1. amount \in Int
  OBVIOUS
<1>2. OpenAccountPosition(a, quantity, price, fee) = UpdatePeak(held)
  BY DEF OpenAccountPosition
<1> HIDE DEF amount
<1>3. /\ paid \in Account
      /\ paid.realized_pnl = a.realized_pnl /\ paid.total_trades = a.total_trades
      /\ paid.consecutive_losses = a.consecutive_losses
  BY <1>1, PaidEffect, PaidTally
<1> HIDE DEF paid
<1>4. /\ held \in Account /\ held.quantity = quantity
      /\ held.realized_pnl = paid.realized_pnl /\ held.total_trades = paid.total_trades
      /\ held.consecutive_losses = paid.consecutive_losses
  BY <1>3, HoldingEffect, HoldingTally
<1> HIDE DEF held
<1> QED
  BY <1>2, <1>3, <1>4, UpdatePeakTally DEF SameTally

\* Closing one counts its profit, one trade, and one loss more or none.
LEMMA CloseTally ==
  ASSUME NEW a \in Account, NEW price \in Int, NEW fee \in Int, NEW net_pnl \in Int
  PROVE  LET b == CloseAccountPosition(a, price, fee, net_pnl) IN
         /\ b.realized_pnl = a.realized_pnl + net_pnl
         /\ b.total_trades = a.total_trades + 1
         /\ b.consecutive_losses = IF net_pnl < 0 THEN a.consecutive_losses + 1 ELSE 0
         /\ b.quantity = 0 /\ b.peak_equity >= Equity(b)
<1> DEFINE amount == a.quantity * price - fee
           paid == Paid(a, amount)
           counted == Counted(paid, net_pnl)
           flat == Holding(counted, 0, 0)
<1>1. amount \in Int
  BY DEF Account
<1>2. CloseAccountPosition(a, price, fee, net_pnl) = UpdatePeak(flat)
  BY DEF CloseAccountPosition
<1> HIDE DEF amount
<1>3. /\ paid \in Account
      /\ paid.realized_pnl = a.realized_pnl /\ paid.total_trades = a.total_trades
      /\ paid.consecutive_losses = a.consecutive_losses
  BY <1>1, PaidEffect, PaidTally
<1> HIDE DEF paid
<1>4. /\ counted.total_trades = paid.total_trades + 1
      /\ counted.consecutive_losses =
           IF net_pnl < 0 THEN paid.consecutive_losses + 1 ELSE 0
  BY <1>3 DEF Counted, Account
<1>5. counted \in Account /\ counted.realized_pnl = paid.realized_pnl + net_pnl
  BY <1>3, CountedEffect
<1> HIDE DEF counted
<1>6. /\ flat \in Account /\ flat.quantity = 0
      /\ flat.realized_pnl = counted.realized_pnl
      /\ flat.total_trades = counted.total_trades
      /\ flat.consecutive_losses = counted.consecutive_losses
  BY <1>5, HoldingEffect, HoldingTally
<1> HIDE DEF flat
<1> QED
  BY <1>2, <1>3, <1>4, <1>5, <1>6, UpdatePeakTally DEF SameTally

-----------------------------------------------------------------------------
(* The account against the sums of the tables *)

\* LedgerReconciles, of any database.
Tallied(d) ==
  /\ d.account.realized_pnl = Total(Pnls(d)) /\ d.account.total_trades = Len(d.trades)
  /\ IsLossStreak(d.account.consecutive_losses, d.trades)
  /\ d.account.peak_equity >= Equity(d.account)
  /\ d.account.quantity = Total(Bought(d))

LEMMA SummedTables ==
  ASSUME NEW d, WellFormed(d)
  PROVE  /\ Pnls(d) \in Seq(Int) /\ Len(Pnls(d)) = Len(d.trades)
         /\ Bought(d) \in Seq(Int) /\ Len(Bought(d)) = Len(d.fills)
         /\ Len(d.trades) \in Nat /\ Len(d.fills) \in Nat
<1>1. /\ d.trades \in Seq(Trade) /\ d.fills \in Seq(PaperFill)
      /\ Len(d.trades) \in Nat /\ DOMAIN d.trades = 1 .. Len(d.trades)
      /\ Len(d.fills) \in Nat /\ DOMAIN d.fills = 1 .. Len(d.fills)
  BY TableTypes, LenProperties
<1>2. \A i \in 1 .. Len(d.trades) : d.trades[i].net_pnl \in Int
  <2>1. \A i \in DOMAIN d.trades : d.trades[i] \in Trade
    BY <1>1, RowOfSeq
  <2> QED
    BY <1>1, <2>1 DEF Trade
<1>3. \A i \in 1 .. Len(d.fills) :
        (IF d.fills[i].kind = "ENTRY" THEN d.fills[i].quantity
         ELSE - d.fills[i].quantity) \in Int
  <2>1. \A i \in DOMAIN d.fills : d.fills[i] \in PaperFill
    BY <1>1, RowOfSeq
  <2> SUFFICES ASSUME NEW i \in 1 .. Len(d.fills)
               PROVE  (IF d.fills[i].kind = "ENTRY" THEN d.fills[i].quantity
                       ELSE - d.fills[i].quantity) \in Int
    OBVIOUS
  <2> DEFINE q == d.fills[i].quantity
  <2>2. d.fills[i] \in PaperFill
    BY <1>1, <2>1
  <2>3. q \in Int
    BY <2>2 DEF PaperFill
  <2> HIDE DEF q
  <2>4. - q \in Int
    BY <2>3
  <2> QED
    BY <2>3, <2>4, Zenon DEF q
<1>4. Pnls(d) \in Seq(Int) /\ Len(Pnls(d)) = Len(d.trades)
  BY <1>1, <1>2 DEF Pnls
<1>5. Bought(d) \in Seq(Int) /\ Len(Bought(d)) = Len(d.fills)
  BY <1>1, <1>3 DEF Bought
<1> QED
  BY <1>1, <1>4, <1>5

\* A step that adds no fill and no trade, and counts none.
LEMMA SameTallied ==
  ASSUME NEW d, Tallied(d), NEW e, e.trades = d.trades, e.fills = d.fills,
         SameTally(d.account, e.account)
  PROVE  Tallied(e)
<1>1. Pnls(e) = Pnls(d) /\ Bought(e) = Bought(d)
  BY DEF Pnls, Bought
<1> QED
  BY <1>1 DEF Tallied, SameTally

\* An appended trade, an appended fill.
LEMMA TradeAdded ==
  ASSUME NEW d, WellFormed(d), NEW e, WellFormed(e), Grew(d.trades, e.trades)
  PROVE  Total(Pnls(e)) = Total(Pnls(d)) + e.trades[Len(d.trades) + 1].net_pnl
<1>1. /\ Pnls(d) \in Seq(Int) /\ Pnls(e) \in Seq(Int) /\ Len(d.trades) \in Nat
      /\ Len(Pnls(d)) = Len(d.trades) /\ Len(Pnls(e)) = Len(d.trades) + 1
  BY SummedTables DEF Grew
<1>2. /\ DOMAIN d.trades = 1 .. Len(d.trades)
      /\ DOMAIN e.trades = 1 .. Len(d.trades) + 1
  BY TableTypes, LenProperties DEF Grew
<1>3. \A k \in 1 .. Len(Pnls(d)) : Pnls(e)[k] = Pnls(d)[k]
  BY <1>1, <1>2 DEF Pnls, Grew
<1>4. Pnls(e)[Len(Pnls(e))] = e.trades[Len(d.trades) + 1].net_pnl
  BY <1>1, <1>2 DEF Pnls
<1> QED
  BY <1>1, <1>3, <1>4, TotalOfMore

LEMMA FillAdded ==
  ASSUME NEW d, WellFormed(d), NEW e, WellFormed(e), Grew(d.fills, e.fills)
  PROVE  LET fill == e.fills[Len(d.fills) + 1] IN
         Total(Bought(e)) = Total(Bought(d))
                              + (IF fill.kind = "ENTRY" THEN fill.quantity
                                 ELSE - fill.quantity)
<1>1. /\ Bought(d) \in Seq(Int) /\ Bought(e) \in Seq(Int) /\ Len(d.fills) \in Nat
      /\ Len(Bought(d)) = Len(d.fills) /\ Len(Bought(e)) = Len(d.fills) + 1
  BY SummedTables DEF Grew
<1>2. /\ DOMAIN d.fills = 1 .. Len(d.fills)
      /\ DOMAIN e.fills = 1 .. Len(d.fills) + 1
  BY TableTypes, LenProperties DEF Grew
<1>3. \A k \in 1 .. Len(Bought(d)) : Bought(e)[k] = Bought(d)[k]
  BY <1>1, <1>2 DEF Bought, Grew
<1> DEFINE fill == e.fills[Len(d.fills) + 1]
<1>4. Bought(e)[Len(Bought(e))] = IF fill.kind = "ENTRY" THEN fill.quantity
                                  ELSE - fill.quantity
  BY <1>1, <1>2 DEF Bought
<1> HIDE DEF fill
<1>5. Total(Bought(e)) = Total(Bought(d)) + Bought(e)[Len(Bought(e))]
  BY <1>1, <1>3, TotalOfMore
<1> QED
  BY <1>4, <1>5 DEF fill

\* One trade more: the streak grows by a loss and ends with anything else.
LEMMA StreakAdded ==
  ASSUME NEW d, WellFormed(d), NEW e, WellFormed(e), Grew(d.trades, e.trades),
         NEW n, IsLossStreak(n, d.trades)
  PROVE  IsLossStreak(IF e.trades[Len(d.trades) + 1].net_pnl < 0 THEN n + 1 ELSE 0,
                      e.trades)
<1> DEFINE m    == Len(d.trades)
           last == e.trades[m + 1].net_pnl
<1>1. m \in Nat /\ Len(e.trades) = m + 1 /\ DOMAIN d.trades = 1 .. m
  BY SummedTables, TableTypes, LenProperties DEF Grew
<1>2. \A i \in 1 .. m : e.trades[i] = d.trades[i]
  BY <1>1 DEF Grew
<1>3. /\ n \in 0 .. m
      /\ \A i \in m - n + 1 .. m : d.trades[i].net_pnl < 0
      /\ n < m => d.trades[m - n].net_pnl >= 0
  BY DEF IsLossStreak
<1>4. e.trades[m + 1] \in Trade
  BY <1>1, TableTypes, RowOfSeq, LenProperties
<1>5. last \in Int
  BY <1>4 DEF Trade
<1> HIDE DEF m
<1>6. CASE last < 0
  <2>1. n + 1 \in 0 .. m + 1 /\ (m + 1) - (n + 1) + 1 = m - n + 1
        /\ (m + 1) - (n + 1) = m - n
    BY <1>1, <1>3
  <2>2. \A i \in m - n + 1 .. m + 1 : e.trades[i].net_pnl < 0
    <3> SUFFICES ASSUME NEW i \in m - n + 1 .. m + 1 PROVE e.trades[i].net_pnl < 0
      OBVIOUS
    <3>1. i = m + 1 \/ i \in m - n + 1 .. m
      BY <1>1, <1>3
    <3>2. ASSUME i \in m - n + 1 .. m PROVE e.trades[i].net_pnl < 0
      <4>1. i \in 1 .. m
        BY <1>1, <1>3, <3>2
      <4> QED
        BY <1>2, <1>3, <3>2, <4>1
    <3> QED
      BY <1>6, <3>1, <3>2
  <2>3. n + 1 < m + 1 => e.trades[m - n].net_pnl >= 0
    <3> SUFFICES ASSUME n + 1 < m + 1 PROVE e.trades[m - n].net_pnl >= 0
      OBVIOUS
    <3>1. n < m /\ m - n \in 1 .. m
      BY <1>1, <1>3
    <3> QED
      BY <1>2, <1>3, <3>1
  <2> QED
    BY <1>1, <1>6, <2>1, <2>2, <2>3 DEF IsLossStreak, m
<1>7. CASE ~(last < 0)
  <2>1. last >= 0
    BY <1>5, <1>7
  <2> QED
    BY <1>1, <1>7, <2>1 DEF IsLossStreak, m
<1> QED
  BY <1>6, <1>7 DEF m

LEMMA MarkedTallied ==
  ASSUME NEW d, WellFormed(d), Tallied(d), NEW account, SameTally(d.account, account)
  PROVE  Tallied([d EXCEPT !.account = account])
<1> DEFINE e == [d EXCEPT !.account = account]
<1>1. e.trades = d.trades /\ e.fills = d.fills /\ e.account = account
  BY DEF WellFormed, Database
<1> HIDE DEF e
<1> QED
  BY <1>1, SameTallied DEF e

LEMMA FilledTallied ==
  ASSUME NEW d, Sound(d), Tallied(d), NEW i \in DOMAIN d.orders, NEW bar \in BarShape,
         CanOpen(d.account, d.orders[i].quantity)
  PROVE  Tallied(Filled(d, i, bar))
<1> DEFINE e     == Filled(d, i, bar)
           q     == d.orders[i].quantity
           price == EntryPrice(bar.open)
           fee   == CostForFill(q * price)
<1>1. WellFormed(d) /\ WellFormed(e) /\ FillWrites(d, e, i)
  BY FilledRows, FilledEffect DEF Sound
<1>2. /\ d.account \in Account /\ q \in Nat /\ price \in Int
      /\ e.account = OpenAccountPosition(d.account, q, price, fee)
  <2>1. d.orders[i] \in PaperOrder
    BY <1>1, RowTypes
  <2>2. q \in Nat
    BY <2>1 DEF PaperOrder
  <2>3. d.account \in Account
    BY <1>1, TableTypes
  <2>4. price \in Int
    BY BarFields, PriceInt
  <2>5. e.account = OpenAccountPosition(d.account, q, price, fee)
    BY <1>1, FilledEffect
  <2> QED
    BY <2>2, <2>3, <2>4, <2>5
<1>3. fee \in Int
  <2>1. q * price \in Int
    BY <1>2
  <2> QED
    BY <2>1, CostInt
<1> HIDE DEF e, price, fee
<1>4. /\ e.account.realized_pnl = d.account.realized_pnl
      /\ e.account.total_trades = d.account.total_trades
      /\ e.account.consecutive_losses = d.account.consecutive_losses
      /\ e.account.quantity = q /\ e.account.peak_equity >= Equity(e.account)
  <2> HIDE DEF q
  <2> QED
    BY <1>2, <1>3, OpenTally
<1>5. Pnls(e) = Pnls(d) /\ e.trades = d.trades
  BY <1>1 DEF FillWrites, Pnls
<1>6. Total(Bought(e)) = Total(Bought(d)) + q
  BY <1>1, FillAdded DEF FillWrites
<1>7. Total(Bought(d)) = 0
  BY DEF Tallied, CanOpen
<1> QED
  BY <1>2, <1>4, <1>5, <1>6, <1>7 DEF Tallied, e

LEMMA ClosedTallied ==
  ASSUME NEW d, Sound(d), Tallied(d), NEW i \in OpenPositionIds(d), NEW price \in Int,
         NEW reason \in {"STOP", "TARGET", "EXPIRED", "END_OF_DATA"}
  PROVE  Tallied(Closed(d, i, price, reason))
<1> DEFINE e == Closed(d, i, price, reason)
           t == Len(d.trades) + 1
           n == d.account.consecutive_losses
<1>1. /\ WellFormed(d) /\ WellFormed(e) /\ CloseWrites(d, e, i)
      /\ i \in DOMAIN d.positions
  BY ClosedRows, ClosedEffect DEF Sound, OpenPositionIds
<1>2. d.account.quantity = d.positions[i].quantity
  BY OpenIsHeld DEF Sound
<1> HIDE DEF e
<1>3. e.trades[t].net_pnl \in Int /\ Len(e.trades) = t /\ Len(d.trades) \in Nat
  <2>1. t \in DOMAIN e.trades /\ Len(e.trades) = t /\ Len(d.trades) \in Nat
    BY <1>1, SummedTables DEF CloseWrites, Grew
  <2> HIDE DEF t
  <2>2. e.trades[t] \in Trade
    BY <1>1, <2>1, RowTypes
  <2> QED
    BY <2>1, <2>2 DEF Trade, t
<1>4. PICK paid \in Int, fee \in Int :
        e.account = CloseAccountPosition(d.account, paid, fee, e.trades[t].net_pnl)
  BY <1>1 DEF CloseWrites
<1>5. /\ e.account.realized_pnl = d.account.realized_pnl + e.trades[t].net_pnl
      /\ e.account.total_trades = d.account.total_trades + 1
      /\ e.account.consecutive_losses = IF e.trades[t].net_pnl < 0 THEN n + 1 ELSE 0
      /\ e.account.quantity = 0 /\ e.account.peak_equity >= Equity(e.account)
  <2>1. d.account \in Account
    BY <1>1, TableTypes
  <2> DEFINE profit == e.trades[t].net_pnl
             b == CloseAccountPosition(d.account, paid, fee, profit)
  <2>2. profit \in Int /\ e.account = b
    BY <1>3, <1>4
  <2> HIDE DEF profit
  <2>3. /\ b.realized_pnl = d.account.realized_pnl + profit
        /\ b.total_trades = d.account.total_trades + 1
        /\ b.consecutive_losses = IF profit < 0 THEN n + 1 ELSE 0
        /\ b.quantity = 0 /\ b.peak_equity >= Equity(b)
    BY <2>1, <2>2, CloseTally
  <2> HIDE DEF b, n
  <2> QED
    BY <2>2, <2>3, Zenon DEF profit
<1>6. Total(Pnls(e)) = Total(Pnls(d)) + e.trades[t].net_pnl
  BY <1>1, TradeAdded DEF CloseWrites
<1>7. IsLossStreak(e.account.consecutive_losses, e.trades)
  <2>1. IsLossStreak(n, d.trades) /\ Grew(d.trades, e.trades)
    BY <1>1 DEF Tallied, CloseWrites
  <2> HIDE DEF n
  <2> QED
    BY <1>1, <1>5, <2>1, StreakAdded
<1>8. Total(Bought(e)) = Total(Bought(d)) - d.positions[i].quantity
  <2> DEFINE fill == e.fills[Len(d.fills) + 1]
  <2>1. /\ Grew(d.fills, e.fills) /\ fill.kind = "EXIT"
        /\ fill.quantity = d.positions[i].quantity
    BY <1>1 DEF CloseWrites
  <2>2. Total(Bought(e)) = Total(Bought(d))
          + (IF fill.kind = "ENTRY" THEN fill.quantity ELSE - fill.quantity)
    BY <1>1, <2>1, FillAdded
  <2>3. d.positions[i].quantity \in Int /\ Total(Bought(d)) \in Int
    <3>1. d.account.quantity \in Nat
      BY <1>1, TableTypes DEF Account
    <3> QED
      BY <1>2, <3>1 DEF Tallied
  <2> HIDE DEF fill
  <2> QED
    BY <2>1, <2>2, <2>3
<1>9. Total(Bought(e)) = 0
  <2>1. d.account.quantity \in Nat /\ d.account.quantity = Total(Bought(d))
    BY <1>1, TableTypes DEF Account, Tallied
  <2> QED
    BY <1>2, <1>8, <2>1
<1> QED
  BY <1>3, <1>5, <1>6, <1>7, <1>9 DEF Tallied, e

LEMMA ManagedTallied ==
  ASSUME NEW d, Sound(d), Tallied(d), NEW i \in OpenPositionIds(d), NEW bar \in BarShape
  PROVE  Tallied(Managed(d, i, bar))
<1> DEFINE a == MarkToMarket(d.account, bar.close)
           m == [d EXCEPT !.account = a]
           e == Managed(d, i, bar)
<1>1. WellFormed(d) /\ d.account \in Account /\ bar.close \in Int
  BY TableTypes, BarFields DEF Sound
<1>2. /\ a \in Account /\ SameTally(d.account, a)
      /\ a.quantity = d.account.quantity /\ a.entry_price = d.account.entry_price
      /\ a.cash = d.account.cash /\ a.realized_pnl = d.account.realized_pnl
  BY <1>1, MarkTally, MarkToMarketEffect
<1>3. /\ Alike(d, m) /\ m.positions = d.positions
      /\ \/ Alike(d, e) /\ e.account = m.account
         \/ \E price \in Int, reason \in {"STOP", "TARGET", "EXPIRED", "END_OF_DATA"} :
              e = Closed(m, i, price, reason)
  BY <1>1, ManagedCases
<1> HIDE DEF a
<1>4. Tallied(m) /\ Sound(m) /\ m.account = a
  BY <1>1, <1>2, MarkedTallied, MarkedSound, MarkedEffect
<1> HIDE DEF m, e
<1>5. CASE Alike(d, e) /\ e.account = m.account
  <2>1. e.trades = d.trades /\ e.fills = d.fills
    BY <1>5 DEF Alike
  <2>2. Tallied(e)
    BY <1>2, <1>4, <1>5, <2>1, SameTallied
  <2> QED
    BY <2>2 DEF e
<1>6. ASSUME NEW price \in Int, NEW reason \in {"STOP", "TARGET", "EXPIRED", "END_OF_DATA"},
             e = Closed(m, i, price, reason)
      PROVE  Tallied(e)
  <2>1. i \in OpenPositionIds(m)
    BY <1>3 DEF OpenPositionIds
  <2> QED
    BY <1>4, <1>6, <2>1, ClosedTallied
<1> QED
  BY <1>3, <1>5, <1>6 DEF e

LEMMA TradedTallied ==
  ASSUME NEW d, Sound(d), Tallied(d), NEW x, NEW bar \in BarShape, NEW is_fresh \in BOOLEAN,
         NEW allow_new_fill \in BOOLEAN, ~FillRaises(d, x, is_fresh, allow_new_fill)
  PROVE  Tallied(Traded(d, x, bar, is_fresh, allow_new_fill))
<1> DEFINE e == Traded(d, x, bar, is_fresh, allow_new_fill)
           i == Oldest(PendingOrders(d, x))
           f == Filled(d, i, bar)
           n == Len(d.positions) + 1
<1>1. CASE e = d
  BY <1>1
<1>2. CASE \E k \in OpenPositions(d, x) : e = Managed(d, k, bar)
  BY <1>2, ManagedTallied DEF OpenPositions, OpenPositionIds
<1>3. CASE /\ WouldFill(d, x, is_fresh, allow_new_fill)
           /\ i \in PendingOrders(d, x) /\ e = Managed(f, n, bar)
  <2>1. i \in DOMAIN d.orders /\ CanOpen(d.account, d.orders[i].quantity)
    BY <1>3 DEF FillRaises, PendingOrders
  <2>2. Sound(f) /\ Tallied(f) /\ n \in OpenPositionIds(f)
    BY <2>1, FilledSound, FilledTallied
  <2> HIDE DEF f, n
  <2>3. Tallied(Managed(f, n, bar))
    BY <2>2, ManagedTallied
  <2> QED
    BY <1>3, <2>3
<1> QED
  BY <1>1, <1>2, <1>3, TradedCases DEF Sound

-----------------------------------------------------------------------------
(* The ledger is reconciled *)

\* The quantity a position sells is the one its account holds, which
\* AccountInv knows.
TallyInv == AccountInv /\ Tallied(db)

LEMMA NewAccountTallied ==
  /\ NewAccount.realized_pnl = 0 /\ NewAccount.total_trades = 0
  /\ NewAccount.consecutive_losses = 0 /\ NewAccount.quantity = 0
  /\ NewAccount.peak_equity >= Equity(NewAccount)
  BY InitialCapitalAssumption DEF NewAccount, Equity

LEMMA EmptyTallied ==
  ASSUME NEW d, d.trades = <<>>, d.fills = <<>>, d.account = NewAccount
  PROVE  Tallied(d)
<1>1. Pnls(d) = <<>> /\ Bought(d) = <<>>
  BY DEF Pnls, Bought
<1>2. IsLossStreak(0, d.trades)
  BY DEF IsLossStreak
<1>3. Len(d.trades) = 0
  OBVIOUS
<1> QED
  BY <1>1, <1>2, <1>3, NewAccountTallied, TotalOfNone DEF Tallied

LEMMA DatabaseStepTallied ==
  ASSUME TallyInv, DatabaseStep
  PROVE  Tallied(db')
<1>1. /\ WellFormed(db) /\ Sound(db) /\ db.account \in Account /\ db \in Database
      /\ Tallied(db)
  BY DEF TallyInv, AccountInv, TypeInv, TypeOK, WellFormed, Database, Sound
<1>2. CASE db' = db
  BY <1>1, <1>2
<1>3. CASE /\ \E p \in Proc : mem[p].state = "creating"
           /\ db' = [db EXCEPT !.account = NewAccount, !.account_exists = TRUE]
  <2>1. db = EmptyDatabase
    BY <1>3 DEF TallyInv, AccountInv, FirstStart
  <2>2. db.trades = <<>> /\ db.fills = <<>>
    BY <2>1 DEF EmptyDatabase
  <2>3. db'.account = NewAccount /\ db'.trades = <<>> /\ db'.fills = <<>>
    BY <1>1, <1>3, <2>2 DEF Database
  <2> QED
    BY <2>3, EmptyTallied
<1>4. ASSUME NEW s \in Signal, db' = Submitted(db, s, db.account)
      PROVE  Tallied(db')
  <2> DEFINE e == Submitted(db, s, db.account)
  <2>1. e.account = db.account /\ e.trades = db.trades /\ e.fills = db.fills
    BY <1>1, SubmittedEffect, SubmittedRows DEF SubmitWrites
  <2> HIDE DEF e
  <2>2. SameTally(db.account, e.account)
    BY <1>1, <2>1 DEF SameTally, Tallied
  <2>3. Tallied(e)
    BY <1>1, <2>1, <2>2, SameTallied
  <2> QED
    BY <1>4, <2>3 DEF e
<1>5. ASSUME NEW x \in Symbol, NEW t \in 1 .. MaxTime, NEW bar \in BarShape,
             NEW is_fresh \in BOOLEAN, NEW allow_new_fill \in BOOLEAN,
             ~FillRaises(db, x, is_fresh, allow_new_fill),
             db' = AfterBar(x, t, bar, is_fresh, allow_new_fill)
      PROVE  Tallied(db')
  <2> DEFINE a      == RollToDay(db.account, Day(t))
             rolled == [db EXCEPT !.account = a]
             e      == Traded(rolled, x, bar, is_fresh, allow_new_fill)
  <2>1. Day(t) \in Int
    BY DivInt, BookAssumption DEF Day
  <2>2. /\ a \in Account /\ SameTally(db.account, a)
        /\ a.quantity = db.account.quantity /\ a.entry_price = db.account.entry_price
        /\ a.cash = db.account.cash /\ a.realized_pnl = db.account.realized_pnl
    BY <1>1, <2>1, RollToDayEffect, RollTally DEF Tallied
  <2> HIDE DEF a
  <2>3. /\ Sound(rolled) /\ Tallied(rolled) /\ rolled.account = a
        /\ rolled.positions = db.positions /\ rolled.orders = db.orders
    BY <1>1, <2>2, MarkedSound, MarkedEffect, MarkedTallied
  <2> HIDE DEF rolled
  <2>4. ~FillRaises(rolled, x, is_fresh, allow_new_fill)
    BY <1>5, <2>2, <2>3
       DEF FillRaises, WouldFill, CanOpen, PendingOrders, OpenPositions, SymbolOfPosition
  <2>5. Tallied(e) /\ WellFormed(e)
    BY <2>3, <2>4, TradedTallied, TradedWellFormed DEF Sound
  <2>6. db' = [e EXCEPT !.bar_cursor[x] = t]
    BY <1>5 DEF AfterBar, rolled, a
  <2> HIDE DEF e
  <2>7. db'.trades = e.trades /\ db'.fills = e.fills /\ db'.account = e.account
    BY <2>5, <2>6 DEF WellFormed, Database
  <2>8. SameTally(e.account, db'.account)
    BY <2>5, <2>7 DEF SameTally, Tallied
  <2> QED
    BY <2>5, <2>7, <2>8, SameTallied
<1>6. ASSUME NEW x \in Symbol, NEW bar \in BarShape, OpenPositions(db, x) # {},
             db' = AfterEndOfData(x, bar)
      PROVE  Tallied(db')
  <2> DEFINE d == [db EXCEPT !.account = db.account]
             i == Oldest(OpenPositions(db, x))
  <2>1. d = db
    BY <1>1 DEF Database
  <2>2. i \in OpenPositionIds(db)
    BY <1>1, <1>6, ActiveRows DEF OpenPositions, OpenPositionIds
  <2>3. ExitPrice(bar.close) \in Int
    BY BarFields, PriceInt
  <2> HIDE DEF i
  <2>4. db' = Closed(db, i, ExitPrice(bar.close), "END_OF_DATA")
    BY <1>6, <2>1 DEF AfterEndOfData, i
  <2> QED
    BY <1>1, <2>2, <2>3, <2>4, ClosedTallied
<1>7. CASE \E s \in Signal : db' = Submitted(db, s, db.account)
  BY <1>4, <1>7
<1>8. CASE \E x \in Symbol, t \in 1 .. MaxTime, bar \in BarShape, is_fresh \in BOOLEAN,
             allow_new_fill \in BOOLEAN :
             /\ ~FillRaises(db, x, is_fresh, allow_new_fill)
             /\ db' = AfterBar(x, t, bar, is_fresh, allow_new_fill)
  BY <1>5, <1>8
<1>9. CASE \E x \in Symbol, bar \in BarShape :
             /\ OpenPositions(db, x) # {}
             /\ db' = AfterEndOfData(x, bar)
  BY <1>6, <1>9
<1> QED
  BY <1>2, <1>3, <1>7, <1>8, <1>9 DEF DatabaseStep

LEMMA NextTallyInv == TallyInv /\ [Next]_vars => TallyInv'
<1> SUFFICES ASSUME TallyInv, [Next]_vars PROVE TallyInv'
  OBVIOUS
<1>1. AccountInv'
  BY NextAccountInv DEF TallyInv
<1>2. DatabaseStep
  BY NextIsDatabaseStep DEF TallyInv, AccountInv, vars, DatabaseStep
<1>3. Tallied(db')
  BY <1>2, DatabaseStepTallied
<1> QED
  BY <1>1, <1>3 DEF TallyInv, Tallied, Pnls, Bought, Total

\* Under the same proviso the account agrees with the sums of the tables,
\* whichever processes wrote them: the realized profit and the trade count are
\* those of the trades table, the loss streak is the run of losses it ends
\* with, the peak is no less than equity, and the quantity bought by the fills
\* and not sold by them is the one held.
THEOREM LedgerIsReconciled == StartsAlone /\ Spec => []LedgerReconciles
<1>1. StartsAlone /\ Init => TallyInv
  <2>1. Init => Tallied(db)
    BY EmptyTallied DEF Init, EmptyDatabase
  <2> QED
    BY <2>1, InitAccountInv DEF TallyInv
<1>2. TallyInv => LedgerReconciles
  BY DEF TallyInv, Tallied, LedgerReconciles, AccountMatchesTrades
<1> QED
  BY <1>1, <1>2, NextTallyInv, PTL DEF Spec
===============================================================================
