-------------------------------- MODULE Risk --------------------------------
(***************************************************************************)
(* The paper account and the deterministic risk engine: the mutators of    *)
(* risk/account.py, the sizing, vetoes and circuit breakers of             *)
(* risk/engine.py and the cost model of backtesting/costs.py, as pure      *)
(* operators on an account record.  Money is counted in integer ticks;     *)
(* where the code divides floats the model rounds down, so that one        *)
(* rounding is used for the fee of a fill wherever that fee appears.       *)
(***************************************************************************)
EXTENDS Integers

CONSTANTS
  InitialCapital, \* new_account(initial_capital), in ticks
  RiskConfig,     \* the RiskConfig fields, percent fields as integers
  CostModel       \* brokerage, fees_pct and the two slippages in percent

RiskConfigType ==
  [risk_per_trade_pct : Nat \ {0}, max_daily_loss_pct : Nat \ {0},
   max_drawdown_pct : Nat \ {0}, max_exposure_pct : Nat \ {0},
   max_consecutive_losses : Nat \ {0}, loss_multiplier_pct : 1..100,
   consecutive_loss_hard_limit : Nat \ {0}, min_risk_reward : Nat]

CostModelType ==
  [brokerage : Nat, fees_pct : Nat, entry_slippage_pct : Nat,
   exit_slippage_pct : Nat]

ASSUME InitialCapitalAssumption == InitialCapital \in Nat \ {0}

\* RiskConfig._hard_limit_not_below_soft_limit, and the ge/gt field bounds.
ASSUME RiskConfigAssumption ==
  /\ RiskConfig \in RiskConfigType
  /\ RiskConfig.consecutive_loss_hard_limit >= RiskConfig.max_consecutive_losses

ASSUME CostModelAssumption == CostModel \in CostModelType

-----------------------------------------------------------------------------
(* Costs *)

CostForFill(notional) ==
  CostModel.brokerage + (notional * CostModel.fees_pct) \div 100

EntryPrice(price) == price + (price * CostModel.entry_slippage_pct) \div 100
ExitPrice(price)  == price - (price * CostModel.exit_slippage_pct) \div 100

-----------------------------------------------------------------------------
(* The account *)

Account ==
  [cash : Int, realized_pnl : Int, quantity : Nat, entry_price : Int,
   cost_basis : Int, unrealized_pnl : Int, peak_equity : Int,
   daily_start_equity : Int, current_day : Int,
   consecutive_losses : Nat, total_trades : Nat]

NoDay == -1   \* current_day is None until the first bar

NewAccount ==
  [cash |-> InitialCapital, realized_pnl |-> 0, quantity |-> 0,
   entry_price |-> 0, cost_basis |-> 0, unrealized_pnl |-> 0,
   peak_equity |-> InitialCapital, daily_start_equity |-> InitialCapital,
   current_day |-> NoDay, consecutive_losses |-> 0, total_trades |-> 0]

Equity(a) == a.cash + a.cost_basis + a.unrealized_pnl

UpdatePeak(a) ==
  [a EXCEPT !.peak_equity = IF Equity(a) > @ THEN Equity(a) ELSE @]

RollToDay(a, day) ==
  IF a.current_day = day THEN a
  ELSE [a EXCEPT !.current_day = day, !.daily_start_equity = Equity(a)]

MarkToMarket(a, price) ==
  UpdatePeak([a EXCEPT !.unrealized_pnl =
                IF a.quantity > 0 THEN (price - a.entry_price) * a.quantity ELSE @])

\* Account.open_position raises instead when this is false.
CanOpen(a, quantity) == quantity > 0 /\ a.quantity = 0

Paid(a, amount) == [a EXCEPT !.cash = @ + amount]

Holding(a, quantity, price) ==
  [a EXCEPT !.quantity = quantity, !.entry_price = price,
            !.cost_basis = quantity * price, !.unrealized_pnl = 0]

\* Mutants of Counted: a win takes one loss off the streak, or none.
CountedDown(a, net_pnl) ==
  [a EXCEPT !.realized_pnl = @ + net_pnl, !.total_trades = @ + 1,
            !.consecutive_losses = IF net_pnl < 0 THEN @ + 1 ELSE @ - 1]

CountedOn(a, net_pnl) ==
  [a EXCEPT !.realized_pnl = @ + net_pnl, !.total_trades = @ + 1,
            !.consecutive_losses = IF net_pnl < 0 THEN @ + 1 ELSE @]

Counted(a, net_pnl) ==
  [a EXCEPT !.realized_pnl = @ + net_pnl, !.total_trades = @ + 1,
            !.consecutive_losses = IF net_pnl < 0 THEN @ + 1 ELSE 0]

OpenAccountPosition(a, quantity, price, fee) ==
  UpdatePeak(Holding(Paid(a, -(quantity * price + fee)), quantity, price))

\* Mutant of CloseAccountPosition: the exit fee is not charged.
CloseWithoutFee(a, price, fee, net_pnl) ==
  UpdatePeak(Holding(Counted(Paid(a, a.quantity * price), net_pnl), 0, 0))

\* close_position raises at quantity 0, which is left out: only a second account
\* row, written by another first start, could be flat under an open position.
CloseAccountPosition(a, price, fee, net_pnl) ==
  UpdatePeak(Holding(Counted(Paid(a, a.quantity * price - fee), net_pnl), 0, 0))

-----------------------------------------------------------------------------
(* Circuit breakers that depend on the account alone *)

DailyLossBreached(a) ==
  \/ a.daily_start_equity <= 0
  \/ (a.daily_start_equity - Equity(a)) * 100
       >= a.daily_start_equity * RiskConfig.max_daily_loss_pct

DrawdownBreached(a) ==
  /\ a.peak_equity > 0
  /\ (a.peak_equity - Equity(a)) * 100 >= a.peak_equity * RiskConfig.max_drawdown_pct

HaltReasons(a) ==
  {r \in {"MAX_DAILY_LOSS", "MAX_DRAWDOWN", "CONSECUTIVE_LOSS_LIMIT"} :
     \/ r = "MAX_DAILY_LOSS" /\ DailyLossBreached(a)
     \/ r = "MAX_DRAWDOWN" /\ DrawdownBreached(a)
     \/ /\ r = "CONSECUTIVE_LOSS_LIMIT"
        /\ a.consecutive_losses >= RiskConfig.consecutive_loss_hard_limit}

-----------------------------------------------------------------------------
(* RiskEngine.evaluate: a signal s carries its absolute price levels, its  *)
(* risk/reward in tenths, and whether all its numbers are finite           *)

SignalOf(symbols) ==
  [symbol : symbols, generated_at : Nat, side : {"LONG", "SHORT"}, finite : BOOLEAN,
   reference : Nat, stop : Nat, target : Nat, risk_reward : Nat]

StructurallyValid(s) ==
  s.finite /\ s.side = "LONG" /\ s.stop < s.reference /\ s.reference < s.target

InLossRecovery(a) == a.consecutive_losses >= RiskConfig.max_consecutive_losses

\* Basis points of equity put at risk by one trade.
RiskBps(a) ==
  RiskConfig.risk_per_trade_pct
    * (IF InLossRecovery(a) THEN RiskConfig.loss_multiplier_pct ELSE 100)

RequestedQuantity(s, a) ==
  (Equity(a) * RiskBps(a)) \div (10000 * (s.reference - s.stop))

\* Mutant of SizedQuantity: no reduction to the cash at hand.
UnreducedQuantity(s, a) == RequestedQuantity(s, a)

\* The quantity left after the reduction to the cash at hand.
SizedQuantity(s, a) ==
  LET wanted == RequestedQuantity(s, a)
  IN  IF wanted >= 1 /\ wanted * s.reference > a.cash
      THEN a.cash \div s.reference
      ELSE wanted

ExposureBreached(s, a, quantity) ==
  \/ Equity(a) <= 0
  \/ quantity * s.reference * 100 > RiskConfig.max_exposure_pct * Equity(a)

Vetoed(s, a) ==
  \/ s.risk_reward = 0 \/ s.risk_reward < RiskConfig.min_risk_reward
  \/ a.quantity > 0
  \/ HaltReasons(a) # {}

Evaluate(s, a) ==
  IF ~StructurallyValid(s) THEN [approved |-> FALSE, quantity |-> 0]
  ELSE LET quantity == SizedQuantity(s, a)
           approved == /\ quantity >= 1
                       /\ ~Vetoed(s, a)
                       /\ ~ExposureBreached(s, a, quantity)
       IN  [approved |-> approved, quantity |-> IF approved THEN quantity ELSE 0]
=============================================================================
