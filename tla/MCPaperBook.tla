----------------------------- MODULE MCPaperBook -----------------------------
(* Small instances of PaperBook for TLC. *)
EXTENDS PaperBook, TLC

MCRiskConfig ==
  [risk_per_trade_pct |-> 5, max_daily_loss_pct |-> 8, max_drawdown_pct |-> 15,
   max_exposure_pct |-> 25, max_consecutive_losses |-> 1, loss_multiplier_pct |-> 50,
   consecutive_loss_hard_limit |-> 2, min_risk_reward |-> 15]

\* --max-exposure 150 and a risk that sizes a tight stop beyond the cash, with
\* limits wide enough to trade on after losses.
MCRiskConfigCash ==
  [MCRiskConfig EXCEPT !.risk_per_trade_pct = 12, !.max_exposure_pct = 150,
                       !.max_daily_loss_pct = 50, !.max_drawdown_pct = 60]

MCCostModel ==
  [brokerage |-> 1, fees_pct |-> 5, entry_slippage_pct |-> 10, exit_slippage_pct |-> 10]

LongSignal(x, t) ==
  [symbol |-> x, generated_at |-> t, side |-> "LONG", finite |-> TRUE,
   reference |-> 10, stop |-> 8, target |-> 14, risk_reward |-> 20]

CONSTANTS A, B, p1, p2

TightSignal(x, t) == [LongSignal(x, t) EXCEPT !.stop = 9]
MCSignalCash == {LongSignal(A, 0), LongSignal(A, 1), TightSignal(B, 0)}

MCSignal == {LongSignal(A, 0), LongSignal(A, 1), LongSignal(B, 0)}

\* A quiet bar, one that only touches the target and one through both levels.
MCBarShape ==
  {[open |-> 10, high |-> 11, low |-> 10, close |-> 10],
   [open |-> 10, high |-> 15, low |-> 9, close |-> 15],
   [open |-> 10, high |-> 15, low |-> 7, close |-> 7]}

Symmetry == Permutations({p1, p2})
=============================================================================
