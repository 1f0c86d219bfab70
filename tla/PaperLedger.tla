----------------------------- MODULE PaperLedger -----------------------------
(***************************************************************************)
(* What the paper book promises about a signal, without orders, positions, *)
(* accounts or processes: each signal is decided once, an accepted one     *)
(* fills once and closes once, at most one signal of a symbol is active,   *)
(* and the account holds at most one position at a time.  PaperBook        *)
(* implements this specification; the modules that use the book rely on it.*)
(***************************************************************************)
EXTENDS Naturals

CONSTANTS Signal, SymbolOf   \* SymbolOf[s]: the symbol of signal s

VARIABLE status              \* status[s]: the outcome in the journal of s

Outcome == {"NONE", "REJECTED", "SKIPPED_ALREADY_ACTIVE", "APPROVED_PENDING",
            "APPROVED_FILLED_OPEN", "APPROVED_FILLED_CLOSED"}

Init == status = [s \in Signal |-> "NONE"]

HasOpen == \E s \in Signal : status[s] = "APPROVED_FILLED_OPEN"

Active(s) == status[s] \in {"APPROVED_PENDING", "APPROVED_FILLED_OPEN"}

\* submit_signal: only a free account takes an order, and only for a symbol
\* without one.
Decide(s, outcome) ==
  /\ status[s] = "NONE"
  /\ outcome \in {"REJECTED", "SKIPPED_ALREADY_ACTIVE", "APPROVED_PENDING"}
  /\ outcome = "APPROVED_PENDING" =>
       /\ ~HasOpen
       /\ \A r \in Signal : SymbolOf[r] = SymbolOf[s] => ~Active(r)
  /\ status' = [status EXCEPT ![s] = outcome]

\* A bar fills a pending order; the same bar may already close the position.
Fill(s, outcome) ==
  /\ status[s] = "APPROVED_PENDING" /\ ~HasOpen
  /\ outcome \in {"APPROVED_FILLED_OPEN", "APPROVED_FILLED_CLOSED"}
  /\ status' = [status EXCEPT ![s] = outcome]

Close(s) ==
  /\ status[s] = "APPROVED_FILLED_OPEN"
  /\ status' = [status EXCEPT ![s] = "APPROVED_FILLED_CLOSED"]

Next ==
  \E s \in Signal :
    \/ \E outcome \in Outcome : Decide(s, outcome) \/ Fill(s, outcome)
    \/ Close(s)

Spec == Init /\ [][Next]_status
=============================================================================
