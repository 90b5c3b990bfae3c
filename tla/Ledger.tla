-------------------------------- MODULE Ledger --------------------------------
(***************************************************************************)
(* What every matching engine of the repository promises about money: cash *)
(* and the net position of a symbol change only together, in one fill, by  *)
(* price * volume plus the commission, and never by anything else.  It is  *)
(* the abstract specification of BacktestRunner and of PaperGateway.       *)
(***************************************************************************)
EXTENDS Integers

CONSTANTS
    Symbols,      \* what can be held
    Capital,      \* cash at the start
    Prices,       \* prices at which a fill may happen
    Volumes,      \* volumes one fill may have
    Fee(_, _)     \* commission on a price and a volume

VARIABLES cash, net

ledgerVars == <<cash, net>>

Init ==
    /\ cash = Capital
    /\ net = [s \in Symbols |-> 0]

Buy(s, p, v) ==
    /\ cash' = cash - (p * v + Fee(p, v))
    /\ net' = [net EXCEPT ![s] = @ + v]

Sell(s, p, v) ==
    /\ cash' = cash + (p * v - Fee(p, v))
    /\ net' = [net EXCEPT ![s] = @ - v]

Next == \E s \in Symbols, p \in Prices, v \in Volumes : Buy(s, p, v) \/ Sell(s, p, v)

Spec == Init /\ [][Next]_ledgerVars
==============================================================================
