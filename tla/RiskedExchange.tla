---------------------------- MODULE RiskedExchange ----------------------------
(*****************************************************************************)
(* The rules of the Python risk manager (src/risk/rules.py, manager.py) before*)
(* an exchange gateway, called as docs/phase4 shows: the account is queried,  *)
(* the position is queried, the order is checked, and if approved it is sent. *)
(* Each is a step of its own; between them the exchange goes on and the       *)
(* gateway may connect or disconnect.                                         *)
(*                                                                            *)
(* Orders are of one symbol at one price; positions are counted in units and  *)
(* a balance as the units that max_position_pct of it buys at that price.  For*)
(* a balance of zero the rules about it approve everything: the gateways to   *)
(* XTP and CTP answer no other, nor does the crypto gateway while it is not   *)
(* connected or when the account holds no USDT.  None of the gateways answers *)
(* a profit or loss.                                                          *)
(*****************************************************************************)
EXTENDS ExchangeGateways, FiniteSets, Functions

CONSTANTS
    Requests,          \* orders: [direction, type, volume]
    MaxUnits,          \* units that max_position_pct of the greatest balance buys
    MaxOrderVolume     \* max_order_volume

ASSUME RiskedAssumption ==
    /\ Requests \subseteq [direction : {"LONG", "SHORT"}, type : {"LIMIT", "MARKET"},
                           volume : Nat \ {0}]
    /\ MaxUnits \in Nat /\ MaxOrderVolume \in Nat

VARIABLES
    blacklisted,       \* the symbol is on the blacklist
    queried,           \* what was queried last, for the next check
    answered,          \* the answers; current: both are of the exchange, with a
                       \* balance, and no order was alive there
    approved,          \* the order that passed the check and is to be sent next
    sent,              \* per exchange number: the order
    misled             \* an order was approved on answers that are not current

riskVars == <<blacklisted, queried, answered, approved, sent, misled>>
allVars == <<vars, riskVars>>

NoRequest == [volume |-> 0]

(* query_account and query_position. *)
Answers == kind = "crypto" /\ ready
Balances == IF Answers THEN 0 .. MaxUnits ELSE {0}
TotalPnl == 0
SignedVolume(r) == IF r.direction = "LONG" THEN r.volume ELSE -r.volume
Fills == {i \in DOMAIN exchange : exchange[i] = "filled"}
Held == SumFunctionOnSet([i \in DOMAIN sent |-> SignedVolume(sent[i])], Fills)
Position == IF Answers THEN Held ELSE 0

(* The rules.  A market order has no price: it, and what is held, count nothing. *)
BlacklistRule(r) == ~blacklisted
Value(units, r) == IF r.type = "LIMIT" THEN units ELSE 0
MaxPositionRule_OrderAlone(r) ==
    answered.balance > 0 /\ r.direction = "LONG" => Value(r.volume, r) <= answered.balance
MaxPositionRule(r) ==
    answered.balance > 0 /\ r.direction = "LONG" =>
        Value(answered.position, r) + Value(r.volume, r) <= answered.balance
DailyLossRule(r) == answered.balance > 0 => TotalPnl >= 0
MaxOrderVolumeRule(r) == r.volume <= MaxOrderVolume
Check(r) == BlacklistRule(r) /\ MaxPositionRule(r) /\ DailyLossRule(r) /\ MaxOrderVolumeRule(r)

NoAnswers == [balance |-> 0, position |-> 0, current |-> FALSE]
RiskedInit ==
    /\ Init
    /\ blacklisted = FALSE
    /\ queried = "nothing"
    /\ answered = NoAnswers
    /\ approved = NoRequest
    /\ sent = << >>
    /\ misled = FALSE

-----------------------------------------------------------------------------
SetBlacklist ==
    /\ blacklisted' = ~blacklisted
    /\ UNCHANGED <<vars, queried, answered, approved, sent, misled>>

QueryAccount ==
    /\ queried = "nothing" /\ approved = NoRequest
    /\ \E b \in Balances : answered' = [balance |-> b, position |-> 0, current |-> b > 0]
    /\ queried' = "account"
    /\ UNCHANGED <<vars, blacklisted, approved, sent, misled>>

Alive == {i \in DOMAIN exchange : exchange[i] = "open"}
QueryPosition ==
    /\ queried = "account"
    /\ answered' = [answered EXCEPT !.position = Position,
                                    !.current = @ /\ ready /\ Alive = {}]
    /\ queried' = "position"
    /\ UNCHANGED <<vars, blacklisted, approved, sent, misled>>

CheckOrder(r) ==
    /\ queried = "position"
    /\ queried' = "nothing"
    /\ IF Check(r) THEN approved' = r /\ misled' = (misled \/ ~answered.current)
                   ELSE UNCHANGED <<approved, misled>>
    /\ answered' = NoAnswers
    /\ UNCHANGED <<vars, blacklisted, sent>>

SendApproved ==
    /\ approved # NoRequest
    /\ CryptoSend \/ XtpSend
    /\ sent' = IF exchange' = exchange THEN sent ELSE Append(sent, approved)
    /\ approved' = NoRequest
    /\ UNCHANGED <<blacklisted, queried, answered, misled>>

(* send_order raises: not connected, or not taken by the exchange. *)
SendRaises ==
    /\ approved # NoRequest
    /\ kind # "xtp" \/ ~ready
    /\ approved' = NoRequest
    /\ UNCHANGED <<vars, blacklisted, queried, answered, sent, misled>>

RiskedNext ==
    \/ SetBlacklist
    \/ QueryAccount \/ QueryPosition
    \/ \E r \in Requests : CheckOrder(r)
    \/ SendApproved \/ SendRaises
    \/ (NextButSend /\ UNCHANGED riskVars)
RiskedSpec == RiskedInit /\ [][RiskedNext]_allVars
RiskedFairSpec == RiskedSpec /\ WF_allVars(Await /\ UNCHANGED riskVars)

-----------------------------------------------------------------------------
RiskedTypeOK ==
    /\ TypeOK
    /\ blacklisted \in BOOLEAN /\ misled \in BOOLEAN
    /\ queried \in {"nothing", "account", "position"}
    /\ answered \in [balance : 0 .. MaxUnits, position : Int, current : BOOLEAN]
    /\ approved \in Requests \cup {NoRequest}
    /\ sent \in Seq(Requests) /\ Len(sent) = Len(exchange)

(* The position limit holds at the exchange of the crypto gateway, where balances
   stay below the greatest, for who sends limit orders one at a time: each has
   ended there, whether its send_order raised or not, before the position is
   queried for the next.  Orders approved on an account without a balance, or on
   the position of a gateway that was not connected, void it; later connections
   and moves of the exchange do not.  The other gateways answer neither.       *)
CapHoldsOneByOne ==
    kind = "crypto" /\ ~misled /\ (\A i \in DOMAIN sent : sent[i].type = "LIMIT")
        => Held <= MaxUnits
===============================================================================
