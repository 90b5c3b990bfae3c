--------------------------- MODULE OrderLifecycle ---------------------------
(***************************************************************************)
(* What the OMS promises about one order: it is submitted once, moves only *)
(* along the diagram of docs/phase4_risk_gateways.md, and what it traded   *)
(* never changes once it is in a terminal status.  It is the abstract      *)
(* specification of every gateway's order book.                            *)
(***************************************************************************)
EXTENDS OrderBook

CONSTANTS Ids, Volumes

VARIABLES status, filled

lifecycleVars == <<status, filled>>

Init ==
    /\ status = [i \in Ids |-> "NEW"]
    /\ filled = [i \in Ids |-> 0]

Submit(i) ==
    /\ status[i] = "NEW"
    /\ \E s \in {"SUBMITTED", "ACCEPTED"} : status' = [status EXCEPT ![i] = s]
    /\ UNCHANGED filled

Advance(i, new) ==
    /\ status[i] # "NEW"
    /\ new \in Transitions[status[i]]
    /\ status' = [status EXCEPT ![i] = new]
    /\ IF new \in {"PARTIAL", "FILLED"}
       THEN \E v \in Volumes : filled' = [filled EXCEPT ![i] = @ + v]
       ELSE UNCHANGED filled

Next == \E i \in Ids : Submit(i) \/ \E new \in GatewayStatuses : Advance(i, new)

Spec == Init /\ [][Next]_lifecycleVars
==============================================================================
