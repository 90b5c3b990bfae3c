------------------------------ MODULE LiveServer ------------------------------
(*****************************************************************************)
(* The live server (src/monitor/live_server.py) and the pages that watch it  *)
(* (live_ui/index.html).  A publish changes the server's state and creates a *)
(* task that sends the event to one client after the other; a task may be    *)
(* suspended at every send, for as long as the client's connection is full,  *)
(* while other tasks run.  Pages render a snapshot, then events.  They leave *)
(* and come back; the process may crash, and its state with it.              *)
(*                                                                           *)
(* What a page renders is a value per key (the account, the position of a    *)
(* symbol, an open order) and the list of recent trades.  Ticks are not      *)
(* rendered, and the status only as it changes.  External: the event loop,   *)
(* which starts tasks in the order of their creation and wakes the senders   *)
(* of a connection in theirs, and the ping of the WebSocket library, which   *)
(* ends a connection that is no longer read.                                 *)
(*****************************************************************************)
EXTENDS Naturals, SequencesExt, Sublists, TLC

CONSTANTS
    Pages,
    Keys,            \* values rendered, orders among them
    Orders,
    TradesKept,      \* length of the list of recent trades
    MaxEvents,       \* bound: events published
    MaxConnections   \* bound: connections of each page

ASSUME LiveServerAssumption ==
    /\ Orders \subseteq Keys /\ Keys \cap {"snapshot", "trade", "none"} = {}
    /\ TradesKept \in Nat \ {0} /\ MaxEvents \in Nat
    /\ MaxConnections \in [Pages -> Nat]

VARIABLES
    state,       \* _state: what a snapshot shows
    events,      \* number of events published
    clients,     \* _clients: connections, in the order they came
    broadcasts,       \* broadcasts that have not ended, in the order of their creation
    overtaken,   \* a client was removed that a broadcast had still before it
    gen,         \* per page: its connections so far
    online,      \* per page: its last connection stands
    inbox,       \* per page: messages on their way, or not yet read
    shown        \* per page: what it renders

serverVars == <<state, events, clients, broadcasts, overtaken>>
pageVars == <<gen, online, inbox, shown>>
liveVars == <<serverVars, pageVars>>

Absent == 0      \* a key without a value; events are numbered from 1
Nothing == [value |-> [k \in Keys |-> Absent], trades |-> << >>]
Sockets == UNION {[page : {p}, gen : 1 .. MaxConnections[p]] : p \in Pages}
NoSocket == [page |-> "none", gen |-> 0]
Socket(p) == [page |-> p, gen |-> gen[p]]
Alive(ws) == online[ws.page] /\ gen[ws.page] = ws.gen

Kept(trades) ==
    IF Len(trades) > TradesKept THEN SubSeq(trades, 1, TradesKept) ELSE trades

(* A page renders a message; the publisher changes the state in the same way.
   An order that is no longer open is dropped.                               *)
Render(show, m) ==
    CASE m.key = "snapshot" -> m.value
      [] m.key = "trade"    -> [show EXCEPT !.trades = Kept(<<m.value>> \o @)]
      [] OTHER              -> [show EXCEPT !.value[m.key] = m.value]

LiveInit ==
    /\ state = Nothing
    /\ events = 0
    /\ clients = << >>
    /\ broadcasts = << >> /\ overtaken = FALSE
    /\ gen = [p \in Pages |-> 0]
    /\ online = [p \in Pages |-> FALSE]
    /\ inbox = [p \in Pages |-> << >>]
    /\ shown = [p \in Pages |-> Nothing]

-----------------------------------------------------------------------------
(* publish_account, publish_position, publish_order, publish_trade. *)
Publish(key, value) ==
    /\ events < MaxEvents
    /\ events' = events + 1
    /\ LET m == [key |-> key, value |-> value] IN
       /\ state' = Render(state, m)
       /\ broadcasts' = Append(broadcasts, [msg |-> m, started |-> FALSE, at |-> NoSocket,
                                  todo |-> << >>, dead |-> {}])
    /\ UNCHANGED <<clients, overtaken, pageVars>>
PublishValue == \E k \in Keys : Publish(k, events + 1)
PublishDone == \E k \in Orders : Publish(k, Absent)
PublishTrade == Publish("trade", events + 1)

(* disconnect: clients are forgotten, also while broadcasts have still to send to
   them, or wait for them.                                                     *)
Without(s, gone) == Sublist(s, {i \in DOMAIN s : s[i] \notin gone})
Unsent(bc) == {bc.at} \cup Range(bc.todo)
Forget(gone, sending) ==
    /\ clients' = Without(clients, gone)
    /\ overtaken' = (overtaken \/ \E i \in sending : gone \cap Unsent(broadcasts[i]) # {})

(* A broadcast sends to the next client and waits there; after the last one it
   removes those it could not send to.                                       *)
GoOn(i, todo, dead) ==
    IF todo = << >>
    THEN /\ broadcasts' = RemoveAt(broadcasts, i)
         /\ Forget(dead, DOMAIN broadcasts \ {i})
         /\ UNCHANGED inbox
    ELSE LET ws == Head(todo) IN
         /\ broadcasts' = [broadcasts EXCEPT ![i] = [msg |-> @.msg, started |-> TRUE, at |-> ws,
                                           todo |-> Tail(todo), dead |-> dead]]
         /\ inbox' = IF Alive(ws) THEN [inbox EXCEPT ![ws.page] = Append(@, broadcasts[i].msg)]
                                  ELSE inbox
         /\ UNCHANGED <<clients, overtaken>>

MayStart_InAnyOrder(i) == ~broadcasts[i].started
MayStart(i) == ~broadcasts[i].started /\ \A j \in 1 .. i - 1 : broadcasts[j].started
StartBroadcast(i) ==
    /\ MayStart(i)
    /\ GoOn(i, clients, {})
    /\ UNCHANGED <<state, events, gen, online, shown>>

(* The send returns once the client reads, or raises when it is gone; senders to
   one client are woken in their order.                                       *)
SendEnds(i) ==
    /\ broadcasts[i].started
    /\ \A j \in 1 .. i - 1 : broadcasts[j].at # broadcasts[i].at
ResumeBroadcast(i) ==
    /\ SendEnds(i)
    /\ GoOn(i, broadcasts[i].todo, broadcasts[i].dead \cup (IF Alive(broadcasts[i].at) THEN {} ELSE {broadcasts[i].at}))
    /\ UNCHANGED <<state, events, gen, online, shown>>

(* websocket_endpoint: the client is added and the snapshot is its first message.
   If sending it raises nobody waits for the client to leave: it is noticed by
   a broadcast only.                                                          *)
Connect_NoSnapshot(p) ==
    /\ ~online[p]
    /\ gen[p] < MaxConnections[p]
    /\ gen' = [gen EXCEPT ![p] = @ + 1]
    /\ online' = [online EXCEPT ![p] = TRUE]
    /\ clients' = Append(clients, Socket(p)')
    /\ UNCHANGED <<state, events, broadcasts, overtaken, inbox, shown>>
Connect(p) ==
    /\ ~online[p]
    /\ gen[p] < MaxConnections[p]
    /\ gen' = [gen EXCEPT ![p] = @ + 1]
    /\ online' = [online EXCEPT ![p] = TRUE]
    /\ clients' = Append(clients, Socket(p)')
    /\ inbox' = [inbox EXCEPT ![p] = <<[key |-> "snapshot", value |-> state]>>]
    /\ UNCHANGED <<state, events, broadcasts, overtaken, shown>>

(* WebSocketDisconnect. *)
Notice(ws) ==
    /\ ~Alive(ws)
    /\ Forget({ws}, DOMAIN broadcasts)
    /\ UNCHANGED <<state, events, broadcasts, pageVars>>

(* The process ends, every connection with it, and is started by hand: it knows
   nothing of what was published.                                            *)
Restart ==
    /\ state' = Nothing
    /\ clients' = << >>
    /\ broadcasts' = << >> /\ overtaken' = FALSE
    /\ online' = [p \in Pages |-> FALSE]
    /\ inbox' = [p \in Pages |-> << >>]
    /\ UNCHANGED <<events, gen, shown>>

-----------------------------------------------------------------------------
Receive(p) ==
    /\ inbox[p] # << >>
    /\ shown' = [shown EXCEPT ![p] = Render(@, Head(inbox[p]))]
    /\ inbox' = [inbox EXCEPT ![p] = Tail(@)]
    /\ UNCHANGED <<serverVars, gen, online>>

(* The page is closed, the network fails, or a ping goes unanswered; the page
   tries again after three seconds.                                          *)
Drop(p) ==
    /\ online[p]
    /\ online' = [online EXCEPT ![p] = FALSE]
    /\ inbox' = [inbox EXCEPT ![p] = << >>]
    /\ UNCHANGED <<serverVars, gen, shown>>

Broadcasting == \E i \in DOMAIN broadcasts : StartBroadcast(i) \/ ResumeBroadcast(i)
LiveNext ==
    \/ PublishValue \/ PublishDone \/ PublishTrade
    \/ Broadcasting
    \/ \E p \in Pages : Connect(p) \/ Receive(p) \/ Drop(p)
    \/ \E ws \in Range(clients) : Notice(ws)
    \/ Restart
LiveSpec == LiveInit /\ [][LiveNext]_liveVars

(* The event loop runs tasks that can run, and every send ends: the client reads,
   or the connection is given up.                                             *)
LiveFairSpec ==
    /\ LiveSpec
    /\ WF_liveVars(Broadcasting)
    /\ \A p \in Pages : WF_liveVars(Receive(p))

-----------------------------------------------------------------------------
(* What a page will show when it has read what is on its way to it: the messages
   of its inbox, then those of the broadcasts that have still to send to it.   *)
NoMessage == [key |-> "none", value |-> Absent]
Due(p) ==
    [i \in DOMAIN broadcasts |->
        IF ~broadcasts[i].started \/ Socket(p) \in Range(broadcasts[i].todo)
        THEN broadcasts[i].msg ELSE NoMessage]
See(show, m) == IF m.key = "none" THEN show ELSE Render(show, m)
WillShow(p) == FoldLeft(See, FoldLeft(See, shown[p], inbox[p]), Due(p))

(* "Snapshot on connect (no missed events)": a page that only reads what is on
   its way to it ends up with the account, positions and open orders of the
   server - unless a client was removed while a broadcast had it before it: then
   a later broadcast may overtake that one, and older values stay on the page. *)
PageWillBeCurrent ==
    ~overtaken => \A p \in Pages : online[p] => WillShow(p).value = state.value

(* The page's trades are the server's, in its order and none missing, but that
   one stretch of them may be there twice: those published just before the page
   came, which are in the snapshot and come on their own.                     *)
TradesReachPage ==
    ~overtaken => \A p \in Pages : online[p] =>
        LET trades == state.trades IN
        \E i, j \in 0 .. Len(trades) :
            /\ i <= j
            /\ WillShow(p).trades = Kept(SubSeq(trades, 1, j) \o SubSeq(trades, i + 1, Len(trades)))

(* A page that keeps its connection shows what the server holds in the end. *)
PagesCatchUp ==
    \A p \in Pages :
        <>[]online[p] => <>[](shown[p].value = state.value \/ overtaken)
===============================================================================
