--------------------------- MODULE EventEngineProofs ---------------------------
(***************************************************************************)
(* Theorems about EventEngine for any number of starts, stops and events.  *)
(***************************************************************************)
EXTENDS EventEngine, FiniteSetTheorems, TLAPS

LEMMA InitTypeOK == Init => TypeOK
<1> SUFFICES ASSUME Init
             PROVE  TypeOK
  OBVIOUS
<1>1. puts \in 0 .. MaxPuts /\ late \in Nat
  BY EngineAssumption DEF Init
<1>2. running \in BOOLEAN /\ overlapped \in BOOLEAN
  BY DEF Init
<1>3. /\ queue \in Seq(Events) /\ dispatched \in Seq(Events)
      /\ dispatcher \in [Threads -> {"none", "check", "receive", "dispatch", "ended"}]
      /\ held \in [Threads -> Events \cup {NoEvent}]
      /\ \A t \in Threads : held[t] # NoEvent <=> dispatcher[t] = "dispatch"
  BY DEF Init
<1> QED
  BY <1>1, <1>2, <1>3 DEF TypeOK

LEMMA NextTypeOK == TypeOK /\ [Next]_vars => TypeOK'
<1> SUFFICES ASSUME TypeOK, [Next]_vars
             PROVE  TypeOK'
  OBVIOUS
<1>0. /\ NoEvent \notin Events /\ MaxPuts \in Nat
      /\ queue \in Seq(Events) /\ dispatched \in Seq(Events) /\ puts \in 0 .. MaxPuts
  BY EngineAssumption DEF Events, NoEvent, TypeOK
<1>1. CASE Stop
  BY <1>1 DEF Stop, TypeOK
<1>2. CASE PutBar
  <2>1. puts' \in 0 .. MaxPuts /\ puts + 1 \in Events
    BY <1>0, <1>2 DEF PutBar, Events
  <2>2. queue' \in Seq(Events)
    BY <1>0, <1>2, <2>1 DEF PutBar
  <2> QED
    BY <1>2, <2>1, <2>2 DEF PutBar, TypeOK
<1>3. ASSUME NEW t \in Threads, Start(t)
      PROVE  TypeOK'
  <2>1. overlapped' \in BOOLEAN /\ running' \in BOOLEAN
    BY <1>3 DEF Start, TypeOK
  <2>2. late' \in Nat
    BY <1>3 DEF Start
  <2>3. /\ dispatcher' \in [Threads -> {"none", "check", "receive", "dispatch", "ended"}]
        /\ \A u \in Threads : held'[u] # NoEvent <=> dispatcher'[u] = "dispatch"
    BY <1>3 DEF Start, TypeOK
  <2> QED
    BY <1>3, <2>1, <2>2, <2>3 DEF Start, TypeOK
<1>4. ASSUME NEW t \in Threads, CheckRunning(t)
      PROVE  TypeOK'
  BY <1>4 DEF CheckRunning, TypeOK
<1>5. ASSUME NEW t \in Threads, Receive(t)
      PROVE  TypeOK'
  <2>1. Head(queue) \in Events /\ queue' \in Seq(Events)
    BY <1>0, <1>5 DEF Receive
  <2>2. /\ held' \in [Threads -> Events \cup {NoEvent}]
        /\ dispatcher' \in [Threads -> {"none", "check", "receive", "dispatch", "ended"}]
        /\ \A u \in Threads : held'[u] # NoEvent <=> dispatcher'[u] = "dispatch"
    BY <1>0, <1>5, <2>1 DEF Receive, TypeOK
  <2> QED
    BY <1>5, <2>1, <2>2 DEF Receive, TypeOK
<1>6. ASSUME NEW t \in Threads, TimeOut(t)
      PROVE  TypeOK'
  BY <1>6 DEF TimeOut, TypeOK
<1>7. ASSUME NEW t \in Threads, Dispatch(t)
      PROVE  TypeOK'
  <2>1. held[t] \in Events
    BY <1>7 DEF Dispatch, TypeOK
  <2>2. dispatched' \in Seq(Events)
    BY <1>0, <1>7, <2>1 DEF Dispatch
  <2>3. /\ held' \in [Threads -> Events \cup {NoEvent}]
        /\ dispatcher' \in [Threads -> {"none", "check", "receive", "dispatch", "ended"}]
        /\ \A u \in Threads : held'[u] # NoEvent <=> dispatcher'[u] = "dispatch"
    BY <1>7 DEF Dispatch, TypeOK
  <2>4. late' \in Nat
    BY <1>7 DEF Dispatch, TypeOK
  <2> QED
    BY <1>7, <2>2, <2>3, <2>4 DEF Dispatch, TypeOK
<1>8. CASE UNCHANGED vars
  BY <1>8 DEF vars, TypeOK
<1> QED
  BY <1>1, <1>2, <1>3, <1>4, <1>5, <1>6, <1>7, <1>8 DEF Next, DispatcherStep

(* Type correctness: a dispatcher holds an event just when it is about to run
   its handlers, so none is dropped between the two.                        *)
THEOREM EngineTypeCorrect == Spec => []TypeOK
BY InitTypeOK, NextTypeOK, PTL DEF Spec

(* While the flag is set some dispatcher serves the channel: a dispatcher ends
   only when it finds the flag cleared, and start() sets it and spawns one.  *)
THEOREM EngineRunningIsServed == Spec => []RunningIsServed
<1>1. Init => RunningIsServed
  BY DEF Init, RunningIsServed
<1>2. TypeOK /\ RunningIsServed /\ [Next]_vars => RunningIsServed'
  <2> SUFFICES ASSUME TypeOK, RunningIsServed, [Next]_vars, running'
               PROVE  \E t \in Threads : dispatcher'[t] \notin {"none", "ended"}
    BY DEF RunningIsServed, Alive
  <2>1. ASSUME NEW t \in Threads, Start(t)
        PROVE  dispatcher'[t] \notin {"none", "ended"}
    BY <2>1 DEF Start, TypeOK
  <2>2. CASE ~\E t \in Threads : Start(t)
    <3>1. running
      BY <2>2 DEF Next, DispatcherStep, Stop, PutBar, CheckRunning, Receive, TimeOut, Dispatch, vars
    <3>2. PICK u \in Threads : dispatcher[u] \notin {"none", "ended"}
      BY <3>1 DEF RunningIsServed, Alive
    <3>3. dispatcher'[u] \notin {"none", "ended"}
      BY <2>2, <3>1, <3>2
         DEF Next, DispatcherStep, Stop, PutBar, CheckRunning, Receive, TimeOut, Dispatch, vars, TypeOK
    <3> QED
      BY <3>3
  <2> QED
    BY <2>1, <2>2
<1> QED
  BY <1>1, <1>2, EngineTypeCorrect, PTL DEF Spec

-----------------------------------------------------------------------------
(* The order of the events.  With one dispatcher alive the events are in line:
   those dispatched, the one it holds, those in the channel.                *)
Alone == \A t, u \in Threads : t \in Alive /\ u \in Alive => t = u

Holding == \E t \in Threads : dispatcher[t] = "dispatch"
InHand == IF Holding THEN 1 ELSE 0

InLine ==
    /\ \A i \in DOMAIN dispatched : dispatched[i] = i
    /\ \A t \in Threads : dispatcher[t] = "dispatch" => held[t] = Len(dispatched) + 1
    /\ \A i \in DOMAIN queue : queue[i] = Len(dispatched) + InHand + i
    /\ puts = Len(dispatched) + InHand + Len(queue)

OrderInv == ~overlapped => Alone /\ InLine

LEMMA InitOrder == Init => OrderInv
BY DEF Init, OrderInv, Alone, Alive, InLine, InHand, Holding

LEMMA StepOrder == TypeOK /\ OrderInv /\ [Next]_vars => OrderInv'
<1> SUFFICES ASSUME TypeOK, OrderInv, [Next]_vars, ~overlapped'
             PROVE  Alone' /\ InLine'
  BY DEF OrderInv
<1>1. ~overlapped
  BY DEF Next, DispatcherStep, Stop, PutBar, Start, CheckRunning, Receive, TimeOut, Dispatch, vars
<1>2. /\ Alone /\ InLine
      /\ queue \in Seq(Events) /\ dispatched \in Seq(Events) /\ puts \in Nat
  BY <1>1 DEF OrderInv, TypeOK
<1>3. InHand \in {0, 1} /\ Len(queue) \in Nat /\ Len(dispatched) \in Nat
  BY <1>2 DEF InHand
<1>4. ASSUME UNCHANGED <<queue, puts, held, dispatched>>, Holding' <=> Holding,
             \A t \in Threads : dispatcher'[t] = "dispatch" => dispatcher[t] = "dispatch"
      PROVE  InLine'
  <2>1. InHand' = InHand
    BY <1>4 DEF InHand
  <2> QED
    BY <1>2, <1>4, <2>1 DEF InLine
<1>5. CASE Stop \/ UNCHANGED vars
  <2>1. UNCHANGED <<queue, puts, held, dispatched, dispatcher>>
    BY <1>5 DEF Stop, vars
  <2> QED
    BY <1>2, <1>4, <2>1 DEF Holding, Alone, Alive
<1>6. CASE PutBar
  <2>1. /\ queue' = Append(queue, puts + 1) /\ puts' = puts + 1
        /\ UNCHANGED <<dispatcher, held, dispatched>>
    BY <1>6 DEF PutBar
  <2>2. InHand' = InHand /\ Alone'
    BY <1>2, <2>1 DEF InHand, Holding, Alone, Alive
  <2>3. /\ Len(queue') = Len(queue) + 1 /\ DOMAIN queue' = 1 .. Len(queue) + 1
        /\ \A i \in 1 .. Len(queue) : queue'[i] = queue[i]
        /\ queue'[Len(queue) + 1] = puts + 1
    BY <1>2, <2>1
  <2>4. puts' = Len(dispatched') + InHand' + Len(queue')
    BY <1>2, <1>3, <2>1, <2>2, <2>3 DEF InLine
  <2>5. \A i \in DOMAIN queue' : queue'[i] = Len(dispatched') + InHand' + i
    <3> TAKE i \in DOMAIN queue'
    <3>1. CASE i \in 1 .. Len(queue)
      <4>1. queue[i] = Len(dispatched) + InHand + i
        BY <1>2, <3>1 DEF InLine
      <4> QED
        BY <2>1, <2>2, <2>3, <3>1, <4>1
    <3>2. CASE i = Len(queue) + 1
      <4>1. queue'[i] = puts + 1
        BY <2>3, <3>2
      <4>2. puts = Len(dispatched) + InHand + Len(queue)
        BY <1>2 DEF InLine
      <4> QED
        BY <1>3, <2>1, <2>2, <3>2, <4>1, <4>2
    <3> QED
      BY <1>3, <2>3, <3>1, <3>2
  <2> QED
    BY <1>2, <2>1, <2>2, <2>4, <2>5 DEF InLine
<1>7. ASSUME NEW t \in Threads, Start(t)
      PROVE  Alone' /\ InLine'
  <2>1. Alive = {}
    BY <1>1, <1>7 DEF Start, TypeOK
  <2>2. Alone'
    BY <1>7, <2>1 DEF Start, Alone, Alive, TypeOK
  <2>3. ~Holding /\ ~Holding'
    BY <1>7, <2>1 DEF Start, Holding, Alive, TypeOK
  <2> QED
    BY <1>4, <1>7, <2>2, <2>3 DEF Start, Holding
<1>8. ASSUME NEW t \in Threads, CheckRunning(t) \/ TimeOut(t)
      PROVE  Alone' /\ InLine'
  <2>1. /\ dispatcher[t] \in {"check", "receive"}
        /\ dispatcher' = [dispatcher EXCEPT ![t] = dispatcher'[t]]
        /\ dispatcher'[t] \in {"check", "receive", "ended"}
        /\ UNCHANGED <<queue, puts, held, dispatched>>
    BY <1>8 DEF CheckRunning, TimeOut, TypeOK
  <2>2. Alone'
    BY <1>2, <2>1 DEF Alone, Alive, TypeOK
  <2>3. Holding' <=> Holding
    BY <2>1 DEF Holding, TypeOK
  <2> QED
    BY <1>4, <2>1, <2>2, <2>3 DEF TypeOK
<1>9. ASSUME NEW t \in Threads, Receive(t)
      PROVE  Alone' /\ InLine'
  <2>1. /\ dispatcher[t] = "receive" /\ queue # << >> /\ held' = [held EXCEPT ![t] = queue[1]]
        /\ queue' = Tail(queue) /\ dispatcher' = [dispatcher EXCEPT ![t] = "dispatch"]
        /\ UNCHANGED <<puts, dispatched>>
    BY <1>2, <1>9 DEF Receive
  <2>2. Alone' /\ \A u \in Threads : u # t => dispatcher[u] \in {"none", "ended"}
    BY <1>2, <2>1 DEF Alone, Alive, TypeOK
  <2>3. InHand = 0 /\ InHand' = 1
    BY <2>1, <2>2 DEF InHand, Holding, TypeOK
  <2>4. /\ Len(queue) >= 1 /\ Len(queue') = Len(queue) - 1 /\ DOMAIN queue' = 1 .. Len(queue) - 1
        /\ \A i \in 1 .. Len(queue) - 1 : queue'[i] = queue[i + 1]
    BY <1>2, <2>1
  <2>5. queue[1] = Len(dispatched) + 1
    BY <1>2, <1>3, <2>3, <2>4 DEF InLine
  <2>6. \A u \in Threads : dispatcher'[u] = "dispatch" => held'[u] = Len(dispatched') + 1
    BY <2>1, <2>2, <2>5 DEF TypeOK
  <2>7. \A i \in DOMAIN queue' : queue'[i] = Len(dispatched') + InHand' + i
    <3>1. \A i \in 1 .. Len(queue) - 1 : queue[i + 1] = Len(dispatched) + (i + 1)
      <4> TAKE i \in 1 .. Len(queue) - 1
      <4>1. i + 1 \in DOMAIN queue /\ i \in Int
        BY <1>2, <1>3
      <4>2. queue[i + 1] = Len(dispatched) + InHand + (i + 1)
        BY <1>2, <4>1 DEF InLine
      <4> QED
        BY <1>3, <2>3, <4>1, <4>2
    <3> QED
      BY <1>3, <2>1, <2>3, <2>4, <3>1
  <2>8. puts' = Len(dispatched') + InHand' + Len(queue')
    BY <1>2, <1>3, <2>1, <2>3, <2>4 DEF InLine
  <2> QED
    BY <1>2, <2>1, <2>2, <2>6, <2>7, <2>8 DEF InLine
<1>10. ASSUME NEW t \in Threads, Dispatch(t)
       PROVE  Alone' /\ InLine'
  <2>1. /\ dispatcher[t] = "dispatch" /\ dispatched' = Append(dispatched, held[t])
        /\ held' = [held EXCEPT ![t] = NoEvent] /\ dispatcher' = [dispatcher EXCEPT ![t] = "check"]
        /\ UNCHANGED <<puts, queue>>
    BY <1>10 DEF Dispatch
  <2>2. Alone' /\ \A u \in Threads : u # t => dispatcher[u] \in {"none", "ended"}
    BY <1>2, <2>1 DEF Alone, Alive, TypeOK
  <2>3. InHand = 1 /\ InHand' = 0 /\ ~Holding'
    BY <2>1, <2>2 DEF InHand, Holding, TypeOK
  <2>4. held[t] = Len(dispatched) + 1
    BY <1>2, <2>1 DEF InLine
  <2>5. /\ Len(dispatched') = Len(dispatched) + 1
        /\ \A i \in DOMAIN dispatched' : dispatched'[i] = i
    BY <1>2, <1>3, <2>1, <2>4 DEF InLine
  <2>6. /\ \A i \in DOMAIN queue' : queue'[i] = Len(dispatched') + InHand' + i
        /\ puts' = Len(dispatched') + InHand' + Len(queue')
    BY <1>2, <1>3, <2>1, <2>3, <2>5 DEF InLine
  <2> QED
    BY <2>2, <2>3, <2>5, <2>6 DEF InLine, Holding
<1> QED
  BY <1>5, <1>6, <1>7, <1>8, <1>9, <1>10 DEF Next, DispatcherStep

(* Without overlapping dispatchers events are dispatched in the order they
   were put, across any number of stops and starts.                         *)
THEOREM EngineDispatchedInOrder == Spec => []DispatchedInOrder
<1>1. OrderInv => DispatchedInOrder
  BY DEF OrderInv, InLine, DispatchedInOrder
<1> QED
  BY <1>1, InitOrder, StepOrder, EngineTypeCorrect, PTL DEF Spec

-----------------------------------------------------------------------------
(* Where the events are: the last of those put are in the channel, in order; each
   of the others is in one hand or was dispatched, and those places are distinct. *)
OutOf == puts - Len(queue)
Placed ==
    /\ Len(queue) <= puts
    /\ \A i \in DOMAIN queue : queue[i] = OutOf + i
    /\ \A t \in Threads : held[t] <= OutOf
    /\ \A i \in DOMAIN dispatched : dispatched[i] <= OutOf
    /\ \A t, u \in Threads : held[t] # NoEvent /\ held[t] = held[u] => t = u
    /\ \A i, j \in DOMAIN dispatched : dispatched[i] = dispatched[j] => i = j
    /\ \A t \in Threads, i \in DOMAIN dispatched : held[t] # dispatched[i]
    /\ \A e \in 1 .. OutOf :
          \/ \E t \in Threads : held[t] = e
          \/ \E i \in DOMAIN dispatched : dispatched[i] = e

LEMMA InitPlaced == Init => Placed
<1> SUFFICES ASSUME Init
             PROVE  Placed
  OBVIOUS
<1>1. /\ puts = 0 /\ Len(queue) = 0 /\ DOMAIN queue = {} /\ DOMAIN dispatched = {}
      /\ \A t \in Threads : held[t] = 0
  BY DEF Init, NoEvent
<1>2. OutOf = 0
  BY <1>1 DEF OutOf
<1> QED
  BY <1>1, <1>2 DEF Placed, NoEvent

LEMMA StepPlaced == TypeOK /\ Placed /\ [Next]_vars => Placed'
<1> SUFFICES ASSUME TypeOK, Placed, [Next]_vars
             PROVE  Placed'
  OBVIOUS
<1>1. /\ queue \in Seq(Events) /\ dispatched \in Seq(Events) /\ puts \in Nat
      /\ held \in [Threads -> Events \cup {NoEvent}] /\ Len(queue) \in Nat
      /\ OutOf \in Int /\ Len(queue) <= puts
      /\ Events \subseteq Int /\ NoEvent \in Int /\ NoEvent \notin Events
      /\ \A t \in Threads : held[t] \in Int
      /\ \A i \in DOMAIN dispatched : dispatched[i] \in Events
  BY EngineAssumption DEF TypeOK, Placed, OutOf, Events, NoEvent
<1>2. CASE UNCHANGED <<queue, puts, held, dispatched>>
  BY <1>2 DEF Placed, OutOf
<1>3. CASE PutBar
  <2>1. /\ puts' = puts + 1 /\ queue' = Append(queue, puts + 1)
        /\ UNCHANGED <<held, dispatched>>
    BY <1>3 DEF PutBar
  <2>2. Len(queue') = Len(queue) + 1 /\ DOMAIN queue' = 1 .. Len(queue) + 1
    BY <1>1, <2>1
  <2>3. OutOf' = OutOf
    BY <1>1, <2>1, <2>2 DEF OutOf
  <2>4. \A i \in DOMAIN queue' : queue'[i] = OutOf + i
    <3> TAKE i \in DOMAIN queue'
    <3>1. CASE i = Len(queue) + 1
      BY <1>1, <2>1, <3>1 DEF OutOf
    <3>2. CASE i \in DOMAIN queue
      BY <1>1, <2>1, <3>2 DEF Placed
    <3> QED
      BY <1>1, <2>2, <3>1, <3>2
  <2>5. Len(queue') <= puts'
    BY <1>1, <2>1, <2>2
  <2> QED
    BY <2>1, <2>3, <2>4, <2>5 DEF Placed
<1>4. ASSUME NEW t \in Threads, Receive(t)
      PROVE  Placed'
  <2>1. /\ queue # << >> /\ held' = [held EXCEPT ![t] = Head(queue)] /\ queue' = Tail(queue)
        /\ dispatcher[t] = "receive" /\ UNCHANGED <<puts, dispatched>>
    BY <1>4 DEF Receive
  <2>2. /\ Len(queue) >= 1 /\ Len(queue') = Len(queue) - 1 /\ DOMAIN queue' = 1 .. Len(queue) - 1
        /\ \A i \in 1 .. Len(queue) - 1 : queue'[i] = queue[i + 1]
        /\ 1 \in DOMAIN queue /\ Head(queue) = queue[1]
    BY <1>1, <2>1
  <2>3. OutOf' = OutOf + 1 /\ OutOf >= 0
    BY <1>1, <2>1, <2>2 DEF OutOf
  <2>4. Head(queue) = OutOf + 1
    BY <1>1, <2>2 DEF Placed
  <2>5. \A i \in DOMAIN queue' : queue'[i] = OutOf' + i
    <3> TAKE i \in DOMAIN queue'
    <3>1. i \in Int /\ i + 1 \in DOMAIN queue
      BY <1>1, <2>2
    <3>2. queue[i + 1] = OutOf + (i + 1)
      BY <3>1 DEF Placed
    <3> QED
      BY <1>1, <2>2, <2>3, <3>1, <3>2
  <2>6. held[t] = NoEvent
    BY <2>1 DEF TypeOK
  <2>7. /\ held'[t] = OutOf + 1
        /\ \A u \in Threads : u # t => held'[u] = held[u]
    BY <1>1, <2>1, <2>4
  <2>8. Len(queue') <= puts'
    BY <1>1, <2>1, <2>2
  <2>9. \A u \in Threads : held'[u] <= OutOf'
    BY <1>1, <2>3, <2>7 DEF Placed
  <2>10. \A i \in DOMAIN dispatched : dispatched[i] \in Int /\ dispatched[i] <= OutOf
    BY <1>1 DEF Placed
  <2>11. \A u, w \in Threads : held'[u] # NoEvent /\ held'[u] = held'[w] => u = w
    <3>1. \A u \in Threads : u # t => held'[u] # OutOf + 1
      BY <1>1, <2>7 DEF Placed
    <3> QED
      BY <1>1, <2>7, <3>1 DEF Placed
  <2>12. \A u \in Threads, i \in DOMAIN dispatched : held'[u] # dispatched[i]
    <3>1. \A i \in DOMAIN dispatched : dispatched[i] # OutOf + 1
      BY <1>1, <2>10
    <3> QED
      BY <2>7, <3>1 DEF Placed
  <2>13. \A e \in 1 .. OutOf' :
            \/ \E u \in Threads : held'[u] = e
            \/ \E i \in DOMAIN dispatched' : dispatched'[i] = e
    <3> TAKE e \in 1 .. OutOf'
    <3>1. CASE e = OutOf + 1
      BY <2>7, <3>1
    <3>2. CASE e \in 1 .. OutOf
      <4>1. e # NoEvent
        BY <3>2 DEF NoEvent
      <4> QED
        BY <2>1, <2>6, <2>7, <3>2, <4>1 DEF Placed
    <3> QED
      BY <1>1, <2>3, <3>1, <3>2
  <2>14. \A i \in DOMAIN dispatched' : dispatched'[i] <= OutOf'
    BY <1>1, <2>1, <2>3, <2>10
  <2> QED
    BY <2>1, <2>5, <2>8, <2>9, <2>11, <2>12, <2>13, <2>14 DEF Placed
<1>5. ASSUME NEW t \in Threads, Dispatch(t)
      PROVE  Placed'
  <2>1. /\ dispatcher[t] = "dispatch" /\ dispatched' = Append(dispatched, held[t])
        /\ held' = [held EXCEPT ![t] = NoEvent] /\ UNCHANGED <<puts, queue>>
    BY <1>5 DEF Dispatch
  <2>2. held[t] # NoEvent /\ held[t] <= OutOf
    BY <2>1 DEF TypeOK, Placed
  <2> DEFINE n == Len(dispatched) + 1
  <2>3. /\ DOMAIN dispatched' = DOMAIN dispatched \cup {n} /\ n \notin DOMAIN dispatched
        /\ dispatched'[n] = held[t]
        /\ \A i \in DOMAIN dispatched : dispatched'[i] = dispatched[i]
    BY <1>1, <2>1
  <2> HIDE DEF n
  <2>4. /\ held'[t] = NoEvent
        /\ \A u \in Threads : u # t => held'[u] = held[u]
    BY <1>1, <2>1
  <2>5. OutOf' = OutOf /\ OutOf >= NoEvent
    BY <1>1, <2>1 DEF OutOf, NoEvent
  <2>6. /\ \A u \in Threads : held'[u] <= OutOf
        /\ \A i \in DOMAIN dispatched' : dispatched'[i] <= OutOf
    BY <2>2, <2>3, <2>4, <2>5 DEF Placed
  <2>7. /\ \A u, w \in Threads : held'[u] # NoEvent /\ held'[u] = held'[w] => u = w
        /\ \A i, j \in DOMAIN dispatched' : dispatched'[i] = dispatched'[j] => i = j
    BY <2>3, <2>4 DEF Placed
  <2>8. \A u \in Threads, i \in DOMAIN dispatched' : held'[u] # dispatched'[i]
    <3> TAKE u \in Threads, i \in DOMAIN dispatched'
    <3>1. CASE u = t
      BY <1>1, <2>2, <2>3, <2>4, <3>1
    <3>2. CASE u # t /\ i \in DOMAIN dispatched
      BY <2>3, <2>4, <3>2 DEF Placed
    <3>3. CASE u # t /\ i = n
      BY <2>2, <2>3, <2>4, <3>3 DEF Placed
    <3> QED
      BY <2>3, <3>1, <3>2, <3>3
  <2>9. \A e \in 1 .. OutOf :
            \/ \E u \in Threads : held'[u] = e
            \/ \E i \in DOMAIN dispatched' : dispatched'[i] = e
    <3> TAKE e \in 1 .. OutOf
    <3>1. CASE \E u \in Threads : held[u] = e
      BY <2>3, <2>4, <3>1
    <3>2. CASE \E i \in DOMAIN dispatched : dispatched[i] = e
      BY <2>3, <3>2
    <3> QED
      BY <3>1, <3>2 DEF Placed
  <2> QED
    BY <2>1, <2>5, <2>6, <2>7, <2>8, <2>9 DEF Placed, OutOf
<1> QED
  BY <1>2, <1>3, <1>4, <1>5
     DEF Next, DispatcherStep, Stop, Start, CheckRunning, TimeOut, vars

(* A set whose elements are equal has one element or none. *)
LEMMA AtMostOne ==
    ASSUME NEW S, \A x, y \in S : x = y
    PROVE  Cardinality(S) = IF S = {} THEN 0 ELSE 1
<1>1. CASE S = {}
  BY <1>1, FS_EmptySet
<1>2. CASE S # {}
  <2>1. PICK x \in S : TRUE
    BY <1>2
  <2>2. S = {x}
    BY <2>1
  <2> QED
    BY <2>2, FS_Singleton
<1> QED
  BY <1>1, <1>2

(* Whatever dispatchers overlap: an event put is in the channel, in the hands of
   one dispatcher, or was dispatched, and is so once; for any number of starts,
   stops and events.                                                           *)
THEOREM EngineEachEventOnce == Spec => []EachEventOnce
<1>1. ASSUME TypeOK, Placed, NEW e \in Events
      PROVE  Places(e) = IF e <= puts THEN 1 ELSE 0
  <2> DEFINE Q == {i \in DOMAIN queue : queue[i] = e}
             H == {t \in Threads : held[t] = e}
             D == {i \in DOMAIN dispatched : dispatched[i] = e}
  <2>1. /\ queue \in Seq(Events) /\ puts \in Nat /\ Len(queue) \in Nat /\ Len(queue) <= puts
        /\ DOMAIN queue = 1 .. Len(queue) /\ e \in Int /\ e >= 1 /\ OutOf = puts - Len(queue)
    BY <1>1, EngineAssumption DEF TypeOK, Placed, Events, OutOf
  <2>2. \A i \in DOMAIN queue : queue[i] = OutOf + i
    BY <1>1 DEF Placed
  <2>3. \A i, j \in Q : i = j
    BY <2>1, <2>2
  <2>4. Q # {} <=> e > OutOf /\ e <= puts
    <3>1. ASSUME e > OutOf, e <= puts
          PROVE  e - OutOf \in Q
      BY <2>1, <2>2, <3>1
    <3>2. ASSUME NEW i \in Q
          PROVE  e > OutOf /\ e <= puts
      BY <2>1, <2>2, <3>2
    <3> QED
      BY <3>1, <3>2
  <2>5. e # NoEvent
    BY <2>1 DEF NoEvent
  <2>6. /\ \A t, u \in H : t = u
        /\ \A i, j \in D : i = j
        /\ H = {} \/ D = {}
    BY <1>1, <2>5 DEF Placed
  <2>7. H # {} \/ D # {} <=> e <= OutOf
    <3>1. ASSUME e <= OutOf
          PROVE  H # {} \/ D # {}
      <4>1. e \in 1 .. OutOf
        BY <2>1, <3>1
      <4> QED
        BY <1>1, <4>1 DEF Placed
    <3>2. ASSUME H # {} \/ D # {}
          PROVE  e <= OutOf
      BY <1>1, <3>2 DEF Placed
    <3> QED
      BY <3>1, <3>2
  <2> HIDE DEF Q, H, D
  <2>8. /\ Cardinality(Q) = IF Q = {} THEN 0 ELSE 1
        /\ Cardinality(H) = IF H = {} THEN 0 ELSE 1
        /\ Cardinality(D) = IF D = {} THEN 0 ELSE 1
    BY <2>3, <2>6, AtMostOne
  <2>9. OutOf \in Int /\ OutOf <= puts
    BY <2>1
  <2>10. Cardinality(Q) + Cardinality(H) + Cardinality(D) = IF e <= puts THEN 1 ELSE 0
    BY <2>1, <2>4, <2>6, <2>7, <2>8, <2>9
  <2> QED
    BY <2>10 DEF Places, Q, H, D
<1>2. TypeOK /\ Placed => EachEventOnce
  BY <1>1 DEF EachEventOnce
<1>3. Spec => []Placed
  BY InitPlaced, StepPlaced, EngineTypeCorrect, PTL DEF Spec
<1> QED
  BY <1>2, <1>3, EngineTypeCorrect, PTL

-----------------------------------------------------------------------------
(* Of the dispatchers ever started, those past the check of the flag have still an
   event of theirs to dispatch after a stop; each of the others had one at most.  *)
Started == {t \in Threads : dispatcher[t] # "none"}
PastCheck == {t \in Threads : dispatcher[t] \in {"receive", "dispatch"}}
LateInv ==
    /\ running => late = 0
    /\ late + Cardinality(PastCheck) <= Cardinality(Started)

LEMMA ThreadSets ==
    ASSUME NEW S \in SUBSET Threads
    PROVE  IsFiniteSet(S) /\ Cardinality(S) \in Nat
<1>1. IsFiniteSet(Threads)
  BY EngineAssumption, FS_Interval DEF Threads
<1> QED
  BY <1>1, FS_Subset, FS_CardinalityType

LEMMA PastCheckStarted == Cardinality(PastCheck) <= Cardinality(Started)
<1>1. PastCheck \in SUBSET Started /\ Started \in SUBSET Threads
  BY DEF PastCheck, Started
<1> QED
  BY <1>1, ThreadSets, FS_Subset

LEMMA StepLate == TypeOK /\ LateInv /\ [Next]_vars => LateInv'
<1> SUFFICES ASSUME TypeOK, LateInv, [Next]_vars
             PROVE  LateInv'
  OBVIOUS
<1>1. /\ late \in Nat
      /\ Started \in SUBSET Threads /\ PastCheck \in SUBSET Threads
      /\ Started' \in SUBSET Threads /\ PastCheck' \in SUBSET Threads
  BY DEF TypeOK, Started, PastCheck
<1>2. /\ Cardinality(Started) \in Nat /\ Cardinality(PastCheck) \in Nat
      /\ Cardinality(Started') \in Nat /\ Cardinality(PastCheck') \in Nat
  BY <1>1, ThreadSets
<1>3. Cardinality(PastCheck') <= Cardinality(Started')
  <2>1. PastCheck' \in SUBSET Started' /\ IsFiniteSet(Started')
    BY <1>1, ThreadSets DEF PastCheck, Started
  <2> QED
    BY <2>1, FS_Subset
<1>4. CASE late' = 0
  BY <1>2, <1>3, <1>4 DEF LateInv
<1>5. CASE UNCHANGED <<running, dispatcher, late>>
  <2>1. Started' = Started /\ PastCheck' = PastCheck
    BY <1>5 DEF Started, PastCheck
  <2> QED
    BY <1>5, <2>1 DEF LateInv
<1>6. ASSUME NEW t \in Threads, DispatcherStep(t), late' # 0
      PROVE  LateInv'
  <2>1. ~running /\ running' = running
    BY <1>6 DEF LateInv, DispatcherStep, CheckRunning, Receive, TimeOut, Dispatch
  <2>2. /\ dispatcher[t] \in {"check", "receive", "dispatch"}
        /\ dispatcher'[t] # "none"
        /\ \A u \in Threads : u # t => dispatcher'[u] = dispatcher[u]
    BY <1>6 DEF DispatcherStep, CheckRunning, Receive, TimeOut, Dispatch, TypeOK
  <2>3. Started' = Started
    BY <2>2 DEF Started
  <2>4. CASE late' = late
    <3>1. dispatcher'[t] \in {"receive", "dispatch"} => dispatcher[t] \in {"receive", "dispatch"}
      BY <1>6, <2>1 DEF DispatcherStep, CheckRunning, Receive, TimeOut, Dispatch, TypeOK
    <3>2. PastCheck' \in SUBSET PastCheck /\ IsFiniteSet(PastCheck)
      BY <1>1, <2>2, <3>1, ThreadSets DEF PastCheck
    <3>3. Cardinality(PastCheck') <= Cardinality(PastCheck)
      BY <3>2, FS_Subset
    <3> QED
      BY <1>1, <1>2, <2>1, <2>3, <2>4, <3>3 DEF LateInv
  <2>5. CASE Dispatch(t)
    <3>1. late' = late + 1 /\ dispatcher[t] = "dispatch" /\ dispatcher'[t] = "check"
      BY <2>1, <2>5 DEF Dispatch, TypeOK
    <3>2. PastCheck' = PastCheck \ {t} /\ t \in PastCheck /\ IsFiniteSet(PastCheck)
      BY <1>1, <2>2, <3>1, ThreadSets DEF PastCheck
    <3>3. Cardinality(PastCheck') = Cardinality(PastCheck) - 1
      BY <3>2, FS_RemoveElement
    <3> QED
      BY <1>1, <1>2, <2>1, <2>3, <3>1, <3>3 DEF LateInv
  <2> QED
    BY <1>6, <2>4, <2>5 DEF DispatcherStep, CheckRunning, Receive, TimeOut
<1> QED
  BY <1>4, <1>5, <1>6 DEF Next, Stop, PutBar, Start, vars

(* After stop() no dispatcher handles more than the event it has, or was about to
   take: for any number of starts there are no more late events than threads.   *)
THEOREM EngineLateDispatchesAreFew == Spec => []LateDispatchesAreFew
<1>1. Init => LateInv
  <2> SUFFICES ASSUME Init
               PROVE  LateInv
    OBVIOUS
  <2>1. Cardinality(PastCheck) \in Nat
    BY ThreadSets DEF PastCheck
  <2> QED
    BY <2>1, PastCheckStarted DEF Init, LateInv
<1>2. TypeOK /\ LateInv => LateDispatchesAreFew
  <2> SUFFICES ASSUME TypeOK, LateInv
               PROVE  late <= Cardinality(Started)
    BY DEF LateDispatchesAreFew, Started
  <2>1. Cardinality(PastCheck) \in Nat /\ Cardinality(Started) \in Nat /\ late \in Nat
    BY ThreadSets DEF PastCheck, Started, TypeOK
  <2> QED
    BY <2>1 DEF LateInv
<1>3. Spec => []LateInv
  BY <1>1, StepLate, EngineTypeCorrect, PTL DEF Spec
<1> QED
  BY <1>2, <1>3, EngineTypeCorrect, PTL
=============================================================================
