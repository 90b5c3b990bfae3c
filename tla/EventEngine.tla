------------------------------ MODULE EventEngine ------------------------------
(*****************************************************************************)
(* The event engine of the Rust core (core_engine/src/event.rs): Python puts *)
(* bars into an unbounded channel, and every start() spawns a dispatcher     *)
(* thread that takes events out of it while the shared flag is set.  stop()  *)
(* only clears the flag: a dispatcher sees it when it is done with an event  *)
(* or when recv_timeout gives up, so a start() soon after it finds the old   *)
(* dispatcher still running beside the new one.                              *)
(*                                                                           *)
(* Events are numbered as they are put.  start, stop and put_bar are called  *)
(* from Python with the GIL held and are atomic to one another.              *)
(*****************************************************************************)
EXTENDS Integers, Sequences, FiniteSets

CONSTANTS
    MaxStarts,    \* bound: calls of start(), so dispatchers spawned
    MaxPuts       \* bound: calls of put_bar()

ASSUME EngineAssumption == MaxStarts \in Nat /\ MaxPuts \in Nat

VARIABLES
    running,      \* the flag
    queue,        \* the channel
    puts,         \* events put so far
    dispatcher,   \* per dispatcher thread: where it is
    held,         \* per dispatcher thread: the event it received
    dispatched,   \* the events whose handlers were run, in that order
    overlapped,   \* two dispatchers were alive at the same time
    late          \* events dispatched since stop() cleared the flag

vars == <<running, queue, puts, dispatcher, held, dispatched, overlapped, late>>

Threads == 1 .. MaxStarts
Events == 1 .. MaxPuts
NoEvent == 0

Alive == {t \in Threads : dispatcher[t] \notin {"none", "ended"}}

Init ==
    /\ running = FALSE
    /\ queue = << >>
    /\ puts = 0
    /\ dispatcher = [t \in Threads |-> "none"]
    /\ held = [t \in Threads |-> NoEvent]
    /\ dispatched = << >>
    /\ overlapped = FALSE
    /\ late = 0

(* start(): nothing asks whether a dispatcher is already there. *)
Start(t) ==
    /\ dispatcher[t] = "none"
    /\ dispatcher' = [dispatcher EXCEPT ![t] = "check"]
    /\ running' = TRUE
    /\ overlapped' = (overlapped \/ Alive # {})
    /\ late' = 0
    /\ UNCHANGED <<queue, puts, held, dispatched>>

Stop ==
    /\ running' = FALSE
    /\ late' = 0
    /\ UNCHANGED <<queue, puts, dispatcher, held, dispatched, overlapped>>

(* put_bar never waits, nor asks whether the engine runs. *)
PutBar ==
    /\ puts < MaxPuts
    /\ puts' = puts + 1
    /\ queue' = Append(queue, puts + 1)
    /\ UNCHANGED <<running, dispatcher, held, dispatched, overlapped, late>>

-----------------------------------------------------------------------------
(* A dispatcher thread. *)

CheckRunning(t) ==
    /\ dispatcher[t] = "check"
    /\ dispatcher' = [dispatcher EXCEPT ![t] = IF running THEN "receive" ELSE "ended"]
    /\ UNCHANGED <<running, queue, puts, held, dispatched, overlapped, late>>

Receive_Peeks(t) ==
    /\ dispatcher[t] = "receive"
    /\ queue # << >>
    /\ held' = [held EXCEPT ![t] = Head(queue)]
    /\ dispatcher' = [dispatcher EXCEPT ![t] = "dispatch"]
    /\ UNCHANGED <<running, queue, puts, dispatched, overlapped, late>>
Receive_Newest(t) ==
    /\ dispatcher[t] = "receive"
    /\ queue # << >>
    /\ held' = [held EXCEPT ![t] = queue[Len(queue)]]
    /\ queue' = SubSeq(queue, 1, Len(queue) - 1)
    /\ dispatcher' = [dispatcher EXCEPT ![t] = "dispatch"]
    /\ UNCHANGED <<running, puts, dispatched, overlapped, late>>
Receive(t) ==
    /\ dispatcher[t] = "receive"
    /\ queue # << >>
    /\ held' = [held EXCEPT ![t] = Head(queue)]
    /\ queue' = Tail(queue)
    /\ dispatcher' = [dispatcher EXCEPT ![t] = "dispatch"]
    /\ UNCHANGED <<running, puts, dispatched, overlapped, late>>

(* recv_timeout gives up after 100 ms on an empty channel. *)
TimeOut_Retries(t) ==
    /\ dispatcher[t] = "receive"
    /\ queue = << >>
    /\ UNCHANGED vars
TimeOut_Ends(t) ==
    /\ dispatcher[t] = "receive"
    /\ queue = << >>
    /\ dispatcher' = [dispatcher EXCEPT ![t] = "ended"]
    /\ UNCHANGED <<running, queue, puts, held, dispatched, overlapped, late>>
TimeOut(t) ==
    /\ dispatcher[t] = "receive"
    /\ queue = << >>
    /\ dispatcher' = [dispatcher EXCEPT ![t] = "check"]
    /\ UNCHANGED <<running, queue, puts, held, dispatched, overlapped, late>>

(* The handlers of the event's type are run under the read lock, which
   dispatchers share.                                                       *)
Dispatch_DrainsFirst(t) ==
    /\ dispatcher[t] = "dispatch"
    /\ dispatched' = Append(dispatched, held[t])
    /\ held' = [held EXCEPT ![t] = NoEvent]
    /\ dispatcher' = [dispatcher EXCEPT ![t] = IF queue = << >> THEN "check" ELSE "receive"]
    /\ late' = IF running THEN late ELSE late + 1
    /\ UNCHANGED <<running, queue, puts, overlapped>>
Dispatch(t) ==
    /\ dispatcher[t] = "dispatch"
    /\ dispatched' = Append(dispatched, held[t])
    /\ held' = [held EXCEPT ![t] = NoEvent]
    /\ dispatcher' = [dispatcher EXCEPT ![t] = "check"]
    /\ late' = IF running THEN late ELSE late + 1
    /\ UNCHANGED <<running, queue, puts, overlapped>>

DispatcherStep(t) == CheckRunning(t) \/ Receive(t) \/ TimeOut(t) \/ Dispatch(t)

Next ==
    \/ Stop
    \/ PutBar
    \/ \E t \in Threads : Start(t) \/ DispatcherStep(t)

Spec == Init /\ [][Next]_vars

(* The threads are scheduled by the operating system, recv_timeout returns and
   handlers do; nothing makes Python start or stop the engine.              *)
FairSpec == Spec /\ \A t \in Threads : WF_vars(DispatcherStep(t))

-----------------------------------------------------------------------------
(* Every variable holds a value of its type; a dispatcher holds an event just
   when it is about to run its handlers.                                    *)
TypeOK ==
    /\ running \in BOOLEAN
    /\ queue \in Seq(Events)
    /\ puts \in 0 .. MaxPuts
    /\ dispatcher \in [Threads -> {"none", "check", "receive", "dispatch", "ended"}]
    /\ held \in [Threads -> Events \cup {NoEvent}]
    /\ \A t \in Threads : held[t] # NoEvent <=> dispatcher[t] = "dispatch"
    /\ dispatched \in Seq(Events)
    /\ overlapped \in BOOLEAN
    /\ late \in Nat

(* However often the engine is stopped and started again, an event put is in
   the channel, in the hands of one dispatcher or dispatched, and only once.  *)
Places(e) ==
    Cardinality({i \in DOMAIN queue : queue[i] = e})
    + Cardinality({t \in Threads : held[t] = e})
    + Cardinality({i \in DOMAIN dispatched : dispatched[i] = e})
EachEventOnce == \A e \in Events : Places(e) = IF e <= puts THEN 1 ELSE 0

(* Events are dispatched in the order they were put, unless a restart let two
   dispatchers overlap.                                                     *)
DispatchedInOrder == ~overlapped => \A i \in DOMAIN dispatched : dispatched[i] = i

(* After stop() a dispatcher finishes the event it is at, or takes one it was
   already waiting for, and no other.                                       *)
LateDispatchesAreFew == late <= Cardinality({t \in Threads : dispatcher[t] # "none"})

(* The flag is never set without a dispatcher to serve the channel. *)
RunningIsServed == running => Alive # {}

(* An engine that stays started dispatches every event put. *)
EventsAreDispatched ==
    \A e \in Events :
        <>[]running => (e <= puts ~> e \in {dispatched[i] : i \in DOMAIN dispatched})

(* An engine that stays stopped ends all its dispatchers, so that a later
   start() is alone again.                                                  *)
DispatchersEnd == <>[]~running => <>[](Alive = {})
==============================================================================
