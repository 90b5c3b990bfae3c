------------------------------- MODULE BarCache -------------------------------
(*****************************************************************************)
(* CachedAkShareFeed.get_bars (src/data/akshare_feed.py) over the SQLite     *)
(* table of one symbol and interval (src/data/database.py).  Each database   *)
(* call is a transaction of its own, and several sessions of the dashboard   *)
(* or scripts may be in get_bars at the same time.                           *)
(*                                                                           *)
(* The provider is external.  It adjusts "qfq" prices, and the rolled-over   *)
(* prices of a future, to the newest dividend or rollover: `basis' counts    *)
(* those, and a row remembers the basis it was adjusted to.  Days are        *)
(* trading days.  A row stands for a period and has the date of its last     *)
(* day: every day of a daily table, the end of every week or month of        *)
(* others.  The row of the running period has the date of the current day,   *)
(* and is partial until the day is over: a weekly row is found under another *)
(* date every day of its week.                                               *)
(*****************************************************************************)
EXTENDS Integers, Functions

CONSTANTS
    Callers,      \* threads or processes that call get_bars
    Adjusts,      \* adjust modes; only "qfq" is re-based
    Calendars,    \* per interval, the days that end a period
    MaxDay,       \* bound: trading days that pass
    MaxBasis      \* bound: dividends and rollovers

Days == 1 .. MaxDay

ASSUME CacheAssumption ==
    /\ MaxDay \in Nat \ {0} /\ MaxBasis \in Nat
    /\ Calendars \subseteq SUBSET Days

VARIABLES
    ends,               \* days that end a period of the table's interval
    today, basis,       \* of the provider
    table,              \* day -> row
    at,                 \* per caller: the step of get_bars it is at
    request,            \* per caller: the arguments of get_bars
    fetched,            \* per caller: fetch_start, then the rows fetched
    overlapped,         \* two calls were in get_bars at the same time
    racedEmpty          \* ... and both found the table empty

vars == <<ends, today, basis, table, at, request, fetched, overlapped, racedEmpty>>

NoRows == << >>
NoRequest == [start |-> 0]
Request == [start : Days, end : Days, adjust : Adjusts]
Row == [adjust : Adjusts, basis : 0 .. MaxBasis, partial : BOOLEAN]

Oldest(t) == CHOOSE d \in DOMAIN t : \A e \in DOMAIN t : d <= e
Newest(t) == CHOOSE d \in DOMAIN t : \A e \in DOMAIN t : d >= e

Init ==
    /\ ends \in Calendars
    /\ today = 1
    /\ basis = 0
    /\ table = NoRows
    /\ at = [c \in Callers |-> "idle"]
    /\ request = [c \in Callers |-> NoRequest]
    /\ fetched = [c \in Callers |-> NoRows]
    /\ overlapped = FALSE
    /\ racedEmpty = FALSE

(* A day ends; a dividend may be due on the next. *)
NextDay ==
    /\ today < MaxDay
    /\ today' = today + 1
    /\ basis' \in {basis, basis + 1} \cap 0 .. MaxBasis
    /\ UNCHANGED <<ends, table, at, request, fetched, overlapped, racedEmpty>>

-----------------------------------------------------------------------------
(* get_bars; end defaults to today, `force' is force_refresh. *)

HasData_OldestOnly(r) ==
    table # NoRows /\ Oldest(table) <= r.start
HasData(r) ==
    table # NoRows /\ Oldest(table) <= r.start /\ Newest(table) >= r.end

Call(c, r, force) ==
    /\ at[c] = "idle"
    /\ r.start <= r.end /\ r.end <= today
    /\ request' = [request EXCEPT ![c] = r]
    /\ at' = [at EXCEPT ![c] = IF ~force /\ HasData(r) THEN "cached" ELSE "latest"]
    /\ overlapped' = (overlapped \/ \E d \in Callers : at[d] # "idle")
    /\ UNCHANGED <<ends, today, basis, table, fetched, racedEmpty>>

(* Only what follows the newest row is fetched, and that row again. *)
FetchStart_Request(r) == r.start
FetchStart_NewOnly(r) == IF table = NoRows THEN r.start ELSE Newest(table) + 1
FetchStart(r) == IF table = NoRows THEN r.start ELSE Newest(table)

LatestDate(c) ==
    /\ at[c] = "latest"
    /\ fetched' = [fetched EXCEPT ![c] = FetchStart(request[c])]
    /\ at' = [at EXCEPT ![c] = "fetch"]
    /\ racedEmpty' = \/ racedEmpty
                     \/ table = NoRows /\ \E d \in Callers : at[d] \in {"fetch", "upsert"}
    /\ UNCHANGED <<ends, today, basis, table, request, overlapped>>

(* The provider answers with the rows dated from fetch_start on: those of periods
   that have ended, and the one of the running period.  The rows of a future may
   be missing, when their request fails.                                       *)
RowDays(first, r) == {d \in first .. r.end : d \in ends \/ d = today}
Provided(first, r) ==
    [d \in RowDays(first, r) |->
        [adjust |-> r.adjust, basis |-> IF r.adjust = "qfq" THEN basis ELSE 0,
         partial |-> d = today]]
Fetch(c) ==
    /\ at[c] = "fetch"
    /\ fetched' \in {[fetched EXCEPT ![c] = rows] :
                        rows \in {Provided(fetched[c], request[c]), NoRows}}
    /\ at' = [at EXCEPT ![c] = "upsert"]
    /\ UNCHANGED <<ends, today, basis, table, request, overlapped, racedEmpty>>
(* ... and the request of a share's rows raises. *)
FetchRaises(c) ==
    /\ at[c] = "fetch"
    /\ fetched' = [fetched EXCEPT ![c] = NoRows]
    /\ request' = [request EXCEPT ![c] = NoRequest]
    /\ at' = [at EXCEPT ![c] = "idle"]
    /\ UNCHANGED <<ends, today, basis, table, overlapped, racedEmpty>>

(* INSERT OR REPLACE, the date being the key; nothing is done without rows. *)
Replacing(t, rows) ==
    [d \in DOMAIN t \cup DOMAIN rows |-> IF d \in DOMAIN rows THEN rows[d] ELSE t[d]]
Upsert(c) ==
    /\ at[c] = "upsert"
    /\ table' = IF DOMAIN fetched[c] = {} THEN table ELSE Replacing(table, fetched[c])
    /\ at' = [at EXCEPT ![c] = "load"]
    /\ UNCHANGED <<ends, today, basis, request, fetched, overlapped, racedEmpty>>

(* load: the rows of the range that have the adjust mode. *)
Rows(r) ==
    Restrict(table, {d \in DOMAIN table : d >= r.start /\ d <= r.end /\ table[d].adjust = r.adjust})
Load(c) ==
    /\ at[c] \in {"cached", "load"}
    /\ at' = [at EXCEPT ![c] = "idle"]
    /\ request' = [request EXCEPT ![c] = NoRequest]
    /\ fetched' = [fetched EXCEPT ![c] = NoRows]
    /\ UNCHANGED <<ends, today, basis, table, overlapped, racedEmpty>>

(* drop, called by hand. *)
Drop ==
    /\ table # NoRows
    /\ \A c \in Callers : at[c] = "idle"
    /\ table' = NoRows
    /\ UNCHANGED <<ends, today, basis, at, request, fetched, overlapped, racedEmpty>>

CallStep(c) == LatestDate(c) \/ Fetch(c) \/ FetchRaises(c) \/ Upsert(c) \/ Load(c)
Next ==
    \/ NextDay
    \/ Drop
    \/ \E c \in Callers : CallStep(c) \/ \E r \in Request, force \in BOOLEAN : Call(c, r, force)
Spec == Init /\ [][Next]_vars

-----------------------------------------------------------------------------
TypeOK ==
    /\ ends \in Calendars
    /\ today \in Days
    /\ basis \in 0 .. MaxBasis
    /\ DOMAIN table \subseteq 1 .. today
    /\ \A d \in DOMAIN table : table[d] \in Row
    /\ at \in [Callers -> {"idle", "latest", "fetch", "upsert", "load", "cached"}]
    /\ request \in [Callers -> Request \cup {NoRequest}]
    /\ \A c \in Callers : at[c] = "idle" <=> request[c] = NoRequest
    /\ \A c \in Callers : at[c] = "fetch" => fetched[c] \in Days
    /\ overlapped \in BOOLEAN
    /\ racedEmpty \in BOOLEAN
    /\ racedEmpty => overlapped

(* The cache has no holes: every period that ends between the oldest and the newest
   cached day has its row, whatever ranges were asked for and however calls
   overlapped, so that has_data, which only looks at those two, may be believed.
   It takes that no two calls found the table empty at the same time: they may
   leave a hole, and nothing ever fills it.                                    *)
NoHoles ==
    ~racedEmpty /\ table # NoRows =>
        ends \cap Oldest(table) .. Newest(table) \subseteq DOMAIN table

(* A row fetched before its day was over is replaced when the cache grows past
   it, if that day ended its period: then only the newest row may be partial.
   (The row of a week fetched on another day stays behind, under that day.)    *)
OnlyNewestIsPartial ==
    ~overlapped => \A d \in DOMAIN table : table[d].partial => d = Newest(table) \/ d \notin ends

(* A re-based price never precedes an older basis: a call re-bases the rows it
   fetches, the newest ones, and leaves the rest, so the prices of the cache
   change their basis somewhere and never back.                              *)
BasisGrowsWithDate ==
    ~overlapped /\ (\A d \in DOMAIN table : table[d].adjust = "qfq") =>
        \A d, e \in DOMAIN table : d <= e => table[d].basis <= table[e].basis

(* A call answered from the cache, or by a fetch that brought rows, returns every
   period it asked for that ended on or after the oldest cached day, if the cache
   holds no rows of another mode: those hide days from it.  (Days before the
   oldest are never fetched once there is a newest one.)                       *)
CompleteFromOldest ==
    [][ \A c \in Callers :
          /\ at[c] = "cached" \/ (at[c] = "load" /\ fetched[c] # NoRows)
          /\ at'[c] = "idle" /\ ~overlapped
          /\ \A d \in DOMAIN table : table[d].adjust = request[c].adjust
          => LET r == request[c] IN
             \A d \in ends \cap r.start .. r.end :
                 (\E o \in DOMAIN table : o <= d) => d \in DOMAIN Rows(r) ]_vars
==============================================================================
