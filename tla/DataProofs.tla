------------------------------ MODULE DataProofs ------------------------------
(*****************************************************************************)
(* Theorems about the data layer: BarCache for any number of callers, days   *)
(* and re-basings, and DataFeeds for any tables, factors, limits and pages.  *)
(*****************************************************************************)
EXTENDS Data, SumTheorems, SequenceTheorems

(* A finite set of numbers has a smallest, and days have a first and a last. *)
Smallest(s) == Min(s)


LEMMA SmallestIs ==
    ASSUME NEW S \in SUBSET Int, IsFiniteSet(S), S # {}
    PROVE  /\ Smallest(S) \in S /\ \A x \in S : x >= Smallest(S)
           /\ S \ {Smallest(S)} \in SUBSET S /\ S \ {Smallest(S)} # S
<1> DEFINE Good == {s \in SUBSET S : s # {} => \E x \in s : \A y \in s : x <= y}
<1>1. ASSUME NEW s \in SUBSET S, \A u \in SUBSET s : u # s => u \in Good
      PROVE  s \in Good
  <2> SUFFICES ASSUME s # {}
               PROVE  \E x \in s : \A y \in s : x <= y
    OBVIOUS
  <2>1. PICK x \in s : TRUE
    OBVIOUS
  <2>2. x \in Int
    OBVIOUS
  <2>3. CASE s = {x}
    BY <2>2, <2>3
  <2>4. CASE s # {x}
    <3>1. s \ {x} \in Good /\ s \ {x} # {}
      <4>1. s \ {x} \in SUBSET s /\ s \ {x} # s /\ s \ {x} # {}
        BY <2>1, <2>4
      <4> HIDE DEF Good
      <4> QED
        BY <1>1, <4>1
    <3>2. PICK m \in s \ {x} : \A y \in s \ {x} : m <= y
      BY <3>1
    <3>3. m \in Int
      OBVIOUS
    <3>4. CASE m <= x
      BY <3>2, <3>4
    <3>5. CASE ~(m <= x)
      <4>1. \A y \in s \ {x} : y \in Int /\ m <= y
        BY <3>2
      <4>2. \A y \in s : x <= y
        BY <2>2, <3>3, <3>5, <4>1
      <4> QED
        BY <4>2
    <3> QED
      BY <3>4, <3>5
  <2> QED
    BY <2>3, <2>4
<1>2. \A s \in SUBSET S : s \in Good
  <2> HIDE DEF Good
  <2> QED
    BY <1>1, SubsetInduction
<1>3. \E x \in S : \A y \in S : x <= y
  BY <1>2
<1>4. Smallest(S) \in S /\ \A y \in S : Smallest(S) <= y
  BY <1>3 DEF Smallest, Min
<1>5. \A y \in S : y >= Smallest(S)
  BY <1>4
<1> QED
  BY <1>4, <1>5

LEMMA ExtremesOf ==
    ASSUME NEW n \in Int, NEW S \in SUBSET (1 .. n), S # {}
    PROVE  \E a, b \in S : \A d \in S : a <= d /\ d <= b
<1> DEFINE T == {0 - d : d \in S}
<1>1. S \in SUBSET Int /\ IsFiniteSet(S)
  <2>1. IsFiniteSet(1 .. n)
    BY FS_Interval
  <2>2. IsFiniteSet(S)
    BY <2>1, FS_Subset
  <2> QED
    BY <2>2
<1>2. T \in SUBSET Int /\ IsFiniteSet(T) /\ T # {}
  <2>1. T \subseteq (0 - n) .. (0 - 1)
    OBVIOUS
  <2>2. IsFiniteSet((0 - n) .. (0 - 1))
    BY FS_Interval
  <2>3. T # {}
    OBVIOUS
  <2> QED
    BY <2>1, <2>2, <2>3, FS_Subset
<1>3. PICK a \in S : \A d \in S : a <= d
  <2>1. Smallest(S) \in S /\ \A x \in S : x >= Smallest(S)
    BY <1>1, SmallestIs
  <2> QED
    BY <1>1, <2>1
<1>4. PICK m \in T : \A x \in T : x >= m
  <2> HIDE DEF T
  <2> QED
    BY <1>2, SmallestIs
<1>5. PICK b \in S : m = 0 - b
  BY <1>4
<1>6. \A d \in S : d <= b
  <2> SUFFICES ASSUME NEW d \in S
               PROVE  d <= b
    OBVIOUS
  <2>1. 0 - d >= m
    BY <1>4
  <2> QED
    BY <1>1, <1>5, <2>1
<1> QED
  BY <1>3, <1>5, <1>6

LEMMA EndsOfTable ==
    ASSUME NEW t, NEW n \in Int, DOMAIN t \subseteq 1 .. n, DOMAIN t # {}
    PROVE  /\ Oldest(t) \in DOMAIN t /\ Newest(t) \in DOMAIN t
           /\ \A d \in DOMAIN t : Oldest(t) <= d /\ d <= Newest(t)
<1>1. PICK a \in DOMAIN t, b \in DOMAIN t : \A d \in DOMAIN t : a <= d /\ d <= b
  BY ExtremesOf
<1>2. DOMAIN t \subseteq Int
  OBVIOUS
<1>3. Oldest(t) \in DOMAIN t /\ \A d \in DOMAIN t : Oldest(t) <= d
  BY <1>1 DEF Oldest
<1>4. Newest(t) \in DOMAIN t /\ \A d \in DOMAIN t : Newest(t) >= d
  <2>1. \A d \in DOMAIN t : b >= d
    BY <1>1, <1>2
  <2> QED
    BY <2>1 DEF Newest
<1> QED
  BY <1>2, <1>3, <1>4

LEMMA ReplacingIs ==
    ASSUME NEW t, NEW rows
    PROVE  /\ DOMAIN Replacing(t, rows) = DOMAIN t \cup DOMAIN rows
           /\ \A d \in DOMAIN rows : Replacing(t, rows)[d] = rows[d]
           /\ \A d \in DOMAIN t \ DOMAIN rows : Replacing(t, rows)[d] = t[d]
BY DEF Replacing

LEMMA NoRowsEmpty == DOMAIN NoRows = {}
BY DEF NoRows

-----------------------------------------------------------------------------
(* The invariant that holds however calls overlap.  Callers hold rows of days that
   have come.                                                                    *)
Fetching(c) == at[c] \in {"fetch", "upsert"}
Alone == ~overlapped => \A c, d \in Callers : at[c] # "idle" /\ at[d] # "idle" => c = d
HasRows == table # NoRows => DOMAIN table # {}
Asked(c) ==
    /\ at[c] = "idle" => request[c] = NoRequest
    /\ at[c] # "idle" =>
           request[c] \in Request /\ request[c].start <= request[c].end /\ request[c].end <= today
InHand(c) ==
    /\ at[c] = "fetch" => fetched[c] \in Days
    /\ at[c] = "upsert" =>
           /\ DOMAIN fetched[c] \subseteq 1 .. request[c].end
           /\ \A d \in DOMAIN fetched[c] : fetched[c][d] \in Row
Base ==
    /\ ends \in Calendars
    /\ today \in Days /\ basis \in 0 .. MaxBasis
    /\ at \in [Callers -> {"idle", "latest", "fetch", "upsert", "load", "cached"}]
    /\ request \in [Callers -> Request \cup {NoRequest}]
    /\ DOMAIN fetched = Callers
    /\ overlapped \in BOOLEAN /\ racedEmpty \in BOOLEAN
    /\ racedEmpty => overlapped
    /\ DOMAIN table \subseteq 1 .. today
    /\ \A d \in DOMAIN table : table[d] \in Row
    /\ Alone /\ HasRows
    /\ \A c \in Callers : Asked(c) /\ InHand(c)

LEMMA RowInt ==
    ASSUME NEW row \in Row
    PROVE  row.basis \in Int /\ row.partial \in BOOLEAN /\ row.adjust \in Adjusts
BY CacheAssumption DEF Row

LEMMA RequestInt ==
    ASSUME NEW r \in Request
    PROVE  r.start \in Days /\ r.end \in Days /\ r.adjust \in Adjusts
BY DEF Request

LEMMA DaysInt ==
    ASSUME Base
    PROVE  today \in Int /\ ends \subseteq Int /\ DOMAIN table \subseteq Days
BY CacheAssumption DEF Base, Days

LEMMA TableEnds ==
    ASSUME Base, table # NoRows
    PROVE  /\ Oldest(table) \in DOMAIN table /\ Newest(table) \in DOMAIN table
           /\ \A d \in DOMAIN table : Oldest(table) <= d /\ d <= Newest(table)
<1>1. PICK t : t = table
  OBVIOUS
<1>2. PICK n \in Int : n = today
  BY DaysInt
<1>3. DOMAIN t \subseteq 1 .. n /\ DOMAIN t # {}
  BY <1>1, <1>2 DEF Base, HasRows
<1>4. /\ Oldest(t) \in DOMAIN t /\ Newest(t) \in DOMAIN t
      /\ \A d \in DOMAIN t : Oldest(t) <= d /\ d <= Newest(t)
  BY <1>3, EndsOfTable
<1> QED
  BY <1>1, <1>4

AsPublished(row, d, adjust) ==
    /\ row \in Row /\ row.adjust = adjust
    /\ row.basis <= basis /\ (adjust = "qfq" => row.basis = basis)
    /\ row.partial => d = today

LEMMA ProvidedIs ==
    ASSUME NEW s \in Days, NEW r \in Request, basis \in 0 .. MaxBasis, NEW d \in RowDays(s, r)
    PROVE  AsPublished(Provided(s, r)[d], d, r.adjust)
<1> DEFINE b == IF r.adjust = "qfq" THEN basis ELSE 0
<1>2. Provided(s, r)[d] = [adjust |-> r.adjust, basis |-> b, partial |-> d = today]
  BY DEF Provided
<1>3. b \in 0 .. MaxBasis
  BY CacheAssumption
<1>4. r.adjust \in Adjusts
  BY RequestInt
<1>5. (d = today) \in BOOLEAN
  OBVIOUS
<1>6. [adjust |-> r.adjust, basis |-> b, partial |-> d = today] \in Row
  <2> HIDE DEF b
  <2> QED
    BY <1>3, <1>4, <1>5 DEF Row
<1>7. Provided(s, r)[d].adjust = r.adjust /\ Provided(s, r)[d].basis = b
  BY <1>2
<1>8. Provided(s, r)[d].partial = (d = today)
  BY <1>2
<1>9. b <= basis
  BY <1>3, CacheAssumption
<1> QED
  BY <1>2, <1>6, <1>7, <1>8, <1>9 DEF AsPublished

(* What a request returns: its rows are of the days asked for, and every period that
   ends on one of them has its row.                                              *)
Covers(rows, s, e) ==
    /\ DOMAIN rows \subseteq s .. e
    /\ \A d \in ends : s <= d /\ d <= e => d \in DOMAIN rows

LEMMA ProvidedCovers ==
    ASSUME Base, NEW s \in Days, NEW r \in Request
    PROVE  Covers(Provided(s, r), s, r.end) /\ DOMAIN Provided(s, r) = RowDays(s, r)
<1>1. DOMAIN Provided(s, r) = RowDays(s, r)
  BY DEF Provided
<1>2. s \in Int /\ r.end \in Int /\ ends \subseteq Int
  BY RequestInt, DaysInt DEF Days
<1> QED
  BY <1>1, <1>2 DEF Covers, RowDays

LEMMA InitBase == Init => Base
<1> SUFFICES ASSUME Init
             PROVE  Base
  OBVIOUS
<1>1. today \in Days /\ basis \in 0 .. MaxBasis /\ ends \in Calendars
  BY CacheAssumption DEF Init, Days
<1>2. DOMAIN table = {} /\ table = NoRows
  BY NoRowsEmpty DEF Init
<1>3. /\ at \in [Callers -> {"idle", "latest", "fetch", "upsert", "load", "cached"}]
      /\ request \in [Callers -> Request \cup {NoRequest}]
      /\ DOMAIN fetched = Callers
  BY DEF Init
<1>4. Alone /\ HasRows /\ \A c \in Callers : Asked(c) /\ InHand(c)
  BY <1>2 DEF Init, Alone, HasRows, Asked, InHand
<1> QED
  BY <1>1, <1>2, <1>3, <1>4 DEF Init, Base

(* What one call leaves alone of the others. *)
LEMMA Others ==
    ASSUME Base, NEW c \in Callers,
           \A d \in Callers : d # c => /\ at'[d] = at[d] /\ request'[d] = request[d]
                                       /\ fetched'[d] = fetched[d],
           today' = today
    PROVE  \A d \in Callers : d # c => Asked(d)' /\ InHand(d)'
BY DEF Base, Asked, InHand

LEMMA StepBase == Base /\ [Next]_vars => Base'
<1> SUFFICES ASSUME Base, [Next]_vars
             PROVE  Base'
  OBVIOUS
<1>1. CASE NextDay
  <2>1. /\ today' = today + 1 /\ today < MaxDay /\ basis' \in 0 .. MaxBasis
        /\ UNCHANGED <<ends, table, at, request, fetched, overlapped, racedEmpty>>
    BY <1>1 DEF NextDay
  <2>2. today \in Int /\ today' \in Days
    BY <2>1, CacheAssumption DEF Base, Days
  <2>3. DOMAIN table' \subseteq 1 .. today'
    BY <2>1, <2>2 DEF Base
  <2>4. ASSUME NEW c \in Callers
        PROVE  Asked(c)' /\ InHand(c)'
    <3>1. at[c] # "idle" => request[c] \in Request /\ request[c].end <= today
      BY DEF Base, Asked
    <3>2. at[c] # "idle" => request[c].end <= today'
      BY <2>1, <2>2, <3>1, RequestInt DEF Days
    <3> QED
      BY <2>1, <3>2 DEF Base, Asked, InHand
  <2> QED
    BY <2>1, <2>2, <2>3, <2>4 DEF Base, Alone, HasRows
<1>2. CASE Drop
  BY <1>2, NoRowsEmpty DEF Drop, Base, Alone, HasRows, Asked, InHand
<1>3. ASSUME NEW c \in Callers, NEW r \in Request, NEW force \in BOOLEAN, Call(c, r, force)
      PROVE  Base'
  <2>1. /\ at[c] = "idle" /\ r.start <= r.end /\ r.end <= today
        /\ request' = [request EXCEPT ![c] = r]
        /\ UNCHANGED <<ends, today, basis, table, fetched, racedEmpty>>
        /\ overlapped' = (overlapped \/ \E d \in Callers : at[d] # "idle")
    BY <1>3 DEF Call
  <2>2. PICK s \in {"cached", "latest"} : at' = [at EXCEPT ![c] = s]
    BY <1>3 DEF Call
  <2>3. /\ at'[c] = s /\ request'[c] = r
        /\ \A d \in Callers : d # c => at'[d] = at[d] /\ request'[d] = request[d]
    BY <2>1, <2>2 DEF Base
  <2>4. Asked(c)' /\ InHand(c)'
    BY <2>1, <2>2, <2>3 DEF Asked, InHand
  <2>5. \A d \in Callers : Asked(d)' /\ InHand(d)'
    BY <2>1, <2>3, <2>4, Others
  <2>6. Alone'
    BY <2>1, <2>3 DEF Base, Alone
  <2> QED
    BY <2>1, <2>2, <2>5, <2>6 DEF Base, HasRows
<1>4. ASSUME NEW c \in Callers, LatestDate(c)
      PROVE  Base'
  <2>1. /\ at[c] = "latest" /\ at' = [at EXCEPT ![c] = "fetch"]
        /\ fetched' = [fetched EXCEPT ![c] = FetchStart(request[c])]
        /\ UNCHANGED <<ends, today, basis, table, request, overlapped>>
        /\ racedEmpty' = \/ racedEmpty
                         \/ table = NoRows /\ \E d \in Callers : at[d] \in {"fetch", "upsert"}
    BY <1>4 DEF LatestDate
  <2>2. /\ at'[c] = "fetch" /\ fetched'[c] = FetchStart(request[c])
        /\ \A d \in Callers : d # c => at'[d] = at[d] /\ fetched'[d] = fetched[d]
        /\ DOMAIN fetched' = Callers
    BY <2>1 DEF Base
  <2>3. FetchStart(request[c]) \in Days
    BY <2>1, RequestInt, DaysInt, TableEnds DEF FetchStart, Base, Asked
  <2>4. Asked(c)' /\ InHand(c)'
    BY <2>1, <2>2, <2>3 DEF Base, Asked, InHand
  <2>5. \A d \in Callers : Asked(d)' /\ InHand(d)'
    BY <2>1, <2>2, <2>4, Others
  <2>6. racedEmpty' => overlapped'
    BY <2>1 DEF Base, Alone
  <2>7. Alone' /\ HasRows'
    BY <2>1, <2>2 DEF Base, Alone, HasRows
  <2> QED
    BY <2>1, <2>2, <2>5, <2>6, <2>7 DEF Base
<1>5. ASSUME NEW c \in Callers, Fetch(c)
      PROVE  Base'
  <2>1. /\ at[c] = "fetch" /\ at' = [at EXCEPT ![c] = "upsert"]
        /\ UNCHANGED <<ends, today, basis, table, request, overlapped, racedEmpty>>
    BY <1>5 DEF Fetch
  <2>2. PICK rows \in {Provided(fetched[c], request[c]), NoRows} :
            fetched' = [fetched EXCEPT ![c] = rows]
    BY <1>5 DEF Fetch
  <2>3. /\ at'[c] = "upsert" /\ fetched'[c] = rows
        /\ \A d \in Callers : d # c => at'[d] = at[d] /\ fetched'[d] = fetched[d]
        /\ DOMAIN fetched' = Callers
    BY <2>1, <2>2 DEF Base
  <2>4. /\ DOMAIN rows \subseteq 1 .. request[c].end
        /\ \A d \in DOMAIN rows : rows[d] \in Row
    <3>1. PICK s \in Days : s = fetched[c]
      BY <2>1 DEF Base, InHand
    <3>2. PICK r \in Request : r = request[c]
      BY <2>1 DEF Base, Asked
    <3>3. \A d \in RowDays(s, r) : Provided(s, r)[d] \in Row
      BY ProvidedIs DEF Base, AsPublished
    <3>4. DOMAIN Provided(s, r) = RowDays(s, r) /\ DOMAIN Provided(s, r) \subseteq s .. r.end
      BY ProvidedCovers DEF Covers
    <3>5. s .. r.end \subseteq 1 .. r.end
      BY RequestInt DEF Days
    <3>6. rows = Provided(s, r) \/ rows = NoRows
      BY <2>2, <3>1, <3>2
    <3> QED
      BY <3>2, <3>3, <3>4, <3>5, <3>6, NoRowsEmpty
  <2>7. Asked(c)' /\ InHand(c)'
    BY <2>1, <2>3, <2>4 DEF Base, Asked, InHand
  <2>8. \A d \in Callers : Asked(d)' /\ InHand(d)'
    BY <2>1, <2>3, <2>7, Others
  <2> QED
    BY <2>1, <2>3, <2>8 DEF Base, Alone, HasRows
<1>6. ASSUME NEW c \in Callers, FetchRaises(c) \/ Load(c)
      PROVE  Base'
  <2>1. /\ at[c] # "idle" /\ at' = [at EXCEPT ![c] = "idle"]
        /\ request' = [request EXCEPT ![c] = NoRequest]
        /\ fetched' = [fetched EXCEPT ![c] = NoRows]
        /\ UNCHANGED <<ends, today, basis, table, overlapped, racedEmpty>>
    BY <1>6 DEF FetchRaises, Load
  <2>2. /\ at'[c] = "idle" /\ request'[c] = NoRequest
        /\ \A d \in Callers : d # c => /\ at'[d] = at[d] /\ request'[d] = request[d]
                                       /\ fetched'[d] = fetched[d]
        /\ DOMAIN fetched' = Callers
    BY <2>1 DEF Base
  <2>3. \A d \in Callers : Asked(d)' /\ InHand(d)'
    BY <2>1, <2>2, Others DEF Asked, InHand
  <2> QED
    BY <2>1, <2>2, <2>3 DEF Base, Alone, HasRows
<1>7. ASSUME NEW c \in Callers, Upsert(c)
      PROVE  Base'
  <2>1. /\ at[c] = "upsert" /\ at' = [at EXCEPT ![c] = "load"]
        /\ table' = IF DOMAIN fetched[c] = {} THEN table ELSE Replacing(table, fetched[c])
        /\ UNCHANGED <<ends, today, basis, request, fetched, overlapped, racedEmpty>>
    BY <1>7 DEF Upsert
  <2>2. /\ at'[c] = "load"
        /\ \A d \in Callers : d # c => at'[d] = at[d]
    BY <2>1 DEF Base
  <2>3. Asked(c)' /\ InHand(c)'
    BY <2>1, <2>2 DEF Base, Asked, InHand
  <2>4. \A d \in Callers : Asked(d)' /\ InHand(d)'
    BY <2>1, <2>2, <2>3, Others
  <2>5. Alone'
    BY <2>1, <2>2 DEF Base, Alone
  <2>6. CASE DOMAIN fetched[c] = {}
    BY <2>1, <2>4, <2>5, <2>6 DEF Base, HasRows
  <2>7. CASE DOMAIN fetched[c] # {}
    <3>1. /\ request[c].end \in Int /\ today \in Int /\ request[c].end <= today
          /\ DOMAIN fetched[c] \subseteq 1 .. request[c].end
          /\ \A d \in DOMAIN fetched[c] : fetched[c][d] \in Row
      BY <2>1, RequestInt, DaysInt DEF Base, Asked, InHand, Days
    <3>2. /\ DOMAIN table' = DOMAIN table \cup DOMAIN fetched[c]
          /\ \A d \in DOMAIN fetched[c] : table'[d] = fetched[c][d]
          /\ \A d \in DOMAIN table \ DOMAIN fetched[c] : table'[d] = table[d]
      BY <2>1, <2>7 DEF Replacing
    <3>3. \A d \in DOMAIN table' : table'[d] \in Row
      BY <3>1, <3>2 DEF Base
    <3>4. DOMAIN table' \subseteq 1 .. today
      <4>1. 1 .. request[c].end \subseteq 1 .. today
        BY <3>1
      <4> QED
        BY <3>1, <3>2, <4>1 DEF Base
    <3>5. HasRows'
      BY <2>7, <3>2 DEF HasRows
    <3> QED
      BY <2>1, <2>4, <2>5, <3>3, <3>4, <3>5 DEF Base
  <2> QED
    BY <2>6, <2>7
<1>8. CASE UNCHANGED vars
  BY <1>8 DEF vars, Base, Alone, HasRows, Asked, InHand
<1> QED
  BY <1>1, <1>2, <1>3, <1>4, <1>5, <1>6, <1>7, <1>8 DEF Next, CallStep

LEMMA BaseInvariant == Spec => []Base
BY InitBase, StepBase, PTL DEF Spec

(* However calls overlap, cached days are days that have passed, a caller that
   fetches knows from which day, and the state of callers keeps its type.     *)
THEOREM CacheTypeCorrect == Spec => []TypeOK
<1>1. Base => TypeOK
  <2> SUFFICES ASSUME Base
               PROVE  TypeOK
    OBVIOUS
  <2>1. ASSUME NEW c \in Callers, at[c] # "idle"
        PROVE  request[c] # NoRequest
    BY <2>1, RequestInt DEF Base, Asked, NoRequest, Days
  <2> QED
    BY <2>1 DEF Base, Asked, InHand, TypeOK
<1> QED
  BY <1>1, BaseInvariant, PTL

-----------------------------------------------------------------------------
(* The table has no hole as long as no two calls found it empty together: what a
   caller writes begins at a day that is in the table then.                      *)
FromTable(s) == s \in Days /\ (table = NoRows \/ s \in DOMAIN table)
Joins(c) ==
    /\ at[c] = "fetch" => FromTable(fetched[c])
    /\ at[c] = "upsert" =>
           \/ DOMAIN fetched[c] = {}
           \/ \E s \in Days : FromTable(s) /\ Covers(fetched[c], s, request[c].end)
    /\ table = NoRows /\ Fetching(c) => \A d \in Callers : Fetching(d) => d = c
OneRun ==
    \A d, e \in DOMAIN table, m \in ends : d <= m /\ m <= e => m \in DOMAIN table
Contiguous == ~racedEmpty => OneRun /\ \A c \in Callers : Joins(c)

LEMMA InitContiguous == Init => Contiguous
BY NoRowsEmpty DEF Init, Contiguous, OneRun, Joins, Fetching

(* No step changes the calendar or forgets what has happened. *)
LEMMA StepKeeps ==
    ASSUME [Next]_vars
    PROVE  ends' = ends /\ (overlapped => overlapped') /\ (racedEmpty => racedEmpty')
<1>1. CASE UNCHANGED vars
  BY <1>1 DEF vars
<1>2. CASE NextDay \/ Drop
  BY <1>2 DEF NextDay, Drop
<1>3. ASSUME NEW c \in Callers, CallStep(c)
      PROVE  ends' = ends /\ (overlapped => overlapped') /\ (racedEmpty => racedEmpty')
  <2>1. CASE LatestDate(c)
    BY <2>1 DEF LatestDate
  <2>2. CASE Fetch(c) \/ FetchRaises(c)
    BY <2>2 DEF Fetch, FetchRaises
  <2>3. CASE Upsert(c) \/ Load(c)
    BY <2>3 DEF Upsert, Load
  <2> QED
    BY <1>3, <2>1, <2>2, <2>3 DEF CallStep
<1>4. ASSUME NEW c \in Callers, NEW r \in Request, NEW force \in BOOLEAN, Call(c, r, force)
      PROVE  ends' = ends /\ (overlapped => overlapped') /\ (racedEmpty => racedEmpty')
  BY <1>4 DEF Call
<1> QED
  BY <1>1, <1>2, <1>3, <1>4 DEF Next

LEMMA StepContiguous == Base /\ Contiguous /\ [Next]_vars => Contiguous'
<1> SUFFICES ASSUME Base, Contiguous, [Next]_vars, ~racedEmpty'
             PROVE  OneRun' /\ \A c \in Callers : Joins(c)'
  BY DEF Contiguous
<1> USE DEF Fetching
<1>1. ~racedEmpty /\ ends' = ends
  BY StepKeeps
<1>2. OneRun /\ \A c \in Callers : Joins(c)
  BY <1>1 DEF Contiguous
<1>3. CASE NextDay \/ UNCHANGED vars
  BY <1>2, <1>3 DEF NextDay, vars, OneRun, Joins, FromTable, Covers
<1>4. CASE Drop
  BY <1>4, NoRowsEmpty DEF Drop, OneRun, Joins
<1>5. ASSUME NEW c \in Callers, NEW r \in Request, NEW force \in BOOLEAN, Call(c, r, force)
      PROVE  OneRun' /\ \A d \in Callers : Joins(d)'
  <2>1. /\ at[c] = "idle" /\ UNCHANGED <<table, fetched>>
        /\ at'[c] \in {"cached", "latest"}
        /\ \A d \in Callers : d # c => at'[d] = at[d] /\ request'[d] = request[d]
    BY <1>5 DEF Call, Base
  <2> QED
    BY <1>1, <1>2, <2>1 DEF OneRun, Joins, FromTable, Covers
<1>6. ASSUME NEW c \in Callers, LatestDate(c)
      PROVE  OneRun' /\ \A d \in Callers : Joins(d)'
  <2>1. /\ UNCHANGED <<table, request>> /\ at[c] = "latest"
        /\ at'[c] = "fetch" /\ fetched'[c] = FetchStart(request[c])
        /\ \A d \in Callers : d # c => at'[d] = at[d] /\ fetched'[d] = fetched[d]
    BY <1>6 DEF LatestDate, Base
  <2>2. table = NoRows => \A d \in Callers : ~Fetching(d)
    BY <1>6 DEF LatestDate
  <2>3. FromTable(fetched'[c])
    BY <2>1, RequestInt, DaysInt, TableEnds DEF FetchStart, Base, Asked, FromTable
  <2>4. Joins(c)'
    BY <2>1, <2>2, <2>3 DEF Joins, FromTable
  <2>5. \A d \in Callers : d # c => Joins(d)'
    BY <1>1, <1>2, <2>1, <2>2 DEF Joins, FromTable, Covers
  <2> QED
    BY <1>1, <1>2, <2>1, <2>4, <2>5 DEF OneRun
<1>7. ASSUME NEW c \in Callers, Fetch(c)
      PROVE  OneRun' /\ \A d \in Callers : Joins(d)'
  <2>1. /\ UNCHANGED <<table, request>> /\ at[c] = "fetch" /\ at'[c] = "upsert"
        /\ fetched'[c] \in {Provided(fetched[c], request[c]), NoRows}
        /\ \A d \in Callers : d # c => at'[d] = at[d] /\ fetched'[d] = fetched[d]
    BY <1>7 DEF Fetch, Base
  <2>2. PICK s \in Days : s = fetched[c] /\ FromTable(s)
    BY <1>2, <2>1 DEF Joins, FromTable
  <2>3. DOMAIN fetched'[c] = {} \/ Covers(fetched'[c], s, request[c].end)
    <3>1. PICK r \in Request : r = request[c]
      BY <2>1 DEF Base, Asked
    <3> QED
      BY <2>1, <2>2, <3>1, NoRowsEmpty, ProvidedCovers
  <2>4. Joins(c)'
    <3>1. \/ DOMAIN fetched'[c] = {}
          \/ \E d \in Days : FromTable(d)' /\ Covers(fetched[c], d, request[c].end)'
      BY <1>1, <2>1, <2>2, <2>3 DEF FromTable, Covers
    <3>2. table' = NoRows => \A d \in Callers : Fetching(d)' => d = c
      BY <1>2, <2>1 DEF Joins
    <3> QED
      BY <2>1, <3>1, <3>2 DEF Joins
  <2>5. \A d \in Callers : d # c => Joins(d)'
    BY <1>1, <1>2, <2>1 DEF Joins, FromTable, Covers
  <2> QED
    BY <1>1, <1>2, <2>1, <2>4, <2>5 DEF OneRun
<1>8. ASSUME NEW c \in Callers, FetchRaises(c) \/ Load(c)
      PROVE  OneRun' /\ \A d \in Callers : Joins(d)'
  <2>1. /\ table' = table /\ at'[c] = "idle"
        /\ \A d \in Callers : d # c => /\ at'[d] = at[d] /\ request'[d] = request[d]
                                       /\ fetched'[d] = fetched[d]
    BY <1>8 DEF FetchRaises, Load, Base
  <2> QED
    BY <1>1, <1>2, <2>1 DEF OneRun, Joins, FromTable, Covers
<1>9. ASSUME NEW c \in Callers, Upsert(c)
      PROVE  OneRun' /\ \A d \in Callers : Joins(d)'
  <2>1. /\ at[c] = "upsert" /\ at'[c] = "load" /\ UNCHANGED <<request, fetched>>
        /\ \A d \in Callers : d # c => at'[d] = at[d]
        /\ table' = IF DOMAIN fetched[c] = {} THEN table ELSE Replacing(table, fetched[c])
    BY <1>9 DEF Upsert, Base
  <2>2. CASE DOMAIN fetched[c] = {}
    BY <1>1, <1>2, <2>1, <2>2 DEF OneRun, Joins, FromTable, Covers
  <2>3. CASE DOMAIN fetched[c] # {}
    <3>1. PICK s \in Days : FromTable(s) /\ Covers(fetched[c], s, request[c].end)
      BY <1>2, <2>1, <2>3 DEF Joins
    <3>2. DOMAIN table' = DOMAIN table \cup DOMAIN fetched[c]
      BY <2>1, <2>3 DEF Replacing
    <3>3. PICK end \in Int : end = request[c].end
      BY <2>1, RequestInt DEF Base, Asked, Days
    <3>4. s \in Int /\ ends \subseteq Int /\ DOMAIN table \subseteq Int
      BY DaysInt DEF Days
    <3>5. table' # NoRows
      BY <2>3, <3>2, NoRowsEmpty
    <3>6. \A d \in DOMAIN fetched[c] : d \in Int /\ s <= d /\ d <= end
      BY <3>1, <3>3, <3>4 DEF Covers
    <3>7. ASSUME NEW d \in DOMAIN table', NEW e \in DOMAIN table', NEW m \in ends, d <= m, m <= e
          PROVE  m \in DOMAIN table'
      <4>1. CASE s <= m /\ m <= end
        BY <3>1, <3>2, <3>3, <4>1 DEF Covers
      <4>2. CASE m < s
        <5>1. d \in DOMAIN table
          BY <3>2, <3>4, <3>6, <3>7, <4>2
        <5>2. s \in DOMAIN table
          BY <3>1, <5>1, NoRowsEmpty DEF FromTable
        <5>3. m <= s
          BY <3>4, <4>2
        <5> QED
          BY <1>2, <3>2, <3>7, <5>1, <5>2, <5>3 DEF OneRun
      <4>3. CASE end < m
        <5>1. e \in DOMAIN table
          BY <3>2, <3>4, <3>6, <3>7, <4>3
        <5>2. s \in DOMAIN table
          BY <3>1, <5>1, NoRowsEmpty DEF FromTable
        <5>3. s <= m
          BY <2>3, <3>3, <3>4, <3>6, <4>3
        <5> QED
          BY <1>2, <3>2, <3>7, <5>1, <5>2, <5>3 DEF OneRun
      <4> QED
        BY <3>3, <3>4, <4>1, <4>2, <4>3
    <3>8. OneRun'
      BY <1>1, <3>7 DEF OneRun
    <3>9. ASSUME NEW d \in Callers, d # c
          PROVE  Joins(d)'
      <4>1. CASE table = NoRows
        BY <1>2, <2>1, <3>9, <4>1 DEF Joins
      <4>2. CASE table # NoRows
        <5>1. \A x \in Days : FromTable(x) => FromTable(x)'
          BY <3>2, <4>2 DEF FromTable
        <5>2. \A x \in Days : Covers(fetched[d], x, request[d].end)
                                  => Covers(fetched[d], x, request[d].end)'
          BY <1>1, <2>1 DEF Covers
        <5>3. at[d] = "fetch" => FromTable(fetched[d])'
          BY <1>2, <2>1, <3>2, <4>2 DEF Joins, FromTable
        <5> QED
          BY <1>2, <2>1, <3>5, <3>9, <5>1, <5>2, <5>3 DEF Joins
      <4> QED
        BY <4>1, <4>2
    <3>10. Joins(c)'
      BY <2>1, <3>5 DEF Joins
    <3> QED
      BY <3>8, <3>9, <3>10
  <2> QED
    BY <2>2, <2>3
<1> QED
  BY <1>3, <1>4, <1>5, <1>6, <1>7, <1>8, <1>9 DEF Next, CallStep

LEMMA ContiguousInvariant == Spec => []Contiguous
BY InitContiguous, StepContiguous, BaseInvariant, PTL DEF Spec

(* Without holes has_data, which looks at the oldest and the newest day only, may
   be believed: for any number of callers and days and for periods of any length,
   if no two calls found the table empty together.                              *)
THEOREM CacheNoHoles == Spec => []NoHoles
<1>1. Base /\ Contiguous => NoHoles
  <2> SUFFICES ASSUME Base, Contiguous, ~racedEmpty, table # NoRows,
                      NEW m \in ends, m \in Oldest(table) .. Newest(table)
               PROVE  m \in DOMAIN table
    BY DEF NoHoles
  <2>1. PICK o \in DOMAIN table, n \in DOMAIN table : o = Oldest(table) /\ n = Newest(table)
    BY TableEnds
  <2>2. o <= m /\ m <= n
    BY <2>1, DaysInt DEF Days
  <2> QED
    BY <2>1, <2>2 DEF Contiguous, OneRun
<1> QED
  BY <1>1, BaseInvariant, ContiguousInvariant, PTL

-----------------------------------------------------------------------------
(* What holds as long as no calls overlapped: a caller fetches from the newest row
   on, or from the start it asked for; what it is about to write is not based
   behind any row of the table, and partial on its last day only; what it has
   written fills the table up to the end it asked for.                           *)
IsNewest(n) == n \in DOMAIN table /\ \A d \in DOMAIN table : d <= n
StartsAt(c, s) == IF table = NoRows THEN s = request[c].start ELSE IsNewest(s)
FreshRows(rows, b) ==
    \A d \in DOMAIN rows :
        /\ rows[d].partial => \A e \in DOMAIN rows : e <= d
        /\ rows[d].basis <= b
        /\ rows[d].adjust = "qfq" => rows[d].basis = b
Written(c, s, b) ==
    /\ StartsAt(c, s)
    /\ Covers(fetched[c], s, request[c].end)
    /\ FreshRows(fetched[c], b)
    /\ \A e \in DOMAIN table : table[e].basis <= b
Complete(end) ==
    \A o \in DOMAIN table, m \in ends : o <= m /\ m <= end => m \in DOMAIN table
Exact(c) ==
    /\ at[c] = "fetch" => StartsAt(c, fetched[c])
    /\ at[c] = "upsert" =>
           fetched[c] = NoRows \/ \E s \in Days, b \in 0 .. basis : Written(c, s, b)
    /\ at[c] = "load" => fetched[c] = NoRows \/ Complete(request[c].end)
    /\ at[c] = "cached" => HasData(request[c])
Ordered ==
    /\ \A d, e \in DOMAIN table : table[d].partial /\ d \in ends => e <= d
    /\ \A d, e \in DOMAIN table :
           table[d].adjust = "qfq" /\ table[e].adjust = "qfq" /\ d <= e
               => table[d].basis <= table[e].basis
    /\ \A d \in DOMAIN table : table[d].basis <= basis
Precise == ~overlapped => Ordered /\ \A c \in Callers : Exact(c)

LEMMA InitPrecise == Init => Precise
BY NoRowsEmpty DEF Init, Precise, Ordered, Exact

(* While one caller is active alone, nothing is said of the others. *)
LEMMA OnlyCaller ==
    ASSUME Base, ~overlapped, NEW c \in Callers, at[c] # "idle",
           \A d \in Callers : d # c => at'[d] = at[d]
    PROVE  \A d \in Callers : d # c => Exact(d)'
BY DEF Base, Alone, Exact

LEMMA StepPrecise == Base /\ Contiguous /\ Precise /\ [Next]_vars => Precise'
<1> SUFFICES ASSUME Base, Contiguous, Precise, [Next]_vars, ~overlapped'
             PROVE  Ordered' /\ \A c \in Callers : Exact(c)'
  BY DEF Precise
<1>1. ~overlapped /\ ends' = ends
  BY StepKeeps
<1>2. Ordered /\ \A c \in Callers : Exact(c)
  BY <1>1 DEF Precise
<1>3. DOMAIN table \subseteq Int /\ basis \in Int /\ \A d \in DOMAIN table : table[d].basis \in Int
  BY RowInt, CacheAssumption DEF Base
<1>4. CASE UNCHANGED vars
  BY <1>2, <1>4 DEF vars, Ordered, Exact, StartsAt, IsNewest, Written, Covers, FreshRows,
                    Complete, HasData
<1>5. CASE NextDay
  <2>1. /\ basis' \in Int /\ basis <= basis'
        /\ UNCHANGED <<ends, table, at, request, fetched>>
    BY <1>3, <1>5, CacheAssumption DEF NextDay
  <2>2. Ordered'
    BY <1>2, <1>3, <2>1 DEF Ordered
  <2>3. 0 .. basis \subseteq 0 .. basis'
    BY <1>3, <2>1
  <2>4. ASSUME NEW c \in Callers
        PROVE  Exact(c)'
    BY <1>2, <2>1, <2>3 DEF Exact, StartsAt, IsNewest, Written, Covers, FreshRows, Complete, HasData
  <2> QED
    BY <2>2, <2>4
<1>6. CASE Drop
  BY <1>6, NoRowsEmpty DEF Drop, Ordered, Exact
<1>7. ASSUME NEW c \in Callers, NEW r \in Request, NEW force \in BOOLEAN, Call(c, r, force)
      PROVE  Ordered' /\ \A d \in Callers : Exact(d)'
  <2>1. /\ at'[c] \in {"cached", "latest"} /\ request'[c] = r
        /\ at'[c] = "cached" => HasData(r)
        /\ UNCHANGED <<ends, table, basis, fetched>>
    BY <1>7 DEF Call, Base
  <2>2. \A d \in Callers : d # c => at'[d] = "idle"
    BY <1>7 DEF Call, Base
  <2>3. Exact(c)'
    BY <2>1 DEF Exact, HasData
  <2>4. \A d \in Callers : d # c => Exact(d)'
    BY <2>2 DEF Exact
  <2> QED
    BY <1>2, <2>1, <2>3, <2>4 DEF Ordered
<1>8. ASSUME NEW c \in Callers, LatestDate(c)
      PROVE  Ordered' /\ \A d \in Callers : Exact(d)'
  <2>1. /\ UNCHANGED <<ends, table, basis, request>> /\ at[c] = "latest"
        /\ at'[c] = "fetch" /\ fetched'[c] = FetchStart(request[c])
        /\ \A d \in Callers : d # c => at'[d] = at[d]
    BY <1>8 DEF LatestDate, Base
  <2>2. StartsAt(c, fetched'[c])
    BY <2>1, TableEnds DEF FetchStart, StartsAt, IsNewest
  <2>3. Exact(c)'
    BY <2>1, <2>2 DEF Exact, StartsAt, IsNewest
  <2>4. \A d \in Callers : d # c => Exact(d)'
    BY <1>1, <2>1, OnlyCaller
  <2> QED
    BY <1>2, <2>1, <2>3, <2>4 DEF Ordered
<1>9. ASSUME NEW c \in Callers, Fetch(c)
      PROVE  Ordered' /\ \A d \in Callers : Exact(d)'
  <2>1. /\ UNCHANGED <<ends, table, basis, request>> /\ at[c] = "fetch" /\ at'[c] = "upsert"
        /\ fetched'[c] \in {Provided(fetched[c], request[c]), NoRows}
        /\ \A d \in Callers : d # c => at'[d] = at[d]
    BY <1>9 DEF Fetch, Base
  <2>2. PICK s \in Days : s = fetched[c]
    BY <2>1 DEF Base, InHand
  <2>3. PICK r \in Request : r = request[c] /\ r.end <= today
    BY <2>1 DEF Base, Asked
  <2>4. Exact(c)'
    <3>1. CASE fetched'[c] = NoRows
      BY <2>1, <3>1 DEF Exact
    <3>2. CASE fetched'[c] = Provided(s, r)
      <4>1. Covers(Provided(s, r), s, r.end) /\ DOMAIN Provided(s, r) = RowDays(s, r)
        BY ProvidedCovers
      <4>2. s \in Int /\ r.end \in Int /\ today \in Int
        BY <2>3, RequestInt, DaysInt DEF Days
      <4>3. \A e \in DOMAIN Provided(s, r) : e \in Int /\ e <= today
        BY <2>3, <4>1, <4>2 DEF Covers
      <4>4. ASSUME NEW d \in DOMAIN Provided(s, r)
            PROVE  /\ Provided(s, r)[d].partial => \A e \in DOMAIN Provided(s, r) : e <= d
                   /\ Provided(s, r)[d].basis <= basis
                   /\ Provided(s, r)[d].adjust = "qfq" => Provided(s, r)[d].basis = basis
        <5>1. AsPublished(Provided(s, r)[d], d, r.adjust)
          BY <4>1, ProvidedIs DEF Base
        <5> QED
          BY <4>3, <5>1 DEF AsPublished
      <4>5. FreshRows(Provided(s, r), basis)
        BY <4>4 DEF FreshRows
      <4>6. StartsAt(c, s)
        BY <1>2, <2>1, <2>2 DEF Exact
      <4>7. basis \in 0 .. basis
        BY CacheAssumption DEF Base
      <4>8. \A e \in DOMAIN table : table[e].basis <= basis
        BY <1>2 DEF Ordered
      <4>9. Written(c, s, basis)'
        BY <1>1, <2>1, <2>3, <3>2, <4>1, <4>5, <4>6, <4>8
           DEF Written, StartsAt, IsNewest, Covers, FreshRows
      <4>10. \E d \in Days, b \in 0 .. basis' : Written(c, d, b)'
        BY <2>1, <4>7, <4>9
      <4> QED
        BY <2>1, <4>10 DEF Exact
    <3> QED
      BY <2>1, <2>2, <2>3, <3>1, <3>2
  <2>5. \A d \in Callers : d # c => Exact(d)'
    BY <1>1, <2>1, OnlyCaller
  <2> QED
    BY <1>2, <2>1, <2>4, <2>5 DEF Ordered
<1>10. ASSUME NEW c \in Callers, FetchRaises(c) \/ Load(c)
       PROVE  Ordered' /\ \A d \in Callers : Exact(d)'
  <2>1. /\ UNCHANGED <<ends, table, basis>> /\ at[c] # "idle" /\ at'[c] = "idle"
        /\ \A d \in Callers : d # c => at'[d] = at[d]
    BY <1>10 DEF FetchRaises, Load, Base
  <2>2. \A d \in Callers : d # c => Exact(d)'
    BY <1>1, <2>1, OnlyCaller
  <2> QED
    BY <1>2, <2>1, <2>2 DEF Ordered, Exact
<1>11. ASSUME NEW c \in Callers, Upsert(c)
       PROVE  Ordered' /\ \A d \in Callers : Exact(d)'
  <2>1. /\ at[c] = "upsert" /\ at'[c] = "load" /\ UNCHANGED <<request, fetched, basis>>
        /\ \A d \in Callers : d # c => at'[d] = at[d]
        /\ table' = IF DOMAIN fetched[c] = {} THEN table ELSE Replacing(table, fetched[c])
    BY <1>11 DEF Upsert, Base
  <2>2. \A d \in Callers : d # c => Exact(d)'
    BY <1>1, <2>1, OnlyCaller
  <2>3. CASE fetched[c] = NoRows
    BY <1>1, <1>2, <2>1, <2>2, <2>3, NoRowsEmpty DEF Ordered, Exact
  <2>4. CASE fetched[c] # NoRows
    <3>1. PICK s \in Days, b \in 0 .. basis : Written(c, s, b)
      BY <1>2, <2>1, <2>4 DEF Exact
    <3>2. PICK end \in Int : end = request[c].end
      BY <2>1, RequestInt DEF Base, Asked, Days
    <3>3. s \in Int /\ b \in Int /\ b <= basis /\ ends \subseteq Int
      BY <1>3, DaysInt, CacheAssumption DEF Days
    <3>4. /\ DOMAIN table' = DOMAIN table \cup DOMAIN fetched[c]
          /\ \A d \in DOMAIN fetched[c] : table'[d] = fetched[c][d]
          /\ \A d \in DOMAIN table \ DOMAIN fetched[c] : table'[d] = table[d]
      BY <2>1 DEF Replacing
    <3>5. \A d \in DOMAIN fetched[c] : d \in Int /\ s <= d /\ d <= end
      BY <3>1, <3>2, <3>3 DEF Written, Covers
    <3>6. \A m \in ends : s <= m /\ m <= end => m \in DOMAIN fetched[c]
      BY <3>1, <3>2 DEF Written, Covers
    <3>7. \A d \in DOMAIN table : d <= s /\ s \in DOMAIN table
      BY <3>1, NoRowsEmpty DEF Written, StartsAt, IsNewest
    <3>8. DOMAIN table' \subseteq Int
      BY <1>3, <3>4, <3>5
    <3>9. ASSUME NEW d \in DOMAIN table', NEW e \in DOMAIN table', table'[d].partial, d \in ends
          PROVE  e <= d
      <4>1. CASE d \in DOMAIN fetched[c]
        <5>1. \A x \in DOMAIN fetched[c] : x <= d
          BY <3>1, <3>4, <3>9, <4>1 DEF Written, FreshRows
        <5>2. \A x \in DOMAIN table : x <= d
          BY <1>3, <3>3, <3>5, <3>7, <4>1
        <5> QED
          BY <3>4, <5>1, <5>2
      <4>2. CASE d \notin DOMAIN fetched[c]
        <5>1. d \in DOMAIN table /\ table[d].partial
          BY <3>4, <3>9, <4>2
        <5>2. s = d
          <6>1. s <= d
            BY <1>2, <3>7, <3>9, <5>1 DEF Ordered
          <6> QED
            BY <3>3, <3>7, <3>8, <5>1, <6>1
        <5>3. d > end
          BY <3>2, <3>3, <3>6, <3>8, <3>9, <4>2, <5>2
        <5>4. e \in DOMAIN table
          BY <3>2, <3>3, <3>4, <3>5, <5>2, <5>3
        <5> QED
          BY <3>7, <5>2, <5>4
      <4> QED
        BY <4>1, <4>2
    <3>10. ASSUME NEW d \in DOMAIN table'
           PROVE  table'[d].basis <= b /\ table'[d].basis \in Int
      <4>1. table'[d].basis <= b
        BY <3>1, <3>4 DEF Written, FreshRows
      <4>2. table'[d] \in Row
        BY <2>1, <3>4 DEF Base, InHand
      <4> QED
        BY <4>1, <4>2, RowInt
    <3>11. ASSUME NEW d \in DOMAIN table', NEW e \in DOMAIN table', d <= e,
                  table'[d].adjust = "qfq", table'[e].adjust = "qfq"
           PROVE  table'[d].basis <= table'[e].basis
      <4>1. CASE e \in DOMAIN fetched[c]
        <5>1. table'[e].basis = b
          BY <3>1, <3>4, <3>11, <4>1 DEF Written, FreshRows
        <5> QED
          BY <3>10, <5>1
      <4>2. CASE e \notin DOMAIN fetched[c]
        <5>1. e \in DOMAIN table /\ e <= s /\ table'[e] = table[e]
          BY <3>4, <3>7, <4>2
        <5>2. d \in DOMAIN table /\ table'[d] = table[d]
          <6>1. d \notin DOMAIN fetched[c]
            <7>1. ASSUME d \in DOMAIN fetched[c]
                  PROVE  FALSE
              <8>1. d = e
                BY <3>3, <3>5, <3>8, <3>11, <5>1, <7>1
              <8> QED
                BY <4>2, <7>1, <8>1
            <7> QED
              BY <7>1
          <6> QED
            BY <3>4, <6>1
        <5> QED
          BY <1>2, <3>11, <5>1, <5>2 DEF Ordered
      <4> QED
        BY <4>1, <4>2
    <3>12. \A d \in DOMAIN table' : table'[d].basis <= basis'
      BY <1>3, <2>1, <3>3, <3>10
    <3>13. Ordered'
      BY <1>1, <3>9, <3>11, <3>12 DEF Ordered
    <3>14. ASSUME NEW o \in DOMAIN table', NEW m \in ends, o <= m, m <= end
           PROVE  m \in DOMAIN table'
      <4>1. CASE s <= m
        BY <3>4, <3>6, <3>14, <4>1
      <4>2. CASE ~(s <= m)
        <5>1. o \in DOMAIN table /\ s \in DOMAIN table /\ m <= s
          BY <3>3, <3>4, <3>5, <3>7, <3>8, <3>14, <4>2
        <5>2. OneRun
          BY <1>1 DEF Base, Contiguous
        <5> QED
          BY <3>4, <3>14, <5>1, <5>2 DEF OneRun
      <4> QED
        BY <4>1, <4>2
    <3>15. Complete(request[c].end)'
      BY <1>1, <2>1, <3>2, <3>14 DEF Complete
    <3>16. Exact(c)'
      BY <2>1, <3>15 DEF Exact
    <3> QED
      BY <2>2, <3>13, <3>16
  <2> QED
    BY <2>3, <2>4
<1> QED
  BY <1>4, <1>5, <1>6, <1>7, <1>8, <1>9, <1>10, <1>11 DEF Next, CallStep

LEMMA PreciseInvariant == Spec => []Precise
BY InitPrecise, StepPrecise, BaseInvariant, ContiguousInvariant, PTL DEF Spec

(* A row fetched before its day was over is replaced when the cache grows past it,
   if that day ended its period: for any calendar, as long as no calls overlapped. *)
THEOREM CacheOnlyNewestIsPartial == Spec => []OnlyNewestIsPartial
<1>1. Base /\ Precise => OnlyNewestIsPartial
  <2> SUFFICES ASSUME Base, Precise, ~overlapped, NEW d \in DOMAIN table, table[d].partial,
                      d \in ends
               PROVE  d = Newest(table)
    BY DEF OnlyNewestIsPartial
  <2>1. \A e \in DOMAIN table : e <= d
    BY DEF Precise, Ordered
  <2>2. Newest(table) \in DOMAIN table /\ d <= Newest(table)
    BY NoRowsEmpty, TableEnds
  <2>3. Newest(table) <= d /\ d \in Int /\ Newest(table) \in Int
    BY <2>1, <2>2, DaysInt DEF Days
  <2> QED
    BY <2>2, <2>3
<1> QED
  BY <1>1, BaseInvariant, PreciseInvariant, PTL

(* The prices of a cache adjusted to the newest dividend change their basis with
   the days and never back, for any number of dividends, as long as no calls
   overlapped.                                                                  *)
THEOREM CacheBasisGrowsWithDate == Spec => []BasisGrowsWithDate
<1>1. Precise => BasisGrowsWithDate
  BY DEF Precise, Ordered, BasisGrowsWithDate
<1> QED
  BY <1>1, PreciseInvariant, PTL

(* What get_bars returns, from the cache or by a fetch that brought rows, has no
   period missing that ended on or after the oldest cached day: for any ranges
   asked for before, as long as no calls overlapped and the rows have the mode
   asked for.                                                                   *)
THEOREM CacheCompleteFromOldest == Spec => CompleteFromOldest
<1>1. ASSUME Base, Contiguous, Precise, ~overlapped, NEW c \in Callers,
             at[c] = "cached" \/ (at[c] = "load" /\ fetched[c] # NoRows),
             \A d \in DOMAIN table : table[d].adjust = request[c].adjust,
             NEW d \in ends, d \in request[c].start .. request[c].end,
             NEW o \in DOMAIN table, o <= d
      PROVE  d \in DOMAIN Rows(request[c])
  <2>1. PICK r \in Request : r = request[c]
    BY <1>1 DEF Base, Asked
  <2>2. r.start \in Int /\ r.end \in Int /\ d \in Int /\ r.start <= d /\ d <= r.end
    BY <1>1, <2>1, RequestInt DEF Days
  <2>3. Exact(c) /\ OneRun
    BY <1>1 DEF Base, Contiguous, Precise
  <2>4. d \in DOMAIN table
    <3>1. CASE at[c] = "cached"
      <4>1. Newest(table) >= r.end /\ table # NoRows
        BY <2>1, <2>3, <3>1 DEF Exact, HasData
      <4>2. Newest(table) \in DOMAIN table /\ Newest(table) \in Int
        BY <1>1, <4>1, TableEnds, DaysInt DEF Days
      <4>3. d <= Newest(table)
        BY <2>2, <4>1, <4>2
      <4> QED
        BY <1>1, <2>3, <4>2, <4>3 DEF OneRun
    <3>2. CASE at[c] = "load" /\ fetched[c] # NoRows
      BY <1>1, <2>1, <2>2, <2>3, <3>2 DEF Exact, Complete
    <3> QED
      BY <1>1, <3>1, <3>2
  <2>5. d \in {x \in DOMAIN table : x >= r.start /\ x <= r.end /\ table[x].adjust = r.adjust}
    BY <1>1, <2>1, <2>2, <2>4
  <2> QED
    BY <2>1, <2>5 DEF Rows, Restrict
<1>2. Base /\ Contiguous /\ Precise /\ [Next]_vars =>
        [\A c \in Callers :
          /\ at[c] = "cached" \/ (at[c] = "load" /\ fetched[c] # NoRows)
          /\ at'[c] = "idle" /\ ~overlapped
          /\ \A d \in DOMAIN table : table[d].adjust = request[c].adjust
          => LET r == request[c] IN
             \A d \in ends \cap r.start .. r.end :
                 (\E o \in DOMAIN table : o <= d) => d \in DOMAIN Rows(r)]_vars
  BY <1>1
<1> QED
  BY <1>2, BaseInvariant, ContiguousInvariant, PreciseInvariant, PTL DEF Spec, CompleteFromOldest

-----------------------------------------------------------------------------
(* Panama is a recursion over the set of rollovers, of which it takes the first;
   the shift there is the last that is made.                                    *)
IsPanama(h, t, S) ==
    h = [s \in SUBSET S |->
            IF s = {} THEN t ELSE ShiftBefore(Smallest(s), h[s \ {Smallest(s)}])]

LEMMA PanamaIsIter ==
    ASSUME NEW t
    PROVE  Panama(t) = (CHOOSE h : IsPanama(h, t, Rollovers(t)))[Rollovers(t)]
BY DEF Panama, MapThenFoldSet, IsPanama, Smallest

(* Two such recursions agree where both are defined. *)
LEMMA PanamasAgree ==
    ASSUME NEW S \in SUBSET Int, IsFiniteSet(S), NEW t, NEW h, NEW k,
           NEW U \in SUBSET S, IsPanama(h, t, S), IsPanama(k, t, U)
    PROVE  \A s \in SUBSET U : h[s] = k[s]
<1> DEFINE Good == {s \in SUBSET U : h[s] = k[s]}
<1>1. IsFiniteSet(U)
  BY FS_Subset
<1>2. ASSUME NEW s \in SUBSET U, \A u \in SUBSET s : u # s => u \in Good
      PROVE  s \in Good
  <2>1. CASE s = {}
    BY <2>1 DEF IsPanama
  <2>2. CASE s # {}
    <3> DEFINE x == Smallest(s)
               u == s \ {x}
    <3>1. IsFiniteSet(s) /\ s \in SUBSET Int
      BY <1>1, FS_Subset
    <3>2. x \in s /\ u \in SUBSET s /\ u # s
      BY <2>2, <3>1, SmallestIs
    <3> HIDE DEF x
    <3>3. h[u] = k[u]
      BY <1>2, <3>2
    <3>4. h[s] = ShiftBefore(x, h[u])
      BY <2>2 DEF IsPanama, x
    <3>5. k[s] = ShiftBefore(x, k[u])
      BY <2>2 DEF IsPanama, x
    <3> QED
      BY <3>3, <3>4, <3>5
  <2> QED
    BY <2>1, <2>2
<1>3. \A s \in SUBSET U : s \in Good
  <2> HIDE DEF Good
  <2> QED
    BY <1>1, <1>2, SubsetInduction
<1> QED
  BY <1>3

(* There is such a recursion. *)
LEMMA PanamaExists ==
    ASSUME NEW S \in SUBSET Int, IsFiniteSet(S), NEW t
    PROVE  \E h : IsPanama(h, t, S)
<1> DEFINE Good == {s \in SUBSET S : \E h : IsPanama(h, t, s)}
<1> SUFFICES ASSUME NEW m \in SUBSET S, \A u \in SUBSET m : u # m => u \in Good
             PROVE  m \in Good
  <2>1. \A s \in SUBSET S : s \in Good
    <3> HIDE DEF Good
    <3> QED
      BY SubsetInduction
  <2> QED
    BY <2>1
<1> DEFINE K(u) == CHOOSE h : IsPanama(h, t, u)
           G(u) == K(u)[u]
           B(s) == IF s = {} THEN t ELSE ShiftBefore(Smallest(s), G(s \ {Smallest(s)}))
           H == [s \in SUBSET m |-> B(s)]
<1>1. \A u \in SUBSET m : IsFiniteSet(u) /\ u \in SUBSET Int
  BY FS_Subset
<1>2. ASSUME NEW u \in SUBSET m, u # m
      PROVE  IsPanama(K(u), t, u)
  <2>1. \E h : IsPanama(h, t, u)
    BY <1>2
  <2> QED
    BY <2>1
<1>3. ASSUME NEW u \in SUBSET m, u # m
      PROVE  H[u] = G(u)
  <2>1. IsPanama(K(u), t, u)
    BY <1>2, <1>3
  <2>2. CASE u = {}
    <3> HIDE DEF K
    <3>1. K(u)[u] = t
      BY <2>1, <2>2 DEF IsPanama
    <3> QED
      BY <3>1, <2>2
  <2>3. CASE u # {}
    <3> DEFINE v == u \ {Smallest(u)}
    <3>1. v \in SUBSET u /\ v \in SUBSET m /\ v # m /\ u \in SUBSET Int /\ IsFiniteSet(u)
      BY <1>1, <1>3, <2>3, SmallestIs
    <3>2. IsPanama(K(v), t, v)
      BY <1>2, <3>1
    <3>3. K(u)[v] = G(v)
      <4>1. \A s \in SUBSET v : K(u)[s] = K(v)[s]
        <5> HIDE DEF K, v
        <5> QED
          BY <2>1, <3>1, <3>2, PanamasAgree
      <4> QED
        BY <4>1
    <3>4. K(u)[u] = ShiftBefore(Smallest(u), K(u)[v])
      <4> HIDE DEF K
      <4> QED
        BY <2>1, <2>3 DEF IsPanama
    <3>5. H[u] = ShiftBefore(Smallest(u), G(v))
      BY <2>3
    <3> QED
      BY <3>3, <3>4, <3>5
  <2> QED
    BY <2>2, <2>3
<1>4. ASSUME NEW s \in SUBSET m, s # {}
      PROVE  H[s] = ShiftBefore(Smallest(s), H[s \ {Smallest(s)}])
  <2>1. s \ {Smallest(s)} \in SUBSET m /\ s \ {Smallest(s)} # m
    BY <1>1, <1>4, SmallestIs
  <2>2. H[s \ {Smallest(s)}] = G(s \ {Smallest(s)})
    BY <2>1, <1>3
  <2> QED
    BY <1>4, <2>2
<1>5. H[{}] = t
  OBVIOUS
<1>6. IsPanama(H, t, m)
  <2>1. H = [s \in SUBSET m |-> H[s]]
    <3> HIDE DEF B
    <3> QED
      OBVIOUS
  <2> HIDE DEF H
  <2> QED
    BY <1>4, <1>5, <2>1 DEF IsPanama
<1> QED
  BY <1>6

(* Changing prices of a row leaves a row, and the rest of it. *)
LEMMA WithPrice ==
    ASSUME NEW row \in BarRow, NEW x \in Int
    PROVE  /\ [row EXCEPT !.open = x] \in BarRow /\ [row EXCEPT !.high = x] \in BarRow
           /\ [row EXCEPT !.low = x] \in BarRow /\ [row EXCEPT !.close = x] \in BarRow
BY DEF BarRow

Priced(row, o, h, l, c) == [row EXCEPT !.open = o, !.high = h, !.low = l, !.close = c]
LEMMA PricedIs ==
    ASSUME NEW row \in BarRow, NEW o \in Int, NEW h \in Int, NEW l \in Int, NEW c \in Int
    PROVE  /\ Priced(row, o, h, l, c) \in BarRow
           /\ Priced(row, o, h, l, c).open = o /\ Priced(row, o, h, l, c).high = h
           /\ Priced(row, o, h, l, c).low = l /\ Priced(row, o, h, l, c).close = c
           /\ Priced(row, o, h, l, c).missing = row.missing
<1> DEFINE w == [row EXCEPT !.open = o, !.high = h, !.low = l, !.close = c]
<1>1. w \in BarRow
  <2> DEFINE r1 == [row EXCEPT !.open = o]
             r2 == [r1 EXCEPT !.high = h]
             r3 == [r2 EXCEPT !.low = l]
  <2>1. r1 \in BarRow
    BY WithPrice
  <2>2. r2 \in BarRow
    <3> HIDE DEF r1
    <3> QED
      BY <2>1, WithPrice
  <2>3. r3 \in BarRow
    <3> HIDE DEF r2
    <3> QED
      BY <2>2, WithPrice
  <2>4. w = [r3 EXCEPT !.close = c]
    OBVIOUS
  <2> HIDE DEF w, r3
  <2> QED
    BY <2>3, <2>4, WithPrice
<1>2. w.open = o /\ w.high = h /\ w.low = l /\ w.close = c
  BY DEF BarRow
<1>3. w.missing = row.missing
  BY DEF BarRow
<1>4. Priced(row, o, h, l, c) = w
  BY DEF Priced
<1> HIDE DEF w
<1> QED
  BY <1>1, <1>2, <1>3, <1>4
(* The types of the fields of a row. *)
LEMMA RowIs ==
    ASSUME NEW row \in BarRow
    PROVE  /\ row.open \in Int /\ row.high \in Int /\ row.low \in Int /\ row.close \in Int
           /\ row.date \in Nat /\ row.volume \in Nat /\ row.missing \in BOOLEAN
BY DEF BarRow
LEMMA ShiftedIs ==
    ASSUME NEW row \in BarRow, NEW g \in Int
    PROVE  /\ Shifted(row, g) \in BarRow
           /\ Shifted(row, g).open = row.open + g /\ Shifted(row, g).high = row.high + g
           /\ Shifted(row, g).low = row.low + g /\ Shifted(row, g).close = row.close + g
           /\ Shifted(row, g).missing = row.missing
<1>1. /\ \E x \in Int : x = row.open + g
      /\ \E x \in Int : x = row.high + g
      /\ \E x \in Int : x = row.low + g
      /\ \E x \in Int : x = row.close + g
  BY RowIs
<1>2. PICK o \in Int, h \in Int, l \in Int, c \in Int :
          o = row.open + g /\ h = row.high + g /\ l = row.low + g /\ c = row.close + g
  BY <1>1
<1>3. Shifted(row, g) = Priced(row, o, h, l, c)
  BY <1>2 DEF Shifted, Priced, BarRow
<1> QED
  BY <1>2, <1>3, PricedIs
(* A shift moves the rows before the rollover, each by the gap there. *)
LEMMA ShiftBeforeIs ==
    ASSUME NEW t \in Seq(BarRow), NEW r \in 2 .. Len(t)
    PROVE  LET gap == t[r].close - t[r - 1].close
           IN  /\ ShiftBefore(r, t) \in Seq(BarRow) /\ Len(ShiftBefore(r, t)) = Len(t)
               /\ gap \in Int
               /\ \A i \in 1 .. Len(t) : 
                     ShiftBefore(r, t)[i] = IF i < r THEN Shifted(t[i], gap) ELSE t[i]
<1> DEFINE gap == t[r].close - t[r - 1].close
           n == Len(t)
           u(i) == IF i < r THEN Shifted(t[i], gap) ELSE t[i]
           w == [i \in 1 .. n |-> u(i)]
<1>1. n \in Nat /\ DOMAIN t = 1 .. n /\ r \in 1 .. n /\ r - 1 \in 1 .. n
      /\ \A i \in 1 .. n : t[i] \in BarRow
  OBVIOUS
<1>2. gap \in Int
  <2>1. t[r].close \in Int /\ t[r - 1].close \in Int
    BY <1>1, RowIs
  <2> QED
    BY <2>1
<1> HIDE DEF gap
<1>3. \A i \in 1 .. n : u(i) \in BarRow
  BY <1>1, <1>2, ShiftedIs
<1>4. ShiftBefore(r, t) = w
  BY <1>1 DEF ShiftBefore, gap
<1> HIDE DEF u, n
<1>5. w \in Seq(BarRow) /\ Len(w) = n /\ \A i \in 1 .. n : w[i] = u(i)
  BY <1>1, <1>3
<1> HIDE DEF w
<1> QED
  BY <1>2, <1>4, <1>5 DEF u, n, gap

(* What Panama makes of a table t by the shifts at a set of rollovers: the newest
   row is as it was, each row is as it was but for a gap, and the closes step as
   they did except there.                                                      *)
Levelled(u, t, places) ==
    /\ u \in Seq(BarRow) /\ Len(u) = Len(t)
    /\ \A i \in 1 .. Len(t) : \E gap \in Int : u[i] = Shifted(t[i], gap)
    /\ t # << >> => u[Len(t)] = t[Len(t)]
    /\ \A i \in 2 .. Len(t) :
          u[i].close - u[i - 1].close = IF i \in places THEN 0 ELSE t[i].close - t[i - 1].close

(* Shifts by nothing and one after the other. *)
LEMMA ShiftNothing ==
    ASSUME NEW row \in BarRow
    PROVE  Shifted(row, 0) = row
<1> DEFINE w == Shifted(row, 0)
<1>1. /\ w \in BarRow /\ w.open = row.open /\ w.high = row.high /\ w.low = row.low
      /\ w.close = row.close /\ w.missing = row.missing
  <2>1. PICK g \in Int : g = 0
    OBVIOUS
  <2>2. /\ w \in BarRow /\ w.open = row.open + g /\ w.high = row.high + g /\ w.low = row.low + g
        /\ w.close = row.close + g /\ w.missing = row.missing
    BY <2>1, ShiftedIs
  <2> HIDE DEF w
  <2> QED
    BY <2>1, <2>2, RowIs
<1>2. w.date = row.date /\ w.volume = row.volume
  BY DEF Shifted, BarRow
<1> HIDE DEF w
<1>3. w = row
  BY <1>1, <1>2 DEF BarRow
<1> QED
  BY <1>3 DEF w

LEMMA ShiftTwice ==
    ASSUME NEW row \in BarRow, NEW g \in Int, NEW k \in Int
    PROVE  Shifted(Shifted(row, g), k) = Shifted(row, g + k)
<1> DEFINE v == Shifted(row, g)
           w == Shifted(v, k)
           x == Shifted(row, g + k)
<1>1. /\ v \in BarRow /\ v.open = row.open + g /\ v.high = row.high + g /\ v.low = row.low + g
      /\ v.close = row.close + g /\ v.missing = row.missing
  BY ShiftedIs
<1>2. v.date = row.date /\ v.volume = row.volume
  BY DEF Shifted, BarRow
<1> HIDE DEF v
<1>3. /\ w \in BarRow /\ w.open = v.open + k /\ w.high = v.high + k /\ w.low = v.low + k
      /\ w.close = v.close + k /\ w.missing = v.missing
  BY <1>1, ShiftedIs
<1>4. w.date = v.date /\ w.volume = v.volume
  BY <1>1 DEF Shifted, BarRow
<1>5. PICK j \in Int : j = g + k
  OBVIOUS
<1>6. /\ x \in BarRow /\ x.open = row.open + j /\ x.high = row.high + j /\ x.low = row.low + j
      /\ x.close = row.close + j /\ x.missing = row.missing
  BY <1>5, ShiftedIs
<1>7. x.date = row.date /\ x.volume = row.volume
  BY DEF Shifted, BarRow
<1> HIDE DEF w, x
<1>8. w.open = x.open /\ w.high = x.high /\ w.low = x.low /\ w.close = x.close
  BY <1>1, <1>3, <1>5, <1>6, RowIs
<1>9. w = x
  BY <1>1, <1>2, <1>3, <1>4, <1>6, <1>7, <1>8 DEF BarRow
<1> QED
  BY <1>9 DEF w, x, v

-----------------------------------------------------------------------------
(* No shift levels nothing, and each shift levels the step where it is made. *)
LEMMA LevelledNowhere ==
    ASSUME NEW t \in Seq(BarRow)
    PROVE  Levelled(t, t, {})
<1>1. Len(t) \in Nat /\ \A i \in 1 .. Len(t) : t[i] \in BarRow /\ Shifted(t[i], 0) = t[i]
  BY ShiftNothing
<1>2. \A i \in 1 .. Len(t) : \E gap \in Int : t[i] = Shifted(t[i], gap)
  <2>1. 0 \in Int
    OBVIOUS
  <2> QED
    BY <1>1, <2>1
<1> QED
  BY <1>2 DEF Levelled

LEMMA LevelledOnceMore ==
    ASSUME NEW t \in Seq(BarRow), NEW u, NEW places, NEW r \in 2 .. Len(t), r \notin places,
           Levelled(u, t, places)
    PROVE  Levelled(ShiftBefore(r, u), t, places \cup {r})
<1> DEFINE n == Len(t)
           gap == u[r].close - u[r - 1].close
           w == ShiftBefore(r, u)
<1>1. /\ u \in Seq(BarRow) /\ Len(u) = n /\ n \in Nat /\ r \in 2 .. n
      /\ \A i \in 1 .. n : u[i] \in BarRow /\ t[i] \in BarRow
      /\ \A i \in 1 .. n : \E g \in Int : u[i] = Shifted(t[i], g)
      /\ t # << >> => u[n] = t[n]
      /\ \A i \in 2 .. n :
            u[i].close - u[i - 1].close = IF i \in places THEN 0 ELSE t[i].close - t[i - 1].close
  <2>1. u \in Seq(BarRow) /\ Len(u) = n
    BY DEF Levelled
  <2>2. n \in Nat /\ \A i \in 1 .. n : u[i] \in BarRow /\ t[i] \in BarRow
    BY <2>1
  <2>3. \A i \in 1 .. n : \E g \in Int : u[i] = Shifted(t[i], g)
    BY DEF Levelled
  <2>4. t # << >> => u[n] = t[n]
    BY DEF Levelled
  <2>5. \A i \in 2 .. n :
            u[i].close - u[i - 1].close = IF i \in places THEN 0 ELSE t[i].close - t[i - 1].close
    BY DEF Levelled
  <2> QED
    BY <2>1, <2>2, <2>3, <2>4, <2>5
<1>2. /\ w \in Seq(BarRow) /\ Len(w) = n /\ gap \in Int
      /\ \A i \in 1 .. n : w[i] = IF i < r THEN Shifted(u[i], gap) ELSE u[i]
  BY <1>1, ShiftBeforeIs
<1>3. \A i \in 1 .. n : i - 1 \in 1 .. n \/ i = 1
  BY <1>1
<1>4. \A i \in 1 .. n : u[i].close \in Int /\ Shifted(u[i], gap).close = u[i].close + gap
  BY <1>1, <1>2, RowIs, ShiftedIs
<1>5. PICK k \in Int : k = gap
  BY <1>2
<1>6. \A i \in 1 .. n : \E g \in Int : w[i] = Shifted(t[i], g)
  <2> SUFFICES ASSUME NEW i \in 1 .. n
               PROVE  \E g \in Int : w[i] = Shifted(t[i], g)
    OBVIOUS
  <2>1. PICK g \in Int : u[i] = Shifted(t[i], g)
    BY <1>1
  <2>2. CASE i < r
    <3>1. Shifted(Shifted(t[i], g), k) = Shifted(t[i], g + k) /\ g + k \in Int
      BY <1>1, ShiftTwice
    <3>2. w[i] = Shifted(t[i], g + k)
      <4> HIDE DEF w, gap
      <4> QED
        BY <1>2, <1>5, <2>1, <2>2, <3>1
    <3> QED
      BY <3>1, <3>2
  <2>3. CASE ~(i < r)
    <3>1. w[i] = u[i]
      <4> HIDE DEF w, gap
      <4> QED
        BY <1>2, <2>3
    <3> QED
      BY <2>1, <3>1
  <2> QED
    BY <2>2, <2>3
<1>7. t # << >> => w[n] = t[n]
  <2>1. n \in 1 .. n /\ ~(n < r)
    BY <1>1
  <2> HIDE DEF w, gap, n
  <2> QED
    BY <1>1, <1>2, <2>1
<1>8. ASSUME NEW i \in 2 .. n
      PROVE  w[i].close - w[i - 1].close
               = IF i \in places \cup {r} THEN 0 ELSE t[i].close - t[i - 1].close
  <2>1. i \in 1 .. n /\ i - 1 \in 1 .. n /\ i \in Int /\ r \in Int
    BY <1>1
  <2>2. u[i].close \in Int /\ u[i - 1].close \in Int
    BY <1>4, <2>1
  <2>3. CASE i < r
    <3>1. i - 1 < r /\ i # r
      BY <2>1, <2>3
    <3>2. w[i] = Shifted(u[i], gap) /\ w[i - 1] = Shifted(u[i - 1], gap)
      <4> HIDE DEF w, gap
      <4> QED
        BY <1>2, <2>1, <2>3, <3>1
    <3>3. w[i].close = u[i].close + k /\ w[i - 1].close = u[i - 1].close + k
      <4> HIDE DEF w, gap
      <4> QED
        BY <1>4, <1>5, <2>1, <3>2
    <3>4. w[i].close - w[i - 1].close = u[i].close - u[i - 1].close
      <4> HIDE DEF w, gap
      <4> QED
        BY <2>2, <3>3
    <3> QED
      BY <1>1, <3>1, <3>4
  <2>4. CASE i = r
    <3>1. i - 1 < r /\ ~(i < r)
      BY <2>1, <2>4
    <3>2. w[i] = u[i] /\ w[i - 1] = Shifted(u[i - 1], gap)
      <4> HIDE DEF w, gap
      <4> QED
        BY <1>2, <2>1, <3>1
    <3>3. w[i - 1].close = u[i - 1].close + k
      <4> HIDE DEF w, gap
      <4> QED
        BY <1>4, <1>5, <2>1, <3>2
    <3>4. k = u[i].close - u[i - 1].close
      BY <1>5, <2>4
    <3>5. w[i].close - w[i - 1].close = 0
      <4> HIDE DEF w, gap
      <4> QED
        BY <2>2, <3>2, <3>3, <3>4
    <3> QED
      BY <2>4, <3>5
  <2>5. CASE i > r
    <3>1. ~(i - 1 < r) /\ ~(i < r) /\ i # r
      BY <2>1, <2>5
    <3>2. w[i] = u[i] /\ w[i - 1] = u[i - 1]
      <4> HIDE DEF w, gap
      <4> QED
        BY <1>2, <2>1, <3>1
    <3> QED
      BY <1>1, <3>1, <3>2
  <2> QED
    BY <2>1, <2>3, <2>4, <2>5
<1> HIDE DEF w
<1>9. Levelled(w, t, places \cup {r})
  BY <1>2, <1>6, <1>7, <1>8 DEF Levelled
<1> QED
  BY <1>9 DEF w

(* _panama_adjust makes all shifts, in any order. *)
LEMMA PanamaIs ==
    ASSUME NEW t \in Seq(BarRow)
    PROVE  Levelled(Panama(t), t, Rollovers(t))
<1> DEFINE S == Rollovers(t)
           h == CHOOSE k : IsPanama(k, t, S)
           Good == {s \in SUBSET S : Levelled(h[s], t, s)}
<1>1. IsFiniteSet(S) /\ S \in SUBSET Int /\ S \in SUBSET (2 .. Len(t))
  <2>1. IsFiniteSet(2 .. Len(t))
    BY FS_Interval
  <2>2. S \in SUBSET (2 .. Len(t))
    BY DEF Rollovers
  <2> QED
    BY <2>1, <2>2, FS_Subset
<1>2. IsPanama(h, t, S)
  <2>1. \E k : IsPanama(k, t, S)
    <3> HIDE DEF S
    <3> QED
      BY <1>1, PanamaExists
  <2> QED
    BY <2>1
<1>3. Panama(t) = h[S]
  BY PanamaIsIter
<1> HIDE DEF h, S
<1>4. ASSUME NEW s \in SUBSET S, \A u \in SUBSET s : u # s => u \in Good
      PROVE  s \in Good
  <2>1. CASE s = {}
    <3>1. h[s] = t
      BY <1>2, <2>1 DEF IsPanama
    <3> QED
      BY <2>1, <3>1, LevelledNowhere
  <2>2. CASE s # {}
    <3> DEFINE x == Smallest(s)
               v == s \ {x}
    <3>1. IsFiniteSet(s) /\ s \in SUBSET Int
      BY <1>1, FS_Subset
    <3>2. x \in s /\ v \in SUBSET s /\ v # s
      BY <2>2, <3>1, SmallestIs
    <3>3. h[s] = ShiftBefore(x, h[v])
      BY <1>2, <2>2 DEF IsPanama
    <3> HIDE DEF x
    <3>4. Levelled(h[v], t, v)
      BY <1>4, <3>2
    <3>5. x \in 2 .. Len(t) /\ x \notin v /\ v \cup {x} = s
      BY <1>1, <3>2
    <3> HIDE DEF v
    <3>6. Levelled(h[s], t, s)
      BY <3>3, <3>4, <3>5, LevelledOnceMore
    <3> QED
      BY <3>6
  <2> QED
    BY <2>1, <2>2
<1>5. \A s \in SUBSET S : s \in Good
  <2> HIDE DEF Good
  <2> QED
    BY <1>1, <1>4, SubsetInduction
<1> QED
  BY <1>3, <1>5 DEF S

-----------------------------------------------------------------------------
(* Multiplication and division, as far as prices need it. *)
LEMMA TimesKeepsOrder ==
    ASSUME NEW a \in Int, NEW b \in Int, NEW c \in Nat \ {0}
    PROVE  (a < b) <=> (c * a < c * b)
OBVIOUS

LEMMA DivModInt ==
    ASSUME NEW x \in Int, NEW f \in Nat \ {0}
    PROVE  /\ x \div f \in Int /\ x % f \in 0 .. f - 1
           /\ x = f * (x \div f) + (x % f)
OBVIOUS

(* A quotient and the rest; which way the rest is rounded. *)
Up(q, r, f) == 2 * r > f \/ (2 * r = f /\ q % 2 = 1)

LEMMA RoundedIs ==
    ASSUME NEW x \in Int, NEW f \in Nat \ {0}
    PROVE  \E q \in Int, r \in 0 .. f - 1 :
               /\ x = f * q + r
               /\ Rounded(x, f) = IF Up(q, r, f) THEN q + 1 ELSE q
<1>1. PICK q \in Int, r \in 0 .. f - 1 : q = x \div f /\ r = x % f
  BY DivModInt
<1>2. x = f * q + r
  BY <1>1, DivModInt
<1>3. Rounded(x, f) = IF Up(q, r, f) THEN q + 1 ELSE q
  BY <1>1 DEF Rounded, Up
<1> QED
  BY <1>2, <1>3

LEMMA RoundedInt ==
    ASSUME NEW x \in Int, NEW f \in Nat \ {0}
    PROVE  Rounded(x, f) \in Int
BY RoundedIs

(* Rounding is to the nearest, ... *)
LEMMA RoundedNearest ==
    ASSUME NEW x \in Int, NEW f \in Nat \ {0}
    PROVE  /\ 2 * (Rounded(x, f) * f - x) <= f
           /\ 2 * (x - Rounded(x, f) * f) <= f
<1>1. PICK q \in Int, r \in 0 .. f - 1 :
          x = f * q + r /\ Rounded(x, f) = IF Up(q, r, f) THEN q + 1 ELSE q
  BY RoundedIs
<1>2. PICK p \in Int : p = f * q
  OBVIOUS
<1>3. (q + 1) * f = p + f /\ q * f = p
  BY <1>2
<1>4. CASE Up(q, r, f)
  <2>1. 2 * r >= f /\ Rounded(x, f) * f = p + f
    BY <1>1, <1>3, <1>4 DEF Up
  <2> QED
    BY <1>1, <1>2, <2>1
<1>5. CASE ~Up(q, r, f)
  <2>1. 2 * r <= f /\ Rounded(x, f) * f = p
    BY <1>1, <1>3, <1>5 DEF Up
  <2> QED
    BY <1>1, <1>2, <2>1
<1> QED
  BY <1>4, <1>5

(* ... keeps the order of two numbers, ... *)
LEMMA QuotientsKeepOrder ==
    ASSUME NEW f \in Nat \ {0}, NEW q \in Int, NEW p \in Int,
           NEW r \in 0 .. f - 1, NEW s \in 0 .. f - 1, f * q + r <= f * p + s
    PROVE  q < p \/ (q = p /\ r <= s)
<1>1. CASE p < q
  <2>1. PICK d \in Nat : q = p + 1 + d
    <3>1. q - p - 1 \in Nat /\ q = p + 1 + (q - p - 1)
      BY <1>1
    <3> QED
      BY <3>1
  <2>2. f * q = f * p + f + f * d
    BY <2>1
  <2>3. f * d \in Nat
    OBVIOUS
  <2> QED
    BY <2>2, <2>3
<1>2. CASE q = p
  BY <1>2
<1> QED
  BY <1>1, <1>2

LEMMA RoundedKeepsOrder ==
    ASSUME NEW x \in Int, NEW y \in Int, NEW f \in Nat \ {0}, x <= y
    PROVE  Rounded(x, f) <= Rounded(y, f)
<1>1. PICK q \in Int, r \in 0 .. f - 1 :
          x = f * q + r /\ Rounded(x, f) = IF Up(q, r, f) THEN q + 1 ELSE q
  BY RoundedIs
<1>2. PICK p \in Int, s \in 0 .. f - 1 :
          y = f * p + s /\ Rounded(y, f) = IF Up(p, s, f) THEN p + 1 ELSE p
  BY RoundedIs
<1>3. q < p \/ (q = p /\ r <= s)
  BY <1>1, <1>2, QuotientsKeepOrder
<1>4. q = p /\ r <= s /\ Up(q, r, f) => Up(p, s, f)
  BY DEF Up
<1> QED
  BY <1>1, <1>2, <1>3, <1>4

(* ... and keeps apart what is more than a unit apart. *)
LEMMA RoundedApart ==
    ASSUME NEW x \in Int, NEW y \in Int, NEW f \in Nat \ {0}, y - x > f
    PROVE  Rounded(x, f) < Rounded(y, f)
<1>1. PICK a \in Int, b \in Int : a = Rounded(x, f) /\ b = Rounded(y, f)
  BY RoundedInt
<1>2. 2 * (a * f - x) <= f /\ 2 * (y - b * f) <= f
  BY <1>1, RoundedNearest
<1>3. PICK m \in Int, n \in Int : m = f * a /\ n = f * b /\ m = a * f /\ n = b * f
  OBVIOUS
<1>4. f * a < f * b
  BY <1>2, <1>3
<1> QED
  BY <1>1, <1>4, TimesKeepsOrder

LEMMA QuotientOfProduct ==
    ASSUME NEW x \in Int, NEW f \in Nat \ {0}
    PROVE  Rounded(x * f, f) = x
<1>1. PICK y \in Int : y = x * f
  OBVIOUS
<1>2. PICK a \in Int : a = Rounded(y, f)
  BY RoundedInt
<1>3. PICK q \in Int, r \in 0 .. f - 1 :
          y = f * q + r /\ a = IF Up(q, r, f) THEN q + 1 ELSE q
  BY <1>2, RoundedIs
<1>4. q = x /\ r = 0
  <2>1. PICK z \in 0 .. f - 1 : z = 0
    OBVIOUS
  <2>2. f * q + r = f * x + z
    BY <1>1, <1>3, <2>1
  <2>3. q < x \/ (q = x /\ r <= z)
    BY <2>2, QuotientsKeepOrder
  <2>4. x < q \/ (x = q /\ z <= r)
    BY <2>2, QuotientsKeepOrder
  <2> QED
    BY <2>1, <2>3, <2>4
<1>5. ~Up(q, r, f)
  BY <1>4 DEF Up
<1> QED
  BY <1>1, <1>2, <1>3, <1>4, <1>5

-----------------------------------------------------------------------------
(* A row scaled by a quotient of factors. *)
LEMMA ScaledIs ==
    ASSUME NEW row \in BarRow, NEW by \in Int, NEW over \in Nat \ {0}
    PROVE  /\ Scaled(row, by, over) \in BarRow
           /\ Scaled(row, by, over).open = Rounded(row.open * by, over)
           /\ Scaled(row, by, over).high = Rounded(row.high * by, over)
           /\ Scaled(row, by, over).low = Rounded(row.low * by, over)
           /\ Scaled(row, by, over).close = Rounded(row.close * by, over)
           /\ Scaled(row, by, over).missing = row.missing
<1>1. /\ \E x \in Int : x = row.open * by
      /\ \E x \in Int : x = row.high * by
      /\ \E x \in Int : x = row.low * by
      /\ \E x \in Int : x = row.close * by
  BY RowIs
<1>2. PICK p \in Int, q \in Int, r \in Int, s \in Int :
          p = row.open * by /\ q = row.high * by /\ r = row.low * by /\ s = row.close * by
  BY <1>1
<1>3. PICK o \in Int, h \in Int, l \in Int, c \in Int :
          /\ o = Rounded(p, over) /\ h = Rounded(q, over)
          /\ l = Rounded(r, over) /\ c = Rounded(s, over)
  BY RoundedInt
<1>4. /\ o = Rounded(row.open * by, over) /\ h = Rounded(row.high * by, over)
      /\ l = Rounded(row.low * by, over) /\ c = Rounded(row.close * by, over)
  BY <1>2, <1>3
<1>5. Scaled(row, by, over) = Priced(row, o, h, l, c)
  BY <1>4 DEF Scaled, Priced, BarRow
<1> QED
  BY <1>4, <1>5, PricedIs

(* A shift changes nothing of the order of a row's prices. *)
LEMMA ShiftedInconsistent ==
    ASSUME NEW row \in BarRow, NEW g \in Int
    PROVE  Inconsistent(Shifted(row, g)) <=> Inconsistent(row)
<1> DEFINE w == Shifted(row, g)
<1>1. /\ w.open = row.open + g /\ w.high = row.high + g
      /\ w.low = row.low + g /\ w.close = row.close + g
  BY ShiftedIs
<1> HIDE DEF w
<1>2. Inconsistent(w) <=> Inconsistent(row)
  BY <1>1, RowIs DEF Inconsistent
<1> QED
  BY <1>2 DEF w

(* The products whose quotients a scaled row has. *)
LEMMA ScaledFrom ==
    ASSUME NEW row \in BarRow, NEW by \in Int, NEW over \in Nat \ {0}
    PROVE  \E o, h, l, c \in Int :
              /\ o = row.open * by /\ h = row.high * by /\ l = row.low * by /\ c = row.close * by
              /\ Scaled(row, by, over).open = Rounded(o, over)
              /\ Scaled(row, by, over).high = Rounded(h, over)
              /\ Scaled(row, by, over).low = Rounded(l, over)
              /\ Scaled(row, by, over).close = Rounded(c, over)
<1>1. /\ \E x \in Int : x = row.open * by
      /\ \E x \in Int : x = row.high * by
      /\ \E x \in Int : x = row.low * by
      /\ \E x \in Int : x = row.close * by
  BY RowIs
<1>2. PICK o \in Int, h \in Int, l \in Int, c \in Int :
          o = row.open * by /\ h = row.high * by /\ l = row.low * by /\ c = row.close * by
  BY <1>1
<1>3. /\ Scaled(row, by, over).open = Rounded(o, over)
      /\ Scaled(row, by, over).high = Rounded(h, over)
      /\ Scaled(row, by, over).low = Rounded(l, over)
      /\ Scaled(row, by, over).close = Rounded(c, over)
  BY <1>2, ScaledIs
<1> QED
  BY <1>2, <1>3

(* What is wrong with a row by more than rounding hides stays wrong. *)
LEMMA ScaledInconsistent ==
    ASSUME NEW row \in BarRow, NEW by \in Nat \ {0}, NEW over \in Nat \ {0},
           InconsistentBy(row, by, over)
    PROVE  Inconsistent(Scaled(row, by, over))
<1>0. by \in Int
  OBVIOUS
<1>w. PICK o \in Int, h \in Int, l \in Int, c \in Int :
              /\ o = row.open * by /\ h = row.high * by /\ l = row.low * by /\ c = row.close * by
              /\ Scaled(row, by, over).open = Rounded(o, over)
              /\ Scaled(row, by, over).high = Rounded(h, over)
              /\ Scaled(row, by, over).low = Rounded(l, over)
              /\ Scaled(row, by, over).close = Rounded(c, over)
  BY <1>0, ScaledFrom, Zenon
<1> DEFINE w == Scaled(row, by, over)
<1>1. /\ o = row.open * by /\ h = row.high * by /\ l = row.low * by /\ c = row.close * by
      /\ w.open = Rounded(o, over) /\ w.high = Rounded(h, over)
      /\ w.low = Rounded(l, over) /\ w.close = Rounded(c, over)
  BY <1>w
<1> HIDE DEF w
<1>2. PICK ro \in Int, rh \in Int, rl \in Int, rc \in Int :
          ro = row.open /\ rh = row.high /\ rl = row.low /\ rc = row.close
  BY RowIs
<1>3. \A x, y \in Int : (x - y) * by = x * by - y * by
  OBVIOUS
<1>4. \/ l - h > over \/ o - h > over \/ c - h > over \/ l - o > over \/ l - c > over
  BY <1>1, <1>2, <1>3 DEF InconsistentBy
<1>5. \/ Rounded(h, over) < Rounded(l, over) \/ Rounded(h, over) < Rounded(o, over)
      \/ Rounded(h, over) < Rounded(c, over)
      \/ Rounded(o, over) < Rounded(l, over) \/ Rounded(c, over) < Rounded(l, over)
  BY <1>4, RoundedApart
<1>6. PICK wo \in Int, wh \in Int, wl \in Int, wc \in Int :
          /\ wo = Rounded(o, over) /\ wh = Rounded(h, over)
          /\ wl = Rounded(l, over) /\ wc = Rounded(c, over)
  BY RoundedInt
<1>7. Inconsistent(w)
  BY <1>1, <1>5, <1>6 DEF Inconsistent
<1> QED
  BY <1>7 DEF w

(* ... and what is right stays right. *)
LEMMA ScaledConsistent ==
    ASSUME NEW row \in BarRow, NEW by \in Nat \ {0}, NEW over \in Nat \ {0},
           Inconsistent(Scaled(row, by, over))
    PROVE  Inconsistent(row)
<1> DEFINE w == Scaled(row, by, over)
<1> SUFFICES ASSUME ~Inconsistent(row)
             PROVE  ~Inconsistent(w)
  OBVIOUS
<1>1. PICK o \in Int, h \in Int, l \in Int, c \in Int :
              /\ o = row.open * by /\ h = row.high * by /\ l = row.low * by /\ c = row.close * by
              /\ w.open = Rounded(o, over) /\ w.high = Rounded(h, over)
              /\ w.low = Rounded(l, over) /\ w.close = Rounded(c, over)
  <2>1. by \in Int
    OBVIOUS
  <2> QED
    BY <2>1, ScaledFrom
<1> HIDE DEF w
<1>2. PICK ro \in Int, rh \in Int, rl \in Int, rc \in Int :
          ro = row.open /\ rh = row.high /\ rl = row.low /\ rc = row.close
  BY RowIs
<1>3. rl <= rh /\ ro <= rh /\ rc <= rh /\ rl <= ro /\ rl <= rc
  BY <1>2 DEF Inconsistent
<1>4. ASSUME NEW x \in Int, NEW y \in Int, x <= y
      PROVE  x * by <= y * by
  <2>1. CASE x = y
    BY <2>1
  <2>2. CASE x < y
    <3>1. by * x < by * y
      BY <2>2, TimesKeepsOrder
    <3> QED
      BY <3>1
  <2> QED
    BY <1>4, <2>1, <2>2
<1>5. l <= h /\ o <= h /\ c <= h /\ l <= o /\ l <= c
  BY <1>1, <1>2, <1>3, <1>4
<1>6. /\ Rounded(l, over) <= Rounded(h, over) /\ Rounded(o, over) <= Rounded(h, over)
      /\ Rounded(c, over) <= Rounded(h, over)
      /\ Rounded(l, over) <= Rounded(o, over) /\ Rounded(l, over) <= Rounded(c, over)
  BY <1>5, RoundedKeepsOrder
<1>7. PICK wo \in Int, wh \in Int, wl \in Int, wc \in Int :
          /\ wo = Rounded(o, over) /\ wh = Rounded(h, over)
          /\ wl = Rounded(l, over) /\ wc = Rounded(c, over)
  BY RoundedInt
<1> QED
  BY <1>1, <1>6, <1>7 DEF Inconsistent

(* Scaled prices are the nearest to the quotients. *)
LEMMA ScaledNearest ==
    ASSUME NEW row \in BarRow, NEW by \in Nat \ {0}, NEW over \in Nat \ {0}
    PROVE  NearestRow(Scaled(row, by, over), row, by, over)
<1> DEFINE w == Scaled(row, by, over)
<1>1. PICK o \in Int, h \in Int, l \in Int, c \in Int :
              /\ o = row.open * by /\ h = row.high * by /\ l = row.low * by /\ c = row.close * by
              /\ w.open = Rounded(o, over) /\ w.high = Rounded(h, over)
              /\ w.low = Rounded(l, over) /\ w.close = Rounded(c, over)
  <2>1. by \in Int
    OBVIOUS
  <2> QED
    BY <2>1, ScaledFrom
<1> HIDE DEF w
<1>2. ASSUME NEW x \in Int
      PROVE  Nearest(Rounded(x, over), x, over)
  <2>1. PICK m \in Int : m = Rounded(x, over) * over
    BY RoundedInt
  <2>2. 2 * (m - x) <= over /\ 2 * (x - m) <= over
    BY <2>1, RoundedNearest
  <2>3. 2 * AbsInt(m - x) <= over
    BY <2>2 DEF AbsInt
  <2> QED
    BY <2>1, <2>3 DEF Nearest
<1>3. /\ Nearest(w.open, row.open * by, over) /\ Nearest(w.high, row.high * by, over)
      /\ Nearest(w.low, row.low * by, over) /\ Nearest(w.close, row.close * by, over)
  BY <1>1, <1>2
<1>4. NearestRow(w, row, by, over)
  BY <1>3 DEF NearestRow, Prices
<1> QED
  BY <1>4 DEF w

(* The newest row is scaled by one and the same factor both ways. *)
LEMMA ScaledBySame ==
    ASSUME NEW row \in BarRow, NEW f \in Nat \ {0}
    PROVE  Scaled(row, f, f) = row
<1> DEFINE w == Scaled(row, f, f)
<1>1. /\ w \in BarRow
      /\ w.open = Rounded(row.open * f, f) /\ w.high = Rounded(row.high * f, f)
      /\ w.low = Rounded(row.low * f, f) /\ w.close = Rounded(row.close * f, f)
      /\ w.missing = row.missing
  <2>1. f \in Int
    OBVIOUS
  <2> QED
    BY <2>1, ScaledIs
<1>2. w.date = row.date /\ w.volume = row.volume
  BY DEF Scaled, BarRow
<1>3. /\ Rounded(row.open * f, f) = row.open /\ Rounded(row.high * f, f) = row.high
      /\ Rounded(row.low * f, f) = row.low /\ Rounded(row.close * f, f) = row.close
  BY RowIs, QuotientOfProduct
<1> HIDE DEF w
<1>4. w = row
  BY <1>1, <1>2, <1>3 DEF BarRow
<1> QED
  BY <1>4 DEF w

(* fillna(1) leaves no factor zero. *)
LEMMA FilledIs ==
    ASSUME NEW f \in Seq(Nat)
    PROVE  /\ Len(FilledIn(f)) = Len(f)
           /\ \A i \in 1 .. Len(f) : FilledIn(f)[i] \in Nat \ {0}
           /\ \A i \in 1 .. Len(f) : f[i] # 0 => FilledIn(f)[i] = f[i]
<1> DEFINE n == Len(f)
           w == [i \in 1 .. n |-> IF f[i] = 0 THEN One ELSE f[i]]
<1>0. One \in Nat \ {0}
  BY DataFeedsAssumption
<1>1. n \in Nat /\ DOMAIN f = 1 .. n /\ (\A i \in 1 .. n : f[i] \in Nat)
  OBVIOUS
<1>2. FilledIn(f) = w
  BY <1>1 DEF FilledIn
<1>3. /\ Len(w) = n /\ \A i \in 1 .. n : w[i] \in Nat \ {0}
      /\ \A i \in 1 .. n : f[i] # 0 => w[i] = f[i]
  BY <1>0, <1>1
<1> QED
  BY <1>2, <1>3

(* A table adjusted with factors has its rows scaled, each by its factor. *)
LEMMA ApplyAdjustIs ==
    ASSUME NEW t \in Seq(BarRow), NEW f \in Seq(Nat), Len(f) = Len(t), t # << >>
    PROVE  LET g == FilledIn(f)
           IN  /\ ApplyAdjust(t, g) \in Seq(BarRow) /\ Len(ApplyAdjust(t, g)) = Len(t)
               /\ Divisor(g) \in Nat \ {0} /\ (mode = "qfq" => Divisor(g) = g[Len(t)])
               /\ \A i \in 1 .. Len(t) :
                     /\ t[i] \in BarRow /\ g[i] \in Nat \ {0} /\ (f[i] # 0 => g[i] = f[i])
                     /\ ApplyAdjust(t, g)[i] = Scaled(t[i], g[i], Divisor(g))
<1> DEFINE g == FilledIn(f)
           n == Len(t)
           over == Divisor(g)
           u(i) == Scaled(t[i], g[i], over)
           w == [i \in 1 .. n |-> u(i)]
<1>1. n \in Nat \ {0} /\ DOMAIN t = 1 .. n /\ n \in 1 .. n /\ \A i \in 1 .. n : t[i] \in BarRow
  OBVIOUS
<1>2. Len(g) = n /\ \A i \in 1 .. n : g[i] \in Nat \ {0} /\ (f[i] # 0 => g[i] = f[i])
  BY FilledIs
<1>3. over \in Nat \ {0} /\ (mode = "qfq" => over = g[n])
  BY <1>1, <1>2, DataFeedsAssumption DEF NewestFactor, Divisor
<1>4. ApplyAdjust(t, g) = w
  BY <1>1 DEF ApplyAdjust
<1>5. \A i \in 1 .. n : u(i) \in BarRow
  <2> SUFFICES ASSUME NEW i \in 1 .. n
               PROVE  u(i) \in BarRow
    OBVIOUS
  <2>1. PICK b \in Int, o \in Nat \ {0} : b = g[i] /\ o = over
    BY <1>2, <1>3
  <2>2. Scaled(t[i], b, o) \in BarRow
    BY <1>1, ScaledIs
  <2> QED
    BY <2>1, <2>2
<1> HIDE DEF u, g, over
<1>6. w \in Seq(BarRow) /\ Len(w) = n /\ \A i \in 1 .. n : w[i] = u(i)
  BY <1>1, <1>5
<1> HIDE DEF w, n
<1> QED
  BY <1>1, <1>2, <1>3, <1>4, <1>6 DEF u, n, g, over

-----------------------------------------------------------------------------
(* Dropping rows and cutting a span out keep rows, and their order. *)
OldestFirst(t) == \A i, j \in DOMAIN t : i <= j => t[i].date <= t[j].date

LEMMA SublistKeeps ==
    ASSUME NEW t \in Seq(BarRow), NEW S \in SUBSET DOMAIN t
    PROVE  /\ Sublist(t, S) \in Seq(BarRow)
           /\ \A i \in S : \E k \in DOMAIN Sublist(t, S) : Sublist(t, S)[k] = t[i]
           /\ \A k \in DOMAIN Sublist(t, S) : \E i \in S : Sublist(t, S)[k] = t[i]
           /\ OldestFirst(t) => OldestFirst(Sublist(t, S))
<1> DEFINE w == Sublist(t, S)
           n == Cardinality(S)
<1>1. /\ w \in Seq(BarRow) /\ n \in Nat /\ DOMAIN w = 1 .. n
      /\ \A k \in 1 .. n : Nth(S, k) \in S /\ Rank(S, Nth(S, k)) = k /\ w[k] = t[Nth(S, k)]
      /\ \A i \in S : Rank(S, i) \in 1 .. n /\ w[Rank(S, i)] = t[i]
      /\ \A i, l \in S : i < l <=> Rank(S, i) < Rank(S, l)
  BY SublistIs
<1> HIDE DEF w, n
<1>2. ASSUME OldestFirst(t)
      PROVE  OldestFirst(w)
  <2> SUFFICES ASSUME NEW k \in 1 .. n, NEW j \in 1 .. n, k <= j
               PROVE  w[k].date <= w[j].date
    BY <1>1 DEF OldestFirst
  <2>1. PICK a \in S, b \in S : a = Nth(S, k) /\ b = Nth(S, j)
    BY <1>1
  <2>2. a \in Int /\ b \in Int /\ a \in DOMAIN t /\ b \in DOMAIN t
    OBVIOUS
  <2>3. ~(b < a)
    BY <1>1, <2>1
  <2>4. t[a].date <= t[b].date
    BY <1>2, <2>2, <2>3 DEF OldestFirst
  <2> QED
    BY <1>1, <2>1, <2>4
<1>3. /\ \A i \in S : \E k \in DOMAIN w : w[k] = t[i]
      /\ \A k \in DOMAIN w : \E i \in S : w[k] = t[i]
  BY <1>1
<1> QED
  BY <1>1, <1>2, <1>3 DEF w

(* A span that is cut out has rows that followed each other. *)
LEMMA SpanIsRun ==
    ASSUME NEW t \in Seq(BarRow), OldestFirst(t), span \in [first : Nat, last : Nat]
    PROVE  \A k \in 2 .. Len(InSpan(t)) : \E i \in 2 .. Len(t) :
               InSpan(t)[k] = t[i] /\ InSpan(t)[k - 1] = t[i - 1]
<1> DEFINE S == {i \in DOMAIN t : Within(t[i])}
           w == Sublist(t, S)
           n == Cardinality(S)
<1>1. InSpan(t) = w
  BY DEF InSpan
<1>2. /\ n \in Nat /\ Len(w) = n
      /\ \A k \in 1 .. n : Nth(S, k) \in S /\ Rank(S, Nth(S, k)) = k /\ w[k] = t[Nth(S, k)]
      /\ \A i \in S : Rank(S, i) \in 1 .. n
      /\ \A i, l \in S : i < l <=> Rank(S, i) < Rank(S, l)
  <2>1. S \in SUBSET DOMAIN t
    OBVIOUS
  <2> HIDE DEF S
  <2> QED
    BY <2>1, SublistIs
<1> HIDE DEF w, n
<1> SUFFICES ASSUME NEW k \in 2 .. n
             PROVE  \E i \in 2 .. Len(t) : w[k] = t[i] /\ w[k - 1] = t[i - 1]
  BY <1>1, <1>2
<1>3. k \in 1 .. n /\ k - 1 \in 1 .. n /\ k \in Int
  BY <1>2
<1>4. PICK i \in S, l \in S : i = Nth(S, k) /\ l = Nth(S, k - 1)
  BY <1>2, <1>3
<1>5. w[k] = t[i] /\ w[k - 1] = t[l] /\ Rank(S, i) = k /\ Rank(S, l) = k - 1
  BY <1>2, <1>3, <1>4
<1>6. l < i
  BY <1>2, <1>3, <1>5
<1>7. i \in 1 .. Len(t) /\ l \in 1 .. Len(t) /\ Len(t) \in Nat
  OBVIOUS
<1>8. l = i - 1
  <2> SUFFICES ASSUME l # i - 1
               PROVE  FALSE
    OBVIOUS
  <2>1. PICK m \in 1 .. Len(t) : m = i - 1 /\ l < m /\ m < i
    BY <1>6, <1>7
  <2>2. t[l].date <= t[m].date /\ t[m].date <= t[i].date
    BY <1>7, <2>1 DEF OldestFirst
  <2>3. Within(t[l]) /\ Within(t[i]) /\ m \in DOMAIN t
    BY <1>7
  <2>4. t[l] \in BarRow /\ t[m] \in BarRow /\ t[i] \in BarRow
    BY <1>7, <2>1
  <2>5. Within(t[m])
    BY <2>2, <2>3, <2>4, RowIs DEF Within
  <2>6. m \in S
    BY <2>3, <2>5
  <2>7. Rank(S, l) < Rank(S, m) /\ Rank(S, m) < Rank(S, i) /\ Rank(S, m) \in Int
    <3> HIDE DEF S
    <3> QED
      BY <1>2, <2>1, <2>6
  <2> QED
    BY <1>3, <1>5, <2>7
<1> QED
  BY <1>5, <1>6, <1>7, <1>8

(* The shifts leave dates as they are, and rows as wrong as they were. *)
LEMMA PanamaKeeps ==
    ASSUME NEW t \in Seq(BarRow)
    PROVE  /\ Panama(t) \in Seq(BarRow) /\ Len(Panama(t)) = Len(t)
           /\ \A i \in DOMAIN t :
                 /\ Panama(t)[i].date = t[i].date /\ Panama(t)[i].missing = t[i].missing
                 /\ Inconsistent(Panama(t)[i]) <=> Inconsistent(t[i])
           /\ OldestFirst(t) => OldestFirst(Panama(t))
<1> DEFINE u == Panama(t)
<1>1. /\ u \in Seq(BarRow) /\ Len(u) = Len(t)
      /\ \A i \in 1 .. Len(t) : \E gap \in Int : u[i] = Shifted(t[i], gap)
  BY PanamaIs DEF Levelled
<1> HIDE DEF u
<1>2. DOMAIN u = 1 .. Len(t) /\ DOMAIN t = 1 .. Len(t) /\ \A i \in DOMAIN t : t[i] \in BarRow
  BY <1>1
<1>3. ASSUME NEW i \in DOMAIN t
      PROVE  /\ u[i].date = t[i].date /\ u[i].missing = t[i].missing
             /\ Inconsistent(u[i]) <=> Inconsistent(t[i])
  <2>1. PICK gap \in Int : u[i] = Shifted(t[i], gap)
    BY <1>1, <1>2
  <2>2. t[i] \in BarRow
    BY <1>2
  <2>3. Shifted(t[i], gap).date = t[i].date /\ Shifted(t[i], gap).missing = t[i].missing
    BY <2>2, ShiftedIs DEF Shifted, BarRow
  <2>4. Inconsistent(Shifted(t[i], gap)) <=> Inconsistent(t[i])
    BY <2>2, ShiftedInconsistent
  <2> QED
    BY <2>1, <2>3, <2>4
<1>4. OldestFirst(t) => OldestFirst(u)
  BY <1>2, <1>3 DEF OldestFirst
<1> QED
  BY <1>1, <1>3, <1>4 DEF u

-----------------------------------------------------------------------------
(* The table in hand is made of the one that was answered, at each stage; a report
   counts its inconsistent rows.                                                 *)
Bad(t) == \E i \in DOMAIN t : ~t[i].missing /\ Inconsistent(t[i])
Adjusted == IF Adjusting THEN ApplyAdjust(raw, FilledIn(factor)) ELSE raw
Whole == Panama(DropMissing(raw))
Made == IF source = "futures" THEN InSpan(Whole) ELSE DropMissing(Adjusted)
Given ==
    /\ source \in Sources
    /\ raw \in Seq(BarRow) /\ OldestFirst(raw)
    /\ span \in [first : Nat, last : Nat]
    /\ factored => source = "tushare" /\ factor \in Seq(Nat) /\ Len(factor) = Len(raw)
TableInv ==
    /\ Given
    /\ stage \in {"fetch", "normalize", "panama", "cut", "validate", "done", "raised"}
    /\ stage \in {"normalize", "validate"} => source # "crypto"
    /\ stage = "fetch" => df = raw
    /\ stage = "normalize" => df = Adjusted /\ (Adjusting /\ mode = "qfq" => raw # << >>)
    /\ stage = "panama" => source = "futures" /\ df = DropMissing(raw)
    /\ stage = "cut" => source = "futures" /\ df = Whole
    /\ stage \in {"validate", "done"} /\ source # "crypto" => df = << >> \/ df = Made
    /\ report # NoReport =>
          /\ stage = "done" /\ source # "crypto"
          /\ Bad(df) => report.badge = "red"
          /\ report.counts.ohlc > 0 => Bad(df)

LEMMA InitTable == FeedInit => TableInv
<1> SUFFICES ASSUME FeedInit PROVE TableInv
  OBVIOUS
<1>1. raw \in Seq(BarRow) /\ OldestFirst(raw)
  <2>1. << >> \in Seq(BarRow) /\ OldestFirst(<< >>)
    BY DEF OldestFirst
  <2>2. CASE source = "crypto"
    BY <2>1, <2>2 DEF FeedInit
  <2>3. CASE source # "crypto"
    BY <2>3, DataFeedsAssumption DEF FeedInit, OldestFirst
  <2> QED
    BY <2>2, <2>3
<1>2. span \in [first : Nat, last : Nat]
  <2>1. CASE source = "futures"
    BY <2>1, DataFeedsAssumption DEF FeedInit
  <2>2. CASE source # "futures"
    BY <2>2 DEF FeedInit, NoSpan
  <2> QED
    BY <2>1, <2>2
<1>3. factored => source = "tushare" /\ factor \in Seq(Nat) /\ Len(factor) = Len(raw)
  BY DataFeedsAssumption DEF FeedInit
<1> QED
  BY <1>1, <1>2, <1>3 DEF FeedInit, TableInv, Given

LEMMA DropMissingIs ==
    ASSUME NEW t \in Seq(BarRow)
    PROVE  /\ DropMissing(t) \in Seq(BarRow)
           /\ OldestFirst(t) => OldestFirst(DropMissing(t))
           /\ \A i \in DOMAIN t : ~t[i].missing =>
                 \E k \in DOMAIN DropMissing(t) : DropMissing(t)[k] = t[i]
           /\ \A k \in DOMAIN DropMissing(t) : \E i \in DOMAIN t :
                 ~t[i].missing /\ DropMissing(t)[k] = t[i]
<1> DEFINE S == {i \in DOMAIN t : ~t[i].missing}
<1>1. S \in SUBSET DOMAIN t
  OBVIOUS
<1>2. /\ Sublist(t, S) \in Seq(BarRow)
      /\ \A i \in S : \E k \in DOMAIN Sublist(t, S) : Sublist(t, S)[k] = t[i]
      /\ \A k \in DOMAIN Sublist(t, S) : \E i \in S : Sublist(t, S)[k] = t[i]
      /\ OldestFirst(t) => OldestFirst(Sublist(t, S))
  <2> HIDE DEF S
  <2> QED
    BY <1>1, SublistKeeps
<1> QED
  BY <1>2 DEF DropMissing

LEMMA InSpanIs ==
    ASSUME NEW t \in Seq(BarRow)
    PROVE  /\ InSpan(t) \in Seq(BarRow)
           /\ \A i \in DOMAIN t : Within(t[i]) => \E k \in DOMAIN InSpan(t) : InSpan(t)[k] = t[i]
           /\ \A k \in DOMAIN InSpan(t) : \E i \in DOMAIN t : InSpan(t)[k] = t[i]
<1> DEFINE S == {i \in DOMAIN t : Within(t[i])}
<1>1. S \in SUBSET DOMAIN t
  OBVIOUS
<1>2. /\ Sublist(t, S) \in Seq(BarRow)
      /\ \A i \in S : \E k \in DOMAIN Sublist(t, S) : Sublist(t, S)[k] = t[i]
      /\ \A k \in DOMAIN Sublist(t, S) : \E i \in S : Sublist(t, S)[k] = t[i]
  <2> HIDE DEF S
  <2> QED
    BY <1>1, SublistKeeps
<1> QED
  BY <1>2 DEF InSpan

(* A bad row of the table that was answered is a bad row of the one made of it, ... *)
LEMMA BadIsMade ==
    ASSUME Given, NEW i \in DOMAIN raw, BadRow(i)
    PROVE  Bad(Made)
<1>1. raw \in Seq(BarRow) /\ raw[i] \in BarRow /\ ~raw[i].missing /\ i \in 1 .. Len(raw) /\ raw # << >>
  BY DEF Given, BadRow
<1>2. CASE source = "futures"
  <2>1. Within(raw[i]) /\ Inconsistent(raw[i])
    BY <1>2 DEF BadRow, Given, Adjusting
  <2>2. PICK k \in DOMAIN DropMissing(raw) : DropMissing(raw)[k] = raw[i]
    BY <1>1, DropMissingIs
  <2>3. DropMissing(raw) \in Seq(BarRow)
    BY <1>1, DropMissingIs
  <2>4. /\ Whole \in Seq(BarRow) /\ k \in DOMAIN Whole /\ ~Whole[k].missing
        /\ Inconsistent(Whole[k]) /\ Whole[k].date = raw[i].date
    <3> DEFINE b == DropMissing(raw)
    <3>1. /\ Panama(b) \in Seq(BarRow) /\ Len(Panama(b)) = Len(b)
          /\ Panama(b)[k].date = b[k].date /\ Panama(b)[k].missing = b[k].missing
          /\ Inconsistent(Panama(b)[k]) <=> Inconsistent(b[k])
      BY <2>2, <2>3, PanamaKeeps
    <3> QED
      BY <1>1, <2>1, <2>2, <2>3, <3>1 DEF Whole
  <2>5. Within(Whole[k])
    BY <2>1, <2>4 DEF Within
  <2>6. PICK j \in DOMAIN InSpan(Whole) : InSpan(Whole)[j] = Whole[k]
    BY <2>4, <2>5, InSpanIs
  <2> QED
    BY <1>2, <2>4, <2>6 DEF Bad, Made
<1>3. CASE source # "futures"
  <2>1. Adjusted \in Seq(BarRow) /\ i \in DOMAIN Adjusted /\ ~Adjusted[i].missing /\ Inconsistent(Adjusted[i])
    <3>1. CASE ~Adjusting
      BY <1>1, <3>1 DEF Adjusted, BadRow
    <3>2. CASE Adjusting
      <4> DEFINE g == FilledIn(factor)
      <4>1. factor \in Seq(Nat) /\ Len(factor) = Len(raw)
        BY <3>2 DEF Given, Adjusting
      <4>2. /\ ApplyAdjust(raw, g) \in Seq(BarRow) /\ Len(ApplyAdjust(raw, g)) = Len(raw)
            /\ Divisor(g) \in Nat \ {0} /\ g[i] \in Nat \ {0}
            /\ ApplyAdjust(raw, g)[i] = Scaled(raw[i], g[i], Divisor(g))
        BY <1>1, <4>1, ApplyAdjustIs
      <4>3. PICK b \in Nat \ {0}, o \in Nat \ {0} : b = g[i] /\ o = Divisor(g)
        BY <4>2
      <4>4. InconsistentBy(raw[i], b, o)
        BY <3>2, <4>3 DEF BadRow
      <4>5. Inconsistent(Scaled(raw[i], b, o)) /\ Scaled(raw[i], b, o).missing = raw[i].missing
        <5>1. b \in Int
          OBVIOUS
        <5> QED
          BY <1>1, <4>4, <5>1, ScaledInconsistent, ScaledIs
      <4>6. Adjusted = ApplyAdjust(raw, g)
        BY <3>2 DEF Adjusted
      <4> HIDE DEF g
      <4> QED
        BY <1>1, <4>2, <4>3, <4>5, <4>6
    <3> QED
      BY <3>1, <3>2
  <2>2. PICK k \in DOMAIN DropMissing(Adjusted) : DropMissing(Adjusted)[k] = Adjusted[i]
    BY <2>1, DropMissingIs
  <2> QED
    BY <1>3, <2>1, <2>2 DEF Bad, Made
<1> QED
  BY <1>2, <1>3

(* ... and a bad row of the table made was bad when it was answered. *)
LEMMA MadeIsBad ==
    ASSUME Given, Bad(Made)
    PROVE  Bad(raw)
<1>1. raw \in Seq(BarRow) /\ DOMAIN raw = 1 .. Len(raw)
  BY DEF Given
<1>2. CASE source = "futures"
  <2>1. PICK j \in DOMAIN InSpan(Whole) : ~InSpan(Whole)[j].missing /\ Inconsistent(InSpan(Whole)[j])
    BY <1>2 DEF Bad, Made
  <2> DEFINE b == DropMissing(raw)
  <2>2. b \in Seq(BarRow)
    BY <1>1, DropMissingIs
  <2>3. Panama(b) \in Seq(BarRow) /\ Len(Panama(b)) = Len(b)
    BY <2>2, PanamaKeeps
  <2>4. PICK k \in DOMAIN Panama(b) : InSpan(Panama(b))[j] = Panama(b)[k]
    BY <2>1, <2>3, InSpanIs DEF Whole
  <2>5. k \in DOMAIN b
    <3> HIDE DEF b
    <3> QED
      BY <2>2, <2>3
  <2>6. Inconsistent(b[k])
    <3> HIDE DEF b
    <3>1. Inconsistent(Panama(b)[k]) <=> Inconsistent(b[k])
      BY <2>2, <2>5, PanamaKeeps
    <3> QED
      BY <2>1, <2>4, <3>1 DEF Whole, b
  <2>7. PICK i \in DOMAIN raw : ~raw[i].missing /\ b[k] = raw[i]
    BY <1>1, <2>5, DropMissingIs
  <2> QED
    BY <2>6, <2>7 DEF Bad
<1>3. CASE source # "futures"
  <2>1. Adjusted \in Seq(BarRow) /\ DOMAIN Adjusted = DOMAIN raw
        /\ \A i \in DOMAIN raw : /\ Adjusted[i].missing = raw[i].missing
                                 /\ Inconsistent(Adjusted[i]) => Inconsistent(raw[i])
    <3>1. CASE ~Adjusting
      BY <1>1, <3>1 DEF Adjusted
    <3>2. CASE Adjusting /\ raw = << >>
      <4>1. DOMAIN ApplyAdjust(raw, FilledIn(factor)) = {} /\ DOMAIN raw = {}
        BY <3>2 DEF ApplyAdjust
      <4>2. ApplyAdjust(raw, FilledIn(factor)) = << >>
        BY <3>2 DEF ApplyAdjust
      <4> QED
        BY <1>1, <3>2, <4>1, <4>2 DEF Adjusted
    <3>3. CASE Adjusting /\ raw # << >>
      <4> DEFINE g == FilledIn(factor)
                 w == ApplyAdjust(raw, g)
      <4>1. factor \in Seq(Nat) /\ Len(factor) = Len(raw)
        BY <3>3 DEF Given, Adjusting
      <4>2. /\ w \in Seq(BarRow) /\ Len(w) = Len(raw) /\ Divisor(g) \in Nat \ {0}
            /\ \A i \in 1 .. Len(raw) : /\ raw[i] \in BarRow /\ g[i] \in Nat \ {0}
                                        /\ w[i] = Scaled(raw[i], g[i], Divisor(g))
        BY <1>1, <3>3, <4>1, ApplyAdjustIs
      <4>3. Adjusted = w
        BY <3>3 DEF Adjusted
      <4> HIDE DEF g, w
      <4>4. ASSUME NEW i \in 1 .. Len(raw)
            PROVE  w[i].missing = raw[i].missing /\ (Inconsistent(w[i]) => Inconsistent(raw[i]))
        <5>1. PICK b \in Nat \ {0}, o \in Nat \ {0} : b = g[i] /\ o = Divisor(g)
          BY <4>2
        <5>2. b \in Int /\ raw[i] \in BarRow
          BY <4>2
        <5>3. Scaled(raw[i], b, o).missing = raw[i].missing
          BY <5>2, ScaledIs
        <5>4. Inconsistent(Scaled(raw[i], b, o)) => Inconsistent(raw[i])
          BY <5>2, ScaledConsistent
        <5> QED
          BY <4>2, <5>1, <5>3, <5>4
      <4>5. DOMAIN w = 1 .. Len(raw)
        BY <4>2
      <4> QED
        BY <1>1, <4>2, <4>3, <4>4, <4>5
    <3> QED
      BY <3>1, <3>2, <3>3
  <2>2. PICK k \in DOMAIN DropMissing(Adjusted) : Inconsistent(DropMissing(Adjusted)[k])
    BY <1>3 DEF Bad, Made
  <2>3. PICK i \in DOMAIN Adjusted : ~Adjusted[i].missing /\ DropMissing(Adjusted)[k] = Adjusted[i]
    BY <2>1, <2>2, DropMissingIs
  <2> QED
    BY <2>1, <2>2, <2>3 DEF Bad
<1> QED
  BY <1>2, <1>3

(* validate counts the bad rows, and makes the badge red if there are any. *)
LEMMA ValidateCounts ==
    ASSUME TableInv, Validate, df \in Seq(BarRow)
    PROVE  /\ Bad(df) => report'.badge = "red"
           /\ report'.counts.ohlc > 0 => Bad(df)
<1> DEFINE kept == CheckedRows(df)
           S == {i \in DOMAIN kept : Inconsistent(kept[i])}
           r == [missing   |-> Cardinality({i \in DOMAIN df : df[i].missing}),
                 ohlc      |-> Cardinality({i \in DOMAIN kept : Inconsistent(kept[i])}),
                 zero      |-> Cardinality({i \in DOMAIN kept : kept[i].volume = 0}),
                 anomalies |-> Anomalies(kept, Limits[AssetType]),
                 gaps      |-> Gaps(kept)]
<1>1. /\ kept \in Seq(BarRow)
      /\ \A i \in DOMAIN df : ~df[i].missing => \E k \in DOMAIN kept : kept[k] = df[i]
      /\ \A k \in DOMAIN kept : \E i \in DOMAIN df : ~df[i].missing /\ kept[k] = df[i]
  BY DropMissingIs DEF CheckedRows
<1>2. report' = [badge |-> Badge(r), counts |-> r]
  BY DEF Validate
<1>3. r.ohlc = Cardinality(S)
  OBVIOUS
<1> HIDE DEF kept, r
<1>4. IsFiniteSet(S)
  <2>1. IsFiniteSet(DOMAIN kept)
    <3>1. DOMAIN kept = 1 .. Len(kept) /\ Len(kept) \in Nat
      BY <1>1
    <3> QED
      BY <3>1, FS_Interval
  <2>2. S \in SUBSET DOMAIN kept
    OBVIOUS
  <2> HIDE DEF S
  <2> QED
    BY <2>1, <2>2, FS_Subset
<1>5. S # {} <=> Bad(df)
  BY <1>1 DEF Bad
<1>6. r.ohlc \in Nat /\ (r.ohlc # 0 <=> S # {})
  <2>1. Cardinality(S) \in Nat /\ (Cardinality(S) = 0 <=> S = {})
    <3> HIDE DEF S
    <3> QED
      BY <1>4, FS_CardinalityType, FS_EmptySet
  <2> QED
    BY <1>3, <2>1
<1>7. r.ohlc # 0 => Badge(r) = "red"
  BY <1>6 DEF Badge, Ok
<1>8. r.ohlc > 0 => Bad(df)
  BY <1>5, <1>6
<1>9. Bad(df) => Badge(r) = "red"
  BY <1>5, <1>6, <1>7
<1> QED
  BY <1>2, <1>8, <1>9

LEMMA MadeIs ==
    ASSUME Given
    PROVE  Made \in Seq(BarRow)
<1>1. raw \in Seq(BarRow) /\ DropMissing(raw) \in Seq(BarRow)
  BY DropMissingIs DEF Given
<1>2. Whole \in Seq(BarRow)
  BY <1>1, PanamaKeeps DEF Whole
<1>3. InSpan(Whole) \in Seq(BarRow)
  BY <1>2, InSpanIs
<1>4. Adjusted \in Seq(BarRow)
  <2>1. CASE ~Adjusting
    BY <1>1, <2>1 DEF Adjusted
  <2>2. CASE Adjusting /\ raw # << >>
    BY <1>1, <2>2, ApplyAdjustIs DEF Adjusted, Given, Adjusting
  <2>3. CASE Adjusting /\ raw = << >>
    <3>1. ApplyAdjust(raw, FilledIn(factor)) = << >>
      BY <2>3 DEF ApplyAdjust
    <3> QED
      BY <1>1, <2>3, <3>1 DEF Adjusted
  <2> QED
    BY <2>1, <2>2, <2>3
<1> QED
  BY <1>3, <1>4, DropMissingIs DEF Made

(* Every step of a call makes the table of the one answered. *)
LEMMA StepTable == TableInv /\ [FeedNext]_feedVars => TableInv'
<1> SUFFICES ASSUME TableInv, [FeedNext]_feedVars
             PROVE  TableInv'
  OBVIOUS
<1>1. ASSUME UNCHANGED <<source, raw, span, factored, factor, mode>>
      PROVE  /\ Given' /\ Adjusted' = Adjusted /\ Whole' = Whole /\ Made' = Made
             /\ Adjusting' = Adjusting
  <2>1. Given'
    BY <1>1 DEF TableInv, Given, OldestFirst
  <2>2. Adjusting' = Adjusting
    BY <1>1 DEF Adjusting
  <2>3. Adjusted' = Adjusted
    BY <1>1, <2>2 DEF Adjusted, ApplyAdjust, Divisor
  <2>4. Whole' = Whole
    BY <1>1 DEF Whole
  <2>5. Made' = Made
    BY <1>1, <2>3, <2>4 DEF Made, InSpan, Within
  <2> QED
    BY <2>1, <2>2, <2>3, <2>4, <2>5
<1>2. CASE AdjustShares
  <2>1. /\ source = "tushare" /\ df = raw /\ stage' = "normalize" /\ report' = report
        /\ stage = "fetch" /\ df' = Adjusted
        /\ Adjusting /\ mode = "qfq" => raw # << >>
        /\ UNCHANGED <<source, raw, span, factored, factor, mode>>
    BY <1>2 DEF AdjustShares, TableInv, Adjusted, NoNewest
  <2> QED
    BY <1>1, <2>1 DEF TableInv
<1>3. CASE AdjustRaises
  <2>1. /\ source = "tushare" /\ stage = "fetch" /\ stage' = "raised"
        /\ UNCHANGED <<source, raw, span, factored, factor, mode, df, report>>
    BY <1>3 DEF AdjustRaises, tableVars
  <2> QED
    BY <1>1, <2>1 DEF TableInv
<1>4. CASE FetchTable
  <2>1. /\ source \in {"futures", "shares"} /\ stage = "fetch" /\ stage' = "normalize"
        /\ UNCHANGED <<source, raw, span, factored, factor, mode, df, report>>
    BY <1>4 DEF FetchTable, tableVars
  <2>2. ~Adjusting
    BY <2>1 DEF TableInv, Given, Adjusting
  <2>3. df' = Adjusted
    BY <2>1, <2>2 DEF TableInv, Adjusted
  <2> QED
    BY <1>1, <2>1, <2>2, <2>3 DEF TableInv
<1>5. CASE FetchFails
  <2>1. /\ stage = "fetch" /\ source = "futures" /\ stage' = "validate" /\ df' = << >>
        /\ UNCHANGED <<source, raw, span, factored, factor, mode, report>>
    BY <1>5 DEF FetchFails
  <2> QED
    BY <1>1, <2>1 DEF TableInv
<1>6. CASE Normalize
  <2>1. /\ df' = DropMissing(df) /\ stage = "normalize" /\ df = Adjusted
        /\ stage' = IF source = "futures" THEN "panama" ELSE "validate"
        /\ UNCHANGED <<source, raw, span, factored, factor, mode, report>>
    BY <1>6 DEF Normalize, TableInv
  <2>2. source = "futures" => df = raw
    BY <2>1 DEF TableInv, Given, Adjusting, Adjusted
  <2>3. source # "futures" => df' = Made
    BY <2>1 DEF Made
  <2>4. source = "futures" => df' = DropMissing(raw')
    BY <2>1, <2>2
  <2> QED
    BY <1>1, <2>1, <2>3, <2>4 DEF TableInv
<1>7. CASE AdjustFutures
  <2>1. /\ stage = "panama" /\ source = "futures" /\ stage' = "cut" /\ df' = Whole
        /\ UNCHANGED <<source, raw, span, factored, factor, mode, report>>
    BY <1>7 DEF AdjustFutures, TableInv, Whole
  <2> QED
    BY <1>1, <2>1 DEF TableInv
<1>8. CASE CutToSpan
  <2>1. /\ stage = "cut" /\ source = "futures" /\ stage' = "validate" /\ df' = Made
        /\ UNCHANGED <<source, raw, span, factored, factor, mode, report>>
    BY <1>8 DEF CutToSpan, TableInv, Made
  <2> QED
    BY <1>1, <2>1 DEF TableInv
<1>9. CASE Validate
  <2>1. /\ stage = "validate" /\ stage' = "done"
        /\ UNCHANGED <<source, raw, span, factored, factor, mode, df>>
    BY <1>9 DEF Validate
  <2>2. CASE source = "crypto"
    BY <1>9, <2>2 DEF Validate, TableInv
  <2>3. CASE source # "crypto"
    <3>1. df = << >> \/ df = Made
      BY <2>1, <2>3 DEF TableInv
    <3>2. df \in Seq(BarRow)
      <4>1. Given
        BY DEF TableInv
      <4>2. Made \in Seq(BarRow)
        BY <4>1, MadeIs
      <4>3. << >> \in Seq(BarRow)
        OBVIOUS
      <4> QED
        BY <3>1, <4>1, <4>2, <4>3
    <3>3. /\ Bad(df) => report'.badge = "red"
          /\ report'.counts.ohlc > 0 => Bad(df)
      BY <1>9, <3>2, ValidateCounts
    <3>4. Bad(df)' <=> Bad(df)
      BY <2>1 DEF Bad
    <3> QED
      BY <1>1, <2>1, <2>3, <3>1, <3>3, <3>4 DEF TableInv
  <2> QED
    BY <2>2, <2>3
<1>10. CASE FetchPage
  <2>1. /\ stage = "fetch" /\ source = "crypto" /\ stage' \in {"fetch", "done"}
        /\ UNCHANGED <<source, raw, span, factored, factor, mode, df, report>>
    BY <1>10 DEF FetchPage, tableVars
  <2> QED
    BY <1>1, <2>1 DEF TableInv
<1>11. CASE CandleStarts \/ UNCHANGED feedVars
  <2>1. UNCHANGED <<source, stage, raw, span, factored, factor, mode, df, report>>
    BY <1>11 DEF CandleStarts, tableVars, feedVars
  <2>2. Bad(df)' <=> Bad(df)
    BY <2>1 DEF Bad
  <2> QED
    BY <1>1, <2>1, <2>2 DEF TableInv
<1> QED
  BY <1>2, <1>3, <1>4, <1>5, <1>6, <1>7, <1>8, <1>9, <1>10, <1>11 DEF FeedNext, Returned

LEMMA TableInvariant == FeedSpec => []TableInv
BY InitTable, StepTable, PTL DEF FeedSpec

(* BadRowsAreRed: neither fillna, scaling or shifting of prices nor dropping rows
   hides from validate a row that was answered inconsistent, unless rounding does;
   and none of them makes a row inconsistent.                                    *)
THEOREM FeedBadRowsAreRed == FeedSpec => []BadRowsAreRed
<1>1. TableInv => BadRowsAreRed
  <2> SUFFICES ASSUME TableInv, report # NoReport
               PROVE  /\ df # << >> /\ (\E i \in DOMAIN raw : BadRow(i)) => report.badge = "red"
                      /\ report.counts.ohlc > 0 => Bad(raw)
    BY DEF BadRowsAreRed, Bad
  <2>1. /\ Given /\ (df = << >> \/ df = Made) /\ (Bad(df) => report.badge = "red")
        /\ report.counts.ohlc > 0 => Bad(df)
    BY DEF TableInv
  <2>2. ASSUME df # << >>, NEW i \in DOMAIN raw, BadRow(i)
        PROVE  report.badge = "red"
    BY <2>1, <2>2, BadIsMade
  <2>3. ASSUME report.counts.ohlc > 0
        PROVE  Bad(raw)
    <3>1. df # << >>
      BY <2>1, <2>3 DEF Bad
    <3> QED
      BY <2>1, <2>3, <3>1, MadeIsBad
  <2> QED
    BY <2>2, <2>3
<1> QED
  BY <1>1, TableInvariant, PTL

(* AdjustedToNewest: qfq prices are the nearest to those of the newest day times the
   factors since; the whole futures series ends in the row traded last, and it and
   what is cut out of it step as the contracts did, but for the rollovers.        *)
LEMMA SharesAdjusted ==
    ASSUME TableInv
    PROVE  SharesContinueNewest
<1> SUFFICES ASSUME source = "tushare", Adjusting, mode = "qfq", stage = "normalize"
             PROVE  /\ Last(df) = Last(raw)
                    /\ \A i \in DOMAIN raw : factor[i] # 0 /\ Last(factor) # 0 =>
                          NearestRow(df[i], raw[i], factor[i], Last(factor))
  BY DEF SharesContinueNewest
<1> DEFINE g == FilledIn(factor)
           n == Len(raw)
<1>1. /\ raw \in Seq(BarRow) /\ factor \in Seq(Nat) /\ Len(factor) = n /\ raw # << >>
      /\ df = ApplyAdjust(raw, g)
  BY DEF TableInv, Given, Adjusting, Adjusted
<1>2. n \in 1 .. n /\ DOMAIN raw = 1 .. n /\ Last(raw) = raw[n] /\ Last(factor) = factor[n]
  BY <1>1 DEF Last
<1>3. /\ df \in Seq(BarRow) /\ Len(df) = n
      /\ Divisor(g) = g[n] /\ Divisor(g) \in Nat \ {0}
      /\ \A i \in 1 .. n :
            /\ raw[i] \in BarRow /\ g[i] \in Nat \ {0} /\ (factor[i] # 0 => g[i] = factor[i])
            /\ df[i] = Scaled(raw[i], g[i], Divisor(g))
  BY <1>1, ApplyAdjustIs
<1> HIDE DEF g, n
<1>4. Last(df) = Last(raw)
  <2>1. PICK f \in Nat \ {0} : f = g[n]
    BY <1>3
  <2>2. df[n] = Scaled(raw[n], f, f) /\ raw[n] \in BarRow
    BY <1>2, <1>3, <2>1
  <2>3. df[n] = raw[n]
    BY <2>2, ScaledBySame
  <2> QED
    BY <1>2, <1>3, <2>3 DEF Last
<1>5. ASSUME NEW i \in 1 .. n, factor[i] # 0, factor[n] # 0
      PROVE  NearestRow(df[i], raw[i], factor[i], factor[n])
  <2>1. PICK b \in Nat \ {0}, o \in Nat \ {0} : b = g[i] /\ o = g[n]
    BY <1>2, <1>3
  <2>2. NearestRow(Scaled(raw[i], b, o), raw[i], b, o)
    BY <1>3, ScaledNearest
  <2>3. b = factor[i] /\ o = factor[n] /\ df[i] = Scaled(raw[i], b, o)
    BY <1>2, <1>3, <1>5, <2>1
  <2> QED
    BY <2>2, <2>3
<1> QED
  BY <1>2, <1>4, <1>5

LEMMA FuturesAdjusted ==
    ASSUME TableInv
    PROVE  FuturesContinueNewest
<1> SUFFICES ASSUME source = "futures", df # << >>
             PROVE  LET before == DropMissing(raw) IN
                    /\ stage = "cut" =>
                          /\ Last(df) = Last(before)
                          /\ \A i \in 2 .. Len(df) : df[i].close - df[i - 1].close = Step(before, i)
                    /\ stage = "validate" =>
                          \A k \in 2 .. Len(df) : \E i \in 2 .. Len(before) :
                              /\ df[k].date = before[i].date /\ df[k - 1].date = before[i - 1].date
                              /\ df[k].close - df[k - 1].close = Step(before, i)
  BY DEF FuturesContinueNewest
<1> DEFINE before == DropMissing(raw)
           n == Len(before)
<1>1. before \in Seq(BarRow) /\ OldestFirst(before) /\ span \in [first : Nat, last : Nat]
  BY DropMissingIs DEF TableInv, Given
<1>2. stage = "cut" => df = Whole
  BY DEF TableInv
<1>3. stage = "validate" => df = InSpan(Whole)
  BY DEF TableInv, Made
<1>4. Whole = Panama(before)
  BY DEF Whole
<1> HIDE DEF before
<1>5. /\ Whole \in Seq(BarRow) /\ Len(Whole) = n /\ OldestFirst(Whole)
      /\ \A i \in DOMAIN before : Whole[i].date = before[i].date
  BY <1>1, <1>4, PanamaKeeps
<1>6. n \in Nat /\ DOMAIN before = 1 .. n
  BY <1>1
<1>7. /\ before # << >> => Whole[n] = before[n]
      /\ \A i \in 2 .. n : Whole[i].close - Whole[i - 1].close = Step(before, i)
  <2>1. Levelled(Whole, before, Rollovers(before))
    BY <1>1, <1>4, PanamaIs
  <2> QED
    BY <2>1 DEF Levelled, Step
<1>8. ASSUME stage = "cut"
      PROVE  Last(df) = Last(before)
  <2>1. df \in Seq(BarRow) /\ Len(df) = n /\ n # 0 /\ before # << >>
    BY <1>1, <1>2, <1>5, <1>8
  <2> QED
    BY <1>2, <1>7, <1>8, <2>1 DEF Last
<1>9. stage = "cut" => \A i \in 2 .. Len(df) : df[i].close - df[i - 1].close = Step(before, i)
  BY <1>2, <1>5, <1>7
<1>10. ASSUME stage = "validate", NEW k \in 2 .. Len(df)
       PROVE  \E i \in 2 .. n :
                 /\ df[k].date = before[i].date /\ df[k - 1].date = before[i - 1].date
                 /\ df[k].close - df[k - 1].close = Step(before, i)
  <2>1. PICK i \in 2 .. n : df[k] = Whole[i] /\ df[k - 1] = Whole[i - 1]
    BY <1>1, <1>3, <1>5, <1>10, SpanIsRun
  <2>2. i \in DOMAIN before /\ i - 1 \in DOMAIN before
    BY <1>6
  <2> QED
    BY <1>5, <1>7, <2>1, <2>2
<1> QED
  BY <1>8, <1>9, <1>10 DEF before

THEOREM FeedAdjustedToNewest == FeedSpec => []AdjustedToNewest
<1>1. TableInv => AdjustedToNewest
  BY SharesAdjusted, FuturesAdjusted DEF AdjustedToNewest
<1> QED
  BY <1>1, TableInvariant, PTL

-----------------------------------------------------------------------------
(* Counting in full pages. *)
LEMMA DivMod ==
    ASSUME NEW a \in Nat, NEW p \in Nat \ {0}
    PROVE  a = p * (a \div p) + (a % p) /\ a \div p \in Int
OBVIOUS

LEMMA ModIs ==
    ASSUME NEW a \in Nat, NEW p \in Nat \ {0}, NEW q \in Int, NEW r \in 0 .. p - 1, a = p * q + r
    PROVE  r = a % p
OBVIOUS

LEMMA OnePageMore ==
    ASSUME NEW a \in Nat, NEW p \in Nat \ {0}, a % p = 0
    PROVE  (a + p) % p = 0
<1>1. PICK q \in Int : a = p * q
  <2>1. a = p * (a \div p) + (a % p) /\ a \div p \in Int
    BY DivMod
  <2>2. PICK q \in Int : q = a \div p
    BY <2>1
  <2>3. a = p * q
    BY <2>1, <2>2
  <2> QED
    BY <2>3
<1>2. a + p = p * (q + 1) + 0
  BY <1>1
<1>3. PICK r \in 0 .. p - 1 : r = 0
  OBVIOUS
<1>4. PICK b \in Nat, d \in Int : b = a + p /\ d = q + 1
  OBVIOUS
<1>5. b = p * d + r
  BY <1>2, <1>3, <1>4
<1>6. r = b % p
  BY <1>5, ModIs
<1> QED
  BY <1>3, <1>4, <1>6

Candle == [candle : Nat, partial : BOOLEAN]
Candles(a) == a \in Seq(Candle) /\ DOMAIN a = 1 .. Len(a) /\ Len(a) \in Nat

(* The candles so far have no hole, and while pages are still asked for they fill
   whole pages and end right before the next one asked for, which is no later than
   the candle that will be newest next.                                          *)
PagesInv ==
    /\ newest \in Nat /\ cap \in Nat /\ since \in Nat /\ all_bars \in Seq(Candle)
    /\ source = "crypto" =>
        /\ newest # 0 /\ cap # 0 /\ stage \in {"fetch", "done"}
        /\ \A k \in 2 .. Len(all_bars) : all_bars[k].candle = all_bars[k - 1].candle + 1
        /\ \A k \in 1 .. Len(all_bars) :
              all_bars[k].partial => k = Len(all_bars) \/ k % PageLimit = 0
        /\ stage = "fetch" /\ all_bars # << >> =>
              /\ since = Last(all_bars).candle + 1 /\ since <= newest + 1
              /\ Len(all_bars) % PageLimit = 0 /\ cap >= PageLimit
        /\ stage = "done" /\ cap >= PageLimit /\ all_bars # << >> => Last(all_bars).candle = newest
        /\ stage = "done" /\ cap < PageLimit => Len(all_bars) <= cap

(* A page: candles one after the other, up to the newest unless it is full. *)
LEMMA AnswerIs ==
    ASSUME newest \in Nat \ {0}, cap \in Nat \ {0}, since \in Nat
    PROVE  \E from \in Nat \ {0}, m \in Nat :
              /\ Answer \in Seq(Candle) /\ Len(Answer) = m
              /\ \A k \in 1 .. m : Answer[k].candle = from + k - 1
                                   /\ (Answer[k].partial <=> from + k - 1 = newest)
              /\ m <= PageLimit /\ m <= cap
              /\ since # 0 => from = since
              /\ m = 0 => newest < from
              /\ m # 0 => from + m - 1 <= newest
              /\ m # 0 /\ m < PageLimit /\ cap >= PageLimit => from + m - 1 = newest
<1> DEFINE size == Lesser(PageLimit, cap)
           from == IF since = 0 THEN (IF newest > size THEN newest - size + 1 ELSE 1) ELSE since
           upto == Lesser(newest, from + size - 1)
           m == IF upto < from THEN 0 ELSE upto - from + 1
           c(k) == [candle |-> from + k - 1, partial |-> from + k - 1 = newest]
           w == [k \in 1 .. m |-> c(k)]
<1>1. PageLimit \in Nat \ {0}
  BY DataFeedsAssumption
<1>2. size \in Nat \ {0} /\ size <= PageLimit /\ size <= cap /\ (cap >= PageLimit => size = PageLimit)
  BY <1>1 DEF Lesser
<1> HIDE DEF size
<1>3. from \in Nat \ {0} /\ (since # 0 => from = since)
  BY <1>2
<1> HIDE DEF from
<1>4. upto \in Int /\ upto <= newest /\ upto <= from + size - 1 /\ (upto = newest \/ upto = from + size - 1)
  BY <1>2, <1>3 DEF Lesser
<1>5. Answer = [k \in 1 .. (upto - from + 1) |-> c(k)]
  BY DEF Answer, size, from
<1> HIDE DEF upto
<1>6. m \in Nat /\ 1 .. (upto - from + 1) = 1 .. m
  BY <1>3, <1>4
<1>7. /\ m <= size
      /\ m = 0 => newest < from
      /\ m # 0 => from + m - 1 <= newest
      /\ m # 0 /\ m < size => from + m - 1 = newest
  BY <1>2, <1>3, <1>4
<1> HIDE DEF m
<1>8. \A k \in 1 .. m : c(k) \in Candle /\ c(k).candle = from + k - 1 /\ (c(k).partial <=> from + k - 1 = newest)
  <2> SUFFICES ASSUME NEW k \in 1 .. m
               PROVE  c(k) \in Candle /\ c(k).candle = from + k - 1 /\ (c(k).partial <=> from + k - 1 = newest)
    OBVIOUS
  <2>1. PICK j \in Nat : j = from + k - 1
    BY <1>3, <1>6
  <2>2. CASE j = newest
    <3>1. c(k) = [candle |-> j, partial |-> TRUE]
      BY <2>1, <2>2
    <3> HIDE DEF c
    <3> QED
      BY <2>1, <2>2, <3>1 DEF Candle
  <2>3. CASE j # newest
    <3>1. c(k) = [candle |-> j, partial |-> FALSE]
      BY <2>1, <2>3
    <3> HIDE DEF c
    <3> QED
      BY <2>1, <2>3, <3>1 DEF Candle
  <2> QED
    BY <2>2, <2>3
<1> HIDE DEF c
<1>9. w \in Seq(Candle) /\ Len(w) = m /\ \A k \in 1 .. m : w[k] = c(k)
  BY <1>6, <1>8
<1>10. Answer = w
  BY <1>5, <1>6
<1> HIDE DEF w
<1>11. /\ Answer \in Seq(Candle) /\ Len(Answer) = m
       /\ \A k \in 1 .. m : Answer[k].candle = from + k - 1
                            /\ (Answer[k].partial <=> from + k - 1 = newest)
  BY <1>8, <1>9, <1>10
<1>12. m <= PageLimit /\ m <= cap
  BY <1>1, <1>2, <1>6, <1>7
<1>13. m # 0 /\ m < PageLimit /\ cap >= PageLimit => from + m - 1 = newest
  BY <1>2, <1>7
<1> QED
  BY <1>3, <1>6, <1>7, <1>11, <1>12, <1>13

(* The candles so far and those of one more page. *)
LEMMA JoinIs ==
    ASSUME NEW a \in Seq(Candle), NEW b \in Seq(Candle)
    PROVE  /\ a \o b \in Seq(Candle) /\ Len(a \o b) = Len(a) + Len(b)
           /\ Len(a) \in Nat /\ Len(b) \in Nat
           /\ \A i \in 1 .. Len(a) : (a \o b)[i] = a[i]
           /\ \A i \in 1 .. Len(b) : (a \o b)[Len(a) + i] = b[i]
<1>1. /\ a \o b \in Seq(Candle) /\ Len(a \o b) = Len(a) + Len(b)
      /\ \A i \in 1 .. Len(a) + Len(b) : (a \o b)[i] = IF i <= Len(a) THEN a[i] ELSE b[i - Len(a)]
  BY ConcatProperties
<1>2. Len(a) \in Nat /\ Len(b) \in Nat
  OBVIOUS
<1>3. \A i \in 1 .. Len(b) : Len(a) + i \in 1 .. Len(a) + Len(b) /\ ~(Len(a) + i <= Len(a)) /\ Len(a) + i - Len(a) = i
  BY <1>2
<1>4. \A i \in 1 .. Len(a) : i \in 1 .. Len(a) + Len(b) /\ i <= Len(a)
  BY <1>2
<1> QED
  BY <1>1, <1>2, <1>3, <1>4

LEMMA InitPages == FeedInit => PagesInv
<1> SUFFICES ASSUME FeedInit PROVE PagesInv
  OBVIOUS
<1>1. all_bars = << >> /\ << >> \in Seq(Candle) /\ Len(<< >>) = 0
  BY DEF FeedInit
<1>2. newest \in Nat /\ cap \in Nat /\ since \in Nat /\ (source = "crypto" => newest # 0 /\ cap # 0)
  <2>1. CASE source = "crypto"
    <3>1. newest \in 1 .. MaxCandle /\ cap \in PageCaps /\ since \in Starts
      BY <2>1 DEF FeedInit
    <3>2. MaxCandle \in Nat /\ PageCaps \subseteq Nat \ {0} /\ Starts \subseteq Nat
      BY DataFeedsAssumption
    <3>3. newest \in Nat /\ newest # 0
      BY <3>1, <3>2
    <3>4. cap \in Nat /\ cap # 0 /\ since \in Nat
      BY <3>1, <3>2
    <3> QED
      BY <3>3, <3>4
  <2>2. CASE source # "crypto"
    BY <2>2 DEF FeedInit
  <2> QED
    BY <2>1, <2>2
<1>3. stage = "fetch"
  BY DEF FeedInit
<1> QED
  BY <1>1, <1>2, <1>3 DEF PagesInv

(* A page begins after the last candle there is, so the candles stay without a hole. *)
LEMMA StepFetchPage ==
    ASSUME PagesInv, FetchPage
    PROVE  PagesInv'
<1> DEFINE n == Len(all_bars)
           w == all_bars \o Answer
<1>1. /\ source = "crypto" /\ stage = "fetch" /\ PageLimit \in Nat \ {0}
      /\ newest \in Nat \ {0} /\ cap \in Nat \ {0} /\ since \in Nat /\ all_bars \in Seq(Candle)
      /\ all_bars' = w /\ UNCHANGED <<source, newest, cap>>
  BY DataFeedsAssumption DEF PagesInv, FetchPage
<1>2. /\ n \in Nat /\ \A k \in 1 .. n : all_bars[k] \in Candle
      /\ all_bars # << >> <=> n # 0
      /\ n # 0 => Last(all_bars) = all_bars[n]
      /\ \A k \in 1 .. n : all_bars[k].candle \in Nat
  <2>1. n \in Nat /\ \A k \in 1 .. n : all_bars[k] \in Candle
    BY <1>1
  <2>2. all_bars # << >> <=> n # 0
    BY <1>1
  <2>3. \A x \in Candle : x.candle \in Nat
    BY DEF Candle
  <2> QED
    BY <2>1, <2>2, <2>3 DEF Last
<1>3. /\ \A k \in 2 .. n : all_bars[k].candle = all_bars[k - 1].candle + 1
      /\ \A k \in 1 .. n : all_bars[k].partial => k = n \/ k % PageLimit = 0
      /\ n # 0 => /\ since = all_bars[n].candle + 1 /\ since <= newest + 1
                  /\ n % PageLimit = 0 /\ cap >= PageLimit
  BY <1>1, <1>2 DEF PagesInv
<1>4. PICK from \in Nat \ {0}, m \in Nat :
              /\ Answer \in Seq(Candle) /\ Len(Answer) = m
              /\ \A k \in 1 .. m : Answer[k].candle = from + k - 1
                                   /\ (Answer[k].partial <=> from + k - 1 = newest)
              /\ m <= PageLimit /\ m <= cap
              /\ since # 0 => from = since
              /\ m = 0 => newest < from
              /\ m # 0 => from + m - 1 <= newest
              /\ m # 0 /\ m < PageLimit /\ cap >= PageLimit => from + m - 1 = newest
  BY <1>1, AnswerIs
<1>5. /\ w \in Seq(Candle) /\ Len(w) = n + m
      /\ \A i \in 1 .. n : w[i] = all_bars[i]
      /\ \A i \in 1 .. m : w[n + i] = Answer[i]
  BY <1>1, <1>4, JoinIs
<1> HIDE DEF w, n
<1>6. n # 0 => from = all_bars[n].candle + 1
  BY <1>2, <1>3, <1>4
<1>7. /\ \A i \in 1 .. n + m : i \in 1 .. n \/ (i > n /\ \E j \in 1 .. m : i = n + j)
  <2> SUFFICES ASSUME NEW i \in 1 .. n + m, ~(i \in 1 .. n)
               PROVE  i > n /\ \E j \in 1 .. m : i = n + j
    OBVIOUS
  <2>1. i - n \in 1 .. m /\ i = n + (i - n) /\ i > n
    BY <1>2, <1>4
  <2> QED
    BY <2>1
<1>8. m # 0 => w[n + m].candle = from + m - 1
  BY <1>4, <1>5
<1>9. ASSUME NEW k \in 2 .. n + m
      PROVE  w[k].candle = w[k - 1].candle + 1
  <2>1. k \in 1 .. n + m /\ k - 1 \in 1 .. n + m /\ k \in Int
    BY <1>2, <1>4
  <2>2. CASE k \in 1 .. n
    <3>1. k \in 2 .. n /\ k - 1 \in 1 .. n
      BY <1>2, <2>1, <2>2
    <3> QED
      BY <1>3, <1>5, <3>1, <2>2
  <2>3. CASE \E j \in 1 .. m : k = n + j
    <3>1. PICK j \in 1 .. m : k = n + j
      BY <2>3
    <3>2. w[k].candle = from + j - 1
      BY <1>4, <1>5, <3>1
    <3>3. CASE j = 1
      <4>1. k - 1 = n /\ n # 0 /\ n \in 1 .. n
        BY <1>2, <2>1, <3>1, <3>3
      <4>2. w[k - 1].candle = all_bars[n].candle /\ all_bars[n].candle \in Nat
        BY <1>2, <1>5, <4>1
      <4> QED
        BY <1>6, <3>2, <3>3, <4>1, <4>2
    <3>4. CASE j # 1
      <4>1. j - 1 \in 1 .. m /\ k - 1 = n + (j - 1) /\ j \in Int
        BY <1>2, <1>4, <3>1, <3>4
      <4>2. PICK l \in 1 .. m : l = j - 1
        BY <4>1
      <4>3. w[k - 1].candle = from + l - 1
        BY <1>4, <1>5, <4>1, <4>2
      <4> QED
        BY <1>4, <3>2, <4>1, <4>2, <4>3
    <3> QED
      BY <3>3, <3>4
  <2> QED
    BY <1>7, <2>1, <2>2, <2>3
<1>10. ASSUME NEW k \in 1 .. n + m, w[k].partial
       PROVE  k = n + m \/ k % PageLimit = 0
  <2>1. CASE k \in 1 .. n
    <3>1. all_bars[k].partial
      BY <1>5, <1>10, <2>1
    <3>2. n # 0
      BY <1>2, <2>1
    <3> QED
      BY <1>3, <2>1, <3>1, <3>2
  <2>2. CASE \E j \in 1 .. m : k = n + j
    <3>1. PICK j \in 1 .. m : k = n + j
      BY <2>2
    <3>2. from + j - 1 = newest
      BY <1>4, <1>5, <1>10, <3>1
    <3>3. j = m
      BY <1>1, <1>4, <3>2
    <3> QED
      BY <3>1, <3>3
  <2> QED
    BY <1>7, <2>1, <2>2
<1>11. n % PageLimit = 0
  <2>1. CASE n = 0
    BY <1>1, <2>1
  <2>2. CASE n # 0
    BY <1>3, <2>2
  <2> QED
    BY <2>1, <2>2
<1>12. w \in Seq(Candle) /\ Len(w) = n + m /\ (w # << >> <=> n + m # 0) /\ Last(w) = w[n + m]
  BY <1>5, <1>2, <1>4 DEF Last
<1>13. CASE m < PageLimit
  <2>1. stage' = "done" /\ since' = since
    BY <1>4, <1>13 DEF FetchPage
  <2>2. cap >= PageLimit /\ w # << >> => Last(w).candle = newest
    <3> SUFFICES ASSUME cap >= PageLimit, n + m # 0
                 PROVE  w[n + m].candle = newest
      BY <1>12
    <3>1. CASE m # 0
      BY <1>4, <1>8, <1>13, <3>1
    <3>2. CASE m = 0
      <4>1. n # 0 /\ n + m = n /\ n \in 1 .. n /\ newest < from
        BY <1>2, <1>4, <3>2
      <4>2. all_bars[n].candle = newest
        <5>1. PICK z \in Nat : z = all_bars[n].candle
          BY <1>2, <4>1
        <5>2. newest < z + 1 /\ z + 1 <= newest + 1
          BY <1>3, <1>6, <4>1, <5>1
        <5> QED
          BY <1>1, <5>1, <5>2
      <4> QED
        BY <1>5, <4>1, <4>2
    <3> QED
      BY <3>1, <3>2
  <2>3. cap < PageLimit => n + m <= cap
    <3> SUFFICES ASSUME cap < PageLimit
                 PROVE  n + m <= cap
      OBVIOUS
    <3>1. n = 0
      BY <1>1, <1>3
    <3> QED
      BY <1>4, <3>1
  <2> QED
    BY <1>1, <1>9, <1>10, <1>12, <2>1, <2>2, <2>3 DEF PagesInv
<1>14. CASE ~(m < PageLimit)
  <2>1. m = PageLimit /\ m # 0
    BY <1>1, <1>4, <1>14
  <2>2. Last(Answer) = Answer[m] /\ m \in 1 .. m
    BY <1>4, <2>1 DEF Last
  <2>3. stage' = "fetch" /\ since' = Last(Answer).candle + 1
    BY <1>1, <1>4, <1>14 DEF FetchPage, NextSince
  <2>4. since' = from + m /\ since' \in Nat /\ since' <= newest + 1
    BY <1>1, <1>4, <2>1, <2>2, <2>3
  <2>5. Last(w).candle = from + m - 1 /\ since' = Last(w).candle + 1
    BY <1>8, <1>12, <1>4, <2>1, <2>4
  <2>6. (n + m) % PageLimit = 0
    BY <1>1, <1>2, <1>11, <2>1, OnePageMore
  <2>7. cap >= PageLimit
    BY <1>1, <1>4, <2>1
  <2> QED
    BY <1>1, <1>9, <1>10, <1>12, <2>3, <2>4, <2>5, <2>6, <2>7 DEF PagesInv
<1> QED
  BY <1>13, <1>14

LEMMA StepPages == PagesInv /\ [FeedNext]_feedVars => PagesInv'
<1> SUFFICES ASSUME PagesInv, [FeedNext]_feedVars
             PROVE  PagesInv'
  OBVIOUS
<1>1. CASE FetchPage
  BY <1>1, StepFetchPage
<1>2. CASE CandleStarts
  <2>1. /\ newest' = newest + 1 /\ stage = "fetch" /\ UNCHANGED <<source, stage, cap, since, all_bars>>
    BY <1>2 DEF CandleStarts
  <2> QED
    BY <2>1 DEF PagesInv
<1>3. CASE source # "crypto" /\ UNCHANGED <<source, pageVars>>
  BY <1>3 DEF PagesInv, pageVars
<1>4. CASE AdjustShares \/ AdjustRaises \/ FetchTable \/ FetchFails
  BY <1>4, <1>3 DEF AdjustShares, AdjustRaises, FetchTable, FetchFails
<1>5. CASE Normalize \/ AdjustFutures \/ CutToSpan \/ Validate
  <2>1. source # "crypto"
    BY <1>5 DEF PagesInv, Normalize, AdjustFutures, CutToSpan, Validate
  <2> QED
    BY <1>3, <1>5, <2>1 DEF Normalize, AdjustFutures, CutToSpan, Validate
<1>6. CASE UNCHANGED feedVars
  BY <1>6 DEF PagesInv, feedVars, pageVars
<1> QED
  BY <1>1, <1>2, <1>4, <1>5, <1>6 DEF FeedNext, Returned

LEMMA PagesInvariant == FeedSpec => []PagesInv
BY InitPages, StepPages, PTL DEF FeedSpec

(* CryptoPagesComplete: the paging loop of fetch_bars neither skips nor repeats a
   candle, whatever the exchange caps pages at and whenever new candles start.   *)
THEOREM FeedPagesComplete == FeedSpec => []CryptoPagesComplete
<1>1. PagesInv => CryptoPagesComplete
  <2>1. all_bars \in Seq(Candle) => DOMAIN all_bars = 1 .. Len(all_bars)
    OBVIOUS
  <2> QED
    BY <2>1 DEF PagesInv, CryptoPagesComplete
<1> QED
  BY <1>1, PagesInvariant, PTL

-----------------------------------------------------------------------------
(* What is proved of the cache and of a feed holds of both halves of Data. *)
THEOREM DataIsBoth == DataSpec => Spec /\ FeedSpec
<1>1. DataInit => Init /\ FeedInit
  BY DEF DataInit
<1>2. [DataNext]_dataVars => [Next]_vars /\ [FeedNext]_feedVars
  BY DEF DataNext, dataVars
<1> QED
  BY <1>1, <1>2, PTL DEF DataSpec, Spec, FeedSpec
=============================================================================
