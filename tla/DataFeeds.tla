------------------------------- MODULE DataFeeds -------------------------------
(*****************************************************************************)
(* How bars become a validated table: futures and shares of akshare          *)
(* (src/data/akshare_feed.py), shares of tushare (tushare_feed.py) and the   *)
(* report on their quality (data_validator.py), and the pages a crypto       *)
(* exchange answers (crypto_feed.py).  A behaviour is one call, for one      *)
(* `source'.                                                                 *)
(*                                                                           *)
(* Prices are whole numbers of the unit adjusted prices are rounded to, and  *)
(* factors whole parts of the factor one.                                    *)
(* The candles of a crypto exchange are numbered by time; the newest is still*)
(* forming when it is fetched, and new ones start while pages are fetched.   *)
(*****************************************************************************)
EXTENDS Integers, SequencesExt, FiniteSetsExt, Sublists

CONSTANTS
    Tables,          \* tables akshare and tushare may answer, oldest row first
    Spans,           \* start and end asked for of a future
    Factors,         \* adj_factor of the rows, 0 where there is none
    One,             \* the factor 1.0
    Modes,           \* adjust: "qfq", "hfq", ""
    Limits,          \* validator_thresholds, in percent, per asset type
    Starts,          \* start of the crypto call, 0 for none
    PageLimit,       \* candles asked for per page
    PageCaps,        \* candles the exchange answers at most
    MaxCandle        \* bound: candles of the exchange

BarRow == [date : Nat, open : Int, high : Int, low : Int, close : Int,
        volume : Nat, missing : BOOLEAN]
ASSUME DataFeedsAssumption ==
    /\ Tables \subseteq Seq(BarRow)
    /\ \A t \in Tables : \A i, j \in DOMAIN t : i <= j => t[i].date <= t[j].date
    /\ Spans \subseteq [first : Nat, last : Nat]
    /\ Factors \subseteq Seq(Nat) /\ One \in Nat \ {0}
    /\ Limits \in [{"stock", "futures_commodity"} -> Nat]
    /\ Modes \subseteq {"qfq", "hfq", ""}
    /\ PageLimit \in Nat \ {0} /\ PageCaps \subseteq Nat \ {0}
    /\ Starts \subseteq Nat /\ MaxCandle \in Nat \ {0}

VARIABLES
    source,          \* the feed called
    stage,           \* how far the call is
    raw,             \* the table as it was answered
    span,            \* futures: the dates asked for
    factored,        \* tushare: adj_factor was answered with rows
    factor, mode,    \* ... the factor of each row of the table, and adjust
    df,              \* the table as far as it is made
    report,          \* of the validator
    newest, cap,     \* the crypto exchange: newest candle, rows per page
    since,           \* the next page asked for, 0 for the newest candles
    all_bars         \* the candles of the pages so far

tableVars == <<raw, span, factored, factor, mode, df, report>>
pageVars == <<newest, cap, since, all_bars>>
feedVars == <<source, stage, tableVars, pageVars>>

Prices == {"open", "high", "low", "close"}
NoReport == [badge |-> "none"]
NoSpan == [first |-> 0, last |-> 0]
Sources == {"futures", "shares", "tushare", "crypto"}

FeedInit ==
    /\ source \in Sources
    /\ stage = "fetch"
    /\ raw \in IF source = "crypto" THEN {<< >>} ELSE Tables
    /\ span \in IF source = "futures" THEN Spans ELSE {NoSpan}
    /\ factored \in IF source = "tushare" THEN BOOLEAN ELSE {FALSE}
    /\ factor \in IF factored THEN {f \in Factors : Len(f) = Len(raw)} ELSE {<< >>}
    /\ mode \in IF source = "tushare" THEN Modes ELSE {"qfq"}
    /\ df = raw
    /\ report = NoReport
    /\ IF source = "crypto" THEN newest \in 1 .. MaxCandle /\ cap \in PageCaps /\ since \in Starts
                            ELSE newest = 0 /\ cap = 0 /\ since = 0
    /\ all_bars = << >>

-----------------------------------------------------------------------------
(* TushareFeed._apply_adjust, on rows that come newest first: prices are those of
   the newest day times the factors since, or those of the first, rounded to the
   nearest unit, a half to the even one.  A row without a factor has the factor
   one; without any factor the table is left as it is.                         *)
NewestFactor(f) == f[Len(f)]
FilledIn(f) == [i \in DOMAIN f |-> IF f[i] = 0 THEN One ELSE f[i]]
Divisor(f) == IF mode = "qfq" THEN NewestFactor(f) ELSE One
Rounded(x, over) ==
    LET q == x \div over
        r == x % over
    IN  IF 2 * r > over \/ (2 * r = over /\ q % 2 = 1) THEN q + 1 ELSE q
Scaled(row, by, over) ==
    [row EXCEPT !.open = Rounded(@ * by, over), !.high = Rounded(@ * by, over),
                !.low = Rounded(@ * by, over), !.close = Rounded(@ * by, over)]
ApplyAdjust(t, f) == [i \in DOMAIN t |-> Scaled(t[i], f[i], Divisor(f))]

Adjusting == factored /\ mode # ""
NoNewest == Adjusting /\ mode = "qfq" /\ df = << >>
AdjustShares ==
    /\ stage = "fetch" /\ source = "tushare" /\ ~NoNewest
    /\ df' = IF Adjusting THEN ApplyAdjust(df, FilledIn(factor)) ELSE df
    /\ stage' = "normalize"
    /\ UNCHANGED <<source, raw, span, factored, factor, mode, report, pageVars>>
(* A table without rows has no newest factor. *)
AdjustRaises ==
    /\ stage = "fetch" /\ source = "tushare" /\ NoNewest
    /\ stage' = "raised"
    /\ UNCHANGED <<source, tableVars, pageVars>>

(* akshare adjusts shares itself. *)
FetchTable ==
    /\ stage = "fetch" /\ source \in {"futures", "shares"}
    /\ stage' = "normalize"
    /\ UNCHANGED <<source, tableVars, pageVars>>

(* _fetch_futures: a failure is answered with an empty table. *)
FetchFails ==
    /\ stage = "fetch" /\ source = "futures"
    /\ df' = << >>
    /\ stage' = "validate"
    /\ UNCHANGED <<source, raw, span, factored, factor, mode, report, pageVars>>

(* _normalize: rows with a missing value are dropped. *)
DropMissing(t) == Sublist(t, {i \in DOMAIN t : ~t[i].missing})
Normalize ==
    /\ stage = "normalize"
    /\ df' = DropMissing(df)
    /\ stage' = IF source = "futures" THEN "panama" ELSE "validate"
    /\ UNCHANGED <<source, raw, span, factored, factor, mode, report, pageVars>>

(* _panama_adjust: at every change of the close by more than three percent the
   rows before it are shifted until there is none, newest change first.       *)
AbsInt(x) == IF x < 0 THEN -x ELSE x
Moves(t, i, percent) ==
    AbsInt(t[i].close - t[i - 1].close) * 100 > percent * AbsInt(t[i - 1].close)
Rollovers(t) == {i \in 2 .. Len(t) : Moves(t, i, 3)}
Shifted(row, gap) == [row EXCEPT !.open = @ + gap, !.high = @ + gap,
                                 !.low = @ + gap, !.close = @ + gap]
ShiftBefore_Included(r, t) ==
    LET gap == t[r].close - t[r - 1].close
    IN  [i \in DOMAIN t |-> IF i <= r THEN Shifted(t[i], gap) ELSE t[i]]
ShiftBefore_CloseOnly(r, t) ==
    LET gap == t[r].close - t[r - 1].close
    IN  [i \in DOMAIN t |-> IF i < r THEN [t[i] EXCEPT !.close = @ + gap] ELSE t[i]]
ShiftBefore(r, t) ==
    LET gap == t[r].close - t[r - 1].close
    IN  [i \in DOMAIN t |-> IF i < r THEN Shifted(t[i], gap) ELSE t[i]]
Panama(t) == MapThenFoldSet(ShiftBefore, t, LAMBDA r : r, LAMBDA s : Min(s), Rollovers(t))
AdjustFutures ==
    /\ stage = "panama"
    /\ df' = Panama(df)
    /\ stage' = "cut"
    /\ UNCHANGED <<source, raw, span, factored, factor, mode, report, pageVars>>

(* ... and the dates asked for are cut out of the whole series. *)
Within(row) == span.first <= row.date /\ row.date <= span.last
InSpan(t) == Sublist(t, {i \in DOMAIN t : Within(t[i])})
CutToSpan ==
    /\ stage = "cut"
    /\ df' = InSpan(df)
    /\ stage' = "validate"
    /\ UNCHANGED <<source, raw, span, factored, factor, mode, report, pageVars>>

-----------------------------------------------------------------------------
(* DataValidator.validate. *)
Inconsistent(row) ==
    \/ row.high < row.low \/ row.high < row.open \/ row.high < row.close
    \/ row.low > row.open \/ row.low > row.close
Anomalies(t, percent) == Cardinality({i \in 2 .. Len(t) : Moves(t, i, percent)})
Gaps(t) == Cardinality({i \in 2 .. Len(t) : t[i].date - t[i - 1].date > 7})
AssetType == IF source = "futures" THEN "futures_commodity" ELSE "stock"

Ok(r) == r.missing = 0 /\ r.ohlc = 0 /\ r.anomalies = 0
Badge(r) ==
    CASE Ok(r) /\ r.zero = 0             -> "green"
      [] r.ohlc > 0 \/ r.anomalies > 3   -> "red"
      [] OTHER                           -> "yellow"
CheckedRows(t) == DropMissing(t)
Validate ==
    /\ stage = "validate"
    /\ LET kept == CheckedRows(df)
           r == [missing   |-> Cardinality({i \in DOMAIN df : df[i].missing}),
                 ohlc      |-> Cardinality({i \in DOMAIN kept : Inconsistent(kept[i])}),
                 zero      |-> Cardinality({i \in DOMAIN kept : kept[i].volume = 0}),
                 anomalies |-> Anomalies(kept, Limits[AssetType]),
                 gaps      |-> Gaps(kept)]
       IN  report' = [badge |-> Badge(r), counts |-> r]
    /\ stage' = "done"
    /\ UNCHANGED <<source, raw, span, factored, factor, mode, df, pageVars>>

-----------------------------------------------------------------------------
(* CryptoFeed.fetch_bars.  The exchange answers the first candles from since on,
   or its newest ones.                                                       *)
Lesser(x, y) == IF x < y THEN x ELSE y
Answer ==
    LET size == Lesser(PageLimit, cap)
        from == IF since = 0 THEN (IF newest > size THEN newest - size + 1 ELSE 1) ELSE since
        upto == Lesser(newest, from + size - 1)
    IN  [k \in 1 .. (upto - from + 1) |-> [candle |-> from + k - 1, partial |-> from + k - 1 = newest]]

NextSince_Last(page) == Last(page).candle
NextSince(page) == Last(page).candle + 1
FetchPage ==
    /\ stage = "fetch" /\ source = "crypto"
    /\ all_bars' = all_bars \o Answer
    /\ IF Len(Answer) < PageLimit
       THEN stage' = "done" /\ UNCHANGED since
       ELSE since' = NextSince(Answer) /\ UNCHANGED stage
    /\ UNCHANGED <<source, tableVars, newest, cap>>

CandleStarts ==
    /\ stage = "fetch" /\ source = "crypto"
    /\ newest < MaxCandle
    /\ newest' = newest + 1
    /\ UNCHANGED <<source, stage, tableVars, cap, since, all_bars>>

Returned == stage \in {"done", "raised"} /\ UNCHANGED feedVars
FeedNext ==
    \/ AdjustShares \/ AdjustRaises
    \/ FetchTable \/ FetchFails \/ Normalize \/ AdjustFutures \/ CutToSpan \/ Validate
    \/ FetchPage \/ CandleStarts
    \/ Returned
FeedSpec == FeedInit /\ [][FeedNext]_feedVars

-----------------------------------------------------------------------------
(* "so the series is continuous at the switch point": adjusted prices continue the
   newest ones backwards.  A share's are, as near as rounding allows, those of its
   day times the factors from the newest day to that day, and the newest row is as
   it was traded; rows without a factor, and all if the newest has none, are not
   spoken of.  A whole futures series ends in the row traded last, has no step
   where the contract changed, and the steps it had elsewhere.  What is cut out of
   it has the same steps from row to row; it ends below or above the row traded
   last that day, if the contract changes later.                               *)
Nearest(q, x, over) == 2 * AbsInt(q * over - x) <= over
NearestRow(row, old, by, over) ==
    \A price \in Prices : Nearest(row[price], old[price] * by, over)
SharesContinueNewest ==
    source = "tushare" /\ Adjusting /\ mode = "qfq" /\ stage = "normalize" =>
        /\ Last(df) = Last(raw)
        /\ \A i \in DOMAIN raw : factor[i] # 0 /\ Last(factor) # 0 =>
              NearestRow(df[i], raw[i], factor[i], Last(factor))

Step(before, i) ==
    IF i \in Rollovers(before) THEN 0 ELSE before[i].close - before[i - 1].close
FuturesContinueNewest ==
    source = "futures" /\ df # << >> =>
        LET before == DropMissing(raw) IN
        /\ stage = "cut" =>
              /\ Last(df) = Last(before)
              /\ \A i \in 2 .. Len(df) : df[i].close - df[i - 1].close = Step(before, i)
        /\ stage = "validate" =>
              \A k \in 2 .. Len(df) : \E i \in 2 .. Len(before) :
                  /\ df[k].date = before[i].date /\ df[k - 1].date = before[i - 1].date
                  /\ df[k].close - df[k - 1].close = Step(before, i)
AdjustedToNewest == SharesContinueNewest /\ FuturesContinueNewest

(* A row that was inconsistent as it was answered makes the report red, adjusted
   or not, if it was not dropped, for a missing value or a date not asked for, and
   if adjusting did not round away what was wrong: it does when the prices differ
   by no more than a unit after it.  Adjusting makes no row inconsistent.        *)
InconsistentBy(row, by, over) ==
    \/ (row.low - row.high) * by > over \/ (row.open - row.high) * by > over
    \/ (row.close - row.high) * by > over
    \/ (row.low - row.open) * by > over \/ (row.low - row.close) * by > over
BadRow(i) ==
    /\ ~raw[i].missing
    /\ source = "futures" => Within(raw[i])
    /\ IF Adjusting THEN InconsistentBy(raw[i], FilledIn(factor)[i], Divisor(FilledIn(factor)))
                    ELSE Inconsistent(raw[i])
BadRowsAreRed ==
    report # NoReport =>
        /\ df # << >> /\ (\E i \in DOMAIN raw : BadRow(i)) => report.badge = "red"
        /\ report.counts.ohlc > 0 => \E i \in DOMAIN raw : ~raw[i].missing /\ Inconsistent(raw[i])

(* A crypto call returns candles without a hole and without repetition, up to the
   newest, if the exchange answers pages as long as asked for; if its pages are
   shorter, it returns the first and no more.  A candle that was still forming is
   the last, or the last of a full page.                                       *)
CryptoPagesComplete ==
    source = "crypto" /\ stage = "done" =>
        /\ \A k \in 2 .. Len(all_bars) : all_bars[k].candle = all_bars[k - 1].candle + 1
        /\ cap >= PageLimit /\ all_bars # << >> => Last(all_bars).candle = newest
        /\ cap < PageLimit => Len(all_bars) <= cap
        /\ \A k \in DOMAIN all_bars :
              all_bars[k].partial => k = Len(all_bars) \/ k % PageLimit = 0
================================================================================
