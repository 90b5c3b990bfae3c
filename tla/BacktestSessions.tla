--------------------------- MODULE BacktestSessions ---------------------------
(*****************************************************************************)
(* Backtests started from the dashboard.  Every browser session runs         *)
(* BacktestEngine.run (src/backtest/engine.py) in a thread of the one        *)
(* dashboard process, and all of them share the SymbolRegistry               *)
(* (src/core/object.py): two class-level dictionaries without a lock.  The   *)
(* steps are the dictionary operations between which threads may switch.     *)
(* Before anything else run() asks get_settings, whose cache the pages share: *)
(* those steps are the ones of SettingsPage.                                 *)
(*                                                                           *)
(* run() gets no further than the construction of the Rust runner, which it  *)
(* calls with keywords the class does not have: the exception reaches the    *)
(* page, which shows it.                                                     *)
(*****************************************************************************)
EXTENDS SettingsPage, Integers, Sequences, FiniteSets

CONSTANTS
    Symbols,
    Portfolios,    \* symbol lists a user may enter
    Cached         \* symbols with bars in the database

ASSUME SessionsAssumption ==
    /\ Portfolios \subseteq Seq(Symbols)
    /\ Cached \subseteq Symbols /\ IsFiniteSet(Cached)

VARIABLES
    strToId, idToStr,   \* SymbolRegistry
    at,                 \* per session: where its run stands
    todo,               \* per session: symbols still to load
    sid,                \* per session: the local variable of get_or_register
    labels,             \* per session: symbol and id of every frame its run loaded
    outcome,            \* per session: how its latest run ended
    overlapped          \* sessions whose latest run was not alone

registryVars == <<strToId, idToStr>>
sessionVars == <<registryVars, at, todo, sid, labels, outcome, overlapped>>

NoId == -1
Empty == << >>
Inserted(f, key, value) == [k \in DOMAIN f \cup {key} |-> IF k = key THEN value ELSE f[k]]
Busy == {t \in Sessions : at[t] # "idle"}
Goto(t, label) == at' = [at EXCEPT ![t] = label]

SessionsInit ==
    /\ strToId = Empty
    /\ idToStr = Empty
    /\ at = [t \in Sessions |-> "idle"]
    /\ todo = [t \in Sessions |-> << >>]
    /\ sid = [t \in Sessions |-> NoId]
    /\ labels = [t \in Sessions |-> << >>]
    /\ outcome = [t \in Sessions |-> "none"]
    /\ overlapped = {}

(* "Run Backtest": run() up to the call of get_settings. *)
RunBacktest(t, symbols) ==
    /\ at[t] = "idle"
    /\ todo' = [todo EXCEPT ![t] = symbols]
    /\ outcome' = [outcome EXCEPT ![t] = "none"]
    /\ overlapped' = IF Busy = {} THEN overlapped \ {t} ELSE overlapped \cup Busy \cup {t}
    /\ Goto(t, "settings")
    /\ CallSettings(t)
    /\ UNCHANGED <<registryVars, sid, labels>>

(* get_settings returned, and _load_bars is called; or it raised. *)
SettingsReturned(t) ==
    /\ at[t] = "settings"
    /\ ~Running(t)
    /\ IF answer[t] # None
       THEN Goto(t, "clear") /\ UNCHANGED <<todo, outcome>>
       ELSE /\ Goto(t, "idle")
            /\ outcome' = [outcome EXCEPT ![t] = "SettingsError"]
            /\ todo' = [todo EXCEPT ![t] = << >>]
    /\ answer' = [answer EXCEPT ![t] = None]
    /\ UNCHANGED <<registryVars, sid, labels, overlapped, file, cache, step, edit, form, disturbed>>

(* SymbolRegistry.reset() *)
ClearStrings(t) ==
    /\ at[t] = "clear"
    /\ strToId' = Empty
    /\ Goto(t, "clearIds")
    /\ UNCHANGED <<idToStr, todo, sid, labels, outcome, overlapped>>
ClearIds(t) ==
    /\ at[t] = "clearIds"
    /\ idToStr' = Empty
    /\ Goto(t, "load")
    /\ UNCHANGED <<strToId, todo, sid, labels, outcome, overlapped>>

(* The loop of _load_bars: a symbol without bars is skipped. *)
Load(t) ==
    /\ at[t] = "load"
    /\ todo[t] # << >>
    /\ IF Head(todo[t]) \in Cached
       THEN /\ Goto(t, "test")
            /\ UNCHANGED todo
       ELSE /\ todo' = [todo EXCEPT ![t] = Tail(@)]
            /\ UNCHANGED at
    /\ UNCHANGED <<registryVars, sid, labels, outcome, overlapped>>

(* SymbolRegistry.get_or_register(symbol) *)
Test_Missing(t) ==
    /\ at[t] = "test"
    /\ Goto(t, "count")
    /\ UNCHANGED <<registryVars, todo, sid, labels, outcome, overlapped>>
Test(t) ==
    /\ at[t] = "test"
    /\ Goto(t, IF Head(todo[t]) \in DOMAIN strToId THEN "read" ELSE "count")
    /\ UNCHANGED <<registryVars, todo, sid, labels, outcome, overlapped>>
Count(t) ==
    /\ at[t] = "count"
    /\ sid' = [sid EXCEPT ![t] = Cardinality(DOMAIN strToId)]
    /\ Goto(t, "insert")
    /\ UNCHANGED <<registryVars, todo, labels, outcome, overlapped>>
InsertString(t) ==
    /\ at[t] = "insert"
    /\ strToId' = Inserted(strToId, Head(todo[t]), sid[t])
    /\ Goto(t, "insertId")
    /\ UNCHANGED <<idToStr, todo, sid, labels, outcome, overlapped>>
InsertId(t) ==
    /\ at[t] = "insertId"
    /\ idToStr' = Inserted(idToStr, sid[t], Head(todo[t]))
    /\ sid' = [sid EXCEPT ![t] = NoId]
    /\ Goto(t, "read")
    /\ UNCHANGED <<strToId, todo, labels, outcome, overlapped>>

(* It reads the id back, so a reset by another session raises KeyError; the
   frame is labelled with what it read.                                     *)
ReadBack(t) ==
    /\ at[t] = "read"
    /\ IF Head(todo[t]) \in DOMAIN strToId
       THEN /\ labels' = [labels EXCEPT ![t] =
                   Append(@, [symbol |-> Head(todo[t]), id |-> strToId[Head(todo[t])]])]
            /\ todo' = [todo EXCEPT ![t] = Tail(@)]
            /\ Goto(t, "load")
            /\ UNCHANGED outcome
       ELSE /\ outcome' = [outcome EXCEPT ![t] = "KeyError"]
            /\ todo' = [todo EXCEPT ![t] = << >>]
            /\ Goto(t, "idle")
            /\ labels' = [labels EXCEPT ![t] = << >>]
    /\ UNCHANGED <<registryVars, sid, overlapped>>

(* Nothing was loaded: ValueError.  Else the strategy is initialised and the
   construction of the runner raises TypeError; on_stop is never called.     *)
EndRun(t) ==
    /\ at[t] = "load"
    /\ todo[t] = << >>
    /\ outcome' = [outcome EXCEPT ![t] = IF labels[t] = << >> THEN "ValueError" ELSE "TypeError"]
    /\ labels' = [labels EXCEPT ![t] = << >>]
    /\ Goto(t, "idle")
    /\ UNCHANGED <<registryVars, todo, sid, overlapped>>

(* The process ends, and with it its threads and its registry. *)
RestartSessions ==
    /\ RestartDashboard
    /\ strToId' = Empty /\ idToStr' = Empty
    /\ at' = [t \in Sessions |-> "idle"]
    /\ todo' = [t \in Sessions |-> << >>]
    /\ sid' = [t \in Sessions |-> NoId]
    /\ labels' = [t \in Sessions |-> << >>]
    /\ outcome' = [t \in Sessions |-> "none"]
    /\ overlapped' = {}

RunStep(t) ==
    \/ ClearStrings(t) \/ ClearIds(t) \/ Load(t) \/ Test(t) \/ Count(t)
    \/ InsertString(t) \/ InsertId(t) \/ ReadBack(t) \/ EndRun(t)
SessionsNext ==
    \E t \in Sessions :
        \/ at[t] = "settings" /\ SettingsStep(t) /\ UNCHANGED sessionVars
        \/ SettingsReturned(t)
        \/ RunStep(t) /\ UNCHANGED settingsVars
        \/ \E symbols \in Portfolios : RunBacktest(t, symbols)

-----------------------------------------------------------------------------
Label == [symbol : Cached, id : Nat]
Registering == {"test", "count", "insert", "insertId", "read"}
SessionsTypeOK ==
    /\ DOMAIN strToId \subseteq Cached /\ \A s \in DOMAIN strToId : strToId[s] \in Nat
    /\ \A n \in DOMAIN idToStr : n \in Nat /\ idToStr[n] \in Cached
    /\ at \in [Sessions -> {"idle", "settings", "clear", "clearIds", "load"} \cup Registering]
    /\ todo \in [Sessions -> Seq(Symbols)]
    /\ sid \in [Sessions -> Nat \cup {NoId}]
    /\ labels \in [Sessions -> Seq(Label)]
    /\ outcome \in [Sessions -> {"none", "KeyError", "ValueError", "TypeError", "SettingsError"}]
    /\ overlapped \subseteq Sessions
    /\ \A t \in Sessions : at[t] \in Registering => todo[t] # << >> /\ Head(todo[t]) \in Cached
    /\ \A t \in Sessions : at[t] \in {"insert", "insertId"} => sid[t] \in Nat
    /\ \A t \in Sessions : at[t] \in {"idle", "settings", "clear", "clearIds"} => labels[t] = << >>

(* A backtest that was alone finds every symbol it registered, and labels its
   bars so that the id tells the symbol: callbacks attribute every bar and trade
   to the symbol it belongs to, and the registry agrees, whatever backtests ran
   before.                                                                    *)
LabelsTellSymbols ==
    \A t \in Sessions \ overlapped :
        /\ outcome[t] # "KeyError"
        /\ \A i, j \in DOMAIN labels[t] :
              /\ labels[t][i].id = labels[t][j].id <=> labels[t][i].symbol = labels[t][j].symbol
              /\ labels[t][i].id < Cardinality(Cached)
              /\ at[t] # "idle" /\ at[t] \notin {"settings", "clear", "clearIds"}
                     => idToStr[labels[t][i].id] = labels[t][i].symbol

(* "Thread-safe singleton: symbol string <-> u32 ID bidirectional mapping":
   no two symbols have one id, however many threads register them.           *)
ThreadSafeRegistry ==
    \A s1, s2 \in DOMAIN strToId : strToId[s1] = strToId[s2] => s1 = s2
==============================================================================
