-------------------------- MODULE DashboardProofs --------------------------
(*****************************************************************************)
(* Theorems about the backtests, the grid search and the settings of the      *)
(* dashboard, for any number of sessions, symbols, portfolios, combinations   *)
(* and versions of the settings.                                              *)
(*****************************************************************************)
EXTENDS Dashboard, FiniteSetTheorems, TLAPS

(* The invariant.  A session that did not overlap has the registry to itself
   while it runs; the registry is then a bijection, but for the symbol that is
   being inserted, and labels are read from it.                              *)
HasRegistry(t) == at[t] \in {"load"} \cup Registering
Size == Cardinality(DOMAIN strToId)
Inserting(t, s) == at[t] = "insertId" /\ s = Head(todo[t])
Known(t, s) ==
    /\ strToId[s] < Size
    /\ IF Inserting(t, s) THEN strToId[s] = sid[t] /\ sid[t] = Size - 1
       ELSE /\ strToId[s] \in DOMAIN idToStr /\ idToStr[strToId[s]] = s
            /\ at[t] = "insertId" => strToId[s] < sid[t]
Labelled(t, i) ==
    /\ labels[t][i].symbol \in DOMAIN strToId
    /\ labels[t][i].id = strToId[labels[t][i].symbol]
    /\ ~Inserting(t, labels[t][i].symbol)
AtItsPlace(t) ==
    /\ at[t] = "clearIds" => DOMAIN strToId = {}
    /\ at[t] \in {"count", "insert"} => Head(todo[t]) \notin DOMAIN strToId
    /\ at[t] = "insert" => sid[t] = Size
    /\ at[t] \in {"insertId", "read"} => Head(todo[t]) \in DOMAIN strToId
Fine(t) ==
    /\ outcome[t] # "KeyError"
    /\ \A i, j \in DOMAIN labels[t] :
          /\ labels[t][i].id = labels[t][j].id <=> labels[t][i].symbol = labels[t][j].symbol
          /\ labels[t][i].id < Cardinality(Cached)
Owned(t) ==
    /\ at[t] # "idle" => \A u \in Sessions : at[u] # "idle" => u = t
    /\ Fine(t)
    /\ AtItsPlace(t)
    /\ HasRegistry(t) =>
          /\ \A s \in DOMAIN strToId : Known(t, s)
          /\ \A i \in DOMAIN labels[t] : Labelled(t, i)
SessionsInv == \A t \in Sessions \ overlapped : Owned(t)

-----------------------------------------------------------------------------
LEMMA InsertedIs ==
    ASSUME NEW f, NEW key, NEW value
    PROVE  /\ DOMAIN Inserted(f, key, value) = DOMAIN f \cup {key}
           /\ Inserted(f, key, value)[key] = value
           /\ \A k \in DOMAIN f : k # key => Inserted(f, key, value)[k] = f[k]
BY DEF Inserted

LEMMA SizeType ==
    ASSUME SessionsTypeOK
    PROVE  /\ IsFiniteSet(DOMAIN strToId)
           /\ Size \in Nat /\ Cardinality(Cached) \in Nat /\ Size <= Cardinality(Cached)
<1>1. IsFiniteSet(Cached) /\ DOMAIN strToId \in SUBSET Cached
  BY SessionsAssumption DEF SessionsTypeOK
<1> QED
  BY <1>1, FS_Subset, FS_CardinalityType DEF Size

(* Type correctness, one step per action of a session. *)
LEMMA SessionsTypeInit == SessionsInit => SessionsTypeOK
BY DEF SessionsInit, SessionsTypeOK, Empty, Registering

LEMMA SessionsTypeStep ==
    ASSUME SessionsTypeOK, NEW t \in Sessions
    PROVE  /\ RunStep(t) \/ SettingsReturned(t) => SessionsTypeOK'
           /\ \A symbols \in Portfolios : RunBacktest(t, symbols) => SessionsTypeOK'
<1> USE DEF SessionsTypeOK, Goto, Registering
<1>1. ASSUME NEW symbols \in Portfolios, RunBacktest(t, symbols) PROVE SessionsTypeOK'
  <2>1. symbols \in Seq(Symbols) /\ << >> \in Seq(Label)
    BY SessionsAssumption
  <2>2. overlapped' \subseteq Sessions
    BY <1>1 DEF RunBacktest, Busy
  <2> QED
    BY <1>1, <2>1, <2>2 DEF RunBacktest, registryVars
<1>2. CASE ClearStrings(t)
  BY <1>2 DEF ClearStrings, Empty
<1>3. CASE ClearIds(t)
  <2>1. DOMAIN idToStr' = {}
    BY <1>3 DEF ClearIds, Empty
  <2>2. at' = [at EXCEPT ![t] = "load"] /\ at[t] = "clearIds"
    BY <1>3 DEF ClearIds
  <2>3. UNCHANGED <<strToId, todo, sid, labels, outcome, overlapped>>
    BY <1>3 DEF ClearIds
  <2> QED
    BY <2>1, <2>2, <2>3
<1>4. CASE Load(t)
  <2>1. CASE Head(todo[t]) \in Cached
    BY <1>4, <2>1 DEF Load, registryVars
  <2>2. CASE Head(todo[t]) \notin Cached
    <3>1. Tail(todo[t]) \in Seq(Symbols)
      BY <1>4 DEF Load
    <3> QED
      BY <1>4, <2>2, <3>1 DEF Load, registryVars
  <2> QED
    BY <2>1, <2>2
<1>5. CASE Test(t)
  BY <1>5 DEF Test, registryVars
<1>6. CASE Count(t)
  <2>1. Cardinality(DOMAIN strToId) \in Nat
    BY SizeType DEF Size
  <2> QED
    BY <1>6, <2>1 DEF Count, registryVars
<1>7. CASE InsertString(t)
  BY <1>7 DEF InsertString, Inserted
<1>8. CASE InsertId(t)
  BY <1>8 DEF InsertId, Inserted
<1>9. CASE ReadBack(t)
  <2>1. CASE Head(todo[t]) \in DOMAIN strToId
    <3>1. Tail(todo[t]) \in Seq(Symbols)
      BY <1>9 DEF ReadBack
    <3>2. [symbol |-> Head(todo[t]), id |-> strToId[Head(todo[t])]] \in Label
      BY <2>1 DEF Label
    <3>3. Append(labels[t], [symbol |-> Head(todo[t]), id |-> strToId[Head(todo[t])]]) \in Seq(Label)
      BY <3>2
    <3> QED
      BY <1>9, <2>1, <3>1, <3>3 DEF ReadBack, registryVars
  <2>2. CASE Head(todo[t]) \notin DOMAIN strToId
    <3>1. << >> \in Seq(Symbols) /\ << >> \in Seq(Label)
      OBVIOUS
    <3>2. /\ outcome' = [outcome EXCEPT ![t] = "KeyError"]
          /\ todo' = [todo EXCEPT ![t] = << >>]
          /\ labels' = [labels EXCEPT ![t] = << >>]
          /\ at' = [at EXCEPT ![t] = "idle"]
          /\ UNCHANGED <<strToId, idToStr, sid, overlapped>>
      BY <1>9, <2>2 DEF ReadBack, registryVars
    <3>3. /\ todo' \in [Sessions -> Seq(Symbols)] /\ labels' \in [Sessions -> Seq(Label)]
          /\ at' \in [Sessions -> {"idle", "settings", "clear", "clearIds", "load"} \cup Registering]
          /\ outcome' \in [Sessions -> {"none", "KeyError", "ValueError", "TypeError", "SettingsError"}]
      BY <3>1, <3>2
    <3>4. ASSUME NEW u \in Sessions
          PROVE  /\ at'[u] \in Registering => todo'[u] # << >> /\ Head(todo'[u]) \in Cached
                 /\ at'[u] \in {"insert", "insertId"} => sid'[u] \in Nat
                 /\ at'[u] \in {"idle", "settings", "clear", "clearIds"} => labels'[u] = << >>
      BY <3>2
    <3> QED
      BY <3>2, <3>3, <3>4
  <2> QED
    BY <2>1, <2>2
<1>10. CASE EndRun(t)
  <2>1. << >> \in Seq(Label)
    OBVIOUS
  <2> QED
    BY <1>10, <2>1 DEF EndRun, registryVars
<1>11. CASE SettingsReturned(t)
  <2>1. << >> \in Seq(Symbols)
    OBVIOUS
  <2> QED
    BY <1>11, <2>1 DEF SettingsReturned, registryVars
<1> QED
  BY <1>1, <1>2, <1>3, <1>4, <1>5, <1>6, <1>7, <1>8, <1>9, <1>10, <1>11 DEF RunStep

-----------------------------------------------------------------------------
(* The invariant, one lemma per kind of step.  Nothing that another session does
   concerns a session that did not overlap: it is idle, and keeps its labels.   *)
LEMMA IdleStaysOwned ==
    ASSUME SessionsTypeOK, NEW u \in Sessions, Fine(u), at'[u] = "idle",
           labels'[u] = labels[u], outcome'[u] = outcome[u]
    PROVE  Owned(u)'
BY DEF Owned, Fine, AtItsPlace, HasRegistry, Registering

LEMMA RunStepOthers ==
    ASSUME SessionsTypeOK, SessionsInv, NEW t \in Sessions, RunStep(t) \/ SettingsReturned(t),
           NEW u \in Sessions \ overlapped', u # t
    PROVE  Owned(u)'
<1> DEFINE Keeps == /\ at[t] # "idle" /\ overlapped' = overlapped
                    /\ at'[u] = at[u] /\ labels'[u] = labels[u] /\ outcome'[u] = outcome[u]
<1>1. Keeps
  <2> USE DEF SessionsTypeOK, Goto, registryVars
  <2>1. CASE ClearStrings(t)
    BY <2>1 DEF ClearStrings
  <2>2. CASE ClearIds(t)
    BY <2>2 DEF ClearIds
  <2>3. CASE Load(t)
    BY <2>3 DEF Load
  <2>4. CASE Test(t)
    BY <2>4 DEF Test
  <2>5. CASE Count(t)
    BY <2>5 DEF Count
  <2>6. CASE InsertString(t)
    BY <2>6 DEF InsertString
  <2>7. CASE InsertId(t)
    BY <2>7 DEF InsertId
  <2>8. CASE ReadBack(t)
    BY <2>8 DEF ReadBack
  <2>9. CASE EndRun(t)
    BY <2>9 DEF EndRun
  <2>10. CASE SettingsReturned(t)
    BY <2>10 DEF SettingsReturned
  <2> QED
    BY <2>1, <2>2, <2>3, <2>4, <2>5, <2>6, <2>7, <2>8, <2>9, <2>10 DEF RunStep
<1>2. Owned(u) /\ u \in Sessions
  BY <1>1 DEF SessionsInv
<1>3. at[u] = "idle"
  BY <1>1, <1>2 DEF Owned
<1> QED
  BY <1>1, <1>2, <1>3, IdleStaysOwned DEF Owned

LEMMA RunBacktestOwned ==
    ASSUME SessionsTypeOK, SessionsInv, NEW t \in Sessions, NEW symbols \in Portfolios,
           RunBacktest(t, symbols), NEW u \in Sessions \ overlapped'
    PROVE  Owned(u)'
<1>1. u \in Sessions /\ at[u] = "idle"
  BY DEF RunBacktest, Busy
<1>2. CASE u # t
  <2>1. u \notin overlapped
    BY <1>2 DEF RunBacktest, Busy
  <2>2. Fine(u)
    BY <1>1, <2>1 DEF SessionsInv, Owned
  <2>3. at'[u] = "idle" /\ labels'[u] = labels[u] /\ outcome'[u] = outcome[u]
    BY <1>1, <1>2 DEF RunBacktest, Goto, SessionsTypeOK
  <2> QED
    BY <1>1, <2>2, <2>3, IdleStaysOwned
<1>3. CASE u = t
  <2>1. Busy = {}
    BY <1>3 DEF RunBacktest
  <2>2. at'[t] = "settings" /\ labels'[t] = << >> /\ outcome'[t] = "none"
        /\ \A v \in Sessions : v # t => at'[v] = at[v]
    BY DEF RunBacktest, Goto, SessionsTypeOK
  <2>3. \A v \in Sessions : at'[v] # "idle" => v = t
    BY <2>1, <2>2 DEF Busy
  <2> QED
    BY <1>3, <2>2, <2>3 DEF Owned, Fine, AtItsPlace, HasRegistry, Registering
<1> QED
  BY <1>2, <1>3

(* A session that did not overlap is the only one busy after its own steps. *)
LEMMA OwnIsAlone ==
    ASSUME SessionsTypeOK, NEW t \in Sessions, Owned(t), at[t] # "idle",
           \A v \in Sessions : v # t => at'[v] = at[v]
    PROVE  \A v \in Sessions : at'[v] # "idle" => v = t
BY DEF Owned

LEMMA ClearOwned ==
    ASSUME SessionsTypeOK, NEW t \in Sessions, Owned(t), ClearStrings(t) \/ ClearIds(t)
    PROVE  Owned(t)'
<1> USE DEF SessionsTypeOK, Goto
<1>1. /\ at[t] # "idle" /\ labels' = labels /\ outcome' = outcome
      /\ \A v \in Sessions : v # t => at'[v] = at[v]
      /\ labels[t] = << >>
  BY DEF ClearStrings, ClearIds, Owned, AtItsPlace
<1>2. \A v \in Sessions : at'[v] # "idle" => v = t
  BY <1>1, OwnIsAlone
<1>3. Fine(t)'
  BY <1>1 DEF Fine, Owned
<1>4. CASE ClearStrings(t)
  <2>1. at'[t] = "clearIds" /\ DOMAIN strToId' = {}
    BY <1>4 DEF ClearStrings, Empty
  <2> QED
    BY <1>1, <1>2, <1>3, <2>1 DEF Owned, AtItsPlace, HasRegistry, Registering
<1>5. CASE ClearIds(t)
  <2>1. at'[t] = "load" /\ DOMAIN strToId' = {}
    BY <1>5 DEF ClearIds, Owned, AtItsPlace
  <2>2. DOMAIN labels'[t] = {}
    BY <1>1
  <2> QED
    BY <1>2, <1>3, <2>1, <2>2 DEF Owned, AtItsPlace
<1> QED
  BY <1>4, <1>5

(* Steps that leave the registry and the labels alone: the place moves. *)
LEMMA LookOwned ==
    ASSUME SessionsTypeOK, NEW t \in Sessions, Owned(t),
           Load(t) \/ Test(t) \/ Count(t)
    PROVE  Owned(t)'
<1> USE DEF SessionsTypeOK, Goto, registryVars
<1>1. /\ at[t] \in {"load", "test", "count"}
      /\ strToId' = strToId /\ idToStr' = idToStr /\ labels' = labels
      /\ \A v \in Sessions : v # t => at'[v] = at[v]
  BY DEF Load, Test, Count
<1>2. \A v \in Sessions : at'[v] # "idle" => v = t
  BY <1>1, OwnIsAlone
<1>3. Fine(t)'
  <2>1. outcome'[t] # "KeyError"
    BY DEF Owned, Fine, Load, Test, Count
  <2> QED
    BY <1>1, <2>1 DEF Fine, Owned
<1>4. /\ \A s \in DOMAIN strToId : Known(t, s)
      /\ \A i \in DOMAIN labels[t] : Labelled(t, i)
  BY <1>1 DEF Owned, HasRegistry, Registering
<1>5. at'[t] \in {"load", "test", "count", "insert", "read"}
  BY DEF Load, Test, Count
<1>6. /\ \A s \in DOMAIN strToId' : Known(t, s)'
      /\ \A i \in DOMAIN labels'[t] : Labelled(t, i)'
  BY <1>1, <1>4, <1>5 DEF Known, Labelled, Inserting, Size
<1>7. AtItsPlace(t)'
  <2>1. CASE Load(t)
    <3>1. at'[t] \in {"load", "test"}
      BY <2>1 DEF Load
    <3> QED
      BY <3>1 DEF AtItsPlace
  <2>2. CASE Test(t)
    <3>1. todo' = todo /\ at'[t] = IF Head(todo[t]) \in DOMAIN strToId THEN "read" ELSE "count"
      BY <2>2 DEF Test
    <3> QED
      BY <1>1, <3>1 DEF AtItsPlace
  <2>3. CASE Count(t)
    <3>1. todo' = todo /\ at'[t] = "insert" /\ at[t] = "count" /\ sid'[t] = Size
      BY <2>3 DEF Count, Size
    <3> QED
      BY <1>1, <3>1 DEF AtItsPlace, Owned, Size
  <2> QED
    BY <2>1, <2>2, <2>3
<1> QED
  BY <1>2, <1>3, <1>6, <1>7 DEF Owned

(* The call of get_settings before the registry is touched, and the end. *)
LEMMA EndsOwned ==
    ASSUME SessionsTypeOK, NEW t \in Sessions, Owned(t), SettingsReturned(t) \/ EndRun(t)
    PROVE  Owned(t)'
<1> USE DEF SessionsTypeOK, Goto, registryVars
<1>1. /\ at[t] # "idle" /\ at'[t] \in {"idle", "clear"}
      /\ labels'[t] = << >> /\ outcome'[t] # "KeyError"
      /\ \A v \in Sessions : v # t => at'[v] = at[v]
  <2>1. CASE SettingsReturned(t)
    <3>1. at[t] = "settings" /\ labels' = labels /\ outcome[t] # "KeyError"
      BY <2>1 DEF SettingsReturned, Owned, Fine
    <3> QED
      BY <2>1, <3>1 DEF SettingsReturned
  <2>2. CASE EndRun(t)
    BY <2>2 DEF EndRun
  <2> QED
    BY <2>1, <2>2
<1>2. \A v \in Sessions : at'[v] # "idle" => v = t
  BY <1>1, OwnIsAlone
<1> QED
  BY <1>1, <1>2 DEF Owned, Fine, AtItsPlace, HasRegistry, Registering

LEMMA InsertStringOwned ==
    ASSUME SessionsTypeOK, NEW t \in Sessions, Owned(t), InsertString(t)
    PROVE  Owned(t)'
<1> DEFINE h == Head(todo[t])
<1>1. /\ at[t] = "insert" /\ at'[t] = "insertId"
      /\ strToId' = Inserted(strToId, h, sid[t])
      /\ idToStr' = idToStr /\ todo' = todo /\ sid' = sid
      /\ labels' = labels /\ outcome' = outcome
      /\ \A v \in Sessions : v # t => at'[v] = at[v]
  BY DEF InsertString, Goto, SessionsTypeOK
<1>2. h \notin DOMAIN strToId /\ sid[t] = Size
  BY <1>1 DEF Owned, AtItsPlace
<1>3. DOMAIN strToId' = DOMAIN strToId \cup {h} /\ strToId'[h] = sid[t]
      /\ \A s \in DOMAIN strToId : strToId'[s] = strToId[s]
  BY <1>1, <1>2 DEF Inserted
<1>4. Size' = Size + 1 /\ Size \in Nat
  BY <1>2, <1>3, SizeType, FS_AddElement DEF Size
<1>5. /\ \A s \in DOMAIN strToId : strToId[s] \in Nat /\ Known(t, s) /\ ~Inserting(t, s)
      /\ \A i \in DOMAIN labels[t] : Labelled(t, i)
  BY <1>1 DEF Owned, HasRegistry, Registering, Inserting, SessionsTypeOK
<1>6. ASSUME NEW s \in DOMAIN strToId'
      PROVE  Known(t, s)'
  <2>1. CASE s = h
    BY <1>1, <1>2, <1>3, <1>4, <2>1 DEF Known, Inserting
  <2>2. CASE s # h
    <3>1. /\ s \in DOMAIN strToId /\ strToId'[s] = strToId[s] /\ strToId[s] \in Nat
          /\ strToId[s] < Size /\ strToId[s] \in DOMAIN idToStr /\ idToStr[strToId[s]] = s
      BY <1>3, <1>5, <2>2 DEF Known
    <3> QED
      BY <1>1, <1>2, <1>4, <2>2, <3>1 DEF Known, Inserting
  <2> QED
    BY <2>1, <2>2
<1>7. \A i \in DOMAIN labels'[t] : Labelled(t, i)'
  BY <1>1, <1>2, <1>3, <1>5 DEF Labelled, Inserting
<1>8. Fine(t)' /\ AtItsPlace(t)'
  BY <1>1, <1>3 DEF Owned, Fine, AtItsPlace
<1>9. \A v \in Sessions : at'[v] # "idle" => v = t
  BY <1>1, OwnIsAlone
<1> QED
  BY <1>6, <1>7, <1>8, <1>9 DEF Owned

LEMMA InsertIdOwned ==
    ASSUME SessionsTypeOK, NEW t \in Sessions, Owned(t), InsertId(t)
    PROVE  Owned(t)'
<1> DEFINE h == Head(todo[t])
<1>1. /\ at[t] = "insertId" /\ at'[t] = "read"
      /\ idToStr' = Inserted(idToStr, sid[t], h)
      /\ strToId' = strToId /\ todo' = todo
      /\ labels' = labels /\ outcome' = outcome
      /\ \A v \in Sessions : v # t => at'[v] = at[v]
  BY DEF InsertId, Goto, SessionsTypeOK
<1>2. h \in DOMAIN strToId /\ sid[t] \in Nat
  BY <1>1 DEF Owned, AtItsPlace, SessionsTypeOK
<1>3. /\ DOMAIN idToStr' = DOMAIN idToStr \cup {sid[t]} /\ idToStr'[sid[t]] = h
      /\ \A n \in DOMAIN idToStr : n # sid[t] => idToStr'[n] = idToStr[n]
  BY <1>1 DEF Inserted
<1>4. /\ \A s \in DOMAIN strToId : strToId[s] \in Nat /\ Known(t, s)
      /\ \A i \in DOMAIN labels[t] : Labelled(t, i)
  BY <1>1 DEF Owned, HasRegistry, Registering, SessionsTypeOK
<1>5. ASSUME NEW s \in DOMAIN strToId'
      PROVE  Known(t, s)'
  <2>1. CASE s = h
    <3>1. strToId[h] < Size /\ strToId[h] = sid[t]
      BY <1>1, <1>2, <1>4 DEF Known, Inserting
    <3> QED
      BY <1>1, <1>3, <2>1, <3>1 DEF Known, Inserting, Size
  <2>2. CASE s # h
    <3>1. /\ s \in DOMAIN strToId /\ strToId[s] \in Nat /\ strToId[s] < Size
          /\ strToId[s] \in DOMAIN idToStr /\ idToStr[strToId[s]] = s /\ strToId[s] < sid[t]
      BY <1>1, <1>4, <2>2 DEF Known, Inserting
    <3>2. strToId[s] # sid[t]
      BY <1>2, <3>1
    <3> QED
      BY <1>1, <1>3, <3>1, <3>2 DEF Known, Inserting, Size
  <2> QED
    BY <2>1, <2>2
<1>6. \A i \in DOMAIN labels'[t] : Labelled(t, i)'
  BY <1>1, <1>4 DEF Labelled, Inserting
<1>7. Fine(t)' /\ AtItsPlace(t)'
  BY <1>1, <1>2 DEF Owned, Fine, AtItsPlace
<1>8. \A v \in Sessions : at'[v] # "idle" => v = t
  BY <1>1, OwnIsAlone
<1> QED
  BY <1>5, <1>6, <1>7, <1>8 DEF Owned

LEMMA ReadBackOwned ==
    ASSUME SessionsTypeOK, NEW t \in Sessions, Owned(t), ReadBack(t)
    PROVE  Owned(t)'
<1> DEFINE h == Head(todo[t])
           new == [symbol |-> h, id |-> strToId[h]]
<1>1. at[t] = "read" /\ h \in DOMAIN strToId
  BY DEF ReadBack, Owned, AtItsPlace
<1>2. /\ at'[t] = "load" /\ labels'[t] = Append(labels[t], new)
      /\ strToId' = strToId /\ idToStr' = idToStr /\ outcome' = outcome
      /\ \A v \in Sessions : v # t => at'[v] = at[v]
  BY <1>1 DEF ReadBack, Goto, registryVars, SessionsTypeOK
<1>3. /\ \A s \in DOMAIN strToId : strToId[s] \in Nat /\ Known(t, s) /\ ~Inserting(t, s)
      /\ \A i \in DOMAIN labels[t] : Labelled(t, i)
  BY <1>1 DEF Owned, HasRegistry, Registering, Inserting, SessionsTypeOK
<1>4. labels[t] \in Seq(Label)
  BY DEF SessionsTypeOK
<1>5. ASSUME NEW i \in DOMAIN labels'[t]
      PROVE  /\ labels'[t][i].symbol \in DOMAIN strToId
             /\ labels'[t][i].id = strToId[labels'[t][i].symbol]
  <2>1. CASE i \in DOMAIN labels[t]
    <3>1. labels'[t][i] = labels[t][i]
      BY <1>2, <1>4, <2>1
    <3> QED
      BY <1>3, <2>1, <3>1 DEF Labelled
  <2>2. CASE i \notin DOMAIN labels[t]
    <3>1. labels'[t][i] = new
      BY <1>2, <1>4, <2>2
    <3> QED
      BY <1>1, <3>1
  <2> QED
    BY <2>1, <2>2
<1>6. /\ \A s \in DOMAIN strToId' : Known(t, s)'
      /\ \A i \in DOMAIN labels'[t] : Labelled(t, i)'
  BY <1>2, <1>3, <1>5 DEF Known, Labelled, Inserting, Size
<1>7. \A s1, s2 \in DOMAIN strToId : strToId[s1] = strToId[s2] => s1 = s2
  BY <1>3 DEF Known
<1>8. \A s \in DOMAIN strToId : strToId[s] < Cardinality(Cached)
  <2>1. Size \in Nat /\ Cardinality(Cached) \in Nat /\ Size <= Cardinality(Cached)
    BY SizeType
  <2> QED
    BY <1>3, <2>1 DEF Known
<1>9. Fine(t)'
  BY <1>2, <1>5, <1>7, <1>8 DEF Fine, Owned
<1>10. AtItsPlace(t)'
  BY <1>2 DEF AtItsPlace
<1>11. \A v \in Sessions : at'[v] # "idle" => v = t
  BY <1>1, <1>2, OwnIsAlone
<1> QED
  BY <1>6, <1>9, <1>10, <1>11 DEF Owned

LEMMA SessionsInvStep ==
    ASSUME SessionsTypeOK, SessionsInv, NEW t \in Sessions,
           RunStep(t) \/ SettingsReturned(t) \/ \E symbols \in Portfolios : RunBacktest(t, symbols)
    PROVE  SessionsInv'
<1>1. ASSUME RunStep(t) \/ SettingsReturned(t), NEW u \in Sessions \ overlapped'
      PROVE  Owned(u)'
  <2>1. CASE u # t
    BY <1>1, <2>1, RunStepOthers
  <2>2. CASE u = t
    <3>1. overlapped' = overlapped
      BY <1>1 DEF RunStep, SettingsReturned, ClearStrings, ClearIds, Load, Test, Count, InsertString,
                  InsertId, ReadBack, EndRun
    <3>2. Owned(t)
      BY <1>1, <2>2, <3>1 DEF SessionsInv
    <3> QED
      BY <1>1, <2>2, <3>2, ClearOwned, LookOwned, EndsOwned, InsertStringOwned, InsertIdOwned,
         ReadBackOwned DEF RunStep
  <2> QED
    BY <2>1, <2>2
<1> QED
  BY <1>1, RunBacktestOwned DEF SessionsInv

-----------------------------------------------------------------------------
LEMMA SessionsInvariant == Spec => [](SessionsTypeOK /\ SessionsInv)
<1>1. Init => SessionsTypeOK /\ SessionsInv
  <2>1. SessionsInit => SessionsInv
    <3>1. ASSUME SessionsInit, NEW t \in Sessions
          PROVE  at[t] = "idle" /\ labels[t] = << >> /\ outcome[t] = "none"
      BY <3>1 DEF SessionsInit
    <3>2. ASSUME SessionsInit, NEW t \in Sessions
          PROVE  Owned(t)
      BY <3>1, <3>2 DEF Owned, Fine, AtItsPlace, HasRegistry, Registering
    <3> QED
      BY <3>2 DEF SessionsInv
  <2> QED
    BY <2>1, SessionsTypeInit DEF Init
<1>2. SessionsTypeOK /\ SessionsInv /\ [Next]_vars => (SessionsTypeOK /\ SessionsInv)'
  <2> SUFFICES ASSUME SessionsTypeOK, SessionsInv, [Next]_vars
               PROVE  (SessionsTypeOK /\ SessionsInv)'
    OBVIOUS
  <2>1. ASSUME NEW t \in Sessions,
               RunStep(t) \/ SettingsReturned(t) \/ \E symbols \in Portfolios : RunBacktest(t, symbols)
        PROVE  (SessionsTypeOK /\ SessionsInv)'
    <3>2. CASE RunStep(t) \/ SettingsReturned(t)
      BY <3>2, SessionsInvStep, SessionsTypeStep
    <3>3. CASE \E symbols \in Portfolios : RunBacktest(t, symbols)
      BY <3>3, SessionsInvStep, SessionsTypeStep
    <3> QED
      BY <2>1, <3>2, <3>3
  <2>2. CASE UNCHANGED sessionVars
    BY <2>2 DEF sessionVars, registryVars, SessionsTypeOK, SessionsInv, Owned, Fine, AtItsPlace,
                HasRegistry, Known, Labelled, Inserting, Size
  <2>3. CASE Restart
    <3>1. SessionsTypeOK'
      BY <2>3 DEF Restart, RestartSessions, SessionsTypeOK, Empty, Registering
    <3>2. SessionsInv'
      BY <2>3 DEF Restart, RestartSessions, SessionsInv, Owned, Fine, AtItsPlace, HasRegistry,
                  Registering
    <3> QED
      BY <3>1, <3>2
  <2> QED
    BY <2>1, <2>2, <2>3 DEF Next, RunTab, SessionsNext, OptimizeTab, RiskPage, vars
<1> QED
  BY <1>1, <1>2, PTL DEF Spec

(* The shared registry of the dashboard never loses or confuses a symbol of a
   backtest that is alone, whatever other sessions did before, how many of them
   overlapped, and wherever they were broken off.                            *)
THEOREM BacktestsLabelsTellSymbols == Spec => []LabelsTellSymbols
<1>1. SessionsTypeOK /\ SessionsInv => LabelsTellSymbols
  <2> SUFFICES ASSUME SessionsTypeOK, SessionsInv PROVE LabelsTellSymbols
    OBVIOUS
  <2>1. ASSUME NEW t \in Sessions \ overlapped, NEW i \in DOMAIN labels[t],
               at[t] # "idle", at[t] \notin {"settings", "clear", "clearIds"}
        PROVE  idToStr[labels[t][i].id] = labels[t][i].symbol
    <3>1. HasRegistry(t)
      BY <2>1 DEF SessionsTypeOK, HasRegistry, Registering
    <3>2. Labelled(t, i) /\ \A s \in DOMAIN strToId : Known(t, s)
      BY <3>1 DEF SessionsInv, Owned
    <3>3. ~Inserting(t, labels[t][i].symbol) /\ labels[t][i].symbol \in DOMAIN strToId
      BY <3>2 DEF Labelled
    <3>4. idToStr[strToId[labels[t][i].symbol]] = labels[t][i].symbol
      BY <3>2, <3>3 DEF Known
    <3> QED
      BY <3>2, <3>4 DEF Labelled
  <2>2. ASSUME NEW t \in Sessions \ overlapped
        PROVE  Fine(t)
    BY DEF SessionsInv, Owned
  <2> QED
    BY <2>1, <2>2 DEF LabelsTellSymbols, Fine
<1> QED
  BY <1>1, SessionsInvariant, PTL

-----------------------------------------------------------------------------
(* The settings.  While nothing disturbs it, a session that saves is the only one
   that runs the page, and whatever was read from the file is still in it.    *)
FromFile(value) == IsSettings(file) /\ value = SettingsOf(file)
Undisturbed ==
    /\ \A t \in Sessions : Saving(t) => Alone(t)
    /\ (\A t \in Sessions : ~Saving(t)) /\ cache # None => FromFile(cache)
    /\ \A t \in Sessions :
          /\ step[t] \in {"keep", "keepAgain", "keepCall"} => FromFile(answer[t])
          /\ step[t] \in {"clear", "again", "readAgain", "keepAgain", "saved"} => file = edit[t]
          /\ step[t] \in {"again", "readAgain", "keepAgain"} => cache = None
          /\ step[t] = "saved" => FromFile(answer[t]) /\ cache = answer[t]
SettingsInv == ~disturbed => Undisturbed

(* Every step that concerns the settings. *)
SettingsChange ==
    \/ \E t \in Sessions : SettingsStep(t) \/ CallSettings(t) \/ SettingsReturned(t)
    \/ \E t \in Sessions, text \in Texts \cup {NoEdit} : RunPage(t, text)
    \/ \E text \in Texts : EditByHand(text)
    \/ RestartDashboard

LEMMA SettingsStateStep ==
    ASSUME SettingsStateOK, SettingsChange
    PROVE  SettingsStateOK'
<1> USE SettingsPageAssumption DEF SettingsStateOK, GoTo, Saving, Calling, Settings, SettingsOf, IsSettings,
        NoEdit, None, Texts, Blank, Malformed, Wrong
<1>1. ASSUME NEW t \in Sessions, NEW text \in Texts \cup {NoEdit}, RunPage(t, text)
      PROVE  SettingsStateOK'
  BY <1>1 DEF RunPage, Running
<1>a. ASSUME NEW t \in Sessions, CallSettings(t)
      PROVE  SettingsStateOK'
  BY <1>a DEF CallSettings, Running
<1>b. ASSUME NEW t \in Sessions, SettingsReturned(t)
      PROVE  SettingsStateOK'
  <2>1. /\ step[t] = "idle" /\ answer' = [answer EXCEPT ![t] = None]
        /\ UNCHANGED <<file, cache, step, edit, form, disturbed>>
    BY <1>b DEF SettingsReturned, Running
  <2> QED
    BY <2>1
<1>2. ASSUME NEW t \in Sessions, Look(t)
      PROVE  SettingsStateOK'
  <2>1. CASE cache # None
    <3>1. /\ answer' = [answer EXCEPT ![t] = cache]
          /\ UNCHANGED <<file, cache, edit, form, disturbed>>
      BY <1>2, <2>1 DEF Look, Returns
    <3>2. CASE step[t] = "look"
      <4>1. step' = [step EXCEPT ![t] = "render"]
        BY <1>2, <2>1, <3>2 DEF Look, Returns
      <4> QED
        BY <2>1, <3>1, <4>1
    <3>3. CASE step[t] = "again"
      <4>1. step' = [step EXCEPT ![t] = "saved"]
        BY <1>2, <2>1, <3>3 DEF Look, Returns
      <4> QED
        BY <2>1, <3>1, <3>3, <4>1
    <3>4. CASE step[t] = "call"
      <4>1. step' = [step EXCEPT ![t] = "idle"]
        BY <1>2, <2>1, <3>4 DEF Look, Returns
      <4> QED
        BY <2>1, <3>1, <4>1
    <3> QED
      BY <1>2, <3>2, <3>3, <3>4 DEF Look
  <2>2. CASE cache = None
    BY <1>2, <2>2 DEF Look
  <2> QED
    BY <2>1, <2>2
<1>3. ASSUME NEW t \in Sessions, Read(t)
      PROVE  SettingsStateOK'
  BY <1>3 DEF Read
<1>4. ASSUME NEW t \in Sessions, ReadRaises(t)
      PROVE  SettingsStateOK'
  BY <1>4 DEF ReadRaises, Raises
<1>5. ASSUME NEW t \in Sessions, Keep(t)
      PROVE  SettingsStateOK'
  BY <1>5 DEF Keep, Returns
<1>6. ASSUME NEW t \in Sessions, Render(t)
      PROVE  SettingsStateOK'
  BY <1>6 DEF Render
<1>7. ASSUME NEW t \in Sessions, OpenFile(t)
      PROVE  SettingsStateOK'
  BY <1>7 DEF OpenFile, Alone
<1>8. ASSUME NEW t \in Sessions, WriteFile(t)
      PROVE  SettingsStateOK'
  BY <1>8 DEF WriteFile
<1>9. ASSUME NEW t \in Sessions, ClearCache(t)
      PROVE  SettingsStateOK'
  BY <1>9 DEF ClearCache
<1>10. ASSUME NEW t \in Sessions, Saved(t)
       PROVE  SettingsStateOK'
  BY <1>10 DEF Saved
<1>11. ASSUME NEW text \in Texts, EditByHand(text)
       PROVE  SettingsStateOK'
  BY <1>11 DEF EditByHand
<1>12. CASE RestartDashboard
  BY <1>12 DEF RestartDashboard
<1> QED
  BY <1>1, <1>2, <1>3, <1>4, <1>5, <1>6, <1>7, <1>8, <1>9, <1>10, <1>11, <1>12, <1>a, <1>b
  DEF SettingsChange, SettingsStep

LEMMA SettingsInvStep ==
    ASSUME SettingsStateOK, SettingsInv, SettingsChange
    PROVE  SettingsInv'
<1> USE SettingsPageAssumption DEF SettingsStateOK, SettingsInv, Undisturbed, GoTo, Saving, Calling,
        Running, Alone, FromFile
<1>1. ASSUME NEW t \in Sessions, NEW text \in Texts \cup {NoEdit}, RunPage(t, text)
      PROVE  SettingsInv'
  BY <1>1 DEF RunPage
<1>a. ASSUME NEW t \in Sessions, CallSettings(t)
      PROVE  SettingsInv'
  BY <1>a DEF CallSettings
<1>b. ASSUME NEW t \in Sessions, SettingsReturned(t)
      PROVE  SettingsInv'
  <2>1. /\ step[t] = "idle" /\ answer' = [answer EXCEPT ![t] = None]
        /\ UNCHANGED <<file, cache, step, edit, disturbed>>
    BY <1>b DEF SettingsReturned
  <2> QED
    BY <2>1
<1>2. ASSUME NEW t \in Sessions, Look(t)
      PROVE  SettingsInv'
  <2>1. CASE cache # None
    <3>1. CASE step[t] = "look"
      <4>1. /\ step' = [step EXCEPT ![t] = "render"]
            /\ answer' = [answer EXCEPT ![t] = cache]
            /\ UNCHANGED <<file, cache, edit, disturbed>>
        BY <1>2, <2>1, <3>1 DEF Look, Returns
      <4> QED
        BY <3>1, <4>1
    <3>2. CASE step[t] = "again"
      <4>1. disturbed
        BY <2>1, <3>2
      <4> QED
        BY <1>2, <4>1 DEF Look
    <3>3. CASE step[t] = "call"
      <4>1. /\ step' = [step EXCEPT ![t] = "idle"]
            /\ answer' = [answer EXCEPT ![t] = cache]
            /\ UNCHANGED <<file, cache, edit, disturbed>>
        BY <1>2, <2>1, <3>3 DEF Look, Returns
      <4> QED
        BY <3>3, <4>1
    <3> QED
      BY <1>2, <3>1, <3>2, <3>3 DEF Look
  <2>2. CASE cache = None
    <3>1. CASE step[t] = "look"
      <4>1. /\ step' = [step EXCEPT ![t] = "read"]
            /\ UNCHANGED <<file, cache, edit, answer, disturbed>>
        BY <1>2, <2>2, <3>1 DEF Look
      <4> QED
        BY <3>1, <4>1
    <3>2. CASE step[t] = "again"
      <4>1. /\ step' = [step EXCEPT ![t] = "readAgain"]
            /\ UNCHANGED <<file, cache, edit, answer, disturbed>>
        BY <1>2, <2>2, <3>2 DEF Look
      <4>2. ~disturbed => \A u \in Sessions \ {t} : step[u] = "idle" /\ step'[u] = "idle"
        BY <3>2, <4>1
      <4> QED
        BY <3>2, <4>1, <4>2
    <3>3. CASE step[t] = "call"
      <4>1. /\ step' = [step EXCEPT ![t] = "readCall"]
            /\ UNCHANGED <<file, cache, edit, answer, disturbed>>
        BY <1>2, <2>2, <3>3 DEF Look
      <4> QED
        BY <3>3, <4>1
    <3> QED
      BY <1>2, <3>1, <3>2, <3>3 DEF Look
  <2> QED
    BY <2>1, <2>2
<1>3. ASSUME NEW t \in Sessions, Read(t)
      PROVE  SettingsInv'
  BY <1>3 DEF Read
<1>4. ASSUME NEW t \in Sessions, ReadRaises(t)
      PROVE  SettingsInv'
  <2>1. step' = [step EXCEPT ![t] = "idle"] /\ UNCHANGED <<file, cache, disturbed>>
    BY <1>4 DEF ReadRaises, Raises
  <2>2. CASE step[t] \in {"read", "readCall"}
    <3>1. answer' = [answer EXCEPT ![t] = None] /\ edit' = [edit EXCEPT ![t] = NoEdit]
      BY <1>4 DEF ReadRaises, Raises
    <3> QED
      BY <2>1, <2>2, <3>1
  <2>3. CASE step[t] = "readAgain"
    <3>1. answer' = [answer EXCEPT ![t] = None] /\ edit' = [edit EXCEPT ![t] = NoEdit]
      BY <1>4 DEF ReadRaises, Raises
    <3>2. ~disturbed => cache = None /\ \A u \in Sessions : step'[u] = "idle"
      BY <2>1, <2>3
    <3> QED
      BY <2>1, <3>1, <3>2
  <2> QED
    BY <1>4, <2>2, <2>3 DEF ReadRaises
<1>5. ASSUME NEW t \in Sessions, Keep(t)
      PROVE  SettingsInv'
  BY <1>5 DEF Keep, Returns
<1>6. ASSUME NEW t \in Sessions, Render(t)
      PROVE  SettingsInv'
  BY <1>6 DEF Render
<1>7. ASSUME NEW t \in Sessions, OpenFile(t)
      PROVE  SettingsInv'
  <2>1. step' = [step EXCEPT ![t] = "write"] /\ UNCHANGED <<cache, edit, answer>>
    BY <1>7 DEF OpenFile
  <2>2. ~disturbed' => \A u \in Sessions \ {t} : step[u] = "idle" /\ step'[u] = "idle"
    BY <1>7, <2>1 DEF OpenFile
  <2> QED
    BY <2>1, <2>2
<1>8. ASSUME NEW t \in Sessions, WriteFile(t)
      PROVE  SettingsInv'
  <2>1. /\ step' = [step EXCEPT ![t] = "clear"] /\ UNCHANGED <<cache, edit, answer, disturbed>>
        /\ file' = edit[t] /\ step[t] = "write"
    BY <1>8 DEF WriteFile
  <2>2. ~disturbed => \A u \in Sessions \ {t} : step[u] = "idle" /\ step'[u] = "idle"
    BY <2>1
  <2> QED
    BY <2>1, <2>2
<1>9. ASSUME NEW t \in Sessions, ClearCache(t)
      PROVE  SettingsInv'
  <2>1. /\ step' = [step EXCEPT ![t] = "again"] /\ UNCHANGED <<file, edit, answer, disturbed>>
        /\ cache' = None /\ step[t] = "clear"
    BY <1>9 DEF ClearCache
  <2>2. ~disturbed => \A u \in Sessions \ {t} : step[u] = "idle" /\ step'[u] = "idle"
    BY <2>1
  <2> QED
    BY <2>1, <2>2
<1>10. ASSUME NEW t \in Sessions, Saved(t)
       PROVE  SettingsInv'
  BY <1>10 DEF Saved
<1>11. ASSUME NEW text \in Texts, EditByHand(text)
       PROVE  SettingsInv'
  BY <1>11 DEF EditByHand
<1>12. CASE RestartDashboard
  BY <1>12 DEF RestartDashboard
<1> QED
  BY <1>1, <1>2, <1>3, <1>4, <1>5, <1>6, <1>7, <1>8, <1>9, <1>10, <1>11, <1>12, <1>a, <1>b
  DEF SettingsChange, SettingsStep

LEMMA SettingsInvariant == Spec => [](SettingsStateOK /\ SettingsInv)
<1>1. Init => SettingsStateOK /\ SettingsInv
  BY DEF Init, SettingsInit, SettingsStateOK, SettingsInv, Undisturbed, Saving, Settings, Texts
<1>2. SettingsStateOK /\ SettingsInv /\ [Next]_vars => (SettingsStateOK /\ SettingsInv)'
  <2> SUFFICES ASSUME SettingsStateOK, SettingsInv, [Next]_vars
               PROVE  (SettingsStateOK /\ SettingsInv)'
    OBVIOUS
  <2>1. CASE SettingsChange
    BY <2>1, SettingsStateStep, SettingsInvStep
  <2>2. CASE UNCHANGED settingsVars
    BY <2>2 DEF settingsVars, SettingsStateOK, SettingsInv, Undisturbed, Saving, Alone, Running,
                FromFile
  <2>3. SettingsChange \/ UNCHANGED settingsVars
    BY DEF Next, RunTab, SessionsNext, RunBacktest, OptimizeTab, RiskPage, UseSettings, Restart,
           RestartSessions, SettingsChange, vars
  <2> QED
    BY <2>1, <2>2, <2>3
<1> QED
  BY <1>1, <1>2, PTL DEF Spec

(* A save while no other session runs the page, a backtest's or any other call of
   get_settings puts its text in force, for the file, the cache and the message
   alike, until somebody interferes, for any number of sessions and backtests.  *)
THEOREM SettingsSavedIsInForce == Spec => []SavedIsInForce
<1>1. SettingsInv => SavedIsInForce
  BY DEF SettingsInv, Undisturbed, SavedIsInForce, FromFile
<1> QED
  BY <1>1, SettingsInvariant, PTL

-----------------------------------------------------------------------------
(* The grid search.  Sorting: the order is total, so ranks tell results apart and
   fill the places from the first to the last.                                  *)
ResultType == [params : Combos, score : Int]
Ahead(r, i) == {j \in DOMAIN r : ComesBefore(r, j, i)}
Place(r, k) == CHOOSE i \in DOMAIN r : Rank(r, i) = k - 1

LEMMA ResultsAre ==
    ASSUME NEW r \in Seq(ResultType)
    PROVE  /\ Len(r) \in Nat /\ DOMAIN r = 1 .. Len(r)
           /\ IsFiniteSet(DOMAIN r) /\ Cardinality(DOMAIN r) = Len(r)
           /\ \A i \in DOMAIN r : i \in Int /\ r[i].score \in Int /\ r[i].params \in Combos
<1>1. Len(r) \in Nat /\ DOMAIN r = 1 .. Len(r)
  OBVIOUS
<1>2. IsFiniteSet(1 .. Len(r)) /\ Cardinality(1 .. Len(r)) = Len(r)
  BY <1>1, FS_Interval
<1>3. \A i \in DOMAIN r : r[i] \in ResultType
  OBVIOUS
<1>4. \A i \in DOMAIN r : r[i].score \in Int /\ r[i].params \in Combos
  BY <1>3 DEF ResultType
<1>5. \A i \in DOMAIN r : i \in Int
  BY <1>1
<1> QED
  BY <1>1, <1>2, <1>4, <1>5

LEMMA OrderIsTotal ==
    ASSUME NEW r \in Seq(ResultType), NEW i \in DOMAIN r, NEW j \in DOMAIN r
    PROVE  /\ ~ComesBefore(r, i, i)
           /\ i # j => ComesBefore(r, i, j) \/ ComesBefore(r, j, i)
           /\ \A k \in DOMAIN r : ComesBefore(r, i, j) /\ ComesBefore(r, j, k) => ComesBefore(r, i, k)
BY ResultsAre DEF ComesBefore

LEMMA RankIs ==
    ASSUME NEW r \in Seq(ResultType), NEW i \in DOMAIN r
    PROVE  /\ Rank(r, i) = Cardinality(Ahead(r, i)) /\ IsFiniteSet(Ahead(r, i))
           /\ Rank(r, i) \in 0 .. Len(r) - 1
<1>1. Rank(r, i) = Cardinality(Ahead(r, i))
  BY DEF Rank, Ahead
<1>2. IsFiniteSet(DOMAIN r) /\ Cardinality(DOMAIN r) = Len(r) /\ Len(r) \in Nat
  BY ResultsAre
<1>3. Ahead(r, i) \in SUBSET DOMAIN r /\ Ahead(r, i) # DOMAIN r
  BY OrderIsTotal DEF Ahead
<1>4. /\ IsFiniteSet(Ahead(r, i)) /\ Cardinality(Ahead(r, i)) <= Len(r)
      /\ Cardinality(Ahead(r, i)) # Len(r)
  BY <1>2, <1>3, FS_Subset
<1>5. Cardinality(Ahead(r, i)) \in Nat
  BY <1>4, FS_CardinalityType
<1> QED
  BY <1>1, <1>2, <1>4, <1>5

LEMMA RankGrows ==
    ASSUME NEW r \in Seq(ResultType), NEW i \in DOMAIN r, NEW j \in DOMAIN r, ComesBefore(r, i, j)
    PROVE  Rank(r, i) < Rank(r, j)
<1>1. Ahead(r, i) \in SUBSET Ahead(r, j)
  BY OrderIsTotal DEF Ahead
<1>2. Ahead(r, i) # Ahead(r, j)
  BY OrderIsTotal DEF Ahead
<1>3. /\ Rank(r, i) = Cardinality(Ahead(r, i)) /\ Rank(r, j) = Cardinality(Ahead(r, j))
      /\ IsFiniteSet(Ahead(r, j)) /\ Rank(r, i) \in Int /\ Rank(r, j) \in Int
  BY RankIs
<1>4. /\ Cardinality(Ahead(r, i)) <= Cardinality(Ahead(r, j))
      /\ Cardinality(Ahead(r, i)) # Cardinality(Ahead(r, j))
  BY <1>1, <1>2, <1>3, FS_Subset
<1> QED
  BY <1>3, <1>4

(* Every place is taken, by one result. *)
LEMMA PlaceIs ==
    ASSUME NEW r \in Seq(ResultType)
    PROVE  /\ \A k \in DOMAIN r : Place(r, k) \in DOMAIN r /\ Rank(r, Place(r, k)) = k - 1
           /\ \A i \in DOMAIN r : \E k \in DOMAIN r : Place(r, k) = i
           /\ \A k, l \in DOMAIN r : k < l => ComesBefore(r, Place(r, k), Place(r, l))
<1> DEFINE D == DOMAIN r
           n == Len(r)
           f == [i \in D |-> Rank(r, i) + 1]
<1>1. /\ n \in Nat /\ D = 1 .. n /\ IsFiniteSet(D)
      /\ \A i \in D : i \in Int /\ Rank(r, i) \in 0 .. n - 1
  BY ResultsAre, RankIs
<1>2. \A i, j \in D : Rank(r, i) = Rank(r, j) => i = j
  <2> SUFFICES ASSUME NEW i \in D, NEW j \in D, Rank(r, i) = Rank(r, j), i # j
               PROVE  FALSE
    OBVIOUS
  <2>1. Rank(r, i) \in Int /\ Rank(r, j) \in Int
    BY <1>1
  <2>2. Rank(r, i) < Rank(r, j) \/ Rank(r, j) < Rank(r, i)
    BY OrderIsTotal, RankGrows
  <2> QED
    BY <2>1, <2>2
<1>3. f \in Injection(D, D)
  <2>1. f \in [D -> D]
    BY <1>1
  <2>2. \A i, j \in D : f[i] = f[j] => i = j
    <3> SUFFICES ASSUME NEW i \in D, NEW j \in D, f[i] = f[j]
                 PROVE  i = j
      OBVIOUS
    <3>1. PICK x \in Int, y \in Int : x = Rank(r, i) /\ y = Rank(r, j)
      BY <1>1
    <3>2. x + 1 = y + 1
      BY <3>1
    <3> QED
      BY <1>2, <3>1, <3>2
  <2> QED
    BY <2>1, <2>2 DEF Injection, IsInjective
<1>4. f \in Surjection(D, D)
  <2> HIDE DEF f, D
  <2> QED
    BY <1>1, <1>3, FS_Injection
<1>5. \A k \in D : \E i \in D : Rank(r, i) = k - 1
  <2> SUFFICES ASSUME NEW k \in D
               PROVE  \E i \in D : Rank(r, i) = k - 1
    OBVIOUS
  <2>1. PICK i \in D : f[i] = k
    BY <1>4 DEF Surjection
  <2>2. PICK x \in Int : x = Rank(r, i)
    BY <1>1
  <2> QED
    BY <2>1, <2>2
<1>6. \A k \in D : Place(r, k) \in D /\ Rank(r, Place(r, k)) = k - 1
  BY <1>5 DEF Place
<1>7. ASSUME NEW i \in D
      PROVE  \E k \in D : Place(r, k) = i
  <2>1. PICK x \in 0 .. n - 1 : x = Rank(r, i)
    BY <1>1
  <2>2. x + 1 \in D /\ (x + 1) - 1 = x
    BY <1>1
  <2>3. Place(r, x + 1) \in D /\ Rank(r, Place(r, x + 1)) = x
    BY <1>6, <2>2
  <2> QED
    BY <1>2, <2>1, <2>2, <2>3
<1>8. ASSUME NEW k \in D, NEW l \in D, k < l
      PROVE  ComesBefore(r, Place(r, k), Place(r, l))
  <2> DEFINE i == Place(r, k)
             j == Place(r, l)
  <2>1. i \in D /\ j \in D /\ Rank(r, i) = k - 1 /\ Rank(r, j) = l - 1
    BY <1>6
  <2> HIDE DEF i, j
  <2>2. ~(Rank(r, j) < Rank(r, i)) /\ i # j
    BY <1>1, <1>8, <2>1
  <2>3. ComesBefore(r, i, j)
    BY <2>1, <2>2, OrderIsTotal, RankGrows
  <2> QED
    BY <2>3 DEF i, j
<1> QED
  BY <1>6, <1>7, <1>8

(* The sorted results are the results, the best score first. *)
LEMMA SortedIs ==
    ASSUME NEW r \in Seq(ResultType)
    PROVE  /\ Sorted(r) \in Seq(ResultType) /\ Len(Sorted(r)) = Len(r)
           /\ DOMAIN Sorted(r) = DOMAIN r
           /\ \A k \in DOMAIN r : \E i \in DOMAIN r : Sorted(r)[k] = r[i]
           /\ \A i \in DOMAIN r : \E k \in DOMAIN r : Sorted(r)[k] = r[i]
           /\ \A k, l \in DOMAIN r : k < l => Sorted(r)[k].score >= Sorted(r)[l].score
<1>1. Sorted(r) = [k \in DOMAIN r |-> r[Place(r, k)]]
  BY DEF Sorted, Place
<1>2. /\ \A k \in DOMAIN r : Place(r, k) \in DOMAIN r
      /\ \A i \in DOMAIN r : \E k \in DOMAIN r : Place(r, k) = i
      /\ \A k, l \in DOMAIN r : k < l => ComesBefore(r, Place(r, k), Place(r, l))
  BY PlaceIs
<1>3. Len(r) \in Nat /\ DOMAIN r = 1 .. Len(r) /\ \A i \in DOMAIN r : r[i].score \in Int
  BY ResultsAre
<1>4. \A k \in DOMAIN r : r[Place(r, k)] \in ResultType
  BY <1>2
<1>5. Sorted(r) \in Seq(ResultType) /\ Len(Sorted(r)) = Len(r)
  <2>1. Sorted(r) \in [1 .. Len(r) -> ResultType]
    BY <1>1, <1>3, <1>4
  <2> QED
    BY <1>3, <2>1
<1>6. ASSUME NEW k \in DOMAIN r, NEW l \in DOMAIN r, k < l
      PROVE  r[Place(r, k)].score >= r[Place(r, l)].score
  <2>1. PICK i \in DOMAIN r, j \in DOMAIN r :
           i = Place(r, k) /\ j = Place(r, l) /\ ComesBefore(r, i, j)
    BY <1>2, <1>6
  <2>2. r[i].score >= r[j].score
    BY <1>3, <2>1 DEF ComesBefore
  <2> QED
    BY <2>1, <2>2
<1> QED
  BY <1>1, <1>2, <1>5, <1>6

(* Sorting what is sorted changes nothing. *)
LEMMA SortedTwice ==
    ASSUME NEW r \in Seq(ResultType),
           \A k, l \in DOMAIN r : k < l => r[k].score >= r[l].score
    PROVE  Sorted(r) = r
<1>1. /\ Len(r) \in Nat /\ DOMAIN r = 1 .. Len(r)
      /\ \A i \in DOMAIN r : i \in Int /\ r[i].score \in Int
  BY ResultsAre
<1>2. \A i, j \in DOMAIN r : ComesBefore(r, j, i) <=> j < i
  <2> SUFFICES ASSUME NEW i \in DOMAIN r, NEW j \in DOMAIN r
               PROVE  ComesBefore(r, j, i) <=> j < i
    OBVIOUS
  <2>1. CASE j < i
    BY <1>1, <2>1 DEF ComesBefore
  <2>2. CASE i < j
    BY <1>1, <2>2 DEF ComesBefore
  <2>3. CASE i = j
    BY <1>1, <2>3 DEF ComesBefore
  <2> QED
    BY <1>1, <2>1, <2>2, <2>3
<1>3. ASSUME NEW i \in DOMAIN r
      PROVE  Rank(r, i) = i - 1
  <2>1. Ahead(r, i) = 1 .. i - 1
    BY <1>1, <1>2 DEF Ahead
  <2>2. Cardinality(1 .. i - 1) = i - 1
    BY <1>1, FS_Interval
  <2> QED
    BY <2>1, <2>2, RankIs
<1>4. ASSUME NEW k \in DOMAIN r
      PROVE  Place(r, k) = k
  <2>1. Place(r, k) \in DOMAIN r /\ Rank(r, Place(r, k)) = k - 1
    BY PlaceIs
  <2>2. Place(r, k) - 1 = k - 1
    BY <1>3, <2>1
  <2> QED
    BY <1>1, <2>1, <2>2
<1>5. Sorted(r) = [k \in DOMAIN r |-> r[k]]
  <2>1. Sorted(r) = [k \in DOMAIN r |-> r[Place(r, k)]]
    BY DEF Sorted, Place
  <2> QED
    BY <1>4, <2>1
<1>6. r \in [1 .. Len(r) -> ResultType]
  BY <1>1
<1>7. r = [k \in DOMAIN r |-> r[k]]
  BY <1>1, <1>6
<1> QED
  BY <1>5, <1>7

(* The results are scores of different combinations of the grid, and a reported
   result is what was asked for.                                                 *)
ResultsOK ==
    /\ grid \subseteq Combos
    /\ allResults \in Seq(ResultType)
    /\ \A i \in DOMAIN allResults :
          allResults[i].params \in grid /\ allResults[i].score = Score[allResults[i].params]
    /\ \A i, j \in DOMAIN allResults : allResults[i].params = allResults[j].params => i = j
OptimizerInv == ResultsOK /\ BestIsBest

LEMMA CollectedKeepsResults ==
    ASSUME ResultsOK, NEW c \in grid, CollectResult(c)
    PROVE  ResultsOK'
<1> DEFINE n == Len(allResults)
           e == [params |-> c, score |-> Score[c]]
<1>1. c \in Combos /\ Score[c] \in Int /\ e \in ResultType
  BY OptimizerAssumption DEF ResultsOK, ResultType
<1>2. /\ allResults \in Seq(ResultType) /\ allResults' = Append(allResults, e) /\ grid' = grid
      /\ \A i \in DOMAIN allResults : allResults[i].params # c
  BY DEF CollectResult, Collected, ResultsOK
<1>3. e.params = c /\ e.score = Score[c]
  OBVIOUS
<1> HIDE DEF e
<1>4. /\ n \in Nat /\ DOMAIN allResults = 1 .. n /\ DOMAIN allResults' = 1 .. n + 1
      /\ allResults' \in Seq(ResultType)
      /\ allResults'[n + 1] = e
      /\ \A i \in 1 .. n : allResults'[i] = allResults[i]
  BY <1>1, <1>2
<1>5. \A i \in 1 .. n + 1 : i \in 1 .. n \/ i = n + 1
  BY <1>4
<1>6. /\ \A i \in 1 .. n + 1 :
            allResults'[i].params \in grid /\ allResults'[i].score = Score[allResults'[i].params]
      /\ \A i, j \in 1 .. n + 1 : allResults'[i].params = allResults'[j].params => i = j
  BY <1>2, <1>3, <1>4, <1>5 DEF ResultsOK
<1> QED
  BY <1>2, <1>4, <1>6 DEF ResultsOK

(* As many results as combinations, when every combination has one. *)
LEMMA AsManyAsCombos ==
    ASSUME ResultsOK, Collected = grid
    PROVE  Cardinality(grid) = Len(allResults)
<1> DEFINE n == Len(allResults)
           f == [i \in 1 .. n |-> allResults[i].params]
<1>1. n \in Nat /\ DOMAIN allResults = 1 .. n
  BY DEF ResultsOK
<1>2. f \in Bijection(1 .. n, grid)
  <2>1. f \in [1 .. n -> grid] /\ \A i, j \in 1 .. n : f[i] = f[j] => i = j
    BY <1>1 DEF ResultsOK
  <2>2. \A c \in grid : \E i \in 1 .. n : f[i] = c
    BY <1>1 DEF Collected
  <2> HIDE DEF f, n
  <2> QED
    BY <2>1, <2>2 DEF Bijection, Injection, Surjection, IsInjective
<1> HIDE DEF f, n
<1>3. Cardinality(grid) = n
  BY <1>1, <1>2, FS_CountingElements DEF ExistsBijection
<1> QED
  BY <1>3 DEF n

LEMMA SearchReports ==
    ASSUME ResultsOK, SearchEnds
    PROVE  BestIsBest'
<1> DEFINE s == Sorted(allResults)
           r == allResults
<1>1. CASE grid = {}
  BY <1>1 DEF SearchEnds, Failed, BestIsBest, HasBest
<1>2. CASE grid # {}
  <2>1. /\ Collected = grid /\ grid' = grid /\ r \in Seq(ResultType)
        /\ optResult' = [best |-> s[1], all |-> s]
    BY <1>2 DEF SearchEnds, ResultsOK
  <2>2. optResult'.best = s[1] /\ optResult'.all = s
    BY <2>1
  <2>3. /\ s \in Seq(ResultType) /\ Len(s) = Len(r) /\ DOMAIN s = DOMAIN r
        /\ \A k \in DOMAIN r : \E i \in DOMAIN r : s[k] = r[i]
        /\ \A i \in DOMAIN r : \E k \in DOMAIN r : s[k] = r[i]
        /\ \A k, l \in DOMAIN r : k < l => s[k].score >= s[l].score
    BY <2>1, SortedIs
  <2>4. /\ Len(r) \in Nat /\ DOMAIN r = 1 .. Len(r)
        /\ \A i \in DOMAIN r : r[i].score \in Int
    BY <2>1, ResultsAre
  <2>5. /\ \A i \in DOMAIN r : r[i].params \in grid /\ r[i].score = Score[r[i].params]
        /\ \A c \in grid : \E i \in DOMAIN r : r[i].params = c
    BY <2>1 DEF ResultsOK, Collected
  <2>6. Sorted(s) = s
    BY <2>3, SortedTwice
  <2> HIDE DEF s, r
  <2>7. {s[k].params : k \in DOMAIN s} = grid
    <3>1. \A k \in DOMAIN s : s[k].params \in grid
      BY <2>3, <2>5
    <3>2. ASSUME NEW c \in grid
          PROVE  \E k \in DOMAIN s : s[k].params = c
      <4>1. PICK i \in DOMAIN r : r[i].params = c
        BY <2>5
      <4>2. PICK k \in DOMAIN r : s[k] = r[i]
        BY <2>3
      <4> QED
        BY <2>3, <4>1, <4>2
    <3> QED
      BY <3>1, <3>2
  <2>8. Len(s) = Cardinality(grid)
    BY <2>1, <2>3, AsManyAsCombos DEF r
  <2>9. Len(s) >= 1 /\ 1 \in DOMAIN r
    BY <1>2, <2>3, <2>4, <2>5
  <2>10. s[1].score = Score[s[1].params] /\ s[1].score \in Int
    <3>1. PICK i \in DOMAIN r : s[1] = r[i]
      BY <2>3, <2>9
    <3> QED
      BY <2>4, <2>5, <3>1
  <2>11. ASSUME NEW c \in grid
         PROVE  Score[c] <= s[1].score
    <3>1. PICK i \in DOMAIN r : r[i].params = c
      BY <2>5
    <3>2. PICK k \in DOMAIN r : s[k] = r[i]
      BY <2>3
    <3>3. s[k].score = Score[c] /\ s[k].score \in Int
      BY <2>4, <2>5, <3>1, <3>2
    <3>4. CASE k = 1
      BY <3>3, <3>4
    <3>5. CASE 1 < k
      <4>1. s[1].score >= s[k].score
        BY <2>3, <2>9, <3>5
      <4>2. PICK x \in Int, y \in Int : x = s[k].score /\ y = s[1].score
        BY <2>10, <3>3
      <4>3. y >= x
        BY <4>1, <4>2
      <4>4. x <= y
        BY <4>3
      <4> QED
        BY <3>3, <4>2, <4>4
    <3> QED
      BY <2>4, <3>4, <3>5
  <2>12. TopN(2, s) = SubSeq(s, 1, IF Len(s) < 2 THEN 1 ELSE 2)
    <3>1. Len(s) \in Nat
      BY <2>3, <2>4
    <3>2. (IF 2 < Len(s) THEN 2 ELSE Len(s)) = (IF Len(s) < 2 THEN 1 ELSE 2)
      BY <2>9, <3>1
    <3> QED
      BY <2>6, <3>2 DEF TopN
  <2>13. (TopN(2, optResult.all))' = TopN(2, s)
    BY <2>2
  <2> QED
    BY <2>1, <2>2, <2>7, <2>8, <2>10, <2>11, <2>12, <2>13 DEF BestIsBest
<1> QED
  BY <1>1, <1>2

LEMMA BestKept ==
    ASSUME BestIsBest, UNCHANGED <<grid, optResult>>
    PROVE  BestIsBest'
<1>1. (TopN(2, optResult.all))' = TopN(2, optResult'.all)
  OBVIOUS
<1> QED
  BY <1>1 DEF BestIsBest, HasBest

LEMMA OptimizerStep ==
    ASSUME OptimizerInv, OptimizerNext
    PROVE  OptimizerInv'
<1>1. ASSUME NEW g \in Grids, StartOptimization(g)
      PROVE  OptimizerInv'
  <2>1. /\ grid' = g /\ g \subseteq Combos /\ allResults' = << >> /\ optResult' = NoResult
    BY <1>1, OptimizerAssumption DEF StartOptimization
  <2>2. ResultsOK'
    BY <2>1 DEF ResultsOK
  <2>3. BestIsBest'
    BY <2>1 DEF BestIsBest, HasBest, NoResult
  <2> QED
    BY <2>2, <2>3 DEF OptimizerInv
<1>2. ASSUME NEW c \in grid, WorkerStep(c)
      PROVE  OptimizerInv'
  <2>1. UNCHANGED <<grid, allResults, optResult>>
    BY <1>2 DEF WorkerStep, RunWorker, EndWorker
  <2> QED
    BY <2>1, BestKept DEF OptimizerInv, ResultsOK
<1>3. CASE SearchFails
  <2>1. UNCHANGED <<grid, allResults>> /\ optResult' = Failed("worker")
    BY <1>3 DEF SearchFails
  <2>2. BestIsBest'
    BY <2>1 DEF BestIsBest, HasBest, Failed
  <2> QED
    BY <2>1, <2>2 DEF OptimizerInv, ResultsOK
<1>4. CASE SearchEnds
  <2>1. UNCHANGED <<grid, allResults>>
    BY <1>4 DEF SearchEnds
  <2>2. ResultsOK'
    BY <2>1 DEF OptimizerInv, ResultsOK
  <2> QED
    BY <1>4, <2>2, SearchReports DEF OptimizerInv
<1>5. CASE LoadPage
  <2>1. UNCHANGED <<grid, allResults, optResult>>
    BY <1>5 DEF LoadPage
  <2> QED
    BY <2>1, BestKept DEF OptimizerInv, ResultsOK
<1>6. ASSUME NEW c \in grid, CollectResult(c)
      PROVE  OptimizerInv'
  <2>1. UNCHANGED <<grid, optResult>>
    BY <1>6 DEF CollectResult
  <2>2. BestIsBest'
    BY <2>1, BestKept DEF OptimizerInv
  <2> QED
    BY <1>6, <2>2, CollectedKeepsResults DEF OptimizerInv
<1> QED
  BY <1>1, <1>2, <1>3, <1>4, <1>5, <1>6 DEF OptimizerNext, SearchStep

(* Whatever the grid, the scores and the order the workers end in, a search that
   reports a best result reports every combination once, sorted, and no score of
   the grid is above the best.                                                  *)
THEOREM OptimizerBestIsBest == Spec => []BestIsBest
<1>1. Init => OptimizerInv
  BY DEF Init, OptimizerInit, OptimizerInv, ResultsOK, BestIsBest, HasBest, NoResult
<1>2. OptimizerInv /\ [Next]_vars => OptimizerInv'
  <2> SUFFICES ASSUME OptimizerInv, [Next]_vars
               PROVE  OptimizerInv'
    OBVIOUS
  <2>1. CASE OptimizerNext
    BY <2>1, OptimizerStep
  <2>2. CASE UNCHANGED optimizerVars
    BY <2>2, BestKept DEF optimizerVars, OptimizerInv, ResultsOK
  <2>3. CASE Restart
    BY <2>3 DEF Restart, RestartOptimizer, OptimizerInv, ResultsOK, BestIsBest, HasBest, NoResult
  <2> QED
    BY <2>1, <2>2, <2>3 DEF Next, RunTab, OptimizeTab, RiskPage, vars
<1>3. OptimizerInv => BestIsBest
  BY DEF OptimizerInv
<1> QED
  BY <1>1, <1>2, <1>3, PTL DEF Spec
===============================================================================
