----------------------------- MODULE GridOptimizer -----------------------------
(****************************************************************************)
(* GridOptimizer.optimize (src/backtest/optimizer.py): one worker task per  *)
(* combination of parameters in a pool of processes, their results taken in *)
(* the order they end and sorted by score, and the tab of the dashboard     *)
(* (src/monitor/dashboard.py) that runs it in a thread.                     *)
(*                                                                          *)
(* A worker scores a combination by running a backtest; one that raises     *)
(* scores minus infinity.  What is outside the try block of the worker      *)
(* (import of the strategy, its construction, opening the database) fails   *)
(* for all combinations alike, and reaches the caller.                      *)
(*                                                                          *)
(* The thread is a bare one: what it writes to st.session_state goes to a   *)
(* session state that belongs to no browser.  The page that started it      *)
(* waits until it is loaded anew.                                           *)
(****************************************************************************)
EXTENDS Integers, Sequences, FiniteSets

CONSTANTS
    Combos,       \* parameter combinations that a grid may hold
    Grids,        \* the grids a user may enter: sets of combinations
    Score,        \* score of a combination, NegInf if its backtest raises
    NegInf,       \* float("-inf"): below every score
    Jobs          \* n_jobs

ASSUME OptimizerAssumption ==
    /\ Grids \subseteq SUBSET Combos
    /\ NegInf \in Int
    /\ Score \in [Combos -> Int] /\ \A c \in Combos : Score[c] >= NegInf
    /\ Jobs \in Nat \ {0}

VARIABLES
    grid,         \* combinations of the search
    broken,       \* does the part outside the try block raise?
    task,         \* per combination of the grid: its future
    allResults,   \* (params, score) in the order as_completed gave them
    thread,       \* _run_opt: none, or in optimize
    optResult,    \* what optimize returned, or the error it was left with
    optRunning    \* the opt_running of the page

optimizerVars == <<grid, broken, task, allResults, thread, optResult, optRunning>>

Failed(e) == [error |-> e]
NoResult == [none |-> TRUE]

OptimizerInit ==
    /\ grid = {}
    /\ broken = FALSE
    /\ task = [c \in {} |-> "queued"]
    /\ allResults = << >>
    /\ thread = "none"
    /\ optRunning = FALSE
    /\ optResult = NoResult

(* The button is disabled while opt_running is set; a grid that is no JSON
   changes nothing.  Two searches of different pages share nothing: one is
   modelled at a time.                                                      *)
StartOptimization(g) ==
    /\ ~optRunning
    /\ thread = "none"
    /\ optRunning' = TRUE
    /\ optResult' = NoResult
    /\ grid' = g
    /\ broken' \in BOOLEAN
    /\ task' = [c \in g |-> "queued"]
    /\ allResults' = << >>
    /\ thread' = "optimize"

(* The page is loaded anew, in a session state of its own. *)
LoadPage ==
    /\ optRunning
    /\ optRunning' = FALSE
    /\ UNCHANGED <<grid, broken, task, allResults, thread, optResult>>

RunWorker(c) ==
    /\ thread = "optimize"
    /\ task[c] = "queued"
    /\ Cardinality({d \in grid : task[d] = "running"}) < Jobs
    /\ task' = [task EXCEPT ![c] = "running"]
    /\ UNCHANGED <<grid, broken, allResults, thread, optRunning, optResult>>

(* _run_one: the score, minus infinity, or an exception kept in the future. *)
EndWorker(c) ==
    /\ thread = "optimize"
    /\ task[c] = "running"
    /\ task' = [task EXCEPT ![c] = IF broken THEN "failed" ELSE "scored"]
    /\ UNCHANGED <<grid, broken, allResults, thread, optRunning, optResult>>

(* as_completed: some future that is done and was not yet given. *)
Collected == {allResults[i].params : i \in DOMAIN allResults}
CollectResult(c) ==
    /\ thread = "optimize"
    /\ task[c] = "scored"
    /\ c \notin Collected
    /\ allResults' = Append(allResults, [params |-> c, score |-> Score[c]])
    /\ UNCHANGED <<grid, broken, task, thread, optRunning, optResult>>

(* future.result() raises: the pool is shut down, which waits for the workers
   that are left, and _run_opt notes the exception.                          *)
SearchFails ==
    /\ thread = "optimize"
    /\ grid # {}
    /\ \A c \in grid : task[c] = "failed"
    /\ optResult' = Failed("worker")
    /\ thread' = "none"
    /\ UNCHANGED <<grid, broken, task, allResults, optRunning>>

(* all_results.sort is stable, so combinations of one score stay in the order
   they were collected: a result comes at the place of which as many results
   come before it.                                                           *)
ComesBefore_Ascending(results, j, i) ==
    \/ results[j].score < results[i].score
    \/ results[j].score = results[i].score /\ j < i
ComesBefore(results, j, i) ==
    \/ results[j].score > results[i].score
    \/ results[j].score = results[i].score /\ j < i
Rank(results, i) == Cardinality({j \in DOMAIN results : ComesBefore(results, j, i)})
Sorted(results) ==
    [k \in DOMAIN results |-> results[CHOOSE i \in DOMAIN results : Rank(results, i) = k - 1]]

(* Every future was given: an empty grid has no all_results[0]. *)
SearchEnds ==
    /\ thread = "optimize"
    /\ Collected = grid
    /\ optResult' = IF grid = {} THEN Failed("IndexError")
                    ELSE [best |-> Sorted(allResults)[1], all |-> Sorted(allResults)]
    /\ thread' = "none"
    /\ UNCHANGED <<grid, broken, task, allResults, optRunning>>

(* The dashboard process ends, and is started again. *)
RestartOptimizer ==
    /\ grid' = {}
    /\ broken' = FALSE
    /\ task' = [c \in {} |-> "queued"]
    /\ allResults' = << >>
    /\ thread' = "none"
    /\ optResult' = NoResult
    /\ optRunning' = FALSE

WorkerStep(c) == RunWorker(c) \/ EndWorker(c)
SearchStep == SearchFails \/ SearchEnds \/ \E c \in grid : CollectResult(c)
OptimizerNext ==
    \/ \E g \in Grids : StartOptimization(g)
    \/ \E c \in grid : WorkerStep(c)
    \/ SearchStep
    \/ LoadPage

(* OptimizationResult.top_n *)
TopN(n, results) == SubSeq(Sorted(results), 1, IF n < Len(results) THEN n ELSE Len(results))

-----------------------------------------------------------------------------
HasBest == "best" \in DOMAIN optResult

(* Whatever the order workers end in, a search reports every combination of
   its grid once, the best of them first: the combination with the best score
   if there is one, and one whose backtest failed only if all of them did.    *)
BestIsBest ==
    HasBest =>
        /\ {optResult.all[i].params : i \in DOMAIN optResult.all} = grid
        /\ Len(optResult.all) = Cardinality(grid)
        /\ \A c \in grid : Score[c] <= optResult.best.score
        /\ optResult.best.score = Score[optResult.best.params]
        /\ TopN(2, optResult.all) = SubSeq(optResult.all, 1, IF Len(optResult.all) < 2 THEN 1 ELSE 2)
==============================================================================
