------------------------------- MODULE Dashboard -------------------------------
(***************************************************************************)
(* Pages of the dashboard: backtests in the threads of the sessions, the   *)
(* page that edits the settings they use, and a grid search whose workers  *)
(* are processes with a registry and settings of their own.  A session     *)
(* shows one page at a time.                                               *)
(***************************************************************************)
EXTENDS BacktestSessions, GridOptimizer

CONSTANT Uses    \* bound: which pages are used together, sets of pages

VARIABLE pages   \* the pages used in this behaviour

vars == <<pages, sessionVars, settingsVars, optimizerVars>>

Init == pages \in Uses /\ SessionsInit /\ SettingsInit /\ OptimizerInit
RunTab == "run" \in pages /\ SessionsNext /\ UNCHANGED <<pages, optimizerVars>>
OptimizeTab ==
    "optimize" \in pages /\ OptimizerNext /\ UNCHANGED <<pages, sessionVars, settingsVars>>

(* The settings page, and pages that only ask for the settings. *)
UseSettings(t) ==
    \/ SettingsStep(t)
    \/ at[t] = "idle" /\ \E text \in Texts \cup {NoEdit} : RunPage(t, text)
    \/ at[t] = "idle" /\ CallSettings(t)
RiskPage ==
    /\ "settings" \in pages
    /\ \/ \E t \in Sessions : UseSettings(t)
       \/ \E text \in Texts : EditByHand(text)
    /\ UNCHANGED <<pages, sessionVars, optimizerVars>>

Restart == RestartSessions /\ RestartOptimizer /\ UNCHANGED pages

Next == RunTab \/ OptimizeTab \/ RiskPage \/ Restart
Spec == Init /\ [][Next]_vars
================================================================================
