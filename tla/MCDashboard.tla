---------------------------- MODULE MCDashboard ----------------------------
(* Portfolios, grids and scores for checking Dashboard with TLC.          *)
EXTENDS Dashboard, TLC

CONSTANTS a, b, c

SessionsAlike == Permutations(Sessions) 

(* The second portfolio has a symbol without bars, a repeated one and one of
   the first portfolio.                                                      *)
MCPortfolios == {<<a, b>>, <<c, b, b>>}

(* Two combinations share a score, one is better and one failed. *)
MCScore == <<1, 2, 1, -1000>>
MCNegInf == -1000
(* The pages that share no step are checked side by side, not together: a backtest
   and any other page meet the settings in one call of get_settings.           *)
MCUses == {{"run"}, {"settings"}, {"optimize"}}
MCGrids == {{}, {1, 2, 3}, {1, 3, 4}}
==============================================================================
