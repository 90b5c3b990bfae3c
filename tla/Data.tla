--------------------------------- MODULE Data ---------------------------------
(*****************************************************************************)
(* The data layer, for checking its two halves in one run: the cache that    *)
(* CachedAkShareFeed keeps over many calls, or one call of a feed.  They     *)
(* share no state (what the cache stores of a row is its adjust mode, basis  *)
(* and day), so a behaviour is one of the cache or one of a feed, while the  *)
(* other half stays where it began.                                          *)
(*****************************************************************************)
EXTENDS BarCache, DataFeeds

VARIABLE half
dataVars == <<half, vars, feedVars>>

DataInit ==
    /\ half \in {"cache", "feed"}
    /\ Init /\ FeedInit
    /\ half = "cache" => source = "shares" /\ raw = << >>
    /\ half = "feed" => ends = CHOOSE calendar \in Calendars : TRUE
DataNext ==
    \/ half = "cache" /\ Next /\ UNCHANGED <<half, feedVars>>
    \/ half = "feed" /\ FeedNext /\ UNCHANGED <<half, vars>>
DataSpec == DataInit /\ [][DataNext]_dataVars
===============================================================================
