----------------------------- MODULE SettingsPage -----------------------------
(*****************************************************************************)
(* The settings of the dashboard process: get_settings, a function with an   *)
(* lru_cache over config/settings.yaml (src/utils/config.py), and the page   *)
(* that edits the file and reloads it (page_risk of                          *)
(* src/monitor/dashboard.py).  Browser sessions run the page in threads of   *)
(* their own, each press of a button from the top.  The same cache serves    *)
(* every other call of get_settings in the process: by the other pages, by   *)
(* downloads and by backtests.  The file is also edited by hand, and the     *)
(* dashboard restarted.                                                      *)
(*                                                                           *)
(* Looking into the cache, reading the file and keeping what was read are    *)
(* steps between which threads may switch; so are emptying the file and      *)
(* writing it.  Of a text it only matters whether it is YAML and which       *)
(* settings it gives: an empty one gives the defaults.                       *)
(*****************************************************************************)
EXTENDS Naturals

CONSTANTS
    Sessions,      \* browser sessions, each a thread
    Versions       \* texts that give settings, other than the empty one

Blank == "blank"            \* no text
Malformed == "malformed"    \* no YAML
Wrong == "wrong"            \* YAML that Settings does not take
Texts == Versions \cup {Blank, Malformed, Wrong}

ASSUME SettingsPageAssumption == Versions \cap {Blank, Malformed, Wrong, "no edit", "none"} = {}

VARIABLES
    file,          \* settings.yaml
    cache,         \* of get_settings
    step,          \* per session: what its run of the page or its call does next
    edit,          \* per session: the text submitted with the run
    answer,        \* per session: what get_settings read or returned to its run
    form,          \* sessions whose browser shows the form
    disturbed      \* the file was edited by hand, or while others used settings

settingsVars == <<file, cache, step, edit, answer, form, disturbed>>

NoEdit == "no edit"
None == "none"

(* Settings( **raw ), or its defaults. *)
IsSettings(text) == text \in Versions \cup {Blank}
Settings == Versions \cup {"defaults"}
SettingsOf(text) == IF text = Blank THEN "defaults" ELSE text

SettingsInit ==
    /\ file \in Texts
    /\ cache = None
    /\ step = [t \in Sessions |-> "idle"]
    /\ edit = [t \in Sessions |-> NoEdit]
    /\ answer = [t \in Sessions |-> None]
    /\ form = {}
    /\ disturbed = FALSE

-----------------------------------------------------------------------------
Running(t) == step[t] # "idle"
Saving(t) == step[t] \in {"write", "clear", "again", "readAgain", "keepAgain"}
Calling(t) == step[t] \in {"call", "readCall", "keepCall"}
Alone(t) == \A u \in Sessions \ {t} : ~Running(u)
GoTo(t, place) == step' = [step EXCEPT ![t] = place]

(* The page is run, with a text submitted if the browser has the form. *)
RunPage(t, text) ==
    /\ ~Running(t)
    /\ text # NoEdit => t \in form
    /\ edit' = [edit EXCEPT ![t] = text]
    /\ GoTo(t, "look")
    /\ disturbed' = (disturbed \/ \E u \in Sessions : Saving(u))
    /\ UNCHANGED <<file, cache, answer, form>>

(* get_settings() is called by a backtest, a download or another page, which
   the browser shows instead of the form.                                    *)
CallSettings(t) ==
    /\ ~Running(t)
    /\ GoTo(t, "call")
    /\ form' = form \ {t}
    /\ disturbed' = (disturbed \/ \E u \in Sessions : Saving(u))
    /\ UNCHANGED <<file, cache, edit, answer>>

(* get_settings: an answer from the cache or, if there is none, from the file; it
   is kept, unless another thread kept one meanwhile.  `again' is the call by
   reload_settings.                                                          *)
Returns(t, value) ==
    /\ answer' = [answer EXCEPT ![t] = value]
    /\ GoTo(t, IF Saving(t) THEN "saved" ELSE IF Calling(t) THEN "idle" ELSE "render")
Raises(t) ==
    /\ answer' = [answer EXCEPT ![t] = None]
    /\ edit' = [edit EXCEPT ![t] = NoEdit]
    /\ form' = IF step[t] = "read" THEN form \ {t} ELSE form
    /\ GoTo(t, "idle")
Look(t) ==
    /\ step[t] \in {"look", "again", "call"}
    /\ IF cache # None THEN Returns(t, cache)
       ELSE /\ GoTo(t, IF Saving(t) THEN "readAgain" ELSE IF Calling(t) THEN "readCall" ELSE "read")
            /\ UNCHANGED answer
    /\ UNCHANGED <<file, cache, edit, form, disturbed>>
Read(t) ==
    /\ step[t] \in {"read", "readAgain", "readCall"}
    /\ IsSettings(file)
    /\ answer' = [answer EXCEPT ![t] = SettingsOf(file)]
    /\ GoTo(t, IF Saving(t) THEN "keepAgain" ELSE IF Calling(t) THEN "keepCall" ELSE "keep")
    /\ UNCHANGED <<file, cache, edit, form, disturbed>>
ReadRaises(t) ==
    /\ step[t] \in {"read", "readAgain", "readCall"}
    /\ ~IsSettings(file)
    /\ Raises(t)
    /\ UNCHANGED <<file, cache, disturbed>>
Keep(t) ==
    /\ step[t] \in {"keep", "keepAgain", "keepCall"}
    /\ cache' = IF cache = None THEN answer[t] ELSE cache
    /\ Returns(t, answer[t])
    /\ UNCHANGED <<file, edit, form, disturbed>>

(* The rest of the page: without a submitted text, or with one that is no YAML,
   the form is shown; else the file is emptied.                              *)
Render(t) ==
    /\ step[t] = "render"
    /\ edit[t] \in {NoEdit, Malformed}
    /\ form' = form \cup {t}
    /\ edit' = [edit EXCEPT ![t] = NoEdit]
    /\ answer' = [answer EXCEPT ![t] = None]
    /\ GoTo(t, "idle")
    /\ UNCHANGED <<file, cache, disturbed>>
OpenFile(t) ==
    /\ step[t] = "render"
    /\ edit[t] \notin {NoEdit, Malformed}
    /\ file' = Blank
    /\ GoTo(t, "write")
    /\ disturbed' = ~Alone(t)
    /\ UNCHANGED <<cache, edit, answer, form>>
WriteFile(t) ==
    /\ step[t] = "write"
    /\ file' = edit[t]
    /\ GoTo(t, "clear")
    /\ UNCHANGED <<cache, edit, answer, form, disturbed>>

(* reload_settings: cache_clear, then get_settings. *)
ClearCache_Skipped(t) ==
    /\ step[t] = "clear"
    /\ GoTo(t, "again")
    /\ UNCHANGED <<file, cache, edit, answer, form, disturbed>>
ClearCache(t) ==
    /\ step[t] = "clear"
    /\ cache' = None
    /\ GoTo(t, "again")
    /\ UNCHANGED <<file, edit, answer, form, disturbed>>
Saved(t) ==
    /\ step[t] = "saved"
    /\ edit' = [edit EXCEPT ![t] = NoEdit]
    /\ answer' = [answer EXCEPT ![t] = None]
    /\ GoTo(t, "idle")
    /\ UNCHANGED <<file, cache, form, disturbed>>

-----------------------------------------------------------------------------
(* By hand. *)
EditByHand(text) ==
    /\ file' = text
    /\ disturbed' = TRUE
    /\ UNCHANGED <<cache, step, edit, answer, form>>
RestartDashboard ==
    /\ cache' = None
    /\ step' = [t \in Sessions |-> "idle"]
    /\ edit' = [t \in Sessions |-> NoEdit]
    /\ answer' = [t \in Sessions |-> None]
    /\ form' = {}
    /\ disturbed' = FALSE
    /\ UNCHANGED file

SettingsStep(t) ==
    \/ Look(t) \/ Read(t) \/ ReadRaises(t) \/ Keep(t) \/ Render(t)
    \/ OpenFile(t) \/ WriteFile(t) \/ ClearCache(t) \/ Saved(t)

-----------------------------------------------------------------------------
SettingsStateOK ==
    /\ file \in Texts
    /\ cache \in Settings \cup {None}
    /\ step \in [Sessions -> {"idle", "look", "read", "keep", "render", "write", "clear",
                             "again", "readAgain", "keepAgain", "saved",
                             "call", "readCall", "keepCall"}]
    /\ edit \in [Sessions -> Texts \cup {NoEdit}]
    /\ answer \in [Sessions -> Settings \cup {None}]
    /\ form \subseteq Sessions
    /\ disturbed \in BOOLEAN
    /\ \A t \in Sessions : Saving(t) => edit[t] \in Texts \ {Malformed}
    /\ \A t \in Sessions : step[t] \in {"keep", "keepAgain", "keepCall", "saved"} => answer[t] # None

(* "Saved and reloaded": what the dashboard goes by is what the file says, once a
   text was saved while no other session ran the page or was in get_settings,
   and until the file is edited by hand or saved while others are; a save
   reports success only if that is so.                                       *)
SavedIsInForce ==
    ~disturbed =>
        /\ (\A t \in Sessions : ~Saving(t)) /\ cache # None
               => IsSettings(file) /\ cache = SettingsOf(file)
        /\ \A t \in Sessions : step[t] = "saved"
               => file = edit[t] /\ answer[t] = SettingsOf(file) /\ cache = answer[t]
===============================================================================
