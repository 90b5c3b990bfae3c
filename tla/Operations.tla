------------------------------ MODULE Operations ------------------------------
(*****************************************************************************)
(* How the programs are started and stopped: launcher.py, which starts the   *)
(* dashboard (Streamlit) and the live server (FastAPI) as children and then  *)
(* watches them, and the scheduled tasks of scripts/scheduler_setup.py, which*)
(* run launchers and kill every Python process after the close.              *)
(*                                                                           *)
(* Popen and noting the child in `procs' are two steps: a signal may come in *)
(* between.  A child holds its port only when it has bound it.  One that is  *)
(* told to end goes on as long as it likes: the launcher does not wait, both *)
(* servers stop listening first and then finish with those still connected.  *)
(* External: the operating system, the children, the task scheduler (which   *)
(* does not start a task whose last start still runs) and operators.         *)
(*****************************************************************************)
EXTENDS Naturals, FiniteSets

CONSTANTS
    Launchers          \* bound: launchers, and orphans of launchers, at a time

VARIABLES
    at,                \* per launcher: what it does next, or "none"
    mode,              \* per launcher: the children it is to start
    task,              \* per launcher: the task, or operator, that ran it
    procs,             \* per launcher: the children in procs
    loose,             \* per launcher: the child started and not yet in procs
    child,             \* per launcher and kind: the process
    clean,             \* per launcher: it did not end abruptly
    tasks,             \* scheduled tasks
    raced              \* a launcher checked the ports before another's were bound

launcherVars == <<at, mode, task, procs, loose, clean>>
vars == <<launcherVars, child, tasks, raced>>

Gui == "Streamlit"
Live == "FastAPI"
Kinds == {Gui, Live}
Ending == {"closing", "draining"}       \* told to end: port still bound, or not
ProcessStates == {"none", "starting", "up", "exited"} \cup Ending
Tasks == {"AShare_Start", "AShare_Stop", "Crypto_24x7"}

Running(l, k) == child[l][k] \in {"starting", "up"}
InUse(k) == \E l \in Launchers : child[l][k] \in {"up", "closing"}
Free(l) == at[l] = "none" /\ \A k \in Kinds : child[l][k] = "none"
Settled(l) ==
    /\ at[l] \in {"none", "watching"} /\ loose[l] = "none"
    /\ \A k \in Kinds : child[l][k] \in {"none", "up"} \cup Ending

Init ==
    /\ at = [l \in Launchers |-> "none"]
    /\ mode = [l \in Launchers |-> {}]
    /\ task = [l \in Launchers |-> "operator"]
    /\ procs = [l \in Launchers |-> {}]
    /\ loose = [l \in Launchers |-> "none"]
    /\ child = [l \in Launchers |-> [k \in Kinds |-> "none"]]
    /\ clean = [l \in Launchers |-> TRUE]
    /\ tasks = {}
    /\ raced = FALSE

-----------------------------------------------------------------------------
(* run: both ports are checked, whatever is to be started. *)
PortsFree_Gui == ~InUse(Gui)
PortsFree == \A k \in Kinds : ~InUse(k)
Begin(l, m, t) ==
    /\ Free(l)
    /\ PortsFree
    /\ at' = [at EXCEPT ![l] = Gui]
    /\ mode' = [mode EXCEPT ![l] = m]
    /\ task' = [task EXCEPT ![l] = t]
    /\ clean' = [clean EXCEPT ![l] = TRUE]
    /\ raced' = (raced \/ \E other \in Launchers \ {l} : ~Settled(other))
    /\ UNCHANGED <<procs, loose, child>>
Launch ==
    /\ \E l \in Launchers, m \in {Kinds, {Gui}, {Live}} : Begin(l, m, "operator")
    /\ UNCHANGED tasks

After(k) == IF k = Gui THEN Live ELSE "watching"
Popen(l, k) ==
    /\ child' = [child EXCEPT ![l][k] = "starting"]
    /\ loose' = [loose EXCEPT ![l] = k]
    /\ UNCHANGED <<at, mode, task, procs, clean, tasks, raced>>
StartChild(l) ==
    /\ at[l] \in mode[l] /\ loose[l] = "none"
    /\ Popen(l, at[l])
NotWanted(l) ==
    /\ at[l] \in Kinds \ mode[l]
    /\ at' = [at EXCEPT ![l] = After(@)]
    /\ UNCHANGED <<mode, task, procs, loose, clean, child, tasks, raced>>

NoteChild(l) ==
    /\ loose[l] # "none"
    /\ procs' = [procs EXCEPT ![l] = @ \cup {loose[l]}]
    /\ loose' = [loose EXCEPT ![l] = "none"]
    /\ at' = IF at[l] = "watching" THEN at ELSE [at EXCEPT ![l] = After(@)]
    /\ UNCHANGED <<mode, task, clean, child, tasks, raced>>

(* The loop: Streamlit is started again, FastAPI is taken off the list. *)
Ended(l, k) ==
    /\ at[l] = "watching" /\ loose[l] = "none"
    /\ k \in procs[l] /\ child[l][k] = "exited"
RestartGui_Once(l) ==
    /\ Ended(l, Gui)
    /\ procs' = [procs EXCEPT ![l] = @ \ {Gui}]
    /\ child' = [child EXCEPT ![l][Gui] = "none"]
    /\ UNCHANGED <<at, mode, task, loose, clean, tasks, raced>>
RestartGui_Unnoted(l) ==
    /\ Ended(l, Gui)
    /\ procs' = [procs EXCEPT ![l] = @ \ {Gui}]
    /\ child' = [child EXCEPT ![l][Gui] = "starting"]
    /\ UNCHANGED <<at, mode, task, loose, clean, tasks, raced>>
RestartGui(l) ==
    /\ Ended(l, Gui)
    /\ Popen(l, Gui)
AlertLive(l) ==
    /\ Ended(l, Live)
    /\ procs' = [procs EXCEPT ![l] = @ \ {Live}]
    /\ child' = [child EXCEPT ![l][Live] = "none"]
    /\ UNCHANGED <<at, mode, task, loose, clean, tasks, raced>>

(* shutdown, on SIGINT or SIGTERM: the processes in procs are told to end; the one
   just started is not, nor, if it replaces another there, is it that one.     *)
Told(s) == CASE s = "up" -> "closing" [] s = "starting" -> "draining" [] OTHER -> s
LeftBy(s, told) == IF s = "exited" THEN "none" ELSE IF told THEN Told(s) ELSE s
Leave(l, terminated) ==
    /\ at[l] # "none"
    /\ at' = [at EXCEPT ![l] = "none"]
    /\ child' = [child EXCEPT ![l] = [k \in Kinds |-> LeftBy(@[k], k \in terminated)]]
    /\ procs' = [procs EXCEPT ![l] = {}]
    /\ loose' = [loose EXCEPT ![l] = "none"]
    /\ mode' = [mode EXCEPT ![l] = {}] /\ task' = [task EXCEPT ![l] = "operator"]
    /\ UNCHANGED <<tasks, raced>>
Shutdown(l) ==
    /\ Leave(l, procs[l] \ {loose[l]})
    /\ clean' = [clean EXCEPT ![l] = loose[l] = "none"]
KillLauncher(l) ==
    /\ Leave(l, {})
    /\ clean' = [clean EXCEPT ![l] = FALSE]

-----------------------------------------------------------------------------
(* A child binds its port or, when it is taken, exits; or it crashes, or is
   ended by an operator.  Nobody waits for an orphan.                        *)
Become(l, k, s) ==
    /\ child' = [child EXCEPT ![l][k] = IF s = "exited" /\ at[l] = "none" THEN "none" ELSE s]
    /\ UNCHANGED <<launcherVars, tasks, raced>>
Bind(l, k) ==
    /\ child[l][k] = "starting"
    /\ Become(l, k, IF InUse(k) THEN "exited" ELSE "up")
Exit(l, k) ==
    /\ Running(l, k)
    /\ Become(l, k, "exited")
(* One that was told to end stops listening, and is gone some day. *)
StopListening(l, k) ==
    /\ child[l][k] = "closing"
    /\ Become(l, k, "draining")
Gone(l, k) ==
    /\ child[l][k] \in Ending
    /\ Become(l, k, "none")

(* install and remove: one schtasks call per task; one that fails is reported and
   the next one is made.  An installation without --crypto leaves that task.  *)
Install(t) ==
    /\ t \notin tasks
    /\ tasks' = tasks \cup {t}
    /\ UNCHANGED <<launcherVars, child, raced>>
Uninstall(t) ==
    /\ t \in tasks
    /\ tasks' = tasks \ {t}
    /\ UNCHANGED <<launcherVars, child, raced>>

(* The tasks.  A launch that finds a port in use ends at once; so does one whose
   task still runs.  Each strikes at a time of its own, but a start may come to
   nothing and weekends pass: they take effect in any order.                   *)
Strikes(t) == t \in tasks /\ UNCHANGED tasks
TaskRuns(t) == \E l \in Launchers : at[l] # "none" /\ task[l] = t
Scheduled(t, m) ==
    /\ Strikes(t)
    /\ ~TaskRuns(t)
    /\ \E l \in Launchers : Begin(l, m, t)
StartAShare == Scheduled("AShare_Start", Kinds)
StartCrypto == Scheduled("Crypto_24x7", {Live})
KillPython ==
    /\ Strikes("AShare_Stop")
    /\ at' = [l \in Launchers |-> "none"]
    /\ procs' = [l \in Launchers |-> {}]
    /\ loose' = [l \in Launchers |-> "none"]
    /\ child' = [l \in Launchers |-> [k \in Kinds |-> "none"]]
    /\ clean' = [l \in Launchers |-> TRUE]
    /\ mode' = [l \in Launchers |-> {}] /\ task' = [l \in Launchers |-> "operator"]
    /\ UNCHANGED raced

Watch(l) == RestartGui(l) \/ AlertLive(l)
Step(l) == StartChild(l) \/ NotWanted(l) \/ NoteChild(l) \/ Watch(l)
Next ==
    \/ Launch
    \/ \E l \in Launchers : Step(l) \/ Shutdown(l) \/ KillLauncher(l)
    \/ \E l \in Launchers, k \in Kinds : Bind(l, k) \/ Exit(l, k) \/ StopListening(l, k) \/ Gone(l, k)
    \/ \E t \in Tasks : Install(t) \/ Uninstall(t)
    \/ StartAShare \/ StartCrypto \/ KillPython
Spec == Init /\ [][Next]_vars

(* A launcher goes on, and looks at its children every two seconds. *)
FairSpec == Spec /\ \A l \in Launchers : WF_vars(Step(l))

-----------------------------------------------------------------------------
TypeOK ==
    /\ at \in [Launchers -> Kinds \cup {"none", "watching"}]
    /\ mode \in [Launchers -> SUBSET Kinds]
    /\ task \in [Launchers -> {"operator"} \cup Tasks]
    /\ loose \in [Launchers -> Kinds \cup {"none"}]
    /\ child \in [Launchers -> [Kinds -> ProcessStates]]
    /\ clean \in [Launchers -> BOOLEAN]
    /\ tasks \subseteq Tasks /\ raced \in BOOLEAN
    /\ procs \in [Launchers -> SUBSET Kinds]
    /\ \A l \in Launchers : procs[l] \subseteq mode[l]
    /\ \A l \in Launchers : at[l] = "none" => procs[l] = {} /\ loose[l] = "none"

(* A launcher that was told to stop leaves no process behind that was not told to
   end, unless the signal came between starting a child and noting it: that child
   keeps its port, and every later launch is refused until somebody ends it.  How
   long those told to end go on is theirs.                                    *)
ShutdownTellsAll ==
    \A l \in Launchers : at[l] = "none" /\ clean[l] => \A k \in Kinds : ~Running(l, k)

(* There is one dashboard and one live server at a time, whoever starts them, but
   for those that were told to end and are not gone, as long as no launcher checks
   the ports while another is still starting, or is about to restart, its children. *)
OneOfEach ==
    ~raced => \A k \in Kinds : Cardinality({l \in Launchers : Running(l, k)}) <= 1

(* "FastAPI crash -> ALERT ONLY, no auto-restart": a live server is only ever
   started by a launch.                                                      *)
NoAutoRestart ==
    [][ \A l \in Launchers :
            ~Running(l, Live) /\ child'[l][Live] = "starting" => at[l] = Live ]_vars

(* "Streamlit crash -> auto-restart": a dashboard that exited is started again
   unless the launcher ends.                                                  *)
GuiComesBack ==
    \A l \in Launchers :
        at[l] = "watching" /\ child[l][Gui] = "exited"
            ~> Running(l, Gui) \/ at[l] = "none"
===============================================================================
